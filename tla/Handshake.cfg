SPECIFICATION HandshakeSpec
CONSTANTS
  None = None
  alice = alice
  bob = bob
  aliceKey = aliceKey
  bobKey = bobKey
  oldKey = oldKey
  newKey = newKey
  host = host
  Requests <- MCRequests
  Inputs = {}
  UserIds <- MCUserIds
  ClientKeys <- MCClientKeys
  PublicKeyOf <- MCPublicKeyOf
  KeyChanges <- AliceRemoved
  ServerKeyOf <- OldKeyTrusted
  ServerKeys <- BothServerKeys
  Instances = {i1}
  SharedCache = TRUE
  Sessions = {s1, s2}
  UserOf <- TwoOfAlice
  HostOf <- OneHost
  ClientKeyOf <- AlicesKey
SYMMETRY SessionSymmetry
INVARIANTS HandshakeTypeOK SidesAgree RefusedOnlyForAnOverlap OnlyAWrongKeyCrashesTheClient
PROPERTY IsMutualAuthentication
