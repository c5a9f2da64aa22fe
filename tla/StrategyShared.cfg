SPECIFICATION Spec
CONSTANTS
  None = None
  alice = alice
  ghost = ghost
  aliceKey = aliceKey
  otherKey = otherKey
  oldKey = oldKey
  newKey = newKey
  Requests = {r1, r2, r3, r4}
  Instances = {i1, i2}
  SharedCache = TRUE
  UserIds <- MCUserIds
  ClientKeys <- MCClientKeys
  ServerKeys <- OneServerKey
  PublicKeyOf <- MCPublicKeyOf
  KeyChanges = {}
  Inputs <- AlicesInputs
SYMMETRY RequestAndInstanceSymmetry
INVARIANTS OneTryPerChallenge SuccessAnswersTheUsersChallenge
