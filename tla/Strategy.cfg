SPECIFICATION Spec
CONSTANTS
  None = None
  alice = alice
  ghost = ghost
  aliceKey = aliceKey
  otherKey = otherKey
  oldKey = oldKey
  newKey = newKey
  Requests = {r1, r2, r3}
  Instances = {i1}
  SharedCache = FALSE
  UserIds <- MCUserIds
  ClientKeys <- MCClientKeys
  ServerKeys <- MCServerKeys
  PublicKeyOf <- MCPublicKeyOf
  KeyChanges <- AliceChanges
  Inputs <- AllInputs
SYMMETRY RequestSymmetry
INVARIANTS TypeOK OneTryPerChallenge SuccessAnswersTheUsersChallenge OnlyTheUserUsesUpAChallenge ReplacedKeysAreRefused
