SPECIFICATION Spec
CONSTANTS
  ChaUsers <- WithCha
  UserIds <- Users
  Given <- AllPairs
  ClientKeyBytes = 256
  ServerKeyBytes = 256
INVARIANTS AcceptedExactlyWhenCompatible SoundServerThrowsOnlyOnDecryption
