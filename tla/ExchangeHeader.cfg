SPECIFICATION Spec
CONSTANTS
  ChaUsers <- WithCha
  UserIds <- Users
  Given <- InTheHeader
  ClientKeyBytes = 256
  ServerKeyBytes = 256
INVARIANT HeaderFormatIsUnderstood
