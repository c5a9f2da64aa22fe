SPECIFICATION Spec
CONSTANTS
  ChaUsers <- WithCha
  UserIds <- Users
  Given <- OnlyRequired
  ClientKeyBytes = 256
  ServerKeyBytes = 256
INVARIANT DefaultsInteroperate
