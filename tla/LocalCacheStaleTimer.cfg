SPECIFICATION Spec
CONSTANTS
  Keys = {alice, bob}
  TtlMs = 2
  TimeoutMax = 4
  MaxSets = 4
  None = None
PROPERTY DocumentedContract
