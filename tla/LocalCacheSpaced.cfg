SPECIFICATION SpacedSpec
CONSTANTS
  Keys = {alice, bob}
  TtlMs = 2
  TimeoutMax = 2
  MaxSets = 4
  None = None
PROPERTY DocumentedContract
