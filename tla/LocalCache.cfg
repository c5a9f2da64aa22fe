SPECIFICATION FairSpec
CONSTANTS
  Keys = {alice, bob}
  TtlMs = 2
  TimeoutMax = 4
  MaxSets = 3
  None = None
INVARIANTS TypeOK EntriesAreTimed
PROPERTIES OnlyStaleTimersDropFreshChallenges EveryChallengeLeaves CacheContract
