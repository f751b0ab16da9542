SPECIFICATION Spec
CONSTANTS
  Quota = 2
  Window = 2
  RecoveryTimeout = 2
  MaxProbes = 2
  MaxErrorRate = 50
  StartTime = 2
  MaxTime = 7
  MaxRequests = 4
INVARIANTS
  TrialIsFresh
  BurstBounded
CHECK_DEADLOCK FALSE
