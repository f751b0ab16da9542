SPECIFICATION Spec
CONSTANTS
  Users = {1, 2}
  Outcomes = {A, B}
  None = None
  NoMarket = NoMarket
  Treasury = Treasury
  BetDeadline = 0
  EndTime = 1
  ResolutionTimeout = 1
  FeePercent = 10
  InitialFee = 1000
  PlatformFees = {500}
  ScheduleFee = 10
  FeeThreshold = 10
  MinFeeAmount = 1
  CheckEvery = 1
  VoteStakes = {0, 10}
  BetAmounts = {10}
  DisputeWindow = 0
  ClaimPeriod = 0
  BudgetAborts = TRUE
  MaxTime = 1
  MaxPool = 20
  MaxStakings = 2
  MaxReads = 1
  MaxResolutions = 1
SYMMETRY OutcomeSymmetry
INVARIANTS
  EscrowCoversBet
  PoolSound
  StatsCoverActiveBets
  ActiveBetsOnlyWhileOpen
PROPERTY FeesCollectedOnce
CHECK_DEADLOCK FALSE
