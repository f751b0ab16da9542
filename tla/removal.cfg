SPECIFICATION RemovalSpec
CONSTANTS
  Users = {1}
  Outcomes = {A, B}
  None = None
  NoMarket = NoMarket
  Treasury = Treasury
  BetDeadline = 0
  EndTime = 1
  ResolutionTimeout = 1
  FeePercent = 10
  InitialFee = 1000
  PlatformFees = {500}
  ScheduleFee = 10
  FeeThreshold = 10
  MinFeeAmount = 1
  CheckEvery = 1
  VoteStakes = {}
  BetAmounts = {10}
  DisputeWindow = 0
  ClaimPeriod = 2
  BudgetAborts = FALSE
  MaxTime = 4
  MaxPool = 20
  MaxStakings = 2
  MaxReads = 1
  MaxResolutions = 2
  Day = 2
  InitialThreshold = 1
  Thresholds = {0}
SYMMETRY OutcomeSymmetry
INVARIANT NoBetStranded
CHECK_DEADLOCK FALSE
