SPECIFICATION HSpec
CONSTANTS
  Users = {1, 2}
  Outcomes = {A, B}
  None = None
  NoMarket = NoMarket
  Treasury = Treasury
  BetDeadline = 0
  EndTime = 1
  ResolutionTimeout = 1
  FeePercent = 10
  InitialFee = 1000
  PlatformFees = {}
  ScheduleFee = 10
  FeeThreshold = 10
  MinFeeAmount = 1
  CheckEvery = 1
  VoteStakes = {7}
  BetAmounts = {10}
  DisputeWindow = 1
  ClaimPeriod = 1
  BudgetAborts = FALSE
  MaxTime = 2
  MaxPool = 24
  MaxStakings = 3
  MaxReads = 0
  MaxResolutions = 1
INVARIANT RefundIsFinal
CHECK_DEADLOCK FALSE
