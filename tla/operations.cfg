CONSTANTS
  StartTime = 1
  MaxTime = 4
  Until <- UntilTimes
  \* Disputes
  Disputants = {u1, u2}
  Outcomes = {yes, no}
  None = None
  Unlisted = Unlisted
  EndTime = 2
  Day = 1
  DisputeWindow = 2
  MinDisputeStake = 1
  DisputeAmounts = {1}
  Floors = {2}
  StakeCaps = {1}
  HistoryCaps = {1}
  ExtensionDays = {1}
  MaxExtensionDays = 1
  MaxExtensions = 1
  ExtensionCaps = {1}
  MaxCommunity = 1
  MaxBallots = 1
  MaxConfigs = 1
  \* DisputeTimeouts
  TimeoutHours = {0, 1, 2, 3}
  MaxTimeoutHours = 2
  ExtensionHours = {0, 1, 2}
  MaxExtensionHours = 1
  NoTimeout = NoTimeout
  MaxTimeoutsSet = 2
  \* DisputeMultiSig
  Signers = {s1, s2, s3}
  SignerLists <- SignerListsUpTo3
  Unconfigured = Unconfigured
  MaxConfigured = 2
  \* FeeVault
  MinTimelock = 1
  Whole = 200
  VaultTimelocks = {0, 1, 2}
  VaultShares = {0, 50, 200, 300}
  FeeAmounts = {1, 3}
  Requests <- RequestsAround0
  MaxVault = 4
  MaxDraws = 3
  \* FeeConfig
  FeeConfigs = {c1, c2, refused}
  ValidConfigs = {c1, c2}
  DefaultConfig = c1
  NoFeeConfig = NoFeeConfig
  RevealDelay = 1
  QueueDelays = {0, 1}
  MaxChanges = 2
  \* Admins
  Addresses = {a1, a2, a3}
  FirstAdmin = a1
  NoRecord = NoRecord
  RotationDelay = 1
  ActionLife = 0
  MaxActions = 1
  MaxMigrations = 2
  MaxRosterChanges = 2
  MaxProposals = 2
  \* RateLimiter
  RateLimits = {0, 1, 2, 3}
  MaxRateLimit = 2
  RateWindows = {1, 2, 3, 4}
  ShortestWindow = 2
  LongestWindow = 3
  Optional = TRUE
  EntryLife = 0
  NoEntry = NoEntry
  MaxCalls = 5
  \* Upgrades
  Codes = {k1, k2}
  ZeroHash = ZeroHash
  Majors = {0, 1}
  Minors = {0, 1, 2}
  Patches = {0, 1, 2}
  Part = 2
  MaxUpgrades = 3
  MaxVersions = 2
  \* Recovery
  Stakers = {v1, v2}
  StakeAmounts = {1, 2}
  RefundLists <- RefundListsUpTo2
  NoRecovery = NoRecovery
  MaxHistory = 1
  MaxPrune = 1
  PruneCounts = {0, 1, 2}
  MaxRecoverySteps = 5
  \* Archive
  Settled = {1, 2, 3}
  NotArchived = NotArchived
  MaxArchive = 2
  MaxPage = 2
  Pages = {0, 1, 3}
  MaxPrunes = 3
  \* Oracles
  Sources = {o1, o2, o3}
  Curators = {w1, w2}
  NoMetadata = NoMetadata
  NoVerdict = NoVerdict
  MarketEnd = 2
  CallbackInterval = 1
  MaxDeviation = 1
  Nonces = {1, 2}
  MaxCallbacks = 2
  \* Standings
  Players = {p1, p2, p3}
  BetSizes = {2}
  Prizes = {1, 2}
  BoardSize = 2
  MaxBetsCounted = 1
  MaxClaims = 4
  MaxListed = 1
  \* MarketIds
  Creators = {m1, m2}
  Digests = {d1, d2}
  MaxCounter = 4
  MaxRetries = 3
  MaxIssued = 4
  \* Listing
  Punters = {b1, b2}
  Questions = {q1, q2}
  Options = {"x", "y", "z"}
  OutcomeSets <- OutcomePairs
  Labels = {l1, l2}
  NoCopy = NoCopy
  NoChoice = NoChoice
  FreeVotes = TRUE
  MaxTurnover = 2
  MaxEdits = 2
  MaxPeeks = 1
  \* Balances
  Depositors = {h1, h2}
  Tokens = 3
  Transfers = {0, 1, 2, 3}
  MaxDeposit = 2
  MaxShortfall = 1
  MaxPauses = 1
  \* Journals
  AuditActions = {j1, j2}
  Alerts = {e1, e2}
  QueueCap = 2
  MaxRecords = 3
  MaxAlerts = 5
  MaxClears = 2
  \* MedianOracle
  Prices = {0, 100, 103, 200}
  Confidences = {0, 100}
  NoConfidence = NoConfidence
  Thresholds = {101}
  Comparisons = {"gt"}
  MinSources = {0, 2}
  MaxDeviations = {200, 10000}
  NoMedian = NoMedian
  FeedEnd = 2
  FeedTimeout = 1
SPECIFICATION OperationsSpec
INVARIANTS
  OperationsTypeOK
  DisputeStakesBacked
  OpenDisputesRecorded
  ExtensionsExplained
  TimeoutBounded
  ApprovedByThreshold
  DrawsApart
  ChangesWereAnnounced
  FeeConfigRemembered
  ExecutedOnApproval
  RosterCounted
  RateBounded
  RecordsMatchCode
  UpgradesInOrder
  RefundsAccounted
  IndexMatchesArchive
  VerdictByMajority
  CallbacksOnce
  WinningsBoardIsTop
  NoMarketReplaced
  TermsKept
  BalancesCovered
  NothingLostSilently
  MedianSplits
CHECK_DEADLOCK FALSE
