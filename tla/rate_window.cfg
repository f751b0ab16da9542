SPECIFICATION RateSpec
CONSTANTS
  StartTime = 1
  MaxTime = 4
  RateLimits = {1, 2}
  MaxRateLimit = 2
  RateWindows = {2}
  ShortestWindow = 2
  LongestWindow = 3
  Optional = TRUE
  EntryLife = 1
  NoEntry = NoEntry
  MaxCalls = 4
INVARIANT WindowReopens
CHECK_DEADLOCK FALSE
