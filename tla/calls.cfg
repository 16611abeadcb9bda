SPECIFICATION MCSpec
CONSTANTS
  Callers = {c1, c2, c3}
  FailureThreshold = 3
  HalfOpenSuccesses = 2
  Calls = {"c1", "c2", "c3", "c4"}
  MaxConcurrency = 1
  MaxQueue = 2
  MaxRetryTokens = 1
  WindowSeconds = 1
  CallClock = 2
  CallThreshold = 2
  MaxCommands = 3
  Runners = {"r1", "r2"}
  MaxFailures = 1
  QueueClock = 1
  Urls = {"u1", "u2", "u3"}
  Positions <- MCPositions
  Fetchers = {"f1", "f2"}
  Scrapes = {"s1", "s2"}
  FetchAttempts = 2
  Slots = 1
  Limit = 2
  MaxScrapes = 3
  MaxSwaps = 2
  Tools = {"t1", "t2", "t3"}
  MaxLogins = 3
  MaxLapses = 1
INVARIANTS
  BudgetHolds
  MostUrgentFirst
  SeenIsFetched
PROPERTIES
  TransitionsAreEarned
  Recovers
  CallsEnd
CHECK_DEADLOCK FALSE
