SPECIFICATION MCSpec
CONSTANTS
  s1 = s1
  s2 = s2
  r1 = r1
  r2 = r2
  NoStructure = NoStructure
  Structures <- MCStructures
  Drifts <- MCDrifts
  Breaking <- MCBreaking
  Sessions = {s1, s2}
  Reviewers = {r1, r2}
  MaxSnapshots = 7
  MaxVersions = 2
  MaxFaults = 1
  Runs = {"run"}
  RunReviewers = {"v1", "v2"}
  DefaultChannels = {"slack", "email", "pager"}
  Settings = {"slack_webhook_url"}
  MaxAgentFaults = 1
  Names = {"a", "c", "root"}
  Admins = {"a"}
  Superadmin = "root"
  InitAdmin = "c"
  MaxKeys = 2
  MaxOps = 3
  Capacity = 2
  Unit = 3
  Rate = 2
  Limit = 2
  Window = 2
  MaxClock = 7
  MaxRequests = 4
  Resolvers = {"r1", "r2"}
  Emitters = {"e1", "e2", "e3"}
  Tenants = {"t1"}
  MaxSignals = 2
  MaxEvents = 4
  MaxThreads = 2
  MaxMessages = 2
  MaxStream = 1
SYMMETRY MCSymmetry
VIEW MCView
INVARIANTS
  WellFormed
  NoMissedDrift
  RunsAreAccountedFor
  AdminRemains
  LimitsHold
  ShowsOwnStream
PROPERTIES
  DriftIsConfirmedOnce
  AcceptsReviewedCandidate
  SecurityRecordsHold
CHECK_DEADLOCK FALSE
