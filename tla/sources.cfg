SPECIFICATION MCSpec
CONSTANTS
  s1 = s1
  s2 = s2
  o1 = o1
  Sessions = {s1, s2}
  Operators = {o1}
  Threshold = 2
  LatencyPolicy = TRUE
  MaxSamples = 4
  MaxIncidents = 2
  MaxFaults = 1
  MaxOps = 3
  MaxLives = 2
  Tenants = {"t1"}
  Unregistered = "unregistered"
  Stamps = {1, 2}
  Clock = 2
  MaxObservations = 3
  MaxWrites = 4
  PageSize = 1
  CacheKeys = {s1, s2, "k3"}
  Capacity = 2
  Jobs = {"j1", "j2", "j3"}
  CacheFaults = 1
  MaxKept = 2
  MaxVersion = 1
  BatchSize = 2
SYMMETRY MCSymmetry
VIEW MCView
INVARIANTS
  WellFormed
  IncidentHasEvidence
  NoSilentIncident
  JobsFollowSources
  ObservationsKept
  ScanIsStable
  CachesAgree
PROPERTY ReconciledWhenUndisturbed
CHECK_DEADLOCK FALSE
