SPECIFICATION FairSpec
CONSTANTS
  c1 = c1
  c2 = c2
  Callers = {c1, c2}
  FailureThreshold = 3
  HalfOpenSuccesses = 1
PROPERTY SourceBreakerRecovers
CHECK_DEADLOCK FALSE
