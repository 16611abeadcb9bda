SPECIFICATION Spec
CONSTANTS
  s1 = s1
  s2 = s2
  o1 = o1
  Sessions = {s1, s2}
  Operators = {o1}
  Threshold = 2
  LatencyPolicy = TRUE
  MaxSamples = 5
  MaxIncidents = 2
  MaxFaults = 0
SYMMETRY SessionSymmetry
INVARIANT AtMostOneActive
CHECK_DEADLOCK FALSE
