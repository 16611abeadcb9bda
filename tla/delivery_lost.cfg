SPECIFICATION Spec
CONSTANTS
  m1 = m1
  bad = bad
  w1 = w1
  None = None
  Messages = {m1, bad}
  Poison = {bad}
  ChannelCount = 1
  Workers = {w1}
  MaxLog = 1
  MaxRecords = 2
  MaxCalls = 1
  MaxFaults = 1
INVARIANT CommittedIsMaterialised
