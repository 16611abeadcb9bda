SPECIFICATION FairSpec
CONSTANTS
  m1 = m1
  bad = bad
  w1 = w1
  w2 = w2
  None = None
  Messages = {m1, bad}
  Poison = {bad}
  ChannelCount = 2
  Workers = {w1, w2}
  MaxLog = 1
  MaxRecords = 2
  MaxCalls = 1
  MaxFaults = 0
PROPERTY InboxSettles
