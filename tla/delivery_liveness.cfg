SPECIFICATION FairSpec
CONSTANTS
  m1 = m1
  bad = bad
  w1 = w1
  w2 = w2
  None = None
  Messages = {m1, bad}
  Poison = {bad}
  ChannelCount = 1
  Workers = {w1, w2}
  MaxLog = 2
  MaxRecords = 2
  MaxCalls = 1
  MaxFaults = 1
PROPERTIES
  PartitionDrains
  InboxSettles
