SPECIFICATION Spec
CONSTANTS
  m1 = m1
  bad = bad
  w1 = w1
  w2 = w2
  None = None
  Messages = {m1, bad}
  Poison = {bad}
  ChannelCount = 2
  Workers = {w1, w2}
  MaxLog = 2
  MaxRecords = 2
  MaxCalls = 5
  MaxFaults = 1
SYMMETRY WorkerSymmetry
INVARIANTS
  InboxAggregatesDeliveries
  DeadLetterHasOutbox
  NoStrandedRow
  SendsWithinBudget
PROPERTIES
  OnlyHolderSettles
  RefinesLifecycle
