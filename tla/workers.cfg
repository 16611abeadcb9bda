SPECIFICATION FairSpec
CONSTANTS
  b1 = b1
  b2 = b2
  one = one
  w1 = w1
  w2 = w2
  Workers = {w1, w2}
  Batches = {b1, b2}
  Sizes = {one}
  SizeOf <- MCSizeOf
  QueueSize = 2
  TrackedLimits = {1, 2}
  MaxTasks = 4
  MaxExpiries = 1
INVARIANTS
  WorkersSurvive
  OneInsertPerKey
PROPERTIES
  TasksFinish
CHECK_DEADLOCK FALSE
