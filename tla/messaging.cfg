SPECIFICATION MCSpec
CONSTANTS
  e1 = e1
  e2 = e2
  p1 = p1
  p2 = p2
  None = None
  Events = {e1, e2}
  Publishers = {p1, p2}
  BatchLimit = 2
  MaxSends = 5
  MaxFaults = 3
  Clients = {"w1", "w2"}
  MaxEvents = 2
  Keys = {"k1", "k2"}
  Consumers = {"c1", "c2"}
  ClaimSize = 2
  MaxMarks = 3
  MaxCrashes = 1
INVARIANTS
  PublishedWasSent
  DuplicatesNeedFaults
  StreamHasNoGaps
  ProcessingHasOwner
PROPERTIES
  PublishedIsFinal
  EventsGetPublished
CHECK_DEADLOCK FALSE
