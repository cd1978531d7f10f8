SPECIFICATION FairSpec
CONSTANTS
  Ids = {1, 2}
  Pollers = {p1, p2}
  Consumers = {c1, c2}
  BatchSize = 2
  BoundAtStart = TRUE
  MaxRollbacks = 1
  MaxDuplicates = 1
  MaxCrashes = 1
  MaxFailures = 1
INVARIANTS DisjointBatches NothingLost
PROPERTIES ImplementsEventLog EveryEventHandled
CHECK_DEADLOCK FALSE
