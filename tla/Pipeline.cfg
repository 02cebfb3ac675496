CONSTANTS
  Records = {r1, r2, r3}
  QueueCap = 2
  BatchSize = 2
  MaxConcurrent = 1
  FailureLimit = 3
  MaxFaults = 3
SPECIFICATION FairSpec
INVARIANTS PublishedIsStored PublishedOnce FirstInFirstOut PublishedInOrder CounterOwned
PROPERTIES GivesUpLate EveryRowSettles CloseEnds ImplementsRelay
CHECK_DEADLOCK FALSE
