CONSTANTS
  Records = {r1, r2}
  QueueCap = 2
  BatchSize = 2
  MaxConcurrent = 1
  FailureLimit = 3
  MaxFaults = 3
SPECIFICATION FairSpec
PROPERTY RemainingDataIsWritten
CHECK_DEADLOCK FALSE
