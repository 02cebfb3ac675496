CONSTANTS
  Delta = 2
  Window = 4
  MaxGap = 4
  QueueCap = 3
  Drained = TRUE
  Slots = 2
  MaxOthers = 5
  MaxChanges = 1
  Asked = 3
  Horizon = 6
  MaxFaults = 2
SPECIFICATION FairSpec
INVARIANT NobodyWaitsLong
PROPERTY LossIsRepaired
