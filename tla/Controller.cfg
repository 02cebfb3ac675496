CONSTANTS
  Tasks = {t1, t2, t3}
  Urgent = {t1}
  Cpu = {t1, t3}
  Memory = {}
  Retried = {t3}
  Cancelled = {t2}
  MinConcurrent = 3
  AbsoluteMax = 4
  Threshold = 2
  Workers = {w1, w2}
  None = None
SPECIFICATION FairSpec
INVARIANT SlotsAreReturned
PROPERTIES EveryTaskSettles StopReturns
CHECK_DEADLOCK FALSE
