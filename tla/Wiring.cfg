CONSTANTS
  Managers = {m1, m2, m3, m4, m5}
  Requests = {q1}
  MaxAttempts = 3
  None = None
SPECIFICATION FairSpec
INVARIANTS OneManagerConnected ShutdownIsComplete RoutesSeeTheLiveManager
PROPERTIES ReconnectsWithinBudget ShutdownEnds
CHECK_DEADLOCK FALSE
