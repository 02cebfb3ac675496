CONSTANTS
  Clients = {c1}
  Starts = {s1, s2, s3}
  Requests = {q1}
  OverflowAt = 2
  None = None
SPECIFICATION FairSpec
INVARIANTS RunningHasAStart  SocketsAreRegistered StopIsComplete
PROPERTIES EveryClientConnects RecoveryRestarts
