CONSTANTS
  Registered <- TwoComponents
  MaxAttempts = 5
  FailedAt = 3
  Requests = {q1}
  MaxResets = 1
  CanStop = TRUE
SPECIFICATION FairSpec
INVARIANTS RecoveringIsPursued HealthyIsFresh
PROPERTIES MendedIsSeen BrokenIsSeen
