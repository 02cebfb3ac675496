CONSTANTS
  FailureLimit = 1
  StaleAfter = 1
SPECIFICATION FairSpec
PROPERTIES SilenceIsReported BreakageIsReported
CHECK_DEADLOCK FALSE
