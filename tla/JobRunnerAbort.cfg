SPECIFICATION FairSpec
CONSTANTS
  ExitCodes = {0, 1}
  CanStop = FALSE
PROPERTIES DisconnectAborts
CHECK_DEADLOCK FALSE
