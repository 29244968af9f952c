SPECIFICATION FairSpec
CONSTANTS
  ExitCodes = {0, 1, 255}
  CanStop = TRUE
PROPERTIES ServesJob HandlerReleased LateDisconnectAborts
CHECK_DEADLOCK FALSE
