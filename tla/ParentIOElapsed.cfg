SPECIFICATION FairSpec
CONSTANTS
  BytesRead = 0
  BytesWritten = 0
  TimeIdle = 0
  TimeElapsed = TRUE
  Cap = 1
  InCap = 1
  Background = FALSE
  UsesLog = FALSE
  ExitCodes = {0, 1}
  TermSigs = {1, 9}
PROPERTIES ElapsedIsEnforced
CHECK_DEADLOCK FALSE
