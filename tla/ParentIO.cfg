SPECIFICATION FairSpec
CONSTANTS
  BytesRead = 3
  BytesWritten = 2
  TimeIdle = 1
  TimeElapsed = TRUE
  Cap = 1
  InCap = 2
  Background = TRUE
  UsesLog = TRUE
  ExitCodes = {0}
  TermSigs = {9}
INVARIANTS HandlerNeverBlocks OutputComplete ExitCodeIsTrue
PROPERTIES ParentLeaves
CHECK_DEADLOCK FALSE
