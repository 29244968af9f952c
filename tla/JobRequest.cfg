SPECIFICATION FairSpec
CONSTANTS
  Lens = {0, 1, 4, 12, 13}
  FdSize = 4
  MaxArgsSize = 4
  MaxArgc = 3
  RogueTypes <- MCRogueTypes
  NoMsg = NoMsg
INVARIANTS TypeOK RunSafe ClientAccepted
PROPERTIES HandlerTerminates
CHECK_DEADLOCK FALSE
