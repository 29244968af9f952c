SPECIFICATION Spec
CONSTANTS
  c1 = c1
  c2 = c2
  Conns = {c1, c2}
  Kinds <- MCKinds
  Data <- MCData
  Replies <- MCReplies
INVARIANTS WholePacketAuthenticated OnlyPeersBreak SleepsOnlyBehindFullEnd
  DescriptorsMatchSlots
PROPERTIES RelaysStreams
CHECK_DEADLOCK FALSE
