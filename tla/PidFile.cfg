SPECIFICATION Spec
CONSTANTS
  Starts = {s1, s2, s3}
  Pids = {1, 2, 3, 4}
  Others = {4}
  Leftover = Leftover
  NoInode = NoInode
INVARIANTS SerialStartsAreSafe NoMutualRefusal
CHECK_DEADLOCK FALSE
