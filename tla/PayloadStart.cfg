SPECIFICATION Spec
CONSTANTS
  SystemFiles <- MCSystemFiles
  UserFiles <- MCUserFiles
  NumFiles <- MCNumFiles
  Envs <- MCEnvs
  Passwd <- MCPasswd
  Caller <- MCCaller
  MinId = 34
  UlongMax = 7
  Cpus = {0, 2, 3}
  Rlim <- MCRlim
  Leftovers <- MCLeftovers
  Procs <- MCProcs
  Orders <- MCOrders
VIEW View
INVARIANTS PayloadHoldsItsStreams ParentHoldsItsEnds AffinityIsExact
  PayloadIdentity LimitsHold PayloadIsolated FreshStart StaysWithCaller
