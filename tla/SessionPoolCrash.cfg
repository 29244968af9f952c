SPECIFICATION FairSpec
CONSTANTS
  c1 = c1  c2 = c2  c3 = c3  p1 = p1  p2 = p2
  None = None  Stale = Stale
  Clients = {c1, c2}
  Uids = {"u1"}  Gids = {"g1", "g2"}  Nums = {0}
  CallerOf <- MCSameCaller
  ValidUids = {"u1"}  ValidGids = {"g1", "g2"}
  PwGid <- MCPwGid
  Pids = {p1, p2}
  SessionTimeout = 1
  Backlog = 0
  MaxGen = 2
  Events = {"term", "crash", "session_term", "restart"}
PROPERTIES ServesSessions ShutdownCompletes ClientsAnswered LostServersLeave
