SPECIFICATION Spec
CONSTANTS
  c1 = c1  c2 = c2  c3 = c3  p1 = p1  p2 = p2
  None = None  Stale = Stale
  Clients = {c1, c2, c3}
  Uids = {"u1"}  Gids = {"g1", "g2"}  Nums = {0, 1}
  CallerOf <- MCCallerOf
  ValidUids = {"u1"}  ValidGids = {"g1", "g2"}
  PwGid <- MCPwGid
  Pids = {p1, p2}
  SessionTimeout = 1
  Backlog = 0
  MaxGen = 1
  Events = {"session_term", "kill", "restart"}
SYMMETRY PidSymmetry
INVARIANTS PoolTracksChildren OneServerPerKey NoDeathForgotten SocketLeadsToServer ServedCreds
