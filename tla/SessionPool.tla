---------------------------- MODULE SessionPool ----------------------------
(***************************************************************************)
(* The session layer of hasher-privd: the main daemon (hasher-privd.c),    *)
(* the session servers it forks (run_caller_server and caller_server.c)    *)
(* and the connection path of the clients (hasher-priv.c, sockets.c).      *)
(*                                                                         *)
(* The daemon keeps a pool of session servers, one for every pair          *)
(* (uid, num) of a caller.  A client first tries the socket of its session *)
(* server; when that fails it asks the daemon to open the session, waits   *)
(* for the answer and connects again.  A session server leaves after       *)
(* SessionTimeout idle seconds, on a termination signal, or when the       *)
(* daemon's end of a pipe is closed.                                       *)
(*                                                                         *)
(* For a client it accepted the server forks a job request handler and     *)
(* waits for it.  The handler refuses the request, or it forks a runner.   *)
(* An auxiliary job is over when its handler is; the runner of a chrootuid *)
(* job stays behind with the connection and answers it whenever the job is *)
(* over, while the server takes other clients or is gone.  How a request   *)
(* is received and run is the subject of JobRequest and JobRunner.         *)
(***************************************************************************)
EXTENDS Naturals, Sequences, Functions

CONSTANTS
  Clients,          \* client processes
  Uids, Gids, Nums, \* uids, gids and subconfig numbers of callers
  CallerOf,         \* CallerOf[c]: the peer credentials of c and its number
  ValidUids,        \* the uids that pass the checks of start_session
  ValidGids,        \* the gids that pass the checks of start_session
  PwGid,            \* PwGid[u]: the primary gid of u in the passwd database
  Pids,             \* process ids of session servers, reused once reaped
  SessionTimeout,   \* server_session_timeout, in seconds
  Backlog,          \* the argument of listen(2)
  MaxGen,           \* bound: how many times the daemon is started; the last
                    \* time it is neither asked to finish nor killed
  Events,           \* bound: the environment events a run allows, see EventKinds
  None, Stale       \* no value; a socket path left by a server that is gone

Callers == [uid : Uids, gid : Gids, num : Nums]
Keys == Uids \X Nums
EventKinds == {"term", "crash", "session_term", "kill", "restart"}

ASSUME ConstantsAssumption ==
  /\ CallerOf \in [Clients -> Callers]
  /\ ValidUids \subseteq Uids /\ ValidGids \subseteq Gids
  /\ PwGid \in [Uids -> Gids]
  /\ SessionTimeout \in Nat /\ Backlog \in Nat /\ MaxGen \in Nat \ {0}
  /\ Events \subseteq EventKinds
  /\ None \notin Pids \cup Clients \cup Callers \cup [caller : Callers, boot : Nat]
  /\ Stale \notin Pids /\ Stale # None

VARIABLES
  \* the daemon
  dpc,      \* its control point
  ready,    \* the events of the current epoll_wait batch
  pending,  \* pending signals of its signalfd: "TERM" stands for HUP, INT, QUIT, TERM
  queue,    \* backlog of the main socket
  conn,     \* the connection process_request works on
  child,    \* the pid fork returned, before it is recorded in the pool
  pool,     \* the list of sessions
  gen,      \* how many times the daemon has been started
  \* the session servers, by pid
  st,       \* control point
  caller,   \* caller_uid, caller_gid, caller_num
  peer,     \* the client connection in hand: cl_conn, later the accepted one
  secs,     \* n_seconds
  pgen,     \* the daemon instance that forked it
  term,     \* a termination signal is pending
  sq,       \* backlog of its socket
  \* the runners of chrootuid jobs, by the client whose connection they hold
  runner,   \* caller_uid, caller_gid, caller_num of the runner
  \* the file system: what a path SOCKETDIR/uid:num is bound to
  sock,
  \* the clients
  cpc,      \* control point
  msg       \* what its current connection carries and was not yet consumed

daemonVars == <<dpc, ready, pending, queue, conn, child, pool, gen>>
sessVars == <<st, caller, peer, secs, pgen, term, sq, runner>>
clientVars == <<cpc, msg>>
vars == <<dpc, ready, pending, queue, conn, child, pool, gen,
          st, caller, peer, secs, pgen, term, sq, runner, sock, cpc, msg>>

DaemonPoints == {"poll", "signals", "reap", "accept", "recv", "append", "stop", "down"}
\* Points at which a session server is not reachable through its socket yet.
Starting == {"forked", "init", "unlinked", "bound"}
\* Points at which connect(2) to its path succeeds for the caller.
Listening == {"listening", "serving", "accepting", "busy", "exiting"}
Alive == Starting \cup Listening
SessPoints == Alive \cup {"free", "zombie"}
ClientPoints == {"start", "ask", "connected", "wait", "reconnect", "sess",
                 "done", "failed", "gone"}

\* What start_session looks a session up by.
Key(a) == <<a.uid, a.num>>
\* The path of a session socket: SOCKETDIR/uid:num.
SocketPathUid(a) == <<a.uid, CHOOSE n \in Nums : TRUE>>
SocketPath(a) == <<a.uid, a.num>>

-----------------------------------------------------------------------------
(* Derived state.                                                          *)

\* p was forked by the daemon instance that is running now.
HasParent(p) == dpc # "down" /\ pgen[p] = gen

\* The children waitpid(-1) of the running daemon ranges over.
Children == {p \in Pids : st[p] # "free" /\ HasParent(p)}

\* End of file on fd_pipe[0]: the daemon has closed the write end, or is
\* dead, and no freshly forked sibling still holds its copy.
PipeClosedKept(g) ==
  /\ g # gen \/ dpc \in {"stop", "down"}
  /\ \A q \in Pids : pgen[q] = g => st[q] \notin Alive
PipeClosed(g) ==
  /\ g # gen \/ dpc \in {"stop", "down"}
  /\ \A q \in Pids : pgen[q] = g => st[q] # "forked"

\* connect(2) to the path of key k reaches a listening server.
Reachable(k) == sock[k] \in Pids /\ st[sock[k]] \in Listening

\* Somebody holds the server end of the connection of c.
Held(c) ==
  \/ conn = c
  \/ c \in Range(queue)
  \/ \E p \in Pids : peer[p] = c \/ c \in Range(sq[p])
  \/ runner[c] # None

\* The pool lookup of start_session: by uid and number, as the socket path.
InPoolGid(a) == \E r \in pool : r.caller = a
InPool(a) == \E r \in pool : Key(r.caller) = Key(a)

\* valid_uid, valid_gid and the comparison with the ids of the daemon.
ValidPeer(a) == a.uid \in ValidUids /\ a.gid \in ValidGids

\* check_peer_creds of the session server.
CheckPeerCredsUid(p, c) == caller[p].uid = CallerOf[c].uid
CheckPeerCreds(p, c) ==
  /\ caller[p].uid = CallerOf[c].uid
  /\ caller[p].gid = CallerOf[c].gid

Init ==
  /\ dpc = "poll" /\ ready = {} /\ pending = {} /\ queue = <<>>
  /\ conn = None /\ child = None /\ pool = {} /\ gen = 1
  /\ st = [p \in Pids |-> "free"]
  /\ caller = [p \in Pids |-> None]
  /\ peer = [p \in Pids |-> None]
  /\ secs = [p \in Pids |-> 0]
  /\ pgen = [p \in Pids |-> 0]
  /\ term = [p \in Pids |-> FALSE]
  /\ sq = [p \in Pids |-> <<>>]
  /\ runner = [c \in Clients |-> None]
  /\ sock \in [Keys -> {None, Stale}]   \* paths may be left by an earlier daemon
  /\ cpc = [c \in Clients |-> "start"]
  /\ msg = [c \in Clients |-> "none"]

Reply(c, m) == msg' = [msg EXCEPT ![c] = m]

-----------------------------------------------------------------------------
(* The main loop of the daemon.                                            *)

\* epoll_wait: the batch is a snapshot of what is ready now.
DaemonPoll ==
  /\ dpc = "poll"
  /\ ready' = {e \in {"signal", "conn"} :
                 \/ e = "signal" /\ pending # {}
                 \/ e = "conn" /\ queue # <<>>}
  /\ ready' # {}
  /\ dpc' = "signals"
  /\ UNCHANGED <<pending, queue, conn, child, pool, gen, sessVars, sock, clientVars>>

\* signalfd hands out the signal with the lowest number first, and SIGHUP,
\* SIGINT, SIGQUIT and SIGTERM all precede SIGCHLD.
NextSignal == IF "TERM" \in pending THEN "TERM" ELSE "CHLD"

\* First pass over the batch: at most one signal is read.
DaemonSignals ==
  /\ dpc = "signals"
  /\ \/ /\ "signal" \notin ready
        /\ dpc' = "accept"
        /\ UNCHANGED pending
     \/ /\ "signal" \in ready
        /\ pending' = pending \ {NextSignal}
        /\ dpc' = IF NextSignal = "TERM" THEN "stop" ELSE "reap"
  /\ UNCHANGED <<ready, queue, conn, child, pool, gen, sessVars, sock, clientVars>>

\* free_session: drop the record of pid p.
FreeSessionNot(p) == pool
FreeSession(p) == {r \in pool : r.pid # p}

\* One round of wait_sessions: waitpid returns a zombie child and its record
\* is dropped.  dpc = "reap" is WNOHANG, dpc = "stop" the final blocking wait.
Reap(p) ==
  /\ dpc \in {"reap", "stop"}
  /\ p \in Children /\ st[p] = "zombie"
  /\ st' = [st EXCEPT ![p] = "free"]
  /\ caller' = [caller EXCEPT ![p] = None]
  /\ pgen' = [pgen EXCEPT ![p] = 0]
  /\ pool' = FreeSession(p)
  /\ UNCHANGED <<dpc, ready, pending, queue, conn, child, gen,
                 peer, secs, term, sq, runner, sock, clientVars>>

\* The loop of wait_sessions ends: nothing to reap now, resp. no child left.
ReapDoneAnyTime ==
  /\ dpc = "reap" /\ dpc' = "accept"
  /\ UNCHANGED <<ready, pending, queue, conn, child, pool, gen, sessVars, sock, clientVars>>
ReapDone ==
  /\ dpc = "reap"
  /\ \A p \in Children : st[p] # "zombie"
  /\ dpc' = "accept"
  /\ UNCHANGED <<ready, pending, queue, conn, child, pool, gen, sessVars, sock, clientVars>>

\* End of main: every child is gone; unaccepted connections are reset.
DaemonExit ==
  /\ dpc = "stop" /\ Children = {}
  /\ dpc' = "down"
  /\ queue' = <<>> /\ pending' = {} /\ ready' = {}
  /\ UNCHANGED <<conn, child, pool, gen, sessVars, sock, clientVars>>

\* Second pass over the batch: accept one connection if there was one.
DaemonAccept ==
  /\ dpc = "accept"
  /\ \/ /\ "conn" \notin ready
        /\ dpc' = "poll"
        /\ UNCHANGED <<queue, conn>>
     \/ /\ "conn" \in ready
        /\ conn' = Head(queue)
        /\ queue' = Tail(queue)
        /\ dpc' = "recv"
  /\ ready' = {}
  /\ UNCHANGED <<pending, child, pool, gen, sessVars, sock, clientVars>>

\* process_request is over and the daemon closes its copy of the connection.
CloseConn == conn' = None /\ dpc' = "poll"

\* set_recv_timeout or xrecvmsg fails: the timeout expires, or the peer has
\* gone away.  The connection is closed without an answer.
RecvFailGone ==
  /\ dpc = "recv" /\ cpc[conn] = "gone"
  /\ CloseConn
  /\ UNCHANGED <<ready, pending, queue, child, pool, gen, sessVars, sock, clientVars>>
RecvFail ==
  /\ dpc = "recv"
  /\ CloseConn
  /\ UNCHANGED <<ready, pending, queue, child, pool, gen, sessVars, sock, clientVars>>

\* An unknown command; or start_session returns -1: invalid credentials, or
\* getsockopt, calloc or fork fails.  Any request may fail.
RequestFailed ==
  /\ dpc = "recv" /\ msg[conn] = "request"
  /\ Reply(conn, "failed")
  /\ CloseConn
  /\ UNCHANGED <<ready, pending, queue, child, pool, gen, sessVars, sock, cpc>>

\* start_session finds a record: the session exists and will be reused.
ReuseSession ==
  /\ dpc = "recv" /\ msg[conn] = "request"
  /\ ValidPeer(CallerOf[conn]) /\ InPool(CallerOf[conn])
  /\ Reply(conn, "done")
  /\ CloseConn
  /\ UNCHANGED <<ready, pending, queue, child, pool, gen, sessVars, sock, cpc>>

\* start_session forks: the child runs run_caller_server with the connection.
ForkSession(p) ==
  /\ dpc = "recv" /\ msg[conn] = "request"
  /\ ValidPeer(CallerOf[conn]) /\ ~InPool(CallerOf[conn])
  /\ st[p] = "free"
  /\ st' = [st EXCEPT ![p] = "forked"]
  /\ caller' = [caller EXCEPT ![p] = CallerOf[conn]]
  /\ peer' = [peer EXCEPT ![p] = conn]
  /\ pgen' = [pgen EXCEPT ![p] = gen]
  /\ child' = p
  /\ dpc' = "append"
  /\ UNCHANGED <<ready, pending, queue, conn, pool, gen,
                 secs, term, sq, runner, sock, clientVars>>

\* ... and the parent records the child, which may have exited meanwhile.
AppendSession ==
  /\ dpc = "append"
  /\ pool' = pool \cup {[caller |-> CallerOf[conn], pid |-> child]}
  /\ child' = None
  /\ CloseConn
  /\ UNCHANGED <<ready, pending, queue, gen, sessVars, sock, clientVars>>

(* The environment of the daemon.                                          *)

\* The administrator asks the daemon to finish.
SendTerm ==
  /\ "term" \in Events
  /\ dpc \notin {"stop", "down"} /\ "TERM" \notin pending /\ gen < MaxGen
  /\ pending' = pending \cup {"TERM"}
  /\ UNCHANGED <<dpc, ready, queue, conn, child, pool, gen, sessVars, sock, clientVars>>

\* The daemon is killed.  Its zombies go to init; a fresh child that still
\* holds the listening descriptor only delays the reset of the backlog.
DaemonCrash ==
  /\ "crash" \in Events
  /\ dpc # "down" /\ gen < MaxGen
  /\ dpc' = "down"
  /\ ready' = {} /\ pending' = {} /\ queue' = <<>>
  /\ conn' = None /\ child' = None /\ pool' = {}
  /\ st' = [p \in Pids |-> IF st[p] = "zombie" THEN "free" ELSE st[p]]
  /\ caller' = [p \in Pids |-> IF st[p] = "zombie" THEN None ELSE caller[p]]
  /\ pgen' = [p \in Pids |-> IF st[p] = "zombie" THEN 0 ELSE pgen[p]]
  /\ UNCHANGED <<gen, peer, secs, term, sq, runner, sock, clientVars>>

\* The daemon is started again: create_socket_node, signalfd, epoll.
DaemonStart ==
  /\ dpc = "down" /\ gen < MaxGen
  /\ dpc' = "poll" /\ gen' = gen + 1
  /\ UNCHANGED <<ready, pending, queue, conn, child, pool, sessVars, sock, clientVars>>

-----------------------------------------------------------------------------
(* The session servers.                                                    *)

\* exit(2): descriptors are closed, the parent is sent SIGCHLD; the child of
\* a dead daemon is reaped by init at once.
Exit(p) ==
  /\ st' = [st EXCEPT ![p] = IF HasParent(p) THEN "zombie" ELSE "free"]
  /\ caller' = [caller EXCEPT ![p] = IF HasParent(p) THEN @ ELSE None]
  /\ pgen' = [pgen EXCEPT ![p] = IF HasParent(p) THEN @ ELSE 0]
  /\ pending' = IF HasParent(p) THEN pending \cup {"CHLD"} ELSE pending
  /\ peer' = [peer EXCEPT ![p] = None]
  /\ secs' = [secs EXCEPT ![p] = 0]
  /\ term' = [term EXCEPT ![p] = FALSE]
  /\ sq' = [sq EXCEPT ![p] = <<>>]
  /\ UNCHANGED <<dpc, ready, queue, conn, child, pool, gen, runner, cpc>>

Goto(p, s) == st' = [st EXCEPT ![p] = s]

\* run_caller_server closes the write end of the pipe, the epoll, signal and
\* main socket descriptors it inherited.
CloseInherited(p) ==
  /\ st[p] = "forked"
  /\ Goto(p, "init")
  /\ UNCHANGED <<daemonVars, caller, peer, secs, pgen, term, sq, runner, sock, clientVars>>

\* init_caller_data or configure_caller dies, without an answer.
InitDies(p) ==
  /\ st[p] = "init"
  /\ Exit(p)
  /\ UNCHANGED <<sock, msg>>

\* Caller data and configuration are fine; srv_listen unlinks the path.
SrvUnlink(p) ==
  /\ st[p] = "init"
  /\ PwGid[caller[p].uid] = caller[p].gid
  /\ Goto(p, "unlinked")
  /\ sock' = [sock EXCEPT ![SocketPath(caller[p])] = None]
  /\ UNCHANGED <<daemonVars, caller, peer, secs, pgen, term, sq, runner, clientVars>>

\* srv_listen binds the path, which must not exist, and listens.
SrvBind(p) ==
  /\ st[p] = "unlinked"
  /\ sock[SocketPath(caller[p])] = None
  /\ Goto(p, "bound")
  /\ sock' = [sock EXCEPT ![SocketPath(caller[p])] = p]
  /\ UNCHANGED <<daemonVars, caller, peer, secs, pgen, term, sq, runner, clientVars>>

\* srv_listen fails in unlink, socket or bind, or in listen after a bind.
SrvListenFails(p) ==
  /\ st[p] \in {"init", "unlinked"}
  /\ Reply(peer[p], "failed")
  /\ Exit(p)
  /\ \/ /\ st[p] = "init" /\ PwGid[caller[p].uid] = caller[p].gid
        /\ UNCHANGED sock
     \/ /\ st[p] = "unlinked"
        /\ UNCHANGED sock
     \/ /\ st[p] = "unlinked" /\ sock[SocketPath(caller[p])] = None
        /\ sock' = [sock EXCEPT ![SocketPath(caller[p])] = Stale]

\* chown gives the path to the caller, who can connect from now on.
SrvChown(p) ==
  /\ st[p] = "bound"
  /\ Goto(p, "listening")
  /\ UNCHANGED <<daemonVars, caller, peer, secs, pgen, term, sq, runner, sock, clientVars>>

\* The fail label of caller_server_listener_init: close and unlink by name.
ListenerInitFails(p) ==
  /\ st[p] \in {"bound", "listening"}
  /\ Reply(peer[p], "failed")
  /\ Exit(p)
  /\ sock' = [sock EXCEPT ![SocketPath(caller[p])] = None]

\* The session server notifies its client, closes cl_conn and enters its loop.
SessionReady(p) ==
  /\ st[p] = "listening"
  /\ Reply(peer[p], "done")
  /\ Goto(p, "serving")
  /\ peer' = [peer EXCEPT ![p] = None]
  /\ UNCHANGED <<daemonVars, caller, secs, pgen, term, sq, runner, sock, cpc>>

\* epoll_wait of caller_server reports the pipe or a termination signal.
SessionFinish(p) ==
  /\ st[p] = "serving"
  /\ PipeClosed(pgen[p]) \/ term[p]
  /\ Goto(p, "exiting")
  /\ UNCHANGED <<daemonVars, caller, peer, secs, pgen, term, sq, runner, sock, clientVars>>

\* epoll_wait reports a connection and nothing else.
SessionPoll(p) ==
  /\ st[p] = "serving" /\ sq[p] # <<>>
  /\ ~PipeClosed(pgen[p]) /\ ~term[p]
  /\ Goto(p, "accepting")
  /\ UNCHANGED <<daemonVars, caller, peer, secs, pgen, term, sq, runner, sock, clientVars>>

\* epoll_wait reports nothing for a second.
SessionTickForever(p) ==
  /\ st[p] = "serving" /\ sq[p] = <<>> /\ secs[p] + 1 < SessionTimeout
  /\ ~PipeClosed(pgen[p]) /\ ~term[p]
  /\ secs' = [secs EXCEPT ![p] = @ + 1]
  /\ UNCHANGED <<daemonVars, st, caller, peer, pgen, term, sq, runner, sock, clientVars>>
SessionTick(p) ==
  /\ st[p] = "serving" /\ sq[p] = <<>>
  /\ ~PipeClosed(pgen[p]) /\ ~term[p]
  /\ secs' = [secs EXCEPT ![p] = @ + 1]
  /\ Goto(p, IF secs[p] + 1 >= SessionTimeout THEN "exiting" ELSE "serving")
  /\ UNCHANGED <<daemonVars, caller, peer, pgen, term, sq, runner, sock, clientVars>>

\* accept4, check_peer_creds and the fork of the job request handler.
SessionAccept(p) ==
  /\ st[p] = "accepting"
  /\ sq' = [sq EXCEPT ![p] = Tail(@)]
  /\ CheckPeerCreds(p, Head(sq[p]))
  /\ Goto(p, "busy")
  /\ peer' = [peer EXCEPT ![p] = Head(sq[p])]
  /\ UNCHANGED <<daemonVars, caller, secs, pgen, term, runner, sock, clientVars>>

\* The credentials do not match: the connection is closed without an answer.
SessionReject(p) ==
  /\ st[p] = "accepting"
  /\ sq' = [sq EXCEPT ![p] = Tail(@)]
  /\ ~CheckPeerCreds(p, Head(sq[p]))
  /\ Goto(p, "serving")
  /\ UNCHANGED <<daemonVars, caller, peer, secs, pgen, term, runner, sock, clientVars>>

\* The server is done with the client: wait_job returned the status of the
\* handler, and zero resets the timer.
HandlerExit(p, idle) ==
  /\ st[p] = "busy"
  /\ Goto(p, "serving")
  /\ peer' = [peer EXCEPT ![p] = None]
  /\ secs' = [secs EXCEPT ![p] = idle]
  /\ UNCHANGED <<daemonVars, caller, pgen, term, sq, sock, cpc>>

\* A handler that cannot be forked, a bad request, a silent client, a runner
\* that cannot be forked.
HandlerRefuses(p) ==
  /\ HandlerExit(p, secs[p])
  /\ Reply(peer[p], "failed")
  /\ UNCHANGED runner

\* What a runner leaves its client with: the result of the job, or nothing
\* when its set-up failed or the client is gone.
RunnerReplies(c) == \/ \E m \in {"done", "failed"} : Reply(c, m)
                    \/ UNCHANGED msg

\* An auxiliary job: the handler waits for the runner, and exits with success
\* whatever became of the job.
HandlerRunsJob(p) ==
  /\ HandlerExit(p, 0)
  /\ RunnerReplies(peer[p])
  /\ UNCHANGED runner

\* A chrootuid job: the handler exits with success when the runner and the
\* executor have closed the pipe.  It does nothing between its fork and that,
\* so that its wait is the delay of the server's next step.
HandlerAnswersEarly(p) ==
  /\ HandlerExit(p, 0)
  /\ runner' = [runner EXCEPT ![peer[p]] = caller[p]]
  /\ Reply(peer[p], "done")
HandlerDetaches(p) ==
  /\ HandlerExit(p, 0)
  /\ runner' = [runner EXCEPT ![peer[p]] = caller[p]]
  /\ UNCHANGED msg

\* The runner of a chrootuid job ends.  It needs neither the session server
\* nor the daemon, and nothing says how long its payload takes.
RunnerEnds(c) ==
  /\ runner[c] # None
  /\ runner' = [runner EXCEPT ![c] = None]
  /\ RunnerReplies(c)
  /\ UNCHANGED <<daemonVars, st, caller, peer, secs, pgen, term, sq, sock, cpc>>

\* exit: the path stays in the file system, waiting connections are reset.
SessionExit(p) ==
  /\ st[p] = "exiting"
  /\ Exit(p)
  /\ sock' = [sock EXCEPT ![SocketPath(caller[p])] = IF @ = p THEN Stale ELSE @]
  /\ UNCHANGED msg

\* A termination signal for a session server.  It is blocked since the fork
\* and only read after epoll_wait: to send it earlier makes no difference.
SessionTerm(p) ==
  /\ "session_term" \in Events
  /\ st[p] = "serving" /\ ~term[p]
  /\ term' = [term EXCEPT ![p] = TRUE]
  /\ UNCHANGED <<daemonVars, st, caller, peer, secs, pgen, sq, runner, sock, clientVars>>

-----------------------------------------------------------------------------
(* The clients: connect_to_session and request_session of hasher-priv.c.   *)

ClientGoto(c, s) == cpc' = [cpc EXCEPT ![c] = s]

\* connect(2) to a session socket; it blocks while the backlog is full.
ConnectSession(c) ==
  LET p == sock[SocketPath(CallerOf[c])] IN
  /\ Reachable(SocketPath(CallerOf[c]))
  /\ Len(sq[p]) <= Backlog
  /\ sq' = [sq EXCEPT ![p] = Append(@, c)]
  /\ ClientGoto(c, "sess")
  /\ UNCHANGED <<daemonVars, st, caller, peer, secs, pgen, term, runner, sock, msg>>

\* srv_try_connect on the session socket.
TryConnect(c) ==
  /\ cpc[c] = "start"
  /\ \/ ConnectSession(c)
     \/ /\ ~Reachable(SocketPath(CallerOf[c]))
        /\ ClientGoto(c, "ask")
        /\ UNCHANGED <<daemonVars, sessVars, sock, msg>>

\* srv_connect on the main socket of the daemon, which listens until it exits.
AskDaemon(c) ==
  /\ cpc[c] = "ask"
  /\ \/ /\ dpc # "down" /\ Len(queue) <= Backlog
        /\ queue' = Append(queue, c)
        /\ ClientGoto(c, "connected")
     \/ /\ dpc = "down"
        /\ ClientGoto(c, "failed")
        /\ UNCHANGED queue
  /\ UNCHANGED <<dpc, ready, pending, conn, child, pool, gen, sessVars, sock, msg>>

\* The header of the request is sent, at any time after the connection.
SendRequest(c) ==
  /\ cpc[c] = "connected" /\ Held(c)
  /\ ClientGoto(c, "wait")
  /\ Reply(c, "request")
  /\ UNCHANGED <<daemonVars, sessVars, sock>>

\* recv_response on the connection to the daemon.
RecvResponse(c) ==
  /\ cpc[c] = "wait" /\ msg[c] \in {"done", "failed"}
  /\ ClientGoto(c, IF msg[c] = "done" THEN "reconnect" ELSE "failed")
  /\ Reply(c, "none")
  /\ UNCHANGED <<daemonVars, sessVars, sock>>

\* srv_connect on the session socket after the session was opened.
Reconnect(c) ==
  /\ cpc[c] = "reconnect"
  /\ \/ ConnectSession(c)
     \/ /\ ~Reachable(SocketPath(CallerOf[c]))
        /\ ClientGoto(c, "failed")
        /\ UNCHANGED <<daemonVars, sessVars, sock, msg>>

\* The job request is over.
RecvJobResponse(c) ==
  /\ cpc[c] = "sess" /\ msg[c] \in {"done", "failed"}
  /\ ClientGoto(c, msg[c])
  /\ Reply(c, "none")
  /\ UNCHANGED <<daemonVars, sessVars, sock>>

\* End of file instead of a response: the client dies.
RecvEOF(c) ==
  /\ cpc[c] \in {"connected", "wait", "sess"}
  /\ ~Held(c) /\ msg[c] \in {"none", "request"}
  /\ ClientGoto(c, "failed")
  /\ Reply(c, "none")
  /\ UNCHANGED <<daemonVars, sessVars, sock>>

\* The client is killed; what it sent stays in its connection.
ClientKilled(c) ==
  /\ "kill" \in Events
  /\ cpc[c] \in {"connected", "wait", "sess"}
  /\ ClientGoto(c, "gone")
  /\ UNCHANGED <<daemonVars, sessVars, sock, msg>>

\* The same caller runs hasher-priv once more.
ClientRestart(c) ==
  /\ "restart" \in Events
  /\ cpc[c] \in {"done", "failed", "gone"} /\ ~Held(c)
  /\ ClientGoto(c, "start")
  /\ Reply(c, "none")
  /\ UNCHANGED <<daemonVars, sessVars, sock>>

-----------------------------------------------------------------------------
DaemonStep ==
  \/ DaemonPoll \/ DaemonSignals \/ ReapDone \/ DaemonExit \/ DaemonAccept
  \/ RecvFail \/ RequestFailed \/ ReuseSession \/ AppendSession
  \/ \E p \in Pids : Reap(p) \/ ForkSession(p)

SessionStep(p) ==
  \/ CloseInherited(p) \/ InitDies(p) \/ SrvUnlink(p) \/ SrvBind(p)
  \/ SrvListenFails(p) \/ SrvChown(p) \/ ListenerInitFails(p) \/ SessionReady(p)
  \/ SessionFinish(p) \/ SessionPoll(p) \/ SessionTick(p) \/ SessionAccept(p)
  \/ SessionReject(p) \/ HandlerRefuses(p) \/ HandlerRunsJob(p)
  \/ HandlerDetaches(p) \/ SessionExit(p)

\* What a client does by itself once started; sending late is its freedom.
ClientStep(c) ==
  \/ TryConnect(c) \/ AskDaemon(c) \/ RecvResponse(c) \/ Reconnect(c)
  \/ RecvJobResponse(c) \/ RecvEOF(c)

Environment ==
  \/ SendTerm \/ DaemonCrash \/ DaemonStart
  \/ \E p \in Pids : SessionTerm(p)
  \/ \E c \in Clients :
       RunnerEnds(c) \/ SendRequest(c) \/ ClientKilled(c) \/ ClientRestart(c)

Next ==
  \/ DaemonStep
  \/ \E p \in Pids : SessionStep(p)
  \/ \E c \in Clients : ClientStep(c)
  \/ Environment

Spec == Init /\ [][Next]_vars

\* Every process is scheduled: no step of a process that can move is delayed
\* for ever.  Signals, crashes, restarts, slow clients and the end of what
\* clients run in a chroot are not assumed.
FairSpec ==
  /\ Spec
  /\ WF_vars(DaemonStep)
  /\ \A p \in Pids : WF_vars(SessionStep(p))
  /\ \A c \in Clients : WF_vars(ClientStep(c))
-----------------------------------------------------------------------------
(* Properties.                                                             *)

TypeOK ==
  /\ dpc \in DaemonPoints
  /\ ready \subseteq {"signal", "conn"}
  /\ pending \subseteq {"TERM", "CHLD"}
  /\ queue \in Seq(Clients)
  /\ conn \in Clients \cup {None}
  /\ child \in Pids \cup {None}
  /\ pool \subseteq [caller : Callers, pid : Pids]
  /\ gen \in Nat
  /\ st \in [Pids -> SessPoints]
  /\ caller \in [Pids -> Callers \cup {None}]
  /\ peer \in [Pids -> Clients \cup {None}]
  /\ secs \in [Pids -> Nat]
  /\ pgen \in [Pids -> Nat]
  /\ term \in [Pids -> BOOLEAN]
  /\ sq \in [Pids -> Seq(Clients)]
  /\ runner \in [Clients -> Callers \cup {None}]
  /\ sock \in [Keys -> Pids \cup {None, Stale}]
  /\ cpc \in [Clients -> ClientPoints]
  /\ msg \in [Clients -> {"none", "request", "done", "failed"}]

\* The pool is exactly the daemon's unreaped children: start_session records
\* what it forks even if the child is already dead, and wait_sessions drops a
\* record with, and only with, the child it reaps.  The one exception is the
\* child between its fork and its recording.
PoolTracksChildren ==
  /\ {r.pid : r \in pool} = Children \ {child}
  /\ \A r \in pool : caller[r.pid] = r.caller

\* The running daemon has at most one session server, dead or alive, for a
\* pair (uid, num): two of them would take the socket path from each other.
OneServerPerKey ==
  \A p, q \in Children :
    p # q => Key(caller[p]) # Key(caller[q])

\* As long as the daemon is not restarted, the path of a listening session
\* server leads to that server: no other server unlinks or rebinds it.
SocketLeadsToServer ==
  \A p \in Pids : st[p] \in Listening => sock[SocketPath(caller[p])] = p

\* A job request handler, and the runner that outlives it, works for the very
\* user and group of its client, and these are the user's ids in the passwd
\* database, although the daemon hands out sessions by uid and number and
\* never compares gids.
Entitled(a) ==
  a.uid \in ValidUids /\ a.gid \in ValidGids /\ a.gid = PwGid[a.uid]
ServedCreds ==
  /\ \A p \in Pids :
       st[p] = "busy" => caller[p] = CallerOf[peer[p]] /\ Entitled(caller[p])
  /\ \A c \in Clients :
       runner[c] # None => runner[c] = CallerOf[c] /\ Entitled(runner[c])

\* No death is forgotten: whenever a child of the running daemon is dead, a
\* SIGCHLD is pending or the daemon is reaping, even when several children die
\* while one signal is pending or one dies between the last waitpid and the
\* next epoll_wait.  So its record leaves the pool and its caller can get a
\* new server.
NoDeathForgotten ==
  \A p \in Children :
    st[p] = "zombie" => "CHLD" \in pending \/ dpc \in {"reap", "stop"}

\* A session server is lost: its daemon is gone, or its path was unlinked or
\* taken over, as a child of a killed daemon that was still starting can do to
\* a server of the next daemon.
Lost(p) ==
  /\ st[p] \in Alive
  /\ \/ ~HasParent(p)
     \/ st[p] \in Listening /\ sock[SocketPath(caller[p])] # p

\* Lost session servers do not stay: the orphans notice the end of the daemon
\* even if clients keep them busy, and one that nobody can reach runs into its
\* timeout, so that it does not occupy the pool for ever.
LostServersLeave == \A p \in Pids : Lost(p) ~> ~Lost(p)

\* A daemon asked to finish does finish: every session server learns that the
\* pipe was closed, whatever it was doing, and the last wait_sessions returns.
ShutdownCompletes ==
  "TERM" \in pending ~> dpc = "down"

\* A client that sent its request, or connected to a session server, gets an
\* answer or end of file, or its job is handed to a runner of its own, whatever
\* the other clients, their jobs and the servers do.  How long a runner takes
\* is up to what the client runs; once it ends, the client is answered.
ClientsAnswered ==
  \A c \in Clients :
    cpc[c] \in {"wait", "sess"} ~>
      cpc[c] \notin {"wait", "sess"} \/ runner[c] # None

\* The sessions, the requests in hand and the clients as SessionService knows
\* them: a server is a session from its fork to its exit.
Sessions ==
  [p \in Pids |->
     IF st[p] \in Alive THEN [caller |-> caller[p], boot |-> pgen[p]] ELSE None]
Requests ==
  [p \in Pids |-> IF st[p] \in {"busy", "exiting"} THEN peer[p] ELSE None]
ClientStates ==
  [c \in Clients |-> IF cpc[c] = "sess" THEN "in"
                     ELSE IF cpc[c] = "gone" THEN "gone" ELSE "out"]
Results == [c \in Clients |-> IF cpc[c] = "sess" THEN msg[c] ELSE "none"]

Service == INSTANCE SessionService WITH
  Servers <- Pids,
  Eligible <- {a \in Callers : a.uid \in ValidUids /\ a.gid \in ValidGids},
  Servable <- {a \in Callers : PwGid[a.uid] = a.gid},
  boot <- gen, session <- Sessions, line <- sq, request <- Requests, running <- runner,
  client <- ClientStates, result <- Results

\* Daemon, session servers, runners and clients together implement the
\* service: one connection of a client is one job at most, accepted by a
\* session of its own caller and run with that caller's ids; its answer is
\* never the daemon's answer to a request, nor that of another client; a
\* signal, a timeout or the end of the daemon never takes a session away from
\* a request it is working on, nor a runner from its job; and no client gives
\* up while it is in line or its job runs (caller_server.c:47, 126, 185,
\* caller_runner.c:137, 293, hasher-privd.c:143, 174).
ServesSessions == Service!Spec

\* What the comment in start_session says of the answer to a session request:
\* the successful response is delayed until the session server is ready.
DoneMeansReady ==
  [][\A c \in Clients :
       msg[c] = "request" /\ msg'[c] = "done" =>
         \E p \in Pids :
           /\ st[p] \in Listening \ {"exiting"}
           /\ Key(caller[p]) = Key(CallerOf[c])]_vars
=============================================================================
