------------------------- MODULE SessionPoolProofs -------------------------
(***************************************************************************)
(* Theorems of SessionPool, for any number of clients, callers and process  *)
(* ids, and through any number of crashes and restarts of the daemon; last, *)
(* that it implements SessionService.                                       *)
(***************************************************************************)
EXTENDS SessionPool, TLAPS

USE ConstantsAssumption

(***************************************************************************)
(* The inductive invariant.                                                *)
(***************************************************************************)

(* What the daemon has in hand.  A child that is forked and not recorded    *)
(* yet already has its caller, and no record of the pool has the same key.  *)
DaemonOk ==
  /\ dpc \in {"recv", "append"} => conn \in Clients
  /\ "conn" \in ready => queue # <<>>
  /\ dpc = "append" => /\ child \in Children
                       /\ caller[child] = CallerOf[conn]
                       /\ ~InPool(CallerOf[conn])
  /\ dpc # "append" => child = None
  /\ dpc = "down" => pool = {}
  /\ \A p \in Pids : pgen[p] <= gen

(* No two records have the same key.                                        *)
PoolKeysDiffer ==
  \A r, s \in pool : Key(r.caller) = Key(s.caller) => r = s

(* Points of a session server after it has checked the ids of its caller.   *)
Bound == {"bound"} \cup Listening
Checked == {"unlinked"} \cup Bound

(* A session server works for a valid caller, whose primary group it has    *)
(* checked before it binds its path; only clients of its key wait for it.   *)
ServerOk(p) ==
  /\ st[p] # "free" => caller[p] \in Callers /\ ValidPeer(caller[p])
  /\ st[p] \in Checked => caller[p].gid = PwGid[caller[p].uid]
  /\ st[p] \notin Listening => sq[p] = <<>>
  /\ st[p] = "accepting" => sq[p] # <<>>
  /\ \A i \in 1..Len(sq[p]) : Key(CallerOf[sq[p][i]]) = Key(caller[p])
  /\ st[p] = "busy" => peer[p] \in Clients /\ caller[p] = CallerOf[peer[p]]
  /\ st[p] \in {"serving", "accepting", "exiting"} => peer[p] = None
ServersOk == \A p \in Pids : ServerOk(p)

(* A runner has the ids of its client, which its session server had checked.*)
RunnersOk ==
  \A c \in Clients :
    runner[c] # None => runner[c] = CallerOf[c] /\ Entitled(runner[c])

(* A path leads only to a server that has bound it and is there.            *)
PathsOk ==
  \A k \in Keys : sock[k] \in Pids =>
    st[sock[k]] \in Bound /\ Key(caller[sock[k]]) = k

PoolInv == /\ TypeOK /\ DaemonOk /\ PoolTracksChildren /\ PoolKeysDiffer
           /\ NoDeathForgotten /\ ServersOk /\ RunnersOk /\ PathsOk

(* While no daemon is killed, every session server has its parent, and the  *)
(* path of one that has bound it leads to it.                               *)
NoOrphans == \A p \in Pids : st[p] # "free" => HasParent(p)
PathsLead == \A p \in Pids : st[p] \in Bound => sock[SocketPath(caller[p])] = p

-----------------------------------------------------------------------------
USE DEF daemonVars, sessVars, clientVars, vars

LEMMA Credentials ==
  /\ \A c \in Clients : CallerOf[c] \in Callers
  /\ \A a \in Callers : Key(a) \in Keys /\ a.uid \in Uids /\ a.gid \in Gids
                       /\ SocketPath(a) = Key(a)
  /\ \A a, b \in Callers : Key(a) = Key(b) /\ a.gid = b.gid => a = b
<1>1. \A c \in Clients : CallerOf[c] \in Callers
  OBVIOUS
<1>2. \A a \in Callers : Key(a) \in Keys /\ a.uid \in Uids /\ a.gid \in Gids
                       /\ SocketPath(a) = Key(a)
  BY DEF Callers, Key, Keys, SocketPath
<1>3. \A a, b \in Callers : Key(a) = Key(b) /\ a.gid = b.gid => a = b
  BY DEF Callers, Key
<1> QED  BY <1>1, <1>2, <1>3

LEMMA InitStep == Init => PoolInv
<1> SUFFICES ASSUME Init PROVE PoolInv
  OBVIOUS
<1> USE DEF Init
<1>1. TypeOK
  <2>1. sock \in [Keys -> Pids \cup {None, Stale}]
    OBVIOUS
  <2> QED  BY <2>1 DEF TypeOK, DaemonPoints, SessPoints, ClientPoints
<1>2. DaemonOk /\ PoolKeysDiffer
  BY DEF DaemonOk, PoolKeysDiffer
<1>3. Children = {}
  BY DEF Children
<1>4. PoolTracksChildren /\ NoDeathForgotten
  BY <1>3 DEF PoolTracksChildren, NoDeathForgotten
<1>5. ServersOk
  BY DEF ServersOk, ServerOk, Checked, Bound, Listening
<1>6. PathsOk /\ RunnersOk
  BY DEF PathsOk, RunnersOk
<1> QED  BY <1>1, <1>2, <1>4, <1>5, <1>6 DEF PoolInv

(***************************************************************************)
(* The steps of the daemon that leave the session servers alone.            *)
(***************************************************************************)
LEMMA DaemonLoopStep ==
  ASSUME PoolInv,
         \/ DaemonPoll \/ DaemonSignals \/ ReapDone \/ DaemonExit
         \/ DaemonAccept \/ RecvFail \/ RequestFailed \/ ReuseSession
         \/ DaemonStart
  PROVE  PoolInv'
<1> USE DEF PoolInv
<1>1. /\ UNCHANGED <<sessVars, sock, child, pool>>
      /\ dpc # "append" /\ dpc' # "append"
  BY DEF DaemonPoll, DaemonSignals, ReapDone, DaemonExit, DaemonAccept, RecvFail,
         RequestFailed, ReuseSession, DaemonStart, CloseConn
<1>2. gen' \in Nat /\ (gen' = gen \/ (dpc = "down" /\ gen' = gen + 1))
  <2>1. CASE DaemonStart
    BY <2>1 DEF DaemonStart, TypeOK
  <2>2. CASE ~DaemonStart
    <3>1. gen' = gen
      BY <2>2 DEF DaemonPoll, DaemonSignals, ReapDone, DaemonExit, DaemonAccept,
                  RecvFail, RequestFailed, ReuseSession
    <3>2. gen \in Nat
      BY DEF TypeOK
    <3> QED  BY <3>1, <3>2
  <2> QED  BY <2>1, <2>2
<1>3. /\ dpc' \in DaemonPoints /\ ready' \subseteq {"signal", "conn"}
      /\ pending' \subseteq {"TERM", "CHLD"}
  BY DEF TypeOK, DaemonPoints, DaemonPoll, DaemonSignals, ReapDone, DaemonExit,
         DaemonAccept, RecvFail, RequestFailed, ReuseSession, DaemonStart, CloseConn
<1>4. /\ queue' \in Seq(Clients) /\ conn' \in Clients \cup {None}
      /\ dpc' = "recv" => conn' \in Clients
      /\ "conn" \in ready' => queue' # <<>>
  <2>1. CASE DaemonAccept
    <3>1. /\ ready' = {}
          /\ \/ UNCHANGED <<queue, conn>> /\ dpc' = "poll"
             \/ queue # <<>> /\ conn' = Head(queue) /\ queue' = Tail(queue)
      BY <2>1 DEF DaemonAccept, DaemonOk
    <3>2. queue \in Seq(Clients) /\ conn \in Clients \cup {None}
      BY DEF TypeOK
    <3>3. queue # <<>> => Head(queue) \in Clients /\ Tail(queue) \in Seq(Clients)
      BY <3>2
    <3>4. queue' \in Seq(Clients) /\ conn' \in Clients \cup {None}
      BY <3>1, <3>2, <3>3
    <3>5. dpc' = "recv" => conn' \in Clients
      BY <2>1, <3>1, <3>3 DEF DaemonAccept
    <3> QED  BY <3>1, <3>4, <3>5
  <2>2. CASE DaemonPoll
    BY <2>2 DEF DaemonPoll, TypeOK
  <2>3. CASE DaemonSignals \/ ReapDone \/ DaemonStart
    <3>1. UNCHANGED <<queue, conn, ready>> /\ dpc' # "recv"
      BY <2>3 DEF DaemonSignals, ReapDone, DaemonStart
    <3> QED  BY <3>1 DEF TypeOK, DaemonOk
  <2>4. CASE DaemonExit
    BY <2>4 DEF DaemonExit, TypeOK
  <2>5. CASE RecvFail \/ RequestFailed \/ ReuseSession
    BY <2>5 DEF RecvFail, RequestFailed, ReuseSession, CloseConn, TypeOK, DaemonOk
  <2> QED  BY <2>1, <2>2, <2>3, <2>4, <2>5
<1>5. /\ cpc' = cpc
      /\ msg' \in [Clients -> {"none", "request", "done", "failed"}]
  BY DEF TypeOK, DaemonPoll, DaemonSignals, ReapDone, DaemonExit, DaemonAccept,
         RecvFail, RequestFailed, ReuseSession, DaemonStart, Reply
<1>6. TypeOK'
  BY <1>1, <1>2, <1>3, <1>4, <1>5 DEF TypeOK
<1>7. Children' = Children /\ (dpc' = "down" => Children = {})
  <2>1. CASE DaemonStart
    <3>1. dpc = "down" /\ gen' = gen + 1
      BY <2>1 DEF DaemonStart
    <3>2. \A p \in Pids : pgen[p] # gen + 1
      BY DEF DaemonOk, TypeOK
    <3> QED  BY <1>1, <2>1, <3>1, <3>2 DEF Children, HasParent, DaemonStart
  <2>2. CASE DaemonExit
    BY <2>2 DEF Children, HasParent, DaemonExit
  <2>3. CASE \/ DaemonPoll \/ DaemonSignals \/ ReapDone \/ DaemonAccept
             \/ RecvFail \/ RequestFailed \/ ReuseSession
    <3>1. gen' = gen /\ dpc # "down" /\ dpc' # "down"
      BY <2>3 DEF DaemonPoll, DaemonSignals, ReapDone, DaemonAccept, RecvFail,
                  RequestFailed, ReuseSession, CloseConn
    <3> QED  BY <1>1, <3>1 DEF Children, HasParent
  <2> QED  BY <2>1, <2>2, <2>3
<1>8. DaemonOk'
  <2>1. dpc' = "down" => pool' = {}
    BY <1>1, <1>7 DEF PoolTracksChildren, DaemonOk
  <2>2. \A p \in Pids : pgen'[p] <= gen'
    BY <1>1, <1>2 DEF DaemonOk, TypeOK
  <2> QED  BY <1>1, <1>4, <2>1, <2>2 DEF DaemonOk
<1>9. PoolTracksChildren' /\ PoolKeysDiffer'
  BY <1>1, <1>7 DEF PoolTracksChildren, PoolKeysDiffer
<1>10. NoDeathForgotten'
  <2>1. CASE DaemonSignals
    BY <1>1, <1>7, <2>1 DEF NoDeathForgotten, DaemonSignals, NextSignal
  <2>2. CASE ReapDone
    BY <1>1, <1>7, <2>2 DEF NoDeathForgotten, ReapDone
  <2>3. CASE DaemonExit \/ DaemonStart
    BY <1>1, <1>7, <2>3
    DEF NoDeathForgotten, DaemonExit, DaemonStart, Children, HasParent
  <2>4. CASE \/ DaemonPoll \/ DaemonAccept \/ RecvFail \/ RequestFailed
             \/ ReuseSession
    <3>1. pending' = pending /\ dpc \notin {"reap", "stop"}
      BY <2>4 DEF DaemonPoll, DaemonAccept, RecvFail, RequestFailed, ReuseSession
    <3> QED  BY <1>1, <1>7, <3>1 DEF NoDeathForgotten
  <2> QED  BY <2>1, <2>2, <2>3, <2>4
<1>11. ServersOk' /\ RunnersOk' /\ PathsOk'
  BY <1>1 DEF ServersOk, ServerOk, RunnersOk, PathsOk
<1> QED  BY <1>6, <1>8, <1>9, <1>10, <1>11

LEMMA SendTermStep ==
  ASSUME PoolInv, SendTerm
  PROVE  PoolInv'
<1> USE DEF PoolInv
<1>1. /\ UNCHANGED <<dpc, ready, queue, conn, child, pool, gen, sessVars, sock,
                     clientVars>>
      /\ pending' = pending \cup {"TERM"}
  BY DEF SendTerm
<1>2. TypeOK' /\ Children' = Children
  BY <1>1 DEF TypeOK, Children, HasParent
<1>3. DaemonOk' /\ PoolTracksChildren' /\ PoolKeysDiffer' /\ NoDeathForgotten'
  BY <1>1, <1>2 DEF DaemonOk, InPool, PoolTracksChildren, PoolKeysDiffer,
                    NoDeathForgotten
<1>4. ServersOk' /\ RunnersOk' /\ PathsOk'
  BY <1>1 DEF ServersOk, ServerOk, RunnersOk, PathsOk
<1> QED  BY <1>2, <1>3, <1>4

(***************************************************************************)
(* The steps of the daemon that change its children.                        *)
(***************************************************************************)
LEMMA AppendStep ==
  ASSUME PoolInv, AppendSession
  PROVE  PoolInv'
<1> USE DEF PoolInv
<1> DEFINE rec == [caller |-> CallerOf[conn], pid |-> child]
<1>1. /\ dpc = "append" /\ dpc' = "poll" /\ conn' = None /\ child' = None
      /\ pool' = pool \cup {rec}
      /\ UNCHANGED <<ready, pending, queue, gen, sessVars, sock, clientVars>>
  BY DEF AppendSession, CloseConn
<1>2. /\ child \in Children /\ child \in Pids /\ conn \in Clients
      /\ caller[child] = CallerOf[conn] /\ ~InPool(CallerOf[conn])
  BY <1>1 DEF DaemonOk, Children
<1>3. rec \in [caller : Callers, pid : Pids]
  BY <1>2, Credentials
<1>4. TypeOK'
  BY <1>1, <1>3 DEF TypeOK, DaemonPoints
<1>5. Children' = Children
  BY <1>1 DEF Children, HasParent
<1>6. PoolTracksChildren'
  <2>1. {r.pid : r \in pool} = Children \ {child}
    BY DEF PoolTracksChildren
  <2>2. {r.pid : r \in pool'} = Children
    <3>1. rec.pid = child /\ rec \in pool'
      BY <1>1
    <3>2. \A r \in pool' : r.pid \in Children
      BY <1>1, <1>2, <2>1, <3>1
    <3>3. ASSUME NEW q \in Children PROVE \E r \in pool' : r.pid = q
      <4>1. CASE q = child
        BY <3>1, <4>1
      <4>2. CASE q # child
        <5>1. PICK r \in pool : r.pid = q
          BY <2>1, <4>2
        <5>2. r \in pool'
          BY <1>1
        <5> QED  BY <5>1, <5>2
      <4> QED  BY <4>1, <4>2
    <3> QED  BY <3>2, <3>3
  <2>3. None \notin Children
    BY DEF Children
  <2>4. \A r \in pool' : caller[r.pid] = r.caller
    BY <1>1, <1>2 DEF PoolTracksChildren
  <2> QED  BY <1>1, <1>5, <2>2, <2>3, <2>4 DEF PoolTracksChildren
<1>7. PoolKeysDiffer'
  BY <1>1, <1>2 DEF PoolKeysDiffer, InPool
<1>8. DaemonOk' /\ NoDeathForgotten'
  BY <1>1, <1>5 DEF DaemonOk, NoDeathForgotten
<1>9. ServersOk' /\ RunnersOk' /\ PathsOk'
  BY <1>1 DEF ServersOk, ServerOk, RunnersOk, PathsOk
<1> QED  BY <1>4, <1>6, <1>7, <1>8, <1>9

LEMMA ReapStep ==
  ASSUME PoolInv, NEW p \in Pids, Reap(p)
  PROVE  PoolInv'
<1> USE DEF PoolInv
<1>1. /\ dpc \in {"reap", "stop"} /\ p \in Children /\ st[p] = "zombie"
      /\ st' = [st EXCEPT ![p] = "free"] /\ caller' = [caller EXCEPT ![p] = None]
      /\ pgen' = [pgen EXCEPT ![p] = 0]
      /\ pool' = {r \in pool : r.pid # p}
      /\ UNCHANGED <<dpc, ready, pending, queue, conn, child, gen, peer, secs,
                     term, sq, runner, sock, clientVars>>
  BY DEF Reap, FreeSession
<1>2. TypeOK'
  BY <1>1 DEF TypeOK, SessPoints
<1>3. Children' = Children \ {p}
  BY <1>1 DEF Children, HasParent, TypeOK
<1>4. \A q \in Pids \ {p} : /\ st'[q] = st[q] /\ caller'[q] = caller[q]
                            /\ pgen'[q] = pgen[q]
  BY <1>1 DEF TypeOK
<1>5. st'[p] = "free" /\ pgen'[p] = 0
  BY <1>1 DEF TypeOK
<1>6. child = None
  BY <1>1 DEF DaemonOk
<1>7. PoolTracksChildren' /\ PoolKeysDiffer'
  BY <1>1, <1>3, <1>4, <1>6 DEF PoolTracksChildren, PoolKeysDiffer, TypeOK
<1>8. DaemonOk'
  <2>1. \A q \in Pids : pgen'[q] <= gen'
    BY <1>1, <1>4, <1>5 DEF DaemonOk, TypeOK
  <2> QED  BY <1>1, <1>6, <2>1 DEF DaemonOk
<1>9. NoDeathForgotten'
  BY <1>1 DEF NoDeathForgotten
<1>10. ServersOk'
  <2>1. sq[p] = <<>>
    BY <1>1 DEF ServersOk, ServerOk, Listening
  <2>2. ServerOk(p)'
    BY <1>1, <1>5, <2>1 DEF ServerOk, Checked, Bound, Listening
  <2>3. ASSUME NEW q \in Pids \ {p} PROVE ServerOk(q)'
    BY <1>1, <1>4 DEF ServersOk, ServerOk
  <2> QED  BY <2>2, <2>3 DEF ServersOk
<1>11. PathsOk' /\ RunnersOk'
  <2>1. \A k \in Keys : sock[k] # p
    BY <1>1 DEF PathsOk, Bound, Listening
  <2> QED  BY <1>1, <1>4, <2>1 DEF PathsOk, RunnersOk
<1> QED  BY <1>2, <1>7, <1>8, <1>9, <1>10, <1>11

LEMMA ForkStep ==
  ASSUME PoolInv, NEW p \in Pids, ForkSession(p)
  PROVE  PoolInv'
<1> USE DEF PoolInv
<1>1. /\ dpc = "recv" /\ dpc' = "append" /\ st[p] = "free" /\ child' = p
      /\ ValidPeer(CallerOf[conn]) /\ ~InPool(CallerOf[conn])
      /\ st' = [st EXCEPT ![p] = "forked"]
      /\ caller' = [caller EXCEPT ![p] = CallerOf[conn]]
      /\ peer' = [peer EXCEPT ![p] = conn] /\ pgen' = [pgen EXCEPT ![p] = gen]
      /\ UNCHANGED <<ready, pending, queue, conn, pool, gen, secs, term, sq, runner,
                     sock, clientVars>>
  BY DEF ForkSession
<1>2. conn \in Clients /\ CallerOf[conn] \in Callers /\ child = None
  BY <1>1, Credentials DEF DaemonOk
<1>3. TypeOK'
  BY <1>1, <1>2 DEF TypeOK, DaemonPoints, SessPoints, Alive, Starting
<1>4. \A q \in Pids \ {p} : /\ st'[q] = st[q] /\ caller'[q] = caller[q]
                            /\ pgen'[q] = pgen[q] /\ peer'[q] = peer[q]
  BY <1>1 DEF TypeOK
<1>5. st'[p] = "forked" /\ pgen'[p] = gen /\ caller'[p] = CallerOf[conn]
  BY <1>1 DEF TypeOK
<1>6. Children' = Children \cup {p} /\ p \notin Children
  BY <1>1, <1>4, <1>5 DEF Children, HasParent
<1>7. PoolTracksChildren'
  <2>1. {r.pid : r \in pool} = Children /\ \A r \in pool : caller[r.pid] = r.caller
    BY <1>2 DEF PoolTracksChildren, Children
  <2>2. \A r \in pool : r.pid \in Pids \ {p}
    BY <1>6, <2>1 DEF Children
  <2>3. Children' \ {child'} = Children
    BY <1>1, <1>6
  <2> QED  BY <1>1, <1>4, <2>1, <2>2, <2>3 DEF PoolTracksChildren
<1>8. DaemonOk'
  <2>1. \A q \in Pids : pgen'[q] <= gen'
    BY <1>1, <1>4, <1>5 DEF DaemonOk, TypeOK
  <2> QED  BY <1>1, <1>2, <1>5, <1>6, <2>1 DEF DaemonOk, InPool
<1>9. PoolKeysDiffer' /\ NoDeathForgotten'
  BY <1>1, <1>4, <1>5, <1>6 DEF PoolKeysDiffer, NoDeathForgotten
<1>10. ServersOk'
  <2>1. sq[p] = <<>>
    BY <1>1 DEF ServersOk, ServerOk, Listening
  <2>2. ServerOk(p)'
    BY <1>1, <1>2, <1>5, <2>1 DEF ServerOk, Checked, Bound, Listening, ValidPeer
  <2>3. ASSUME NEW q \in Pids \ {p} PROVE ServerOk(q)'
    BY <1>1, <1>4 DEF ServersOk, ServerOk
  <2> QED  BY <2>2, <2>3 DEF ServersOk
<1>11. PathsOk' /\ RunnersOk'
  <2>1. \A k \in Keys : sock[k] # p
    BY <1>1 DEF PathsOk, Bound, Listening
  <2> QED  BY <1>1, <1>4, <2>1 DEF PathsOk, RunnersOk
<1> QED  BY <1>3, <1>7, <1>8, <1>9, <1>10, <1>11

(* The daemon is killed: its dead children are reaped by init, and those    *)
(* that live belong to no daemon any more.                                  *)
LEMMA CrashStep ==
  ASSUME PoolInv, DaemonCrash
  PROVE  PoolInv'
<1> USE DEF PoolInv
<1>1. /\ dpc' = "down" /\ ready' = {} /\ pending' = {} /\ queue' = <<>>
      /\ conn' = None /\ child' = None /\ pool' = {}
      /\ st' = [p \in Pids |-> IF st[p] = "zombie" THEN "free" ELSE st[p]]
      /\ caller' = [p \in Pids |-> IF st[p] = "zombie" THEN None ELSE caller[p]]
      /\ pgen' = [p \in Pids |-> IF st[p] = "zombie" THEN 0 ELSE pgen[p]]
      /\ UNCHANGED <<gen, peer, secs, term, sq, runner, sock, clientVars>>
  BY DEF DaemonCrash
<1>2. TypeOK'
  BY <1>1 DEF TypeOK, DaemonPoints, SessPoints
<1>3. Children' = {}
  BY <1>1 DEF Children, HasParent
<1>4. PoolTracksChildren' /\ PoolKeysDiffer' /\ NoDeathForgotten'
  BY <1>1, <1>3 DEF PoolTracksChildren, PoolKeysDiffer, NoDeathForgotten
<1>5. DaemonOk'
  BY <1>1 DEF DaemonOk, TypeOK
<1>6. ServersOk'
  <2>1. ASSUME NEW p \in Pids PROVE ServerOk(p)'
    <3>1. ServerOk(p)
      BY DEF ServersOk
    <3>2. CASE st[p] = "zombie"
      BY <1>1, <3>1, <3>2 DEF ServerOk, Checked, Bound, Listening
    <3>3. CASE st[p] # "zombie"
      BY <1>1, <3>1, <3>3 DEF ServerOk
    <3> QED  BY <3>2, <3>3
  <2> QED  BY <2>1 DEF ServersOk
<1>7. PathsOk' /\ RunnersOk'
  <2>1. \A k \in Keys : sock[k] \in Pids => st[sock[k]] # "zombie"
    BY DEF PathsOk, Bound, Listening
  <2> QED  BY <1>1, <2>1 DEF PathsOk, RunnersOk
<1> QED  BY <1>2, <1>4, <1>5, <1>6, <1>7

(***************************************************************************)
(* The session servers.  One that exits stays a child of the daemon until   *)
(* it is reaped; its path no longer leads to it.                            *)
(***************************************************************************)
LEMMA ExitKeeps ==
  ASSUME PoolInv, NEW p \in Pids, st[p] \in Alive, Exit(p),
         sock' \in [Keys -> Pids \cup {None, Stale}],
         \A k \in Keys : sock'[k] \in Pids => sock'[k] = sock[k] /\ sock[k] # p,
         msg' \in [Clients -> {"none", "request", "done", "failed"}]
  PROVE  PoolInv'
<1> USE DEF PoolInv
<1>1. /\ st' = [st EXCEPT ![p] = IF HasParent(p) THEN "zombie" ELSE "free"]
      /\ caller' = [caller EXCEPT ![p] = IF HasParent(p) THEN caller[p] ELSE None]
      /\ pgen' = [pgen EXCEPT ![p] = IF HasParent(p) THEN pgen[p] ELSE 0]
      /\ pending' = IF HasParent(p) THEN pending \cup {"CHLD"} ELSE pending
      /\ peer' = [peer EXCEPT ![p] = None] /\ secs' = [secs EXCEPT ![p] = 0]
      /\ term' = [term EXCEPT ![p] = FALSE] /\ sq' = [sq EXCEPT ![p] = <<>>]
      /\ UNCHANGED <<dpc, ready, queue, conn, child, pool, gen, runner, cpc>>
  BY DEF Exit
<1>2. TypeOK'
  <2>1. /\ st' \in [Pids -> SessPoints] /\ caller' \in [Pids -> Callers \cup {None}]
        /\ pgen' \in [Pids -> Nat] /\ pending' \subseteq {"TERM", "CHLD"}
    BY <1>1 DEF TypeOK, SessPoints
  <2>2. /\ peer' \in [Pids -> Clients \cup {None}] /\ secs' \in [Pids -> Nat]
        /\ sq' \in [Pids -> Seq(Clients)]
    BY <1>1 DEF TypeOK
  <2>3. term' \in [Pids -> BOOLEAN]
    BY <1>1, Zenon DEF TypeOK
  <2> QED  BY <1>1, <2>1, <2>2, <2>3 DEF TypeOK
<1>3. /\ \A q \in Pids \ {p} : /\ st'[q] = st[q] /\ caller'[q] = caller[q]
                              /\ pgen'[q] = pgen[q] /\ peer'[q] = peer[q]
                              /\ sq'[q] = sq[q]
      /\ sq'[p] = <<>>
      /\ IF HasParent(p)
         THEN st'[p] = "zombie" /\ caller'[p] = caller[p] /\ pgen'[p] = pgen[p]
         ELSE st'[p] = "free" /\ pgen'[p] = 0
  BY <1>1 DEF TypeOK
<1>4. Children' = Children
  BY <1>1, <1>3 DEF Children, HasParent, Alive, Starting, Listening
<1>5. \A q \in Children : caller'[q] = caller[q]
  BY <1>3 DEF Children
<1>6. DaemonOk'
  <2>1. \A q \in Pids : pgen'[q] <= gen'
    BY <1>1, <1>3 DEF DaemonOk, TypeOK
  <2> QED  BY <1>1, <1>4, <1>5, <2>1 DEF DaemonOk, InPool
<1>7. PoolTracksChildren' /\ PoolKeysDiffer'
  <2>1. \A r \in pool : r.pid \in Children
    BY DEF PoolTracksChildren
  <2> QED  BY <1>1, <1>4, <1>5, <2>1 DEF PoolTracksChildren, PoolKeysDiffer
<1>8. NoDeathForgotten'
  BY <1>1, <1>3, <1>4 DEF NoDeathForgotten, Children
<1>9. ServersOk'
  <2>1. ServerOk(p)'
    BY <1>3 DEF ServersOk, ServerOk, Alive, Starting, Listening, Checked, Bound
  <2>2. ASSUME NEW q \in Pids \ {p} PROVE ServerOk(q)'
    BY <1>3 DEF ServersOk, ServerOk
  <2> QED  BY <2>1, <2>2 DEF ServersOk
<1>10. PathsOk' /\ RunnersOk'
  BY <1>1, <1>3 DEF PathsOk, RunnersOk
<1> QED  BY <1>2, <1>6, <1>7, <1>8, <1>9, <1>10

(* The actions with which a session server exits.                           *)
LEMMA ExitStep ==
  ASSUME PoolInv, NEW p \in Pids,
         InitDies(p) \/ SrvListenFails(p) \/ ListenerInitFails(p) \/ SessionExit(p)
  PROVE  PoolInv'
<1> USE DEF PoolInv
<1>1. /\ Exit(p)
      /\ st[p] \in {"init", "unlinked", "bound", "listening", "exiting"}
  BY DEF InitDies, SrvListenFails, ListenerInitFails, SessionExit
<1>2. st[p] \in Alive
  BY <1>1 DEF Alive, Starting, Listening
<1>3. msg' \in [Clients -> {"none", "request", "done", "failed"}]
  BY DEF InitDies, SrvListenFails, ListenerInitFails, SessionExit, Reply, TypeOK
<1>4. caller[p] \in Callers
  BY <1>1 DEF ServersOk, ServerOk
<1>5. SocketPath(caller[p]) \in Keys
  BY <1>4, Credentials
<1>6. \A k \in Keys : sock[k] = p => st[p] \in Bound /\ k = SocketPath(caller[p])
  BY <1>4, Credentials DEF PathsOk
<1>7. /\ sock' \in [Keys -> Pids \cup {None, Stale}]
      /\ \A k \in Keys : sock'[k] \in Pids => sock'[k] = sock[k] /\ sock[k] # p
  <2>1. CASE InitDies(p) \/ SrvListenFails(p)
    <3>1. st[p] \notin Bound
      BY <2>1 DEF InitDies, SrvListenFails, Bound, Listening
    <3> QED  BY <1>5, <1>6, <2>1, <3>1 DEF InitDies, SrvListenFails, TypeOK
  <2>2. CASE ListenerInitFails(p)
    BY <1>5, <1>6, <2>2 DEF ListenerInitFails, TypeOK
  <2>3. CASE SessionExit(p)
    BY <1>5, <1>6, <2>3 DEF SessionExit, TypeOK
  <2> QED  BY <2>1, <2>2, <2>3
<1> QED  BY <1>1, <1>2, <1>3, <1>7, ExitKeeps

(* A session server that goes on, or is signalled, disturbs no other and    *)
(* nothing of the daemon.                                                   *)
LEMMA MoveKeeps ==
  ASSUME PoolInv, NEW p \in Pids, UNCHANGED <<daemonVars, caller, pgen, cpc>>,
         st[p] \in Alive, NEW s \in Alive, st' = [st EXCEPT ![p] = s],
         peer' \in [Pids -> Clients \cup {None}], sq' \in [Pids -> Seq(Clients)],
         secs' \in [Pids -> Nat], term' \in [Pids -> BOOLEAN],
         sock' \in [Keys -> Pids \cup {None, Stale}],
         msg' \in [Clients -> {"none", "request", "done", "failed"}],
         \A q \in Pids \ {p} : peer'[q] = peer[q] /\ sq'[q] = sq[q],
         runner' \in [Clients -> Callers \cup {None}],
         ServerOk(p)', RunnersOk',
         \A k \in Keys : sock'[k] \in Pids =>
           \/ sock'[k] = p /\ s \in Bound /\ Key(caller[p]) = k
           \/ sock'[k] = sock[k] /\ sock[k] # p
  PROVE  PoolInv'
<1> USE DEF PoolInv
<1>1. TypeOK'
  BY DEF TypeOK, SessPoints
<1>2. st'[p] = s /\ \A q \in Pids \ {p} : st'[q] = st[q]
  BY DEF TypeOK
<1>3. Children' = Children
  BY <1>2 DEF Children, HasParent, Alive, Starting, Listening
<1>4. DaemonOk' /\ PoolTracksChildren' /\ PoolKeysDiffer'
  BY <1>3 DEF DaemonOk, InPool, PoolTracksChildren, PoolKeysDiffer
<1>5. NoDeathForgotten'
  BY <1>2, <1>3 DEF NoDeathForgotten, Alive, Starting, Listening, Children
<1>6. ServersOk'
  <2>1. ASSUME NEW q \in Pids \ {p} PROVE ServerOk(q)'
    <3>1. /\ st'[q] = st[q] /\ caller'[q] = caller[q] /\ peer'[q] = peer[q]
          /\ sq'[q] = sq[q]
      BY <1>2
    <3>2. ServerOk(q)
      BY DEF ServersOk
    <3> QED  BY <3>1, <3>2 DEF ServerOk
  <2> QED  BY <2>1 DEF ServersOk
<1>7. PathsOk'
  <2> SUFFICES ASSUME NEW k \in Keys, sock'[k] \in Pids
               PROVE  st'[sock'[k]] \in Bound /\ Key(caller[sock'[k]]) = k
    BY DEF PathsOk
  <2>1. CASE sock'[k] = p /\ s \in Bound /\ Key(caller[p]) = k
    BY <1>2, <2>1
  <2>2. CASE sock'[k] = sock[k] /\ sock[k] # p
    BY <1>2, <2>2 DEF PathsOk
  <2> QED  BY <2>1, <2>2
<1> QED  BY <1>1, <1>4, <1>5, <1>6, <1>7

(* What the three ends of a job request handler have in common, and what    *)
(* tells them apart: only one that leaves a runner behind says nothing.     *)
HandlerLeaves(p) ==
  /\ st[p] = "busy" /\ Goto(p, "serving")
  /\ peer' = [peer EXCEPT ![p] = None]
  /\ secs' = secs \/ secs' = [secs EXCEPT ![p] = 0]
  /\ \/ /\ runner' = runner
        /\ msg' = msg \/ \E m \in {"done", "failed"} : Reply(peer[p], m)
     \/ runner' = [runner EXCEPT ![peer[p]] = caller[p]] /\ msg' = msg
  /\ UNCHANGED <<daemonVars, caller, pgen, term, sq, sock, cpc>>

LEMMA HandlerStep ==
  ASSUME TypeOK, NEW p \in Pids,
         HandlerRefuses(p) \/ HandlerRunsJob(p) \/ HandlerDetaches(p)
  PROVE  HandlerLeaves(p)
<1>1. secs \in [Pids -> Nat]
  BY DEF TypeOK
<1>2. [secs EXCEPT ![p] = secs[p]] = secs
  BY <1>1
<1> QED
  BY <1>2
  DEF HandlerRefuses, HandlerRunsJob, HandlerDetaches, HandlerExit, RunnerReplies,
      HandlerLeaves

LEMMA ServerStep ==
  ASSUME PoolInv, NEW p \in Pids, SessionStep(p) \/ SessionTerm(p)
  PROVE  PoolInv'
<1> USE DEF PoolInv
<1>1. CASE InitDies(p) \/ SrvListenFails(p) \/ ListenerInitFails(p) \/ SessionExit(p)
  BY <1>1, ExitStep
<1> DEFINE Rest == \/ CloseInherited(p) \/ SrvUnlink(p) \/ SrvBind(p) \/ SrvChown(p)
                   \/ SessionReady(p) \/ SessionFinish(p) \/ SessionPoll(p)
                   \/ SessionTick(p) \/ SessionAccept(p) \/ SessionReject(p)
                   \/ HandlerLeaves(p) \/ SessionTerm(p)
<1>2. CASE Rest
  <2>1. ServerOk(p)
    BY DEF ServersOk
  <2>2. st[p] \in Alive /\ caller[p] \in Callers /\ SocketPath(caller[p]) \in Keys
    <3>1. st[p] \in Alive
      BY <1>2 DEF CloseInherited, SrvUnlink, SrvBind, SrvChown, SessionReady,
                  SessionFinish, SessionPoll, SessionTick, SessionAccept,
                  SessionReject, HandlerLeaves, SessionTerm, Alive, Starting, Listening
    <3> QED  BY <2>1, <3>1, Credentials DEF ServerOk, Alive, Starting, Listening
  <2>3. PICK s \in Alive : st' = [st EXCEPT ![p] = s]
    <3>1. CASE SessionTick(p)
      BY <3>1 DEF SessionTick, Goto, Alive, Listening
    <3>2. CASE SessionTerm(p)
      BY <2>2, <3>2 DEF SessionTerm, TypeOK
    <3>3. CASE ~SessionTick(p) /\ ~SessionTerm(p)
      BY <1>2, <3>3
      DEF CloseInherited, SrvUnlink, SrvBind, SrvChown, SessionReady, SessionFinish,
          SessionPoll, SessionAccept, SessionReject, HandlerLeaves, Goto, Alive,
          Starting, Listening
    <3> QED  BY <3>1, <3>2, <3>3
  <2>4. UNCHANGED <<daemonVars, caller, pgen, cpc>>
    BY <1>2 DEF CloseInherited, SrvUnlink, SrvBind, SrvChown, SessionReady,
                SessionFinish, SessionPoll, SessionTick, SessionAccept,
                SessionReject, HandlerLeaves, SessionTerm
  <2>5. /\ msg' \in [Clients -> {"none", "request", "done", "failed"}]
        /\ secs' \in [Pids -> Nat]
    <3>1. CASE SessionTick(p) \/ HandlerLeaves(p) \/ SessionReady(p)
      <4>1. /\ msg \in [Clients -> {"none", "request", "done", "failed"}]
            /\ secs \in [Pids -> Nat]
        BY DEF TypeOK
      <4>2. msg' = msg \/ \E c, m : m \in {"done", "failed"} /\ Reply(c, m)
        BY <3>1 DEF SessionTick, HandlerLeaves, SessionReady
      <4>3. \/ secs' = secs \/ secs' = [secs EXCEPT ![p] = secs[p] + 1]
            \/ secs' = [secs EXCEPT ![p] = 0]
        BY <3>1 DEF SessionTick, HandlerLeaves, SessionReady
      <4>4. msg' \in [Clients -> {"none", "request", "done", "failed"}]
        BY <4>1, <4>2 DEF Reply
      <4>5. secs' \in [Pids -> Nat]
        BY <4>1, <4>3
      <4> QED  BY <4>4, <4>5
    <3>2. CASE ~SessionTick(p) /\ ~HandlerLeaves(p) /\ ~SessionReady(p)
      <4>1. secs' = secs /\ msg' = msg
        BY <1>2, <3>2
        DEF CloseInherited, SrvUnlink, SrvBind, SrvChown, SessionFinish,
            SessionPoll, SessionAccept, SessionReject, SessionTerm
      <4> QED  BY <4>1 DEF TypeOK
    <3> QED  BY <3>1, <3>2
  <2>6. term' \in [Pids -> BOOLEAN]
    <3>1. CASE SessionTerm(p)
      BY <3>1, Zenon DEF SessionTerm, TypeOK
    <3>2. CASE ~SessionTerm(p)
      <4>1. term' = term
        BY <1>2, <3>2
        DEF CloseInherited, SrvUnlink, SrvBind, SrvChown, SessionReady,
            SessionFinish, SessionPoll, SessionTick, SessionAccept, SessionReject,
            HandlerLeaves
      <4> QED  BY <4>1 DEF TypeOK
    <3> QED  BY <3>1, <3>2
  <2>7. /\ peer' \in [Pids -> Clients \cup {None}] /\ sq' \in [Pids -> Seq(Clients)]
        /\ \A q \in Pids \ {p} : peer'[q] = peer[q] /\ sq'[q] = sq[q]
    <3>1. CASE SessionAccept(p) \/ SessionReject(p)
      <4>1. sq[p] \in Seq(Clients) /\ sq[p] # <<>>
        BY <2>1, <3>1 DEF SessionAccept, SessionReject, ServerOk, TypeOK
      <4>2. Head(sq[p]) \in Clients /\ Tail(sq[p]) \in Seq(Clients)
        BY <4>1
      <4>3. sq' = [sq EXCEPT ![p] = Tail(sq[p])]
            /\ (peer' = peer \/ peer' = [peer EXCEPT ![p] = Head(sq[p])])
        BY <3>1 DEF SessionAccept, SessionReject
      <4>4. /\ sq' \in [Pids -> Seq(Clients)]
            /\ \A q \in Pids \ {p} : sq'[q] = sq[q]
        BY <4>2, <4>3 DEF TypeOK
      <4>5. /\ peer' \in [Pids -> Clients \cup {None}]
            /\ \A q \in Pids \ {p} : peer'[q] = peer[q]
        <5>1. peer \in [Pids -> Clients \cup {None}]
          BY DEF TypeOK
        <5>2. CASE peer' = peer
          BY <5>1, <5>2
        <5>3. CASE peer' = [peer EXCEPT ![p] = Head(sq[p])]
          BY <4>2, <5>1, <5>3
        <5> QED  BY <4>3, <5>2, <5>3
      <4> QED  BY <4>4, <4>5
    <3>2. CASE ~SessionAccept(p) /\ ~SessionReject(p)
      BY <1>2, <3>2
      DEF CloseInherited, SrvUnlink, SrvBind, SrvChown, SessionReady, SessionFinish,
          SessionPoll, SessionTick, HandlerLeaves, SessionTerm, TypeOK
    <3> QED  BY <3>1, <3>2
  <2>8. /\ sock' \in [Keys -> Pids \cup {None, Stale}]
        /\ \A k \in Keys : sock'[k] \in Pids =>
             \/ sock'[k] = p /\ s \in Bound /\ Key(caller[p]) = k
             \/ sock'[k] = sock[k] /\ sock[k] # p
    <3>1. \A k \in Keys : sock[k] = p => st[p] \in Bound /\ Key(caller[p]) = k
      BY DEF PathsOk
    <3>2. st'[p] = s
      BY <2>3 DEF TypeOK
    <3>3. CASE SrvUnlink(p)
      <4>1. st[p] \notin Bound
        BY <3>3 DEF SrvUnlink, Bound, Listening
      <4> QED  BY <2>2, <3>1, <3>3, <4>1 DEF SrvUnlink, TypeOK
    <3>4. CASE SrvBind(p)
      <4>1. st[p] \notin Bound /\ s \in Bound
        BY <2>3, <3>2, <3>4 DEF SrvBind, Goto, Bound, Listening, TypeOK
      <4>2. sock' = [sock EXCEPT ![Key(caller[p])] = p] /\ Key(caller[p]) \in Keys
        BY <2>2, <3>4, Credentials DEF SrvBind
      <4> QED  BY <3>1, <4>1, <4>2 DEF TypeOK
    <3>5. CASE CloseInherited(p)
      <4>1. st[p] \notin Bound /\ sock' = sock
        BY <3>5 DEF CloseInherited, Bound, Listening
      <4> QED  BY <3>1, <4>1 DEF TypeOK
    <3>6. CASE ~SrvUnlink(p) /\ ~SrvBind(p) /\ ~CloseInherited(p)
      <4>1. sock' = sock
        BY <1>2, <3>6
        DEF SrvChown, SessionReady, SessionFinish, SessionPoll, SessionTick,
            SessionAccept, SessionReject, HandlerLeaves, SessionTerm
      <4>2. st'[p] \in Bound
        BY <1>2, <3>6
        DEF SrvChown, SessionReady, SessionFinish, SessionPoll, SessionTick,
            SessionAccept, SessionReject, HandlerLeaves, SessionTerm, Goto, Bound,
            Listening, TypeOK
      <4> QED  BY <3>1, <3>2, <4>1, <4>2 DEF TypeOK
    <3> QED  BY <3>3, <3>4, <3>5, <3>6
  <2>9. ServerOk(p)'
    <3>1. st'[p] = s /\ sq[p] \in Seq(Clients)
      BY <2>3 DEF TypeOK
    <3>2. CASE SessionAccept(p)
      <4>1. /\ st'[p] = "busy" /\ sq'[p] = Tail(sq[p]) /\ peer'[p] = Head(sq[p])
            /\ CheckPeerCreds(p, Head(sq[p])) /\ sq[p] # <<>>
            /\ st[p] = "accepting"
        BY <2>1, <3>2 DEF SessionAccept, Goto, TypeOK, ServerOk
      <4>2. /\ Head(sq[p]) = sq[p][1] /\ Head(sq[p]) \in Clients
            /\ 1 \in 1..Len(sq[p])
        BY <3>1, <4>1
      <4>3. Key(CallerOf[Head(sq[p])]) = Key(caller[p])
        BY <2>1, <4>2 DEF ServerOk
      <4>4. caller[p] = CallerOf[Head(sq[p])]
        BY <2>2, <4>1, <4>2, <4>3, Credentials DEF CheckPeerCreds
      <4>5. \A i \in 1..Len(Tail(sq[p])) : Tail(sq[p])[i] = sq[p][i + 1]
                                         /\ i + 1 \in 1..Len(sq[p])
        BY <3>1, <4>1
      <4> QED  BY <2>1, <2>4, <4>1, <4>2, <4>4, <4>5
               DEF ServerOk, Checked, Bound, Listening
    <3>3. CASE SessionReject(p)
      <4>1. /\ st'[p] = "serving" /\ sq'[p] = Tail(sq[p]) /\ sq[p] # <<>>
            /\ st[p] = "accepting"
        BY <2>1, <3>3 DEF SessionReject, Goto, TypeOK, ServerOk
      <4>2. \A i \in 1..Len(Tail(sq[p])) : Tail(sq[p])[i] = sq[p][i + 1]
                                         /\ i + 1 \in 1..Len(sq[p])
        BY <3>1, <4>1
      <4>3. peer'[p] = None
        BY <2>1, <3>3 DEF SessionReject, ServerOk
      <4> QED  BY <2>1, <2>4, <4>1, <4>2, <4>3 DEF ServerOk, Checked, Bound, Listening
    <3>4. CASE SessionTerm(p)
      BY <2>1, <2>4, <3>4 DEF SessionTerm, ServerOk
    <3>5. CASE \/ CloseInherited(p) \/ SrvUnlink(p) \/ SrvBind(p) \/ SrvChown(p)
      <4>1. sq' = sq
        BY <3>5 DEF CloseInherited, SrvUnlink, SrvBind, SrvChown
      <4> QED  BY <2>1, <2>4, <3>5, <4>1
               DEF CloseInherited, SrvUnlink, SrvBind, SrvChown, Goto, ServerOk,
                   Checked, Bound, Listening, TypeOK
    <3>6. CASE \/ SessionReady(p) \/ SessionFinish(p) \/ SessionPoll(p)
               \/ SessionTick(p) \/ HandlerLeaves(p)
      <4>1. sq' = sq /\ st[p] \in Listening /\ st'[p] \in Listening \ {"busy"}
            /\ (st'[p] = "accepting" => sq[p] # <<>>)
        BY <3>6 DEF SessionReady, SessionFinish, SessionPoll, SessionTick,
                    HandlerLeaves, Goto, Listening, TypeOK
      <4>2. peer'[p] = None
        BY <2>1, <3>6 DEF SessionReady, SessionFinish, SessionPoll, SessionTick,
                          HandlerLeaves, ServerOk, TypeOK
      <4> QED  BY <2>1, <2>4, <4>1, <4>2 DEF ServerOk, Checked, Bound, Listening
    <3> QED  BY <1>2, <3>2, <3>3, <3>4, <3>5, <3>6
  <2>10. /\ runner' \in [Clients -> Callers \cup {None}]
         /\ RunnersOk'
    <3>1. CASE runner' = runner
      BY <3>1 DEF RunnersOk, TypeOK
    <3>2. CASE HandlerLeaves(p) /\ runner' = [runner EXCEPT ![peer[p]] = caller[p]]
      <4>1. /\ caller[p] = CallerOf[peer[p]] /\ peer[p] \in Clients
            /\ Entitled(caller[p])
        BY <2>1, <3>2 DEF HandlerLeaves, ServerOk, Checked, Bound, Listening,
                          Entitled, ValidPeer
      <4>2. runner \in [Clients -> Callers \cup {None}]
        BY DEF TypeOK
      <4> QED  BY <2>2, <3>2, <4>1, <4>2 DEF RunnersOk
    <3>3. runner' = runner \/ HandlerLeaves(p)
      BY <1>2 DEF CloseInherited, SrvUnlink, SrvBind, SrvChown, SessionReady,
                  SessionFinish, SessionPoll, SessionTick, SessionAccept,
                  SessionReject, SessionTerm
    <3> QED  BY <3>1, <3>2, <3>3 DEF HandlerLeaves
  <2> QED  BY <2>2, <2>3, <2>4, <2>5, <2>6, <2>7, <2>8, <2>9, <2>10, MoveKeeps
<1> QED  BY <1>1, <1>2, HandlerStep DEF SessionStep

(***************************************************************************)
(* The clients.  One that connects by the path of its key waits at a server *)
(* of that key, whatever happened to the path before.                       *)
(***************************************************************************)
LEMMA ConnectKeeps ==
  ASSUME PoolInv, NEW c \in Clients, ConnectSession(c),
         \E s \in ClientPoints : cpc' = [cpc EXCEPT ![c] = s]
  PROVE  PoolInv'
<1> USE DEF PoolInv
<1>1. SocketPath(CallerOf[c]) = Key(CallerOf[c]) /\ Key(CallerOf[c]) \in Keys
  BY Credentials
<1>2. PICK p \in Pids : /\ p = sock[Key(CallerOf[c])] /\ st[p] \in Listening
                       /\ Key(caller[p]) = Key(CallerOf[c])
  BY <1>1 DEF ConnectSession, Reachable, PathsOk
<1>3. /\ sq' = [sq EXCEPT ![p] = Append(sq[p], c)]
      /\ UNCHANGED <<daemonVars, st, caller, peer, secs, pgen, term, runner, sock, msg>>
  BY <1>1, <1>2 DEF ConnectSession
<1>4. TypeOK'
  <2>1. cpc' \in [Clients -> ClientPoints]
    BY DEF TypeOK
  <2>2. sq' \in [Pids -> Seq(Clients)]
    BY <1>2, <1>3 DEF TypeOK
  <2> QED  BY <1>3, <2>1, <2>2 DEF TypeOK
<1>5. Children' = Children
  BY <1>3 DEF Children, HasParent
<1>6. /\ DaemonOk' /\ PoolTracksChildren' /\ PoolKeysDiffer' /\ NoDeathForgotten'
      /\ PathsOk' /\ RunnersOk'
  BY <1>3, <1>5 DEF DaemonOk, InPool, PoolTracksChildren, PoolKeysDiffer,
                    NoDeathForgotten, PathsOk, RunnersOk
<1>7. ServersOk'
  <2>1. ASSUME NEW q \in Pids \ {p} PROVE ServerOk(q)'
    <3>1. sq'[q] = sq[q]
      BY <1>3 DEF TypeOK
    <3> QED  BY <1>3, <3>1 DEF ServersOk, ServerOk
  <2>2. ServerOk(p)'
    <3>1. ServerOk(p) /\ sq[p] \in Seq(Clients) /\ sq'[p] = Append(sq[p], c)
      BY <1>2, <1>3 DEF ServersOk, TypeOK
    <3>2. sq'[p] # <<>> /\ Len(sq[p]) \in Nat /\ Len(sq'[p]) = Len(sq[p]) + 1
      BY <3>1
    <3>3. ASSUME NEW i \in 1..Len(sq'[p])
          PROVE  Key(CallerOf[sq'[p][i]]) = Key(caller[p])
      <4>1. CASE i \in 1..Len(sq[p])
        <5>1. sq'[p][i] = sq[p][i]
          BY <3>1, <4>1
        <5> QED  BY <3>1, <4>1, <5>1 DEF ServerOk
      <4>2. CASE i = Len(sq[p]) + 1
        <5>1. sq'[p][i] = c
          BY <3>1, <4>2
        <5> QED  BY <1>2, <5>1
      <4> QED  BY <3>2, <4>1, <4>2
    <3> QED  BY <1>2, <1>3, <3>1, <3>2, <3>3 DEF ServerOk
  <2> QED  BY <2>1, <2>2 DEF ServersOk
<1> QED  BY <1>4, <1>6, <1>7

LEMMA ClientStepKeeps ==
  ASSUME PoolInv, NEW c \in Clients,
         \/ ClientStep(c) \/ SendRequest(c) \/ ClientKilled(c) \/ ClientRestart(c)
  PROVE  PoolInv'
<1> USE DEF PoolInv
<1>1. \E s \in ClientPoints : cpc' = [cpc EXCEPT ![c] = s]
  <2>1. CASE RecvJobResponse(c)
    BY <2>1 DEF RecvJobResponse, ClientGoto, ClientPoints
  <2>2. CASE RecvResponse(c)
    BY <2>2 DEF RecvResponse, ClientGoto, ClientPoints
  <2>3. CASE TryConnect(c) \/ Reconnect(c) \/ AskDaemon(c)
    BY <2>3 DEF TryConnect, Reconnect, AskDaemon, ConnectSession, ClientGoto,
                ClientPoints
  <2>4. CASE RecvEOF(c) \/ SendRequest(c) \/ ClientKilled(c) \/ ClientRestart(c)
    BY <2>4 DEF RecvEOF, SendRequest, ClientKilled, ClientRestart, ClientGoto,
                ClientPoints
  <2> QED  BY <2>1, <2>2, <2>3, <2>4 DEF ClientStep
<1>2. CASE ConnectSession(c)
  BY <1>1, <1>2, ConnectKeeps
<1>3. CASE ~ConnectSession(c)
  <2>1. /\ UNCHANGED <<dpc, ready, pending, conn, child, pool, gen, sessVars, sock>>
        /\ \/ queue' = queue \/ queue' = Append(queue, c)
    BY <1>3 DEF ClientStep, TryConnect, AskDaemon, RecvResponse, Reconnect,
                RecvJobResponse, RecvEOF, SendRequest, ClientKilled, ClientRestart
  <2>2. queue' \in Seq(Clients) /\ (queue # <<>> => queue' # <<>>)
    <3>1. queue \in Seq(Clients)
      BY DEF TypeOK
    <3>2. CASE queue' = queue
      BY <3>1, <3>2
    <3>3. CASE queue' = Append(queue, c)
      BY <3>1, <3>3
    <3> QED  BY <2>1, <3>2, <3>3
  <2>3. msg' \in [Clients -> {"none", "request", "done", "failed"}]
    <3>1. msg' = msg \/ \E m \in {"none", "request"} : Reply(c, m)
      BY <1>3 DEF ClientStep, TryConnect, AskDaemon, RecvResponse, Reconnect,
                  RecvJobResponse, RecvEOF, SendRequest, ClientKilled, ClientRestart
    <3>2. msg \in [Clients -> {"none", "request", "done", "failed"}]
      BY DEF TypeOK
    <3> QED  BY <3>1, <3>2 DEF Reply
  <2>4. cpc' \in [Clients -> ClientPoints]
    BY <1>1 DEF TypeOK
  <2>5. TypeOK'
    BY <2>1, <2>2, <2>3, <2>4 DEF TypeOK
  <2>6. Children' = Children
    BY <2>1 DEF Children, HasParent
  <2>7. DaemonOk' /\ PoolTracksChildren' /\ PoolKeysDiffer' /\ NoDeathForgotten'
    BY <2>1, <2>2, <2>6 DEF DaemonOk, InPool, PoolTracksChildren, PoolKeysDiffer,
                            NoDeathForgotten
  <2>8. ServersOk' /\ RunnersOk' /\ PathsOk'
    BY <2>1 DEF ServersOk, ServerOk, RunnersOk, PathsOk
  <2> QED  BY <2>5, <2>7, <2>8
<1> QED  BY <1>2, <1>3

(* The runner of a chrootuid job ends: it concerns its client only.         *)
LEMMA RunnerStep ==
  ASSUME PoolInv, NEW c \in Clients, RunnerEnds(c)
  PROVE  PoolInv'
<1> USE DEF PoolInv
<1>1. /\ UNCHANGED <<daemonVars, st, caller, peer, secs, pgen, term, sq, sock, cpc>>
      /\ runner' = [runner EXCEPT ![c] = None]
      /\ msg' = msg \/ \E m \in {"done", "failed"} : Reply(c, m)
  BY DEF RunnerEnds, RunnerReplies
<1>2. /\ msg' \in [Clients -> {"none", "request", "done", "failed"}]
      /\ runner' \in [Clients -> Callers \cup {None}]
      /\ \A d \in Clients : runner'[d] = runner[d] \/ runner'[d] = None
  BY <1>1 DEF TypeOK, Reply
<1>3. TypeOK' /\ Children' = Children
  BY <1>1, <1>2 DEF TypeOK, Children, HasParent
<1>4. DaemonOk' /\ PoolTracksChildren' /\ PoolKeysDiffer' /\ NoDeathForgotten'
  BY <1>1, <1>3 DEF DaemonOk, InPool, PoolTracksChildren, PoolKeysDiffer,
                    NoDeathForgotten
<1>5. ServersOk' /\ RunnersOk' /\ PathsOk'
  BY <1>1, <1>2 DEF ServersOk, ServerOk, RunnersOk, PathsOk
<1> QED  BY <1>3, <1>4, <1>5

LEMMA StutterStep ==
  ASSUME PoolInv, UNCHANGED vars
  PROVE  PoolInv'
<1> USE DEF PoolInv
<1>1. TypeOK' /\ Children' = Children
  BY DEF TypeOK, Children, HasParent
<1>2. DaemonOk' /\ PoolTracksChildren' /\ PoolKeysDiffer' /\ NoDeathForgotten'
  BY <1>1 DEF DaemonOk, InPool, PoolTracksChildren, PoolKeysDiffer,
              NoDeathForgotten
<1>3. ServersOk' /\ RunnersOk' /\ PathsOk'
  BY DEF ServersOk, ServerOk, RunnersOk, PathsOk
<1> QED  BY <1>1, <1>2, <1>3

(* Two children differ in their keys: both have records, or one of them is  *)
(* the child just forked, for which the pool had none.                      *)
LEMMA DistinctKeys == PoolInv => OneServerPerKey
<1> SUFFICES ASSUME PoolInv, NEW p \in Children, NEW q \in Children, p # q,
                    Key(caller[p]) = Key(caller[q])
             PROVE  FALSE
  BY DEF OneServerPerKey
<1> USE DEF PoolInv
<1>1. /\ {r.pid : r \in pool} = Children \ {child}
      /\ \A r \in pool : caller[r.pid] = r.caller
  BY DEF PoolTracksChildren
<1>2. CASE p # child /\ q # child
  BY <1>1, <1>2 DEF PoolKeysDiffer
<1>3. CASE p = child \/ q = child
  <2>1. child # None
    BY <1>3 DEF Children
  <2>2. ~InPool(CallerOf[conn]) /\ caller[child] = CallerOf[conn]
    BY <2>1 DEF DaemonOk
  <2> QED  BY <1>1, <1>3, <2>2 DEF InPool
<1> QED  BY <1>2, <1>3

LEMMA NextStep == PoolInv /\ [Next]_vars => PoolInv'
<1> SUFFICES ASSUME PoolInv, [Next]_vars PROVE PoolInv'
  OBVIOUS
<1>1. CASE DaemonStep
  BY <1>1, DaemonLoopStep, AppendStep, ReapStep, ForkStep DEF DaemonStep
<1>2. CASE \E p \in Pids : SessionStep(p)
  BY <1>2, ServerStep
<1>3. CASE \E c \in Clients : ClientStep(c)
  BY <1>3, ClientStepKeeps
<1>4. CASE Environment
  BY <1>4, SendTermStep, CrashStep, DaemonLoopStep, ServerStep, RunnerStep,
     ClientStepKeeps
  DEF Environment
<1>5. CASE UNCHANGED vars
  BY <1>5, StutterStep
<1> QED  BY <1>1, <1>2, <1>3, <1>4, <1>5 DEF Next

-----------------------------------------------------------------------------
(* The daemon, its session servers and its clients keep the invariant,      *)
(* whoever dies and whenever the daemon is started again.                   *)
THEOREM PoolIsInvariant == Spec => []PoolInv
BY InitStep, NextStep, PTL DEF Spec

(* struct session, the state of the servers and what a client has been told *)
(* keep their types.                                                        *)
THEOREM PoolIsTyped == Spec => []TypeOK
<1>1. PoolInv => TypeOK
  BY DEF PoolInv
<1> QED  BY <1>1, PoolIsInvariant, PTL

(* The pool of start_session and wait_sessions is the set of the children   *)
(* that were not reaped: fork and append_session, and the removal and       *)
(* waitpid, are never torn apart by a signal or the end of the daemon.      *)
THEOREM PoolIsTrue == Spec => []PoolTracksChildren
<1>1. PoolInv => PoolTracksChildren
  BY DEF PoolInv
<1> QED  BY <1>1, PoolIsInvariant, PTL

(* A server that died is reaped, or SIGCHLD is pending for the daemon, or   *)
(* it is on its way to waitpid: one signal may stand for many deaths.       *)
THEOREM DeathsAreKnown == Spec => []NoDeathForgotten
<1>1. PoolInv => NoDeathForgotten
  BY DEF PoolInv
<1> QED  BY <1>1, PoolIsInvariant, PTL

(* start_session never gives a pair (uid, num) a second server.             *)
THEOREM KeysHaveOneServer == Spec => []OneServerPerKey
BY DistinctKeys, PoolIsInvariant, PTL

(* A job request is served by a server opened for exactly its credentials,  *)
(* and its job runs with them while the server serves others or is gone,    *)
(* though start_session compares uids and numbers only.                     *)
THEOREM CredentialsMatch == Spec => []ServedCreds
<1>1. PoolInv => ServedCreds
  BY DEF PoolInv, ServersOk, ServerOk, RunnersOk, ServedCreds, Entitled, ValidPeer,
         Checked, Bound, Listening
<1> QED  BY <1>1, PoolIsInvariant, PTL

-----------------------------------------------------------------------------
(***************************************************************************)
(* While the daemon is not killed, each session server is its child, so two *)
(* servers never share a path.                                              *)
(***************************************************************************)
LifeInv == PoolInv /\ NoOrphans /\ PathsLead

(* A step of session server p touches no path but its own.                  *)
LEMMA OwnPathOnly ==
  ASSUME LifeInv, NEW p \in Pids, SessionStep(p) \/ SessionTerm(p)
  PROVE  /\ p \in Children
         /\ \A k \in Keys : k # Key(caller[p]) => sock'[k] = sock[k]
         /\ \A q \in Pids \ {p} : /\ st'[q] = st[q] /\ caller'[q] = caller[q]
                                 /\ pgen'[q] = pgen[q]
         /\ UNCHANGED <<caller, pgen, dpc, gen>>
         /\ st'[p] \in Bound => sock'[Key(caller[p])] = p
<1> USE DEF LifeInv, PoolInv
<1>1. p \in Children /\ HasParent(p)
  <2>1. st[p] # "free"
    BY DEF SessionStep, CloseInherited, InitDies, SrvUnlink, SrvBind,
           SrvListenFails, SrvChown, ListenerInitFails, SessionReady,
           SessionFinish, SessionPoll, SessionTick, SessionAccept,
           SessionReject, HandlerRefuses, HandlerRunsJob, HandlerDetaches,
           HandlerExit, SessionExit, SessionTerm
  <2> QED  BY <2>1 DEF NoOrphans, Children
<1>2. caller[p] \in Callers /\ SocketPath(caller[p]) = Key(caller[p])
      /\ Key(caller[p]) \in Keys
  BY <1>1, Credentials DEF ServersOk, ServerOk, Children
<1>3. st[p] \in Bound => sock[Key(caller[p])] = p
  BY <1>2 DEF PathsLead
<1>4. CASE InitDies(p) \/ SrvListenFails(p) \/ ListenerInitFails(p) \/ SessionExit(p)
  <2>1. /\ st' = [st EXCEPT ![p] = "zombie"]
        /\ caller' = [caller EXCEPT ![p] = caller[p]]
        /\ pgen' = [pgen EXCEPT ![p] = pgen[p]] /\ dpc' = dpc /\ gen' = gen
    BY <1>1, <1>4
    DEF InitDies, SrvListenFails, ListenerInitFails, SessionExit, Exit
  <2>2. UNCHANGED <<caller, pgen>> /\ st'[p] = "zombie"
        /\ \A q \in Pids \ {p} : st'[q] = st[q]
    BY <2>1 DEF TypeOK
  <2>3. \A k \in Keys : k # Key(caller[p]) => sock'[k] = sock[k]
    <3>1. sock' = sock \/ \E v : sock' = [sock EXCEPT ![Key(caller[p])] = v]
      BY <1>2, <1>4 DEF InitDies, SrvListenFails, ListenerInitFails, SessionExit
    <3> QED  BY <3>1 DEF TypeOK
  <2> QED  BY <1>1, <2>1, <2>2, <2>3 DEF Bound, Listening
<1>5. CASE SrvUnlink(p) \/ SrvBind(p)
  <2>1. UNCHANGED <<caller, pgen, dpc, gen>>
    BY <1>5 DEF SrvUnlink, SrvBind
  <2>2. /\ \E v : sock' = [sock EXCEPT ![Key(caller[p])] = v]
        /\ SrvBind(p) => sock' = [sock EXCEPT ![Key(caller[p])] = p]
    BY <1>2, <1>5 DEF SrvUnlink, SrvBind
  <2>3. /\ \A q \in Pids \ {p} : st'[q] = st[q]
        /\ SrvUnlink(p) => st'[p] = "unlinked"
    BY <1>5 DEF SrvUnlink, SrvBind, Goto, TypeOK
  <2> QED  BY <1>1, <1>2, <1>5, <2>1, <2>2, <2>3 DEF TypeOK, Bound, Listening
<1>6. CASE \/ CloseInherited(p) \/ SrvChown(p) \/ SessionReady(p)
           \/ SessionFinish(p) \/ SessionPoll(p) \/ SessionTick(p)
           \/ SessionAccept(p) \/ SessionReject(p) \/ HandlerLeaves(p)
           \/ SessionTerm(p)
  <2>1. UNCHANGED <<caller, pgen, dpc, gen, sock>>
    BY <1>6 DEF CloseInherited, SrvChown, SessionReady, SessionFinish,
                SessionPoll, SessionTick, SessionAccept, SessionReject,
                HandlerLeaves, SessionTerm
  <2>2. st' = st \/ \E s : st' = [st EXCEPT ![p] = s]
    BY <1>6 DEF CloseInherited, SrvChown, SessionReady, SessionFinish,
                SessionPoll, SessionTick, SessionAccept, SessionReject,
                HandlerLeaves, SessionTerm, Goto
  <2>3. st[p] \in Bound \/ st'[p] \notin Bound
    BY <1>6 DEF CloseInherited, SrvChown, SessionReady, SessionFinish,
                SessionPoll, SessionTick, SessionAccept, SessionReject,
                HandlerLeaves, SessionTerm, Goto, Bound, Listening, TypeOK
  <2> QED  BY <1>1, <1>3, <2>1, <2>2, <2>3 DEF TypeOK
<1> QED  BY <1>4, <1>5, <1>6, HandlerStep DEF SessionStep

LEMMA LifeStep ==
  ASSUME "crash" \notin Events, LifeInv, [Next]_vars
  PROVE  LifeInv'
<1> USE DEF LifeInv
<1>1. PoolInv'
  BY NextStep
<1>2. CASE \/ DaemonPoll \/ DaemonSignals \/ ReapDone \/ DaemonAccept \/ RecvFail
           \/ RequestFailed \/ ReuseSession \/ AppendSession \/ SendTerm
  <2>1. UNCHANGED <<st, caller, pgen, gen, sock>> /\ dpc # "down" /\ dpc' # "down"
    BY <1>2 DEF DaemonPoll, DaemonSignals, ReapDone, DaemonAccept, RecvFail,
                RequestFailed, ReuseSession, AppendSession, SendTerm, CloseConn
  <2> QED  BY <1>1, <2>1 DEF NoOrphans, HasParent, PathsLead
<1>3. CASE DaemonExit \/ DaemonStart
  <2>1. UNCHANGED <<st, caller, pgen, sock>> /\ Children = {}
    BY <1>3 DEF DaemonExit, DaemonStart, Children, HasParent
  <2>2. \A p \in Pids : st[p] = "free"
    BY <2>1 DEF NoOrphans, Children
  <2> QED  BY <1>1, <2>1, <2>2 DEF NoOrphans, PathsLead
<1>4. ASSUME NEW p \in Pids, Reap(p) \/ ForkSession(p)
      PROVE  LifeInv'
  <2>1. /\ \A q \in Pids \ {p} : /\ st'[q] = st[q] /\ caller'[q] = caller[q]
                                /\ pgen'[q] = pgen[q]
        /\ st'[p] = "free" \/ (st'[p] = "forked" /\ pgen'[p] = gen)
        /\ gen' = gen /\ sock' = sock /\ dpc # "down" /\ dpc' # "down"
    BY <1>4 DEF Reap, ForkSession, PoolInv, TypeOK
  <2> QED  BY <1>1, <2>1 DEF NoOrphans, HasParent, PathsLead, Bound, Listening
<1>5. ASSUME NEW p \in Pids, SessionStep(p) \/ SessionTerm(p)
      PROVE  LifeInv'
  <2>1. /\ p \in Children
        /\ \A k \in Keys : k # Key(caller[p]) => sock'[k] = sock[k]
        /\ \A q \in Pids \ {p} : st'[q] = st[q]
        /\ UNCHANGED <<caller, pgen, dpc, gen>>
        /\ st'[p] \in Bound => sock'[Key(caller[p])] = p
    BY <1>5, OwnPathOnly
  <2>2. NoOrphans'
    BY <2>1 DEF NoOrphans, HasParent, Children
  <2>3. ASSUME NEW q \in Pids, st'[q] \in Bound
        PROVE  sock'[SocketPath(caller[q])] = q
    <3>1. caller[q] \in Callers
      <4>1. ServerOk(q)'
        BY <1>1 DEF PoolInv, ServersOk
      <4>2. st'[q] # "free"
        BY <2>3 DEF Bound, Listening
      <4> QED  BY <2>1, <4>1, <4>2 DEF ServerOk
    <3>2. SocketPath(caller[q]) = Key(caller[q]) /\ Key(caller[q]) \in Keys
      BY <3>1, Credentials
    <3>3. CASE q = p
      BY <2>1, <2>3, <3>2, <3>3
    <3>4. CASE q # p
      <4>1. st[q] \in Bound /\ q \in Children
        BY <2>1, <2>3, <3>4 DEF NoOrphans, Children, Bound, Listening
      <4>2. Key(caller[q]) # Key(caller[p])
        BY <2>1, <3>4, <4>1, DistinctKeys DEF OneServerPerKey
      <4> QED  BY <2>1, <3>2, <4>1, <4>2 DEF PathsLead
    <3> QED  BY <3>3, <3>4
  <2> QED  BY <1>1, <2>1, <2>2, <2>3 DEF PathsLead
<1>6. ASSUME NEW c \in Clients,
             \/ ClientStep(c) \/ SendRequest(c) \/ ClientKilled(c) \/ ClientRestart(c)
             \/ RunnerEnds(c)
      PROVE  LifeInv'
  <2>1. UNCHANGED <<st, caller, pgen, gen, dpc, sock>>
    BY <1>6 DEF ClientStep, TryConnect, ConnectSession, AskDaemon, RecvResponse,
                Reconnect, RecvJobResponse, RecvEOF, SendRequest, ClientKilled,
                ClientRestart, RunnerEnds
  <2> QED  BY <1>1, <2>1 DEF NoOrphans, HasParent, PathsLead
<1>7. CASE UNCHANGED vars
  BY <1>1, <1>7 DEF NoOrphans, HasParent, PathsLead
<1>8. ~DaemonCrash
  BY DEF DaemonCrash
<1> QED  BY <1>2, <1>3, <1>4, <1>5, <1>6, <1>7, <1>8
         DEF Next, DaemonStep, Environment

(* As long as the daemon is not killed, also through stops and starts, the  *)
(* path of a listening session server leads to it.                          *)
THEOREM PathsLeadToServers ==
  ASSUME "crash" \notin Events
  PROVE  Spec => []SocketLeadsToServer
<1>1. Init => LifeInv
  <2>1. Init => NoOrphans /\ PathsLead
    BY DEF Init, NoOrphans, PathsLead, Bound, Listening
  <2> QED  BY <2>1, InitStep DEF LifeInv
<1>2. LifeInv /\ [Next]_vars => LifeInv'
  BY LifeStep
<1>3. LifeInv => SocketLeadsToServer
  BY DEF LifeInv, PathsLead, SocketLeadsToServer, Bound
<1> QED  BY <1>1, <1>2, <1>3, PTL DEF Spec

-----------------------------------------------------------------------------
(***************************************************************************)
(* The session layer implements SessionService.  What the mapping needs is  *)
(* where the server end of a connection is: in the backlog of the daemon,   *)
(* with the daemon, in the hand of a server that starts, in the backlog of  *)
(* a server, with its job request handler or with a runner.  It is in one   *)
(* place at most, and while it is there its client has not been answered.   *)
(***************************************************************************)
HandPoints == Starting \cup {"listening"}

InQueue(c) == c \in Range(queue)
InConn(c) == dpc = "recv" /\ conn = c
InHand(c, p) == st[p] \in HandPoints /\ peer[p] = c
InLine(c, p) == c \in Range(sq[p])
InJob(c, p) == st[p] = "busy" /\ peer[p] = c
InRunner(c) == runner[c] # None

Asking(c) == InQueue(c) \/ InConn(c) \/ \E p \in Pids : InHand(c, p)
Waiting(c) == InRunner(c) \/ \E p \in Pids : InLine(c, p) \/ InJob(c, p)

OnePlace(c) ==
  /\ ~(InQueue(c) /\ InConn(c))
  /\ \A p \in Pids : InHand(c, p) =>
       ~InQueue(c) /\ ~InConn(c) /\ \A q \in Pids : InHand(c, q) => q = p
  /\ \A p, q \in Pids : InLine(c, p) /\ InLine(c, q) => p = q
  /\ \A p, q \in Pids : InJob(c, p) => ~InLine(c, q) /\ (InJob(c, q) => p = q)
  /\ InRunner(c) => \A p \in Pids : ~InLine(c, p) /\ ~InJob(c, p)

ClientOk(c) ==
  /\ ~(Asking(c) /\ Waiting(c))
  /\ Asking(c) => /\ cpc[c] \in {"connected", "wait", "gone"}
                  /\ cpc[c] # "gone" => msg[c] \in {"none", "request"}
  /\ Waiting(c) => /\ cpc[c] \in {"sess", "gone"}
                   /\ cpc[c] # "gone" => msg[c] = "none"
  /\ cpc[c] \notin {"connected", "wait", "sess", "gone"} => msg[c] = "none"
  /\ cpc[c] = "sess" => msg[c] # "request"

(* No client is twice in a backlog.                                         *)
Orderly == IsInjective(queue) /\ \A p \in Pids : IsInjective(sq[p])

ConnInv == Orderly /\ \A c \in Clients : OnePlace(c) /\ ClientOk(c)

(* The connection of c has not moved, unless it was closed.                 *)
NotMoved(c) ==
  /\ InQueue(c)' => InQueue(c)
  /\ InConn(c)' => InConn(c)
  /\ InRunner(c)' => InRunner(c)
  /\ \A p \in Pids : /\ InHand(c, p)' => InHand(c, p)
                     /\ InLine(c, p)' => InLine(c, p)
                     /\ InJob(c, p)' => InJob(c, p)

LEMMA StaysInPlace ==
  ASSUME NEW c \in Clients, OnePlace(c), NotMoved(c)
  PROVE  /\ OnePlace(c)'
         /\ Asking(c)' => Asking(c)
         /\ Waiting(c)' => Waiting(c)
BY DEF OnePlace, NotMoved, Asking, Waiting

LEMMA Stays ==
  ASSUME NEW c \in Clients, OnePlace(c), ClientOk(c), NotMoved(c),
         cpc'[c] = cpc[c], msg'[c] = msg[c]
  PROVE  OnePlace(c)' /\ ClientOk(c)'
BY StaysInPlace DEF ClientOk

(* A client is answered and nobody holds its connection any more.           *)
LEMMA Answered ==
  ASSUME NEW c \in Clients, OnePlace(c), NotMoved(c), ~Asking(c)', ~Waiting(c)',
         cpc'[c] \in {"connected", "wait", "sess", "gone"},
         msg'[c] \in {"done", "failed"}
  PROVE  OnePlace(c)' /\ ClientOk(c)'
BY StaysInPlace DEF ClientOk

(* The sequences of clients.                                                *)
LEMMA RangeOfEmpty == Range(<<>>) = {} /\ IsInjective(<<>>)
BY DEF Range, IsInjective

LEMMA TailFacts ==
  ASSUME NEW S, NEW s \in Seq(S), s # <<>>, IsInjective(s)
  PROVE  /\ IsInjective(Tail(s))
         /\ Range(Tail(s)) \subseteq Range(s) \ {Head(s)}
         /\ Head(s) \in Range(s) /\ Head(s) \in S
<1>1. /\ Len(s) \in Nat /\ Len(s) >= 1 /\ DOMAIN s = 1..Len(s)
      /\ Head(s) = s[1] /\ Tail(s) \in Seq(S)
      /\ Len(Tail(s)) = Len(s) - 1 /\ DOMAIN Tail(s) = 1..Len(Tail(s))
  OBVIOUS
<1>2. \A i \in 1..Len(Tail(s)) : Tail(s)[i] = s[i + 1]
  BY <1>1
<1>3. IsInjective(Tail(s))
  BY <1>1, <1>2 DEF IsInjective
<1>4. ASSUME NEW i \in 1..Len(Tail(s))
      PROVE  Tail(s)[i] \in Range(s) /\ Tail(s)[i] # Head(s)
  BY <1>1, <1>2 DEF IsInjective, Range
<1>5. Head(s) \in Range(s) /\ Head(s) \in S
  BY <1>1 DEF Range
<1> QED  BY <1>1, <1>3, <1>4, <1>5 DEF Range

LEMMA AppendFacts ==
  ASSUME NEW S, NEW s \in Seq(S), NEW c \in S
  PROVE  /\ Range(Append(s, c)) = Range(s) \cup {c}
         /\ IsInjective(s) /\ c \notin Range(s) => IsInjective(Append(s, c))
<1>1. /\ Len(s) \in Nat /\ DOMAIN s = 1..Len(s)
      /\ DOMAIN Append(s, c) = 1..(Len(s) + 1)
      /\ Append(s, c)[Len(s) + 1] = c
      /\ \A i \in 1..Len(s) : Append(s, c)[i] = s[i]
  OBVIOUS
<1>2. 1..(Len(s) + 1) = 1..Len(s) \cup {Len(s) + 1}
  BY <1>1
<1>3. Range(Append(s, c)) = Range(s) \cup {c}
  BY <1>1, <1>2 DEF Range
<1>4. ASSUME IsInjective(s), c \notin Range(s),
             NEW i \in 1..(Len(s) + 1), NEW j \in 1..(Len(s) + 1),
             Append(s, c)[i] = Append(s, c)[j]
      PROVE  i = j
  BY <1>1, <1>2, <1>4 DEF IsInjective, Range
<1> QED  BY <1>1, <1>3, <1>4 DEF IsInjective

(* Whatever servers and daemon do to connections they only drop.            *)
LEMMA DropsOrRuns ==
  ASSUME PoolInv, Orderly,
         queue' = queue \/ queue' = <<>>,
         dpc' # "recv" \/ UNCHANGED <<dpc, conn>>,
         \A p \in Pids :
           /\ sq'[p] = sq[p] \/ sq'[p] = <<>>
           /\ \/ st'[p] \notin HandPoints \cup {"busy"}
              \/ /\ peer'[p] = peer[p]
                 /\ st'[p] \in HandPoints => st[p] \in HandPoints
                 /\ st'[p] = "busy" => st[p] = "busy"
  PROVE  Orderly' /\ \A c \in Clients : (InRunner(c)' => InRunner(c)) => NotMoved(c)
<1>1. Orderly'
  BY RangeOfEmpty DEF Orderly
<1>2. ASSUME NEW c \in Clients, InRunner(c)' => InRunner(c) PROVE NotMoved(c)
  <2>1. (InQueue(c)' => InQueue(c)) /\ (InConn(c)' => InConn(c))
    BY RangeOfEmpty DEF InQueue, InConn
  <2>2. ASSUME NEW p \in Pids
        PROVE  /\ InHand(c, p)' => InHand(c, p)
               /\ InLine(c, p)' => InLine(c, p)
               /\ InJob(c, p)' => InJob(c, p)
    <3>1. InLine(c, p)' => InLine(c, p)
      BY RangeOfEmpty DEF InLine
    <3>2. "busy" \notin HandPoints
      BY DEF HandPoints, Starting
    <3>3. (InHand(c, p)' => InHand(c, p)) /\ (InJob(c, p)' => InJob(c, p))
      BY <3>2 DEF InHand, InJob
    <3> QED  BY <3>1, <3>3
  <2> QED  BY <1>2, <2>1, <2>2 DEF NotMoved
<1> QED  BY <1>1, <1>2

LEMMA Drops ==
  ASSUME PoolInv, Orderly, runner' = runner,
         queue' = queue \/ queue' = <<>>,
         dpc' # "recv" \/ UNCHANGED <<dpc, conn>>,
         \A p \in Pids :
           /\ sq'[p] = sq[p] \/ sq'[p] = <<>>
           /\ \/ st'[p] \notin HandPoints \cup {"busy"}
              \/ /\ peer'[p] = peer[p]
                 /\ st'[p] \in HandPoints => st[p] \in HandPoints
                 /\ st'[p] = "busy" => st[p] = "busy"
  PROVE  Orderly' /\ \A c \in Clients : NotMoved(c)
<1>1. \A c \in Clients : InRunner(c)' => InRunner(c)
  BY DEF InRunner
<1> QED  BY <1>1, DropsOrRuns

(* The steps in which nobody is answered and no connection handed on.       *)
LEMMA QuietStep ==
  ASSUME PoolInv, ConnInv,
         \/ DaemonPoll \/ DaemonSignals \/ ReapDone \/ DaemonExit \/ RecvFail
         \/ AppendSession \/ SendTerm \/ DaemonCrash \/ DaemonStart
         \/ \E p \in Pids :
              \/ Reap(p) \/ CloseInherited(p) \/ InitDies(p) \/ SrvUnlink(p)
              \/ SrvBind(p) \/ SrvChown(p) \/ SessionFinish(p) \/ SessionPoll(p)
              \/ SessionTick(p) \/ SessionExit(p) \/ SessionTerm(p)
         \/ UNCHANGED vars
  PROVE  ConnInv'
<1> USE DEF ConnInv
<1>1. UNCHANGED <<cpc, msg>>
  BY DEF DaemonPoll, DaemonSignals, ReapDone, DaemonExit, RecvFail, AppendSession,
         SendTerm, DaemonCrash, DaemonStart, Reap, CloseInherited, InitDies,
         SrvUnlink, SrvBind, SrvChown, SessionFinish, SessionPoll, SessionTick,
         SessionExit, SessionTerm, Exit
<1>2. Orderly' /\ \A c \in Clients : NotMoved(c)
  <2>1. CASE \/ DaemonPoll \/ DaemonSignals \/ ReapDone \/ DaemonExit \/ RecvFail
             \/ AppendSession \/ SendTerm \/ DaemonStart \/ UNCHANGED vars
    <3>1. /\ queue' = queue \/ queue' = <<>>
          /\ dpc' # "recv" \/ UNCHANGED <<dpc, conn>>
          /\ UNCHANGED <<st, peer, sq, runner>>
      BY <2>1 DEF DaemonPoll, DaemonSignals, ReapDone, DaemonExit, RecvFail,
                  AppendSession, SendTerm, DaemonStart, CloseConn
    <3> QED  BY <3>1, Drops
  <2>2. CASE DaemonCrash
    <3>1. /\ queue' = <<>> /\ dpc' # "recv" /\ UNCHANGED <<peer, sq, runner>>
          /\ \A p \in Pids : st'[p] = st[p] \/ st'[p] = "free"
      BY <2>2 DEF DaemonCrash
    <3>2. "free" \notin HandPoints \cup {"busy"}
      BY DEF HandPoints, Starting
    <3> QED  BY <3>1, <3>2, Drops
  <2>3. ASSUME NEW p \in Pids,
               \/ Reap(p) \/ CloseInherited(p) \/ InitDies(p) \/ SrvUnlink(p)
               \/ SrvBind(p) \/ SrvChown(p) \/ SessionFinish(p) \/ SessionPoll(p)
               \/ SessionTick(p) \/ SessionExit(p) \/ SessionTerm(p)
        PROVE  Orderly' /\ \A c \in Clients : NotMoved(c)
    <3>1. UNCHANGED <<queue, dpc, conn, runner>>
      BY <2>3 DEF Reap, CloseInherited, InitDies, SrvUnlink, SrvBind, SrvChown,
                  SessionFinish, SessionPoll, SessionTick, SessionExit, SessionTerm,
                  Exit
    <3>2. \/ UNCHANGED <<peer, sq>>
          \/ peer' = [peer EXCEPT ![p] = None] /\ sq' = [sq EXCEPT ![p] = <<>>]
      BY <2>3 DEF Reap, CloseInherited, InitDies, SrvUnlink, SrvBind, SrvChown,
                  SessionFinish, SessionPoll, SessionTick, SessionExit, SessionTerm,
                  Exit
    <3>3. \/ /\ st' = st \/ \E s : st' = [st EXCEPT ![p] = s]
             /\ UNCHANGED peer
             /\ st'[p] \in HandPoints \cup {"busy"} =>
                  st'[p] = st[p] \/ (st[p] \in HandPoints /\ st'[p] \in HandPoints)
          \/ \E s \in {"zombie", "free"} : st' = [st EXCEPT ![p] = s]
      <4>1. CASE InitDies(p) \/ SessionExit(p)
        BY <4>1 DEF InitDies, SessionExit, Exit
      <4>2. CASE Reap(p)
        BY <4>2 DEF Reap
      <4>3. CASE CloseInherited(p) \/ SrvUnlink(p) \/ SrvBind(p) \/ SrvChown(p)
        BY <4>3 DEF CloseInherited, SrvUnlink, SrvBind, SrvChown, Goto,
                    HandPoints, Starting, PoolInv, TypeOK
      <4>4. CASE \/ SessionFinish(p) \/ SessionPoll(p) \/ SessionTick(p)
                 \/ SessionTerm(p)
        BY <4>4 DEF SessionFinish, SessionPoll, SessionTick, SessionTerm, Goto,
                    HandPoints, Starting, PoolInv, TypeOK
      <4> QED  BY <2>3, <4>1, <4>2, <4>3, <4>4
    <3>4. /\ st \in [Pids -> SessPoints] /\ peer \in [Pids -> Clients \cup {None}]
          /\ sq \in [Pids -> Seq(Clients)]
          /\ {"zombie", "free", "busy"} \cap HandPoints = {}
      BY DEF PoolInv, TypeOK, HandPoints, Starting
    <3>5. ASSUME NEW q \in Pids
          PROVE  /\ sq'[q] = sq[q] \/ sq'[q] = <<>>
                 /\ \/ st'[q] \notin HandPoints \cup {"busy"}
                    \/ /\ peer'[q] = peer[q]
                       /\ st'[q] \in HandPoints => st[q] \in HandPoints
                       /\ st'[q] = "busy" => st[q] = "busy"
      <4>1. sq'[q] = sq[q] \/ sq'[q] = <<>>
        BY <3>2, <3>4
      <4>2. CASE q = p
        BY <3>3, <3>4, <4>1, <4>2
      <4>3. CASE q # p
        <5>1. st'[q] = st[q] /\ peer'[q] = peer[q]
          BY <3>2, <3>3, <3>4, <4>3
        <5> QED  BY <4>1, <5>1
      <4> QED  BY <4>2, <4>3
    <3> QED  BY <3>1, <3>5, Drops
  <2> QED  BY <2>1, <2>2, <2>3
<1> QED  BY <1>1, <1>2, Stays

(* The steps in which the daemon or a starting server answers a request.    *)
LEMMA RequestAnswered ==
  ASSUME PoolInv, ConnInv,
         \/ RequestFailed \/ ReuseSession
         \/ \E p \in Pids :
              SrvListenFails(p) \/ ListenerInitFails(p) \/ SessionReady(p)
  PROVE  ConnInv'
<1> USE DEF ConnInv
<1>1. CASE RequestFailed \/ ReuseSession
  <2>1. /\ dpc = "recv" /\ conn \in Clients /\ dpc' = "poll"
        /\ UNCHANGED <<queue, sessVars, cpc>>
        /\ \E m \in {"done", "failed"} : msg' = [msg EXCEPT ![conn] = m]
    BY <1>1 DEF RequestFailed, ReuseSession, CloseConn, Reply, PoolInv, DaemonOk
  <2>2. Orderly' /\ \A c \in Clients : NotMoved(c)
    BY <2>1, Drops
  <2>3. ASSUME NEW c \in Clients, c = conn
        PROVE  OnePlace(c)' /\ ClientOk(c)'
    <3>1. InConn(c)
      BY <2>1, <2>3 DEF InConn
    <3>2. ~InQueue(c) /\ \A p \in Pids : ~InHand(c, p)
      BY <3>1 DEF OnePlace
    <3>3. cpc[c] \in {"connected", "wait", "gone"} /\ ~Waiting(c)
      BY <3>1 DEF ClientOk, Asking
    <3>4. NotMoved(c) /\ ~InConn(c)'
      BY <2>1, <2>2 DEF InConn
    <3>5. ~Asking(c)' /\ ~Waiting(c)'
      BY <3>2, <3>3, <3>4 DEF Asking, Waiting, NotMoved
    <3>6. msg'[c] \in {"done", "failed"} /\ cpc'[c] = cpc[c]
      BY <2>1, <2>3 DEF PoolInv, TypeOK
    <3> QED  BY <3>3, <3>4, <3>5, <3>6, Answered
  <2>4. ASSUME NEW c \in Clients, c # conn
        PROVE  OnePlace(c)' /\ ClientOk(c)'
    <3>1. cpc'[c] = cpc[c] /\ msg'[c] = msg[c]
      BY <2>1, <2>4 DEF PoolInv, TypeOK
    <3> QED  BY <2>2, <3>1, Stays
  <2> QED  BY <2>2, <2>3, <2>4
<1>2. ASSUME NEW p \in Pids,
             SrvListenFails(p) \/ ListenerInitFails(p) \/ SessionReady(p)
      PROVE  ConnInv'
  <2>1. /\ st[p] \in HandPoints /\ UNCHANGED <<queue, dpc, conn, runner, cpc>>
        /\ \E s \in {"zombie", "free", "serving"} : st' = [st EXCEPT ![p] = s]
        /\ peer' = [peer EXCEPT ![p] = None]
        /\ sq' = sq \/ sq' = [sq EXCEPT ![p] = <<>>]
        /\ \E m \in {"done", "failed"} : msg' = [msg EXCEPT ![peer[p]] = m]
    BY <1>2 DEF SrvListenFails, ListenerInitFails, SessionReady, Exit, Reply, Goto,
                HandPoints, Starting
  <2>2. /\ st \in [Pids -> SessPoints] /\ peer \in [Pids -> Clients \cup {None}]
        /\ sq \in [Pids -> Seq(Clients)]
        /\ msg \in [Clients -> {"none", "request", "done", "failed"}]
        /\ {"zombie", "free", "serving", "busy"} \cap HandPoints = {}
    BY DEF PoolInv, TypeOK, HandPoints, Starting
  <2>3. Orderly' /\ \A c \in Clients : NotMoved(c)
    <3>1. st'[p] \notin HandPoints \cup {"busy"}
      BY <2>1, <2>2
    <3>2. \A q \in Pids : sq'[q] = sq[q] \/ sq'[q] = <<>>
      BY <2>1, <2>2
    <3>3. \A q \in Pids : q # p => st'[q] = st[q] /\ peer'[q] = peer[q]
      BY <2>1, <2>2
    <3> QED  BY <2>1, <3>1, <3>2, <3>3, Drops
  <2>4. ASSUME NEW c \in Clients, c = peer[p]
        PROVE  OnePlace(c)' /\ ClientOk(c)'
    <3>1. InHand(c, p)
      BY <2>1, <2>4 DEF InHand
    <3>2. /\ ~InQueue(c) /\ ~InConn(c) /\ \A q \in Pids : InHand(c, q) => q = p
          /\ ~Waiting(c) /\ cpc[c] \in {"connected", "wait", "gone"}
      <4>1. ~InQueue(c) /\ ~InConn(c) /\ \A q \in Pids : InHand(c, q) => q = p
        BY <3>1 DEF OnePlace
      <4>2. ~Waiting(c) /\ cpc[c] \in {"connected", "wait", "gone"}
        BY <3>1 DEF ClientOk, Asking
      <4> QED  BY <4>1, <4>2
    <3>3. ~InHand(c, p)'
      BY <2>1, <2>2 DEF InHand
    <3>4. NotMoved(c)
      BY <2>3
    <3>5. ~Asking(c)' /\ ~Waiting(c)'
      BY <3>2, <3>3, <3>4 DEF Asking, Waiting, NotMoved
    <3>6. msg'[c] \in {"done", "failed"} /\ cpc'[c] = cpc[c]
      BY <2>1, <2>2, <2>4
    <3> QED  BY <3>2, <3>4, <3>5, <3>6, Answered
  <2>5. ASSUME NEW c \in Clients, c # peer[p]
        PROVE  OnePlace(c)' /\ ClientOk(c)'
    <3>1. cpc'[c] = cpc[c] /\ msg'[c] = msg[c]
      BY <2>1, <2>2, <2>5
    <3> QED  BY <2>3, <3>1, Stays
  <2> QED  BY <2>3, <2>4, <2>5
<1> QED  BY <1>1, <1>2

(* A connection is handed on: it changes its place but not its purpose.     *)
LEMMA HandedOn ==
  ASSUME NEW c \in Clients, ClientOk(c), Asking(c)' => Asking(c),
         Waiting(c)' => Waiting(c), cpc'[c] = cpc[c], msg'[c] = msg[c]
  PROVE  ClientOk(c)'
BY DEF ClientOk

(* A client is answered that was with a handler or a runner, and no other.   *)
LEMMA WorkAnswered ==
  ASSUME PoolInv, ConnInv, NEW d \in Clients, Orderly', Waiting(d),
         \A c \in Clients : NotMoved(c), cpc' = cpc, ~Waiting(d)',
         msg' = msg \/ \E m \in {"done", "failed"} : msg' = [msg EXCEPT ![d] = m]
  PROVE  ConnInv'
<1> USE DEF ConnInv
<1>1. msg \in [Clients -> {"none", "request", "done", "failed"}]
  BY DEF PoolInv, TypeOK
<1>2. CASE msg' = msg
  BY <1>2, Stays
<1>3. CASE \E m \in {"done", "failed"} : msg' = [msg EXCEPT ![d] = m]
  <2>1. OnePlace(d)' /\ ClientOk(d)'
    <3>1. ~Asking(d) /\ cpc[d] \in {"sess", "gone"}
      BY DEF ClientOk
    <3>2. ~Asking(d)'
      BY <3>1, StaysInPlace
    <3>3. msg'[d] \in {"done", "failed"}
      BY <1>1, <1>3
    <3> QED  BY <3>1, <3>2, <3>3, Answered
  <2>2. ASSUME NEW c \in Clients, c # d
        PROVE  OnePlace(c)' /\ ClientOk(c)'
    <3>1. msg'[c] = msg[c]
      BY <1>1, <1>3, <2>2
    <3> QED  BY <3>1, Stays
  <2> QED  BY <2>1, <2>2
<1> QED  BY <1>2, <1>3

(* The job request handler of a server is through: it or an auxiliary       *)
(* runner has answered, or its runner keeps the connection.                 *)
LEMMA HandlerMoves ==
  ASSUME PoolInv, ConnInv, NEW p \in Pids, HandlerLeaves(p)
  PROVE  ConnInv'
<1> USE DEF ConnInv
<1>1. /\ st[p] = "busy" /\ UNCHANGED <<queue, dpc, conn, cpc, sq>>
      /\ st' = [st EXCEPT ![p] = "serving"]
      /\ peer' = [peer EXCEPT ![p] = None]
  BY DEF HandlerLeaves, Goto
<1>2. /\ st \in [Pids -> SessPoints] /\ peer \in [Pids -> Clients \cup {None}]
      /\ {"serving", "busy"} \cap HandPoints = {}
  BY DEF PoolInv, TypeOK, HandPoints, Starting
<1>3. PICK c \in Clients : c = peer[p]
  BY <1>1 DEF PoolInv, ServersOk, ServerOk
<1>4. Orderly' /\ \A d \in Clients : (InRunner(d)' => InRunner(d)) => NotMoved(d)
  <2>1. st'[p] \notin HandPoints \cup {"busy"}
    BY <1>1, <1>2
  <2>2. \A q \in Pids : q # p => st'[q] = st[q] /\ peer'[q] = peer[q]
    BY <1>1, <1>2
  <2> QED  BY <1>1, <2>1, <2>2, DropsOrRuns
<1>5. InJob(c, p) /\ Waiting(c)
  BY <1>1, <1>3 DEF InJob, Waiting
<1>6. \A q \in Pids : ~InLine(c, q)' /\ ~InJob(c, q)'
  <2>1. \A q \in Pids : ~InLine(c, q) /\ (InJob(c, q) => q = p)
    BY <1>3, <1>5 DEF OnePlace
  <2>2. \A q \in Pids : InLine(c, q)' => InLine(c, q)
    BY <1>1 DEF InLine
  <2>3. ASSUME NEW q \in Pids, InJob(c, q)'
        PROVE  q # p /\ InJob(c, q)
    BY <1>1, <1>2, <2>3 DEF InJob
  <2> QED  BY <2>1, <2>2, <2>3
<1>7. CASE /\ runner' = runner
           /\ msg' = msg \/ \E m \in {"done", "failed"} : Reply(peer[p], m)
  <2>1. \A d \in Clients : InRunner(d)' = InRunner(d)
    BY <1>7 DEF InRunner
  <2>2. ~InRunner(c)
    BY <1>5 DEF OnePlace
  <2>3. ~Waiting(c)'
    BY <1>6, <2>1, <2>2 DEF Waiting
  <2> QED  BY <1>1, <1>3, <1>4, <1>5, <1>7, <2>1, <2>3, WorkAnswered DEF Reply
<1>8. CASE runner' = [runner EXCEPT ![peer[p]] = caller[p]] /\ msg' = msg
  <2>1. ASSUME NEW d \in Clients, d # c
        PROVE  OnePlace(d)' /\ ClientOk(d)'
    <3>1. InRunner(d)' = InRunner(d)
      BY <1>3, <1>8, <2>1 DEF InRunner, PoolInv, TypeOK
    <3> QED  BY <1>1, <1>4, <1>8, <3>1, Stays
  <2>2. OnePlace(c)' /\ ClientOk(c)'
    <3>1. ~Asking(c)
      BY <1>5 DEF ClientOk
    <3>2. /\ InQueue(c)' = InQueue(c) /\ InConn(c)' = InConn(c)
          /\ \A q \in Pids : InHand(c, q)' => InHand(c, q)
      BY <1>1, <1>2 DEF InQueue, InConn, InHand
    <3>3. ~Asking(c)'
      BY <3>1, <3>2 DEF Asking
    <3>4. OnePlace(c)'
      BY <1>6, <3>3 DEF OnePlace, Asking
    <3>5. ClientOk(c)'
      BY <1>1, <1>5, <1>8, <3>3, HandedOn
    <3> QED  BY <3>4, <3>5
  <2> QED  BY <1>4, <2>1, <2>2
<1> QED  BY <1>7, <1>8 DEF HandlerLeaves

LEMMA RunnerAnswers ==
  ASSUME PoolInv, ConnInv, NEW c \in Clients, RunnerEnds(c)
  PROVE  ConnInv'
<1> USE DEF ConnInv
<1>1. /\ UNCHANGED <<queue, dpc, conn, st, peer, sq, cpc>>
      /\ InRunner(c) /\ runner' = [runner EXCEPT ![c] = None]
      /\ msg' = msg \/ \E m \in {"done", "failed"} : msg' = [msg EXCEPT ![c] = m]
  BY DEF RunnerEnds, RunnerReplies, Reply, InRunner
<1>2. ~InRunner(c)' /\ \A d \in Clients : InRunner(d)' => InRunner(d)
  BY <1>1 DEF InRunner, PoolInv, TypeOK
<1>3. Orderly' /\ \A d \in Clients : NotMoved(d)
  BY <1>1, <1>2, DropsOrRuns
<1>4. ~Waiting(c)'
  <2>1. \A p \in Pids : ~InLine(c, p) /\ ~InJob(c, p)
    BY <1>1 DEF OnePlace
  <2>2. NotMoved(c)
    BY <1>3
  <2> QED  BY <1>2, <2>1, <2>2 DEF Waiting, NotMoved
<1>5. Waiting(c)
  BY <1>1 DEF Waiting
<1> QED  BY <1>1, <1>3, <1>4, <1>5, WorkAnswered

LEMMA AcceptMoves ==
  ASSUME PoolInv, ConnInv, DaemonAccept
  PROVE  ConnInv'
<1> USE DEF ConnInv
<1>1. UNCHANGED <<sessVars, clientVars>> /\ queue \in Seq(Clients)
  BY DEF DaemonAccept, PoolInv, TypeOK
<1>2. CASE dpc' = "poll" /\ queue' = queue
  <2>1. Orderly' /\ \A c \in Clients : NotMoved(c)
    BY <1>1, <1>2, Drops
  <2> QED  BY <1>1, <2>1, Stays
<1>3. CASE /\ "conn" \in ready /\ dpc' = "recv"
           /\ conn' = Head(queue) /\ queue' = Tail(queue)
  <2>1. queue # <<>>
    BY <1>3 DEF PoolInv, DaemonOk
  <2>2. /\ IsInjective(Tail(queue))
        /\ Range(Tail(queue)) \subseteq Range(queue) \ {Head(queue)}
        /\ Head(queue) \in Range(queue)
    BY <1>1, <2>1, TailFacts DEF Orderly
  <2>3. Orderly'
    BY <1>1, <1>3, <2>2 DEF Orderly
  <2>4. \A c \in Clients :
          /\ InRunner(c)' = InRunner(c)
          /\ \A p \in Pids :
               /\ InHand(c, p)' = InHand(c, p) /\ InLine(c, p)' = InLine(c, p)
               /\ InJob(c, p)' = InJob(c, p)
    BY <1>1 DEF InHand, InLine, InJob, InRunner
  <2>5. ASSUME NEW c \in Clients, c # Head(queue)
        PROVE  OnePlace(c)' /\ ClientOk(c)'
    <3>1. (InQueue(c)' => InQueue(c)) /\ ~InConn(c)'
      BY <1>3, <2>2, <2>5 DEF InQueue, InConn
    <3>2. NotMoved(c)
      BY <2>4, <3>1 DEF NotMoved
    <3> QED  BY <1>1, <3>2, Stays
  <2>6. ASSUME NEW c \in Clients, c = Head(queue)
        PROVE  OnePlace(c)' /\ ClientOk(c)'
    <3>1. InQueue(c) /\ ~InQueue(c)'
      BY <1>3, <2>2, <2>6 DEF InQueue
    <3>2. \A p \in Pids : ~InHand(c, p)
      BY <3>1 DEF OnePlace
    <3>3. OnePlace(c)'
      BY <2>4, <3>1, <3>2 DEF OnePlace
    <3>4. Asking(c) /\ (Waiting(c)' => Waiting(c))
      BY <2>4, <3>1 DEF Asking, Waiting
    <3> QED  BY <1>1, <3>3, <3>4, HandedOn
  <2> QED  BY <2>3, <2>5, <2>6
<1> QED  BY <1>2, <1>3 DEF DaemonAccept

LEMMA ForkMoves ==
  ASSUME PoolInv, ConnInv, NEW p \in Pids, ForkSession(p)
  PROVE  ConnInv'
<1> USE DEF ConnInv
<1>1. /\ dpc = "recv" /\ dpc' = "append" /\ st[p] = "free"
      /\ UNCHANGED <<conn, queue, sq, runner, clientVars>>
      /\ st' = [st EXCEPT ![p] = "forked"] /\ peer' = [peer EXCEPT ![p] = conn]
  BY DEF ForkSession
<1>2. /\ st \in [Pids -> SessPoints] /\ peer \in [Pids -> Clients \cup {None}]
      /\ {"free", "busy"} \cap HandPoints = {} /\ "forked" \in HandPoints
  BY DEF PoolInv, TypeOK, HandPoints, Starting
<1>3. Orderly'
  BY <1>1 DEF Orderly
<1>4. /\ st'[p] = "forked" /\ peer'[p] = conn
      /\ \A q \in Pids : q # p => st'[q] = st[q] /\ peer'[q] = peer[q]
  BY <1>1, <1>2
<1>5. \A c \in Clients :
        /\ InQueue(c)' = InQueue(c) /\ ~InConn(c)' /\ InRunner(c)' = InRunner(c)
        /\ \A q \in Pids : InLine(c, q)' = InLine(c, q)
        /\ \A q \in Pids : InJob(c, q)' => InJob(c, q)
  BY <1>1, <1>2, <1>4 DEF InQueue, InConn, InRunner, InLine, InJob
<1>6. \A c \in Clients, q \in Pids :
        InHand(c, q)' <=> IF q = p THEN c = conn ELSE InHand(c, q)
  BY <1>2, <1>4 DEF InHand
<1>7. ASSUME NEW c \in Clients, c # conn
      PROVE  OnePlace(c)' /\ ClientOk(c)'
  <2>1. NotMoved(c)
    BY <1>5, <1>6, <1>7 DEF NotMoved
  <2> QED  BY <1>1, <2>1, Stays
<1>8. ASSUME NEW c \in Clients, c = conn
      PROVE  OnePlace(c)' /\ ClientOk(c)'
  <2>1. InConn(c)
    BY <1>1, <1>8 DEF InConn
  <2>2. ~InQueue(c) /\ \A q \in Pids : ~InHand(c, q)
    BY <2>1 DEF OnePlace
  <2>3. OnePlace(c)'
    BY <1>5, <1>6, <2>2 DEF OnePlace
  <2>4. Asking(c) /\ (Waiting(c)' => Waiting(c))
    BY <1>5, <2>1 DEF Asking, Waiting
  <2> QED  BY <1>1, <2>3, <2>4, HandedOn
<1> QED  BY <1>3, <1>7, <1>8

LEMMA CallMoves ==
  ASSUME PoolInv, ConnInv, NEW p \in Pids, SessionAccept(p) \/ SessionReject(p)
  PROVE  ConnInv'
<1> USE DEF ConnInv
<1>1. /\ st[p] = "accepting" /\ UNCHANGED <<queue, dpc, conn, runner, clientVars>>
      /\ sq' = [sq EXCEPT ![p] = Tail(sq[p])]
  BY DEF SessionAccept, SessionReject
<1>2. /\ st \in [Pids -> SessPoints] /\ peer \in [Pids -> Clients \cup {None}]
      /\ sq \in [Pids -> Seq(Clients)] /\ sq[p] # <<>>
      /\ {"accepting", "serving", "busy"} \cap HandPoints = {}
  BY <1>1 DEF PoolInv, TypeOK, ServersOk, ServerOk, HandPoints, Starting
<1>3. /\ IsInjective(Tail(sq[p]))
      /\ Range(Tail(sq[p])) \subseteq Range(sq[p]) \ {Head(sq[p])}
      /\ Head(sq[p]) \in Range(sq[p]) /\ Head(sq[p]) \in Clients
  BY <1>2, TailFacts DEF Orderly
<1>4. /\ sq'[p] = Tail(sq[p]) /\ \A q \in Pids : q # p => sq'[q] = sq[q]
  BY <1>1, <1>2
<1>5. Orderly'
  BY <1>1, <1>3, <1>4 DEF Orderly
<1>6. /\ \A q \in Pids : q # p => st'[q] = st[q] /\ peer'[q] = peer[q]
      /\ st'[p] \in {"serving", "busy"}
      /\ st'[p] = "busy" => peer'[p] = Head(sq[p])
  BY <1>2 DEF SessionAccept, SessionReject, Goto
<1>7. \A c \in Clients :
        /\ InQueue(c)' = InQueue(c) /\ InConn(c)' = InConn(c)
        /\ InRunner(c)' = InRunner(c)
        /\ \A q \in Pids : InHand(c, q)' => InHand(c, q)
        /\ \A q \in Pids : InJob(c, q)' =>
             InJob(c, q) \/ (q = p /\ c = Head(sq[p]))
  BY <1>1, <1>2, <1>6 DEF InQueue, InConn, InRunner, InHand, InJob
<1>8. \A c \in Clients, q \in Pids :
        /\ InLine(c, q)' => InLine(c, q)
        /\ c = Head(sq[p]) => ~InLine(c, p)'
  BY <1>3, <1>4 DEF InLine
<1>9. ASSUME NEW c \in Clients, c # Head(sq[p])
      PROVE  OnePlace(c)' /\ ClientOk(c)'
  <2>1. NotMoved(c)
    BY <1>7, <1>8, <1>9 DEF NotMoved
  <2> QED  BY <1>1, <2>1, Stays
<1>10. ASSUME NEW c \in Clients, c = Head(sq[p])
       PROVE  OnePlace(c)' /\ ClientOk(c)'
  <2>1. InLine(c, p)
    BY <1>3, <1>10 DEF InLine
  <2>2. /\ \A q \in Pids : ~InJob(c, q) /\ (InLine(c, q) => q = p)
        /\ \A q \in Pids : ~InLine(c, q)'
        /\ ~InRunner(c)
    BY <1>8, <1>10, <2>1 DEF OnePlace
  <2>3. \A q \in Pids : InJob(c, q)' => q = p
    BY <1>7, <2>2
  <2>4. OnePlace(c)'
    BY <1>7, <2>2, <2>3 DEF OnePlace
  <2>5. Waiting(c) /\ (Asking(c)' => Asking(c))
    BY <1>7, <2>1 DEF Asking, Waiting
  <2> QED  BY <1>1, <2>4, <2>5, HandedOn
<1> QED  BY <1>5, <1>9, <1>10

(* A client that neither connects nor is answered stays where it is.        *)
LEMMA ClientMoves ==
  ASSUME PoolInv, ConnInv, NEW c \in Clients,
         \/ ClientStep(c) \/ SendRequest(c) \/ ClientKilled(c) \/ ClientRestart(c)
  PROVE  ConnInv'
<1> USE DEF ConnInv
<1>1. /\ cpc \in [Clients -> ClientPoints] /\ queue \in Seq(Clients)
      /\ msg \in [Clients -> {"none", "request", "done", "failed"}]
      /\ sq \in [Pids -> Seq(Clients)]
  BY DEF PoolInv, TypeOK
<1>2. Asking(c) \/ Waiting(c) => Held(c)
  BY DEF Asking, Waiting, InQueue, InConn, InHand, InLine, InJob, InRunner, Held
<1>3. UNCHANGED <<dpc, conn, st, peer, runner>>
  BY DEF ClientStep, TryConnect, ConnectSession, AskDaemon, RecvResponse, Reconnect,
         RecvJobResponse, RecvEOF, SendRequest, ClientKilled, ClientRestart
<1>4. \A d \in Clients :
        /\ InConn(d)' = InConn(d) /\ InRunner(d)' = InRunner(d)
        /\ \A p \in Pids :
             InHand(d, p)' = InHand(d, p) /\ InJob(d, p)' = InJob(d, p)
  BY <1>3 DEF InConn, InRunner, InHand, InJob
<1>5. \A d \in Clients : d # c => cpc'[d] = cpc[d] /\ msg'[d] = msg[d]
  <2>1. /\ \E s : cpc' = [cpc EXCEPT ![c] = s]
        /\ msg' = msg \/ \E m : msg' = [msg EXCEPT ![c] = m]
    BY DEF ClientStep, TryConnect, ConnectSession, AskDaemon, RecvResponse,
           Reconnect, RecvJobResponse, RecvEOF, SendRequest, ClientKilled,
           ClientRestart, ClientGoto, Reply
  <2> QED  BY <1>1, <2>1
<1>6. CASE UNCHANGED <<queue, sq>>
  <2>1. /\ Orderly'
        /\ \A d \in Clients :
             /\ InQueue(d)' = InQueue(d)
             /\ \A p \in Pids : InLine(d, p)' = InLine(d, p)
    BY <1>6 DEF Orderly, InQueue, InLine
  <2>2. \A d \in Clients : NotMoved(d)
    BY <1>4, <2>1 DEF NotMoved
  <2>3. OnePlace(c)' /\ (Asking(c)' => Asking(c)) /\ (Waiting(c)' => Waiting(c))
    BY <2>2, StaysInPlace
  <2>4. ClientOk(c)'
    <3>1. CASE TryConnect(c) \/ Reconnect(c) \/ AskDaemon(c)
      <4>1. /\ cpc[c] \in {"start", "ask", "reconnect"}
            /\ cpc'[c] \in {"ask", "failed", "connected", "sess"}
            /\ msg'[c] = msg[c]
        BY <1>1, <3>1 DEF TryConnect, Reconnect, AskDaemon, ConnectSession, ClientGoto
      <4> QED  BY <2>3, <4>1 DEF ClientOk
    <3>2. CASE RecvResponse(c) \/ RecvJobResponse(c) \/ RecvEOF(c) \/ ClientRestart(c)
      <4>1. msg'[c] = "none"
            /\ cpc'[c] \in {"start", "reconnect", "done", "failed"}
        BY <1>1, <3>2
        DEF RecvResponse, RecvJobResponse, RecvEOF, ClientRestart, ClientGoto, Reply
      <4>2. ~Asking(c) /\ ~Waiting(c)
        <5>1. CASE RecvEOF(c) \/ ClientRestart(c)
          BY <1>2, <5>1 DEF RecvEOF, ClientRestart
        <5>2. CASE RecvResponse(c)
          BY <5>2 DEF RecvResponse, ClientOk
        <5>3. CASE RecvJobResponse(c)
          BY <5>3 DEF RecvJobResponse, ClientOk
        <5> QED  BY <3>2, <5>1, <5>2, <5>3
      <4> QED  BY <2>3, <4>1, <4>2 DEF ClientOk
    <3>3. CASE SendRequest(c)
      <4>1. cpc[c] = "connected" /\ cpc'[c] = "wait" /\ msg'[c] = "request"
        BY <1>1, <3>3 DEF SendRequest, ClientGoto, Reply
      <4> QED  BY <2>3, <4>1 DEF ClientOk
    <3>4. CASE ClientKilled(c)
      <4>1. cpc'[c] = "gone" /\ cpc[c] \in {"connected", "wait", "sess"}
        BY <1>1, <3>4 DEF ClientKilled, ClientGoto
      <4> QED  BY <2>3, <4>1 DEF ClientOk
    <3> QED  BY <3>1, <3>2, <3>3, <3>4 DEF ClientStep
  <2> QED  BY <1>5, <2>1, <2>2, <2>3, <2>4, Stays
<1>7. CASE AskDaemon(c) /\ queue' = Append(queue, c)
  <2>1. /\ cpc[c] = "ask" /\ cpc'[c] = "connected" /\ msg'[c] = msg[c] /\ sq' = sq
        /\ ~Asking(c) /\ ~Waiting(c)
    <3>1. cpc[c] = "ask" /\ msg' = msg /\ sq' = sq /\ cpc'[c] = "connected"
      <4>1. queue' # queue
        <5>1. Len(queue') = Len(queue) + 1 /\ Len(queue) \in Nat
          BY <1>1, <1>7
        <5> QED  BY <5>1
      <4> QED  BY <1>1, <1>7, <4>1 DEF AskDaemon, ClientGoto
    <3> QED  BY <3>1 DEF ClientOk
  <2>2. Range(queue') = Range(queue) \cup {c} /\ IsInjective(queue')
    BY <1>1, <1>7, <2>1, AppendFacts DEF Orderly, Asking, InQueue
  <2>3. Orderly'
    BY <2>1, <2>2 DEF Orderly
  <2>4. \A d \in Clients :
          /\ InQueue(d)' => InQueue(d) \/ d = c
          /\ \A p \in Pids : InLine(d, p)' = InLine(d, p)
    BY <2>1, <2>2 DEF InLine, InQueue
  <2>5. ASSUME NEW d \in Clients, d # c PROVE OnePlace(d)' /\ ClientOk(d)'
    <3>1. NotMoved(d)
      BY <1>4, <2>4, <2>5 DEF NotMoved
    <3> QED  BY <1>5, <2>5, <3>1, Stays
  <2>6. OnePlace(c)'
    BY <1>4, <2>1, <2>4 DEF OnePlace, Asking
  <2>7. ClientOk(c)'
    <3>1. ~Waiting(c)'
      BY <1>4, <2>1, <2>4 DEF Waiting
    <3>2. msg[c] = "none"
      BY <2>1 DEF ClientOk
    <3> QED  BY <2>1, <3>1, <3>2 DEF ClientOk
  <2> QED  BY <2>3, <2>5, <2>6, <2>7
<1>8. CASE ConnectSession(c) /\ (TryConnect(c) \/ Reconnect(c))
  <2>1. /\ SocketPath(CallerOf[c]) \in Keys
        /\ sock[SocketPath(CallerOf[c])] \in Pids
    BY <1>8, Credentials DEF ConnectSession, Reachable
  <2>2. PICK p \in Pids : sq' = [sq EXCEPT ![p] = Append(sq[p], c)]
    BY <1>8, <2>1 DEF ConnectSession
  <2>3. /\ cpc[c] \in {"start", "reconnect"} /\ cpc'[c] = "sess"
        /\ msg'[c] = msg[c] /\ queue' = queue
    BY <1>1, <1>8 DEF TryConnect, Reconnect, ConnectSession, ClientGoto
  <2>4. ~Asking(c) /\ ~Waiting(c) /\ msg[c] = "none"
    BY <2>3 DEF ClientOk
  <2>5. /\ sq'[p] = Append(sq[p], c) /\ \A q \in Pids : q # p => sq'[q] = sq[q]
    BY <1>1, <2>2
  <2>6. /\ Range(sq'[p]) = Range(sq[p]) \cup {c} /\ IsInjective(sq'[p])
    BY <1>1, <2>4, <2>5, AppendFacts DEF Orderly, Waiting, InLine
  <2>7. Orderly'
    BY <2>3, <2>5, <2>6 DEF Orderly
  <2>8. \A d \in Clients, q \in Pids :
          /\ InQueue(d)' = InQueue(d)
          /\ InLine(d, q)' => InLine(d, q) \/ (d = c /\ q = p)
    BY <2>3, <2>5, <2>6 DEF InLine, InQueue
  <2>9. ASSUME NEW d \in Clients, d # c PROVE OnePlace(d)' /\ ClientOk(d)'
    <3>1. NotMoved(d)
      BY <1>4, <2>8, <2>9 DEF NotMoved
    <3> QED  BY <1>5, <2>9, <3>1, Stays
  <2>10. OnePlace(c)' /\ ClientOk(c)'
    <3>1. OnePlace(c)'
      BY <1>4, <2>4, <2>8 DEF OnePlace, Asking, Waiting
    <3>2. ~Asking(c)'
      BY <1>4, <2>4, <2>8 DEF Asking
    <3> QED  BY <2>3, <2>4, <3>1, <3>2 DEF ClientOk
  <2> QED  BY <2>7, <2>9, <2>10
<1> QED
  BY <1>6, <1>7, <1>8
  DEF ClientStep, TryConnect, AskDaemon, RecvResponse, Reconnect, RecvJobResponse,
      RecvEOF, SendRequest, ClientKilled, ClientRestart

(* No connection is in two hands, and a client that is connected has not    *)
(* been answered: one request, one answer.                                  *)
THEOREM ConnectionsAreInOnePlace == Spec => []ConnInv
<1>1. Init => ConnInv
  <2> SUFFICES ASSUME Init PROVE ConnInv
    OBVIOUS
  <2>1. Orderly
    BY RangeOfEmpty DEF Init, Orderly
  <2>2. ASSUME NEW c \in Clients PROVE OnePlace(c) /\ ClientOk(c)
    <3>1. ~InQueue(c) /\ ~InConn(c) /\ ~InRunner(c)
      BY RangeOfEmpty DEF Init, InQueue, InConn, InRunner
    <3>2. \A p \in Pids : ~InHand(c, p) /\ ~InLine(c, p) /\ ~InJob(c, p)
      BY RangeOfEmpty DEF Init, InHand, InLine, InJob, HandPoints, Starting
    <3> QED  BY <3>1, <3>2 DEF Init, OnePlace, ClientOk, Asking, Waiting
  <2> QED  BY <2>1, <2>2 DEF ConnInv
<1>2. PoolInv /\ ConnInv /\ [Next]_vars => ConnInv'
  <2> SUFFICES ASSUME PoolInv, ConnInv, [Next]_vars PROVE ConnInv'
    OBVIOUS
  <2>1. CASE DaemonStep
    BY <2>1, QuietStep, RequestAnswered, AcceptMoves, ForkMoves DEF DaemonStep
  <2>2. CASE \E p \in Pids : SessionStep(p)
    <3>1. TypeOK
      BY DEF PoolInv
    <3> QED  BY <2>2, <3>1, QuietStep, RequestAnswered, HandlerStep, HandlerMoves,
                CallMoves DEF SessionStep
  <2>3. CASE \E c \in Clients : ClientStep(c)
    BY <2>3, ClientMoves
  <2>4. CASE Environment
    BY <2>4, QuietStep, ClientMoves, RunnerAnswers DEF Environment
  <2>5. CASE UNCHANGED vars
    BY <2>5, QuietStep
  <2> QED  BY <2>1, <2>2, <2>3, <2>4, <2>5 DEF Next
<1> QED  BY <1>1, <1>2, PoolIsInvariant, PTL DEF Spec


-----------------------------------------------------------------------------
(***************************************************************************)
(* The steps of the layer are steps of SessionService, or stutter.          *)
(***************************************************************************)

(* A server that exits has no request in hand: it leaves its loop only when *)
(* no handler is at work.                                                   *)
Jobs == [p \in Pids |-> IF st[p] = "busy" THEN peer[p] ELSE None]
ServiceInv == PoolInv /\ ConnInv /\ Requests = Jobs

LEMMA OnlyJobsInHand ==
  /\ PoolInv => Requests = Jobs
  /\ PoolInv' => Requests' = Jobs'
<1>1. PoolInv => Requests = Jobs
  BY DEF PoolInv, ServersOk, ServerOk, Requests, Jobs
<1>2. PoolInv' => Requests' = Jobs'
  BY DEF PoolInv, ServersOk, ServerOk, Requests, Jobs
<1> QED  BY <1>1, <1>2

LEMMA ServiceInit == Init => Service!Init
<1> SUFFICES ASSUME Init PROVE Service!Init
  OBVIOUS
<1>1. Sessions = [p \in Pids |-> None] /\ Requests = [p \in Pids |-> None]
  BY DEF Init, Sessions, Requests, Alive, Starting, Listening
<1>2. ClientStates = [c \in Clients |-> "out"] /\ Results = [c \in Clients |-> "none"]
  BY DEF Init, ClientStates, Results
<1> QED  BY <1>1, <1>2 DEF Init, Service!Init

LEMMA SameSessions ==
  ASSUME \A p \in Pids : /\ st'[p] \in Alive <=> st[p] \in Alive
                         /\ st[p] \in Alive => /\ caller'[p] = caller[p]
                                               /\ pgen'[p] = pgen[p]
  PROVE  Sessions' = Sessions
BY DEF Sessions

LEMMA SameJobs ==
  ASSUME \A p \in Pids : /\ st'[p] = "busy" <=> st[p] = "busy"
                         /\ st[p] = "busy" => peer'[p] = peer[p]
  PROVE  Jobs' = Jobs
BY DEF Jobs

LEMMA SameClients ==
  ASSUME cpc' = cpc, \A c \in Clients : cpc[c] = "sess" => msg'[c] = msg[c]
  PROVE  ClientStates' = ClientStates /\ Results' = Results
BY DEF ClientStates, Results

(* The functions of the mapping at a point.                                 *)
LEMMA AtPoints ==
  /\ \A p \in Pids :
       /\ st[p] \notin Alive => Sessions[p] = None
       /\ st[p] \in Alive =>
            Sessions[p] = [caller |-> caller[p], boot |-> pgen[p]]
       /\ st[p] = "busy" => Jobs[p] = peer[p]
       /\ st[p] # "busy" => Jobs[p] = None
  /\ \A c \in Clients :
       /\ ClientStates[c] = "in" <=> cpc[c] = "sess"
       /\ ClientStates[c] = "gone" <=> cpc[c] = "gone"
       /\ ClientStates[c] = "out" <=> cpc[c] \notin {"sess", "gone"}
BY DEF Sessions, Jobs, ClientStates

LEMMA SessionsExist ==
  ASSUME PoolInv, NEW p \in Pids, st[p] \in Alive
  PROVE  Sessions[p] # None
<1>1. Sessions[p] = [caller |-> caller[p], boot |-> pgen[p]]
  BY AtPoints
<1>2. caller[p] \in Callers /\ pgen[p] \in Nat
  BY DEF PoolInv, TypeOK, ServersOk, ServerOk, Alive, Starting, Listening
<1> QED  BY <1>1, <1>2

(* A client whose connection asks is not connected to a session.            *)
LEMMA AskingIsOut ==
  ASSUME ConnInv, NEW c \in Clients, Asking(c)
  PROVE  cpc[c] # "sess" /\ ~Waiting(c)
BY DEF ConnInv, ClientOk

(* The steps SessionService does not see.                                   *)
LEMMA HiddenStep ==
  ASSUME ServiceInv, Requests' = Jobs',
         \/ DaemonPoll \/ DaemonSignals \/ ReapDone \/ DaemonExit \/ DaemonAccept
         \/ RecvFail \/ RequestFailed \/ ReuseSession \/ AppendSession
         \/ SendTerm \/ DaemonCrash
         \/ \E p \in Pids :
              \/ Reap(p) \/ CloseInherited(p) \/ SrvUnlink(p) \/ SrvBind(p)
              \/ SrvChown(p) \/ SessionReady(p) \/ SessionFinish(p)
              \/ SessionPoll(p) \/ SessionTick(p) \/ SessionTerm(p)
         \/ UNCHANGED vars
  PROVE  UNCHANGED Service!vars
<1> USE DEF ServiceInv
<1>1. CASE \/ DaemonPoll \/ DaemonSignals \/ ReapDone \/ DaemonExit \/ DaemonAccept
           \/ RecvFail \/ AppendSession \/ SendTerm \/ UNCHANGED vars
  <2>1. UNCHANGED <<gen, st, caller, pgen, peer, sq, runner, cpc, msg>>
    BY <1>1 DEF DaemonPoll, DaemonSignals, ReapDone, DaemonExit, DaemonAccept,
                RecvFail, AppendSession, SendTerm
  <2> QED  BY <2>1 DEF Service!vars, Sessions, Requests, ClientStates, Results
<1>2. CASE RequestFailed \/ ReuseSession
  <2>1. /\ UNCHANGED <<gen, st, caller, pgen, peer, sq, runner, cpc>>
        /\ dpc = "recv" /\ \E m : msg' = [msg EXCEPT ![conn] = m]
    BY <1>2 DEF RequestFailed, ReuseSession, Reply
  <2>2. \A c \in Clients : cpc[c] = "sess" => c # conn
    BY <2>1, AskingIsOut DEF Asking, InConn
  <2>3. \A c \in Clients : cpc[c] = "sess" => msg'[c] = msg[c]
    BY <2>1, <2>2 DEF PoolInv, TypeOK
  <2> QED  BY <2>1, <2>3, SameSessions, SameJobs, SameClients DEF Service!vars
<1>3. CASE DaemonCrash
  <2>1. /\ UNCHANGED <<gen, peer, sq, runner, cpc, msg>>
        /\ \A p \in Pids :
             \/ st'[p] = st[p] /\ caller'[p] = caller[p] /\ pgen'[p] = pgen[p]
             \/ st[p] = "zombie" /\ st'[p] = "free"
    BY <1>3 DEF DaemonCrash
  <2>2. {"zombie", "free"} \cap (Alive \cup {"busy"}) = {}
    BY DEF Alive, Starting, Listening
  <2>3. Sessions' = Sessions /\ Jobs' = Jobs
    BY <2>1, <2>2, SameSessions, SameJobs
  <2> QED  BY <2>1, <2>3, SameClients DEF Service!vars
<1>4. ASSUME NEW p \in Pids, Reap(p)
      PROVE  UNCHANGED Service!vars
  <2>1. /\ UNCHANGED <<gen, peer, sq, runner, cpc, msg>> /\ st[p] = "zombie"
        /\ st' = [st EXCEPT ![p] = "free"]
        /\ caller' = [caller EXCEPT ![p] = None] /\ pgen' = [pgen EXCEPT ![p] = 0]
    BY <1>4 DEF Reap
  <2>2. {"zombie", "free"} \cap (Alive \cup {"busy"}) = {}
    BY DEF Alive, Starting, Listening
  <2>3. \A q \in Pids :
          IF q = p THEN st[q] = "zombie" /\ st'[q] = "free"
          ELSE st'[q] = st[q] /\ caller'[q] = caller[q] /\ pgen'[q] = pgen[q]
    BY <2>1 DEF PoolInv, TypeOK
  <2>4. Sessions' = Sessions
    BY <2>2, <2>3, SameSessions
  <2>5. Jobs' = Jobs
    BY <2>1, <2>2, <2>3, SameJobs
  <2> QED  BY <2>1, <2>4, <2>5, SameClients DEF Service!vars
<1>5. ASSUME NEW p \in Pids,
             \/ CloseInherited(p) \/ SrvUnlink(p) \/ SrvBind(p) \/ SrvChown(p)
             \/ SessionReady(p) \/ SessionFinish(p) \/ SessionPoll(p)
             \/ SessionTick(p) \/ SessionTerm(p)
      PROVE  UNCHANGED Service!vars
  <2>1. UNCHANGED <<gen, caller, pgen, sq, runner, cpc>>
    BY <1>5 DEF CloseInherited, SrvUnlink, SrvBind, SrvChown, SessionReady,
                SessionFinish, SessionPoll, SessionTick, SessionTerm
  <2>2. /\ st[p] \in Alive \ {"busy"}
        /\ st' = st \/ \E s \in Alive \ {"busy"} : st' = [st EXCEPT ![p] = s]
    BY <1>5 DEF CloseInherited, SrvUnlink, SrvBind, SrvChown, SessionReady,
                SessionFinish, SessionPoll, SessionTick, SessionTerm, Goto,
                Alive, Starting, Listening
  <2>3. peer' = peer \/ peer' = [peer EXCEPT ![p] = None]
    BY <1>5 DEF CloseInherited, SrvUnlink, SrvBind, SrvChown, SessionReady,
                SessionFinish, SessionPoll, SessionTick, SessionTerm
  <2>4. /\ st'[p] \in Alive \ {"busy"}
        /\ \A q \in Pids : q # p => st'[q] = st[q] /\ peer'[q] = peer[q]
    BY <2>2, <2>3 DEF PoolInv, TypeOK
  <2>5. Sessions' = Sessions
    BY <2>1, <2>2, <2>4, SameSessions
  <2>6. Jobs' = Jobs
    BY <2>2, <2>4, SameJobs
  <2>7. ASSUME NEW c \in Clients, cpc[c] = "sess" PROVE msg'[c] = msg[c]
    <3>1. CASE SessionReady(p)
      <4>1. InHand(peer[p], p) /\ msg' = [msg EXCEPT ![peer[p]] = "done"]
        BY <3>1 DEF SessionReady, Reply, InHand, HandPoints
      <4>2. c # peer[p]
        BY <2>7, <4>1, AskingIsOut DEF Asking
      <4> QED  BY <4>1, <4>2 DEF PoolInv, TypeOK
    <3>2. CASE ~SessionReady(p)
      BY <1>5, <3>2 DEF CloseInherited, SrvUnlink, SrvBind, SrvChown,
                        SessionFinish, SessionPoll, SessionTick, SessionTerm
    <3> QED  BY <3>1, <3>2
  <2> QED  BY <2>1, <2>5, <2>6, <2>7, SameClients DEF Service!vars
<1> QED  BY <1>1, <1>2, <1>3, <1>4, <1>5

LEMMA StartStep ==
  ASSUME DaemonStart
  PROVE  Service!Start
<1>1. gen' = gen + 1 /\ UNCHANGED <<st, caller, pgen, peer, sq, runner, cpc, msg>>
  BY DEF DaemonStart
<1> QED  BY <1>1 DEF Service!Start, Sessions, Requests, ClientStates, Results

(* A fork opens a session: the pool has a record of every server of this    *)
(* daemon, and none of them is for the key of the client.                   *)
LEMMA OpenStep ==
  ASSUME ServiceInv, Requests' = Jobs', NEW p \in Pids, ForkSession(p)
  PROVE  conn \in Clients /\ Service!Open(p, conn)
<1> USE DEF ServiceInv
<1>1. /\ dpc = "recv" /\ ValidPeer(CallerOf[conn]) /\ ~InPool(CallerOf[conn])
      /\ st[p] = "free" /\ st' = [st EXCEPT ![p] = "forked"]
      /\ caller' = [caller EXCEPT ![p] = CallerOf[conn]]
      /\ peer' = [peer EXCEPT ![p] = conn] /\ pgen' = [pgen EXCEPT ![p] = gen]
      /\ UNCHANGED <<conn, gen, sq, runner, cpc, msg>>
  BY DEF ForkSession
<1>2. conn \in Clients /\ CallerOf[conn] \in Callers
  BY <1>1, Credentials DEF PoolInv, DaemonOk
<1>3. /\ st \in [Pids -> SessPoints] /\ caller \in [Pids -> Callers \cup {None}]
      /\ pgen \in [Pids -> Nat] /\ peer \in [Pids -> Clients \cup {None}]
      /\ gen \in Nat
  BY DEF PoolInv, TypeOK
<1>4. /\ {"free", "busy"} \cap Starting = {} /\ "forked" \in Alive
      /\ "free" \notin Alive /\ "forked" # "busy" /\ "free" # "busy"
  BY DEF Alive, Starting, Listening
<1>5. /\ st'[p] = "forked" /\ caller'[p] = CallerOf[conn] /\ pgen'[p] = gen
      /\ \A q \in Pids : q # p => /\ st'[q] = st[q] /\ caller'[q] = caller[q]
                                  /\ pgen'[q] = pgen[q] /\ peer'[q] = peer[q]
  BY <1>1, <1>3
<1>6. Sessions' = [Sessions EXCEPT ![p] = [caller |-> CallerOf[conn], boot |-> gen]]
  <2>1. /\ Sessions' = [q \in Pids |-> Sessions'[q]]
        /\ Sessions = [q \in Pids |-> Sessions[q]]
    BY DEF Sessions
  <2>2. Sessions'[p] = [caller |-> CallerOf[conn], boot |-> gen]
    BY <1>4, <1>5 DEF Sessions
  <2>3. \A q \in Pids : q # p => Sessions'[q] = Sessions[q]
    BY <1>5 DEF Sessions
  <2> QED  BY <2>1, <2>2, <2>3
<1>7. Jobs' = Jobs
  BY <1>1, <1>4, <1>5, SameJobs
<1>8. ClientStates' = ClientStates /\ Results' = Results
  BY <1>1, SameClients
<1>9. Sessions[p] = None /\ Sessions'[p] # None
  <2>1. Sessions[p] = None
    BY <1>1, <1>4, AtPoints
  <2>2. Sessions'[p] = [caller |-> CallerOf[conn], boot |-> gen]
    BY <1>4, <1>5 DEF Sessions
  <2> QED  BY <1>2, <1>3, <2>1, <2>2
<1>10. ClientStates[conn] # "in"
  <2>1. cpc[conn] # "sess"
    BY <1>1, <1>2, AskingIsOut DEF Asking, InConn
  <2> QED  BY <1>2, <2>1, AtPoints
<1>11. ASSUME NEW q \in Pids, Sessions[q] # None, Sessions[q].boot = gen
       PROVE  Key(Sessions[q].caller) # Key(CallerOf[conn])
  <2>1. st[q] \in Alive
    BY <1>11, AtPoints
  <2>2. Sessions[q] = [caller |-> caller[q], boot |-> pgen[q]]
    BY <2>1, AtPoints
  <2>3. q \in Children
    BY <1>1, <1>4, <1>11, <2>1, <2>2 DEF Children, HasParent
  <2>4. q # child
    BY <1>1 DEF PoolInv, DaemonOk
  <2>5. PICK r \in pool : r.pid = q /\ caller[q] = r.caller
    BY <2>3, <2>4 DEF PoolInv, PoolTracksChildren
  <2>6. Key(caller[q]) # Key(CallerOf[conn])
    BY <1>1, <2>5 DEF InPool
  <2> QED  BY <2>2, <2>6
<1>12. CallerOf[conn] \in {a \in Callers : a.uid \in ValidUids /\ a.gid \in ValidGids}
  BY <1>1, <1>2 DEF ValidPeer
<1> QED  BY <1>1, <1>2, <1>6, <1>7, <1>8, <1>9, <1>10, <1>11, <1>12
         DEF Service!Open

LEMMA CallStep ==
  ASSUME ServiceInv, Requests' = Jobs', NEW p \in Pids, SessionAccept(p) \/ SessionReject(p)
  PROVE  Service!Call(p)
<1> USE DEF ServiceInv
<1>1. /\ st[p] = "accepting" /\ sq' = [sq EXCEPT ![p] = Tail(sq[p])]
      /\ UNCHANGED <<gen, caller, pgen, runner, cpc, msg>>
  BY DEF SessionAccept, SessionReject
<1>2. /\ st \in [Pids -> SessPoints] /\ peer \in [Pids -> Clients \cup {None}]
      /\ sq[p] \in Seq(Clients) /\ sq[p] # <<>> /\ Len(sq[p]) >= 1
      /\ caller[p] \in Callers /\ caller[p].gid = PwGid[caller[p].uid]
      /\ Key(CallerOf[sq[p][1]]) = Key(caller[p])
  <2>1. /\ sq[p] \in Seq(Clients) /\ ServerOk(p) /\ st \in [Pids -> SessPoints]
        /\ peer \in [Pids -> Clients \cup {None}]
    BY DEF PoolInv, TypeOK, ServersOk
  <2>2. sq[p] # <<>> /\ st[p] \in Checked /\ st[p] # "free"
    BY <1>1, <2>1 DEF ServerOk, Checked, Bound, Listening
  <2>3. Len(sq[p]) >= 1
    BY <2>1, <2>2
  <2> QED  BY <2>1, <2>2, <2>3 DEF ServerOk
<1>3. /\ Head(sq[p]) = sq[p][1] /\ Head(sq[p]) \in Clients
      /\ CallerOf[Head(sq[p])] \in Callers
  BY <1>2, Credentials
<1>4. /\ {"accepting", "busy", "serving"} \subseteq Alive
      /\ "accepting" # "busy" /\ "serving" # "busy"
  BY DEF Alive, Listening
<1>5. /\ st'[p] \in {"busy", "serving"}
      /\ \A q \in Pids : q # p => st'[q] = st[q] /\ peer'[q] = peer[q]
  BY <1>2 DEF SessionAccept, SessionReject, Goto
<1>6. Sessions' = Sessions
  BY <1>1, <1>4, <1>5, SameSessions
<1>7. ClientStates' = ClientStates /\ Results' = Results
  BY <1>1, SameClients
<1>8. /\ Sessions[p] # None /\ Sessions[p].caller = caller[p] /\ Jobs[p] = None
  <2>1. st[p] \in Alive /\ st[p] # "busy"
    BY <1>1, <1>4
  <2>2. Sessions[p] = [caller |-> caller[p], boot |-> pgen[p]] /\ Jobs[p] = None
    BY <2>1, AtPoints
  <2>3. Sessions[p] # None
    BY <2>1, SessionsExist
  <2> QED  BY <2>2, <2>3
<1>9. CASE SessionAccept(p)
  <2>1. /\ caller[p].uid = CallerOf[Head(sq[p])].uid
        /\ caller[p].gid = CallerOf[Head(sq[p])].gid
        /\ st'[p] = "busy" /\ peer'[p] = Head(sq[p])
    BY <1>2, <1>9 DEF SessionAccept, CheckPeerCreds, Goto
  <2>2. CallerOf[Head(sq[p])] = caller[p]
    BY <1>2, <1>3, <2>1, Credentials
  <2>3. Jobs' = [Jobs EXCEPT ![p] = Head(sq[p])]
    BY <1>5, <2>1 DEF Jobs
  <2>4. CallerOf[Head(sq[p])] \in {a \in Callers : PwGid[a.uid] = a.gid}
    BY <1>2, <2>2
  <2> QED  BY <1>1, <1>2, <1>6, <1>7, <1>8, <2>2, <2>3, <2>4 DEF Service!Call
<1>10. CASE SessionReject(p)
  <2>1. CallerOf[Head(sq[p])] # caller[p] /\ st'[p] = "serving"
    BY <1>2, <1>10 DEF SessionReject, CheckPeerCreds, Goto
  <2>2. Jobs' = Jobs
    BY <1>1, <1>4, <1>5, <2>1, SameJobs
  <2> QED  BY <1>1, <1>2, <1>6, <1>7, <1>8, <2>1, <2>2 DEF Service!Call
<1> QED  BY <1>9, <1>10

(* The answer of a handler or a runner, heard only by its own client.       *)
LEMMA TellStep ==
  ASSUME ServiceInv, NEW d \in Clients, Waiting(d), cpc' = cpc,
         msg' = msg \/ \E m \in {"done", "failed"} : msg' = [msg EXCEPT ![d] = m]
  PROVE  Service!Tell(d) /\ ClientStates' = ClientStates
<1> USE DEF ServiceInv
<1>1. msg \in [Clients -> {"none", "request", "done", "failed"}]
  BY DEF PoolInv, TypeOK
<1>2. ClientStates' = ClientStates
  BY DEF ClientStates
<1>3. CASE msg' = msg
  <2>1. Results' = Results
    BY <1>3 DEF Results
  <2> QED  BY <1>2, <2>1 DEF Service!Tell
<1>4. ASSUME NEW m \in {"done", "failed"}, msg' = [msg EXCEPT ![d] = m]
      PROVE  Service!Tell(d)
  <2>1. \A c \in Clients : msg'[c] = IF c = d THEN m ELSE msg[c]
    BY <1>1, <1>4
  <2>2. CASE cpc[d] = "sess"
    <3>1. Results' = [Results EXCEPT ![d] = m]
      BY <2>1, <2>2 DEF Results
    <3>2. ClientStates[d] = "in"
      BY <2>2, AtPoints
    <3> QED  BY <3>1, <3>2 DEF Service!Tell
  <2>3. CASE cpc[d] = "gone"
    <3>1. Results' = Results
      BY <2>1, <2>3 DEF Results
    <3> QED  BY <3>1 DEF Service!Tell
  <2>4. cpc[d] \in {"sess", "gone"}
    BY DEF ConnInv, ClientOk
  <2> QED  BY <2>2, <2>3, <2>4
<1> QED  BY <1>2, <1>3, <1>4

LEMMA AnswerStep ==
  ASSUME ServiceInv, Requests' = Jobs', NEW p \in Pids, HandlerLeaves(p)
  PROVE  Service!Answer(p) \/ Service!Detach(p)
<1> USE DEF ServiceInv
<1>1. /\ st[p] = "busy" /\ st' = [st EXCEPT ![p] = "serving"]
      /\ peer' = [peer EXCEPT ![p] = None]
      /\ UNCHANGED <<gen, caller, pgen, sq, cpc>>
  BY DEF HandlerLeaves, Goto
<1>2. /\ st \in [Pids -> SessPoints] /\ peer \in [Pids -> Clients \cup {None}]
      /\ {"busy", "serving"} \subseteq Alive /\ "serving" # "busy"
  BY DEF PoolInv, TypeOK, Alive, Listening
<1>3. peer[p] \in Clients /\ Waiting(peer[p])
  BY <1>1 DEF PoolInv, ServersOk, ServerOk, Waiting, InJob
<1>4. /\ st'[p] = "serving"
      /\ \A q \in Pids : q # p => st'[q] = st[q] /\ peer'[q] = peer[q]
  BY <1>1, <1>2
<1>5. Sessions' = Sessions
  BY <1>1, <1>2, <1>4, SameSessions
<1>6. Jobs' = [Jobs EXCEPT ![p] = None] /\ Jobs[p] = peer[p]
  BY <1>1, <1>2, <1>4 DEF Jobs
<1>7. CASE /\ runner' = runner
           /\ msg' = msg \/ \E m \in {"done", "failed"} : Reply(peer[p], m)
  <2>1. Service!Tell(peer[p]) /\ ClientStates' = ClientStates
    BY <1>1, <1>3, <1>7, TellStep DEF Reply
  <2> QED  BY <1>1, <1>3, <1>5, <1>6, <1>7, <2>1 DEF Service!Answer
<1>8. CASE runner' = [runner EXCEPT ![peer[p]] = caller[p]] /\ msg' = msg
  <2>1. ClientStates' = ClientStates /\ Results' = Results
    BY <1>1, <1>8, SameClients
  <2>2. Sessions[p].caller = caller[p]
    <3>1. Sessions[p] = [caller |-> caller[p], boot |-> pgen[p]]
      BY <1>1, <1>2, AtPoints
    <3> QED  BY <3>1
  <2> QED  BY <1>1, <1>3, <1>5, <1>6, <1>8, <2>1, <2>2 DEF Service!Detach
<1> QED  BY <1>7, <1>8 DEF HandlerLeaves

LEMMA FinishStep ==
  ASSUME ServiceInv, NEW c \in Clients, RunnerEnds(c)
  PROVE  Service!Finish(c)
<1>1. /\ UNCHANGED <<gen, st, caller, pgen, peer, sq, cpc>>
      /\ runner[c] # None /\ runner' = [runner EXCEPT ![c] = None]
      /\ msg' = msg \/ \E m \in {"done", "failed"} : msg' = [msg EXCEPT ![c] = m]
  BY DEF RunnerEnds, RunnerReplies, Reply
<1>2. Waiting(c)
  BY <1>1 DEF Waiting, InRunner
<1>3. Service!Tell(c) /\ ClientStates' = ClientStates
  BY <1>1, <1>2, TellStep
<1>4. Sessions' = Sessions /\ Requests' = Requests
  BY <1>1 DEF Sessions, Requests
<1> QED  BY <1>1, <1>3, <1>4 DEF Service!Finish

(* A server exits without a job in hand.                                    *)
LEMMA LeaveStep ==
  ASSUME ServiceInv, Requests' = Jobs', NEW p \in Pids,
         InitDies(p) \/ SrvListenFails(p) \/ ListenerInitFails(p) \/ SessionExit(p)
  PROVE  Service!Leave(p)
<1> USE DEF ServiceInv
<1>1. /\ st[p] \in {"init", "unlinked", "bound", "listening", "exiting"}
      /\ Exit(p)
  BY DEF InitDies, SrvListenFails, ListenerInitFails, SessionExit
<1>2. /\ \E s \in {"zombie", "free"} : st' = [st EXCEPT ![p] = s]
      /\ \E v : caller' = [caller EXCEPT ![p] = v]
      /\ \E v : pgen' = [pgen EXCEPT ![p] = v]
      /\ peer' = [peer EXCEPT ![p] = None]
      /\ sq' = [sq EXCEPT ![p] = <<>>]
      /\ UNCHANGED <<gen, runner, cpc>>
  BY <1>1 DEF Exit
<1>3. /\ st \in [Pids -> SessPoints] /\ caller \in [Pids -> Callers \cup {None}]
      /\ pgen \in [Pids -> Nat] /\ peer \in [Pids -> Clients \cup {None}]
      /\ msg \in [Clients -> {"none", "request", "done", "failed"}]
      /\ {"zombie", "free"} \cap Alive = {} /\ st[p] \in Alive \ {"busy"}
  BY <1>1 DEF PoolInv, TypeOK, Alive, Starting, Listening
<1>4. /\ st'[p] \in {"zombie", "free"}
      /\ \A q \in Pids : q # p => /\ st'[q] = st[q] /\ caller'[q] = caller[q]
                                  /\ pgen'[q] = pgen[q] /\ peer'[q] = peer[q]
  BY <1>2, <1>3
<1>5. Sessions' = [Sessions EXCEPT ![p] = None]
  BY <1>3, <1>4 DEF Sessions
<1>6. Jobs' = Jobs /\ Jobs[p] = None
  <2>1. Jobs' = Jobs
    BY <1>3, <1>4, SameJobs
  <2> QED  BY <1>3, <2>1, AtPoints
<1>7. ASSUME NEW c \in Clients, cpc[c] = "sess" PROVE msg'[c] = msg[c]
  <2>1. CASE SrvListenFails(p) \/ ListenerInitFails(p)
    <3>1. InHand(peer[p], p) /\ msg' = [msg EXCEPT ![peer[p]] = "failed"]
      BY <2>1 DEF SrvListenFails, ListenerInitFails, Reply, InHand, HandPoints,
                  Starting
    <3>2. c # peer[p]
      BY <1>7, <3>1, AskingIsOut DEF Asking
    <3> QED  BY <1>3, <3>1, <3>2
  <2>2. CASE InitDies(p) \/ SessionExit(p)
    BY <2>2 DEF InitDies, SessionExit
  <2> QED  BY <2>1, <2>2
<1>8. ClientStates' = ClientStates /\ Results' = Results
  BY <1>2, <1>7, SameClients
<1>9. Sessions[p] # None
  BY <1>3, SessionsExist
<1> QED  BY <1>2, <1>5, <1>6, <1>8, <1>9 DEF Service!Leave

LEMMA HeldIsWaiting ==
  ASSUME Requests = Jobs, NEW c \in Clients
  PROVE  Service!Held(c) <=> Waiting(c)
<1>1. c # None
  OBVIOUS
<1>2. ASSUME NEW p \in Pids PROVE Jobs[p] = c <=> InJob(c, p)
  BY <1>1, AtPoints DEF InJob
<1>3. \A p \in Pids : c \in Service!Range(sq[p]) <=> InLine(c, p)
  BY DEF Service!Range, Range, InLine
<1> QED  BY <1>2, <1>3 DEF Service!Held, Waiting, InRunner

(* Only a client that is or was connected to a session is seen to move.     *)
LEMMA ClientSimulates ==
  ASSUME ServiceInv, NEW c \in Clients,
         \/ ClientStep(c) \/ SendRequest(c) \/ ClientKilled(c) \/ ClientRestart(c)
  PROVE  Service!Next \/ UNCHANGED Service!vars
<1> USE DEF ServiceInv
<1>1. /\ cpc \in [Clients -> ClientPoints] /\ sq \in [Pids -> Seq(Clients)]
      /\ msg \in [Clients -> {"none", "request", "done", "failed"}]
  BY DEF PoolInv, TypeOK
<1>2. /\ UNCHANGED <<gen, st, caller, pgen, peer, runner>>
      /\ \E s : cpc' = [cpc EXCEPT ![c] = s]
      /\ msg' = msg \/ \E m : msg' = [msg EXCEPT ![c] = m]
  BY DEF ClientStep, TryConnect, ConnectSession, AskDaemon, RecvResponse, Reconnect,
         RecvJobResponse, RecvEOF, SendRequest, ClientKilled, ClientRestart,
         ClientGoto, Reply
<1>3. \A d \in Clients : d # c => cpc'[d] = cpc[d] /\ msg'[d] = msg[d]
  BY <1>1, <1>2
<1>4. Sessions' = Sessions /\ Requests' = Requests
  BY <1>2 DEF Sessions, Requests
<1>5. Waiting(c) => Held(c)
  BY DEF Waiting, InLine, InJob, InRunner, Held
<1>6. CASE ConnectSession(c) /\ (TryConnect(c) \/ Reconnect(c))
  <2>1. SocketPath(CallerOf[c]) = Key(CallerOf[c]) /\ Key(CallerOf[c]) \in Keys
    BY Credentials
  <2>2. PICK p \in Pids : /\ p = sock[Key(CallerOf[c])] /\ st[p] \in Listening
                          /\ Key(caller[p]) = Key(CallerOf[c])
    BY <1>6, <2>1 DEF ConnectSession, Reachable, PoolInv, PathsOk
  <2>3. sq' = [sq EXCEPT ![p] = Append(sq[p], c)]
    BY <1>6, <2>1, <2>2 DEF ConnectSession
  <2>4. cpc[c] \in {"start", "reconnect"} /\ cpc'[c] = "sess" /\ msg'[c] = msg[c]
    BY <1>1, <1>6 DEF TryConnect, Reconnect, ConnectSession, ClientGoto
  <2>5. ~Waiting(c) /\ msg[c] = "none"
    BY <2>4 DEF ConnInv, ClientOk
  <2>6. ClientStates[c] = "out" /\ ClientStates' = [ClientStates EXCEPT ![c] = "in"]
    BY <1>3, <2>4 DEF ClientStates
  <2>7. Results' = Results
    BY <1>3, <2>4, <2>5 DEF Results
  <2>8. st[p] \in Alive
    BY <2>2 DEF Alive
  <2>9. Sessions[p] # None /\ Sessions[p].caller = caller[p]
    <3>1. Sessions[p] = [caller |-> caller[p], boot |-> pgen[p]]
      BY <2>8, AtPoints
    <3>2. Sessions[p] # None
      BY <2>8, SessionsExist
    <3> QED  BY <3>1, <3>2
  <2>10. ClientStates'[c] = "in"
    BY <2>4 DEF ClientStates
  <2>11. Service!Enter(c, p)
    BY <1>2, <1>4, <2>2, <2>3, <2>5, <2>6, <2>7, <2>9, <2>10, HeldIsWaiting
    DEF Service!Enter
  <2> QED  BY <2>11 DEF Service!Next
<1>7. CASE sq' = sq /\ cpc[c] = "sess" /\ (RecvJobResponse(c) \/ RecvEOF(c))
  <2>1. /\ cpc'[c] \in {"done", "failed"}
        /\ ~Waiting(c)
    <3>1. CASE RecvJobResponse(c)
      BY <1>1, <3>1 DEF RecvJobResponse, ClientGoto, ConnInv, ClientOk
    <3>2. CASE RecvEOF(c)
      BY <1>1, <1>5, <3>2 DEF RecvEOF, ClientGoto
    <3> QED  BY <1>7, <3>1, <3>2
  <2>2. ClientStates[c] = "in" /\ ClientStates' = [ClientStates EXCEPT ![c] = "out"]
    BY <1>3, <1>7, <2>1 DEF ClientStates
  <2>3. Results' = [Results EXCEPT ![c] = "none"]
    BY <1>3, <2>1 DEF Results
  <2>4. Service!Hear(c)
    BY <1>2, <1>4, <1>7, <2>1, <2>2, <2>3, HeldIsWaiting DEF Service!Hear
  <2> QED  BY <2>4 DEF Service!Next
<1>8. CASE ClientKilled(c)
  <2>1. cpc[c] # "gone" /\ cpc'[c] = "gone" /\ sq' = sq
    BY <1>1, <1>8 DEF ClientKilled, ClientGoto
  <2>2. ClientStates[c] # "gone" /\ ClientStates'[c] = "gone"
        /\ ClientStates' = [ClientStates EXCEPT ![c] = "gone"]
    BY <1>3, <2>1 DEF ClientStates
  <2>3. Results' = [Results EXCEPT ![c] = "none"]
    BY <1>3, <2>1 DEF Results
  <2>4. Service!Kill(c)
    BY <1>2, <1>4, <2>1, <2>2, <2>3 DEF Service!Kill
  <2> QED  BY <2>4 DEF Service!Next
<1>9. CASE ClientRestart(c) /\ cpc[c] = "gone"
  <2>1. cpc'[c] = "start" /\ ~Waiting(c) /\ sq' = sq
    BY <1>1, <1>5, <1>9 DEF ClientRestart, ClientGoto
  <2>2. ClientStates[c] = "gone" /\ ClientStates' = [ClientStates EXCEPT ![c] = "out"]
    BY <1>3, <1>9, <2>1 DEF ClientStates
  <2>3. Results' = Results
    BY <1>3, <1>9, <2>1 DEF Results
  <2>4. Service!Return(c)
    BY <1>2, <1>4, <2>1, <2>2, <2>3, HeldIsWaiting DEF Service!Return
  <2> QED  BY <2>4 DEF Service!Next
<1>10. CASE /\ sq' = sq
            /\ cpc[c] \notin {"sess", "gone"} /\ cpc'[c] \notin {"sess", "gone"}
  <2>1. ClientStates' = ClientStates /\ Results' = Results
    BY <1>3, <1>10 DEF ClientStates, Results
  <2> QED  BY <1>2, <1>4, <1>10, <2>1 DEF Service!vars
<1>11. CASE TryConnect(c) \/ Reconnect(c) \/ AskDaemon(c)
  <2>1. CASE ~ConnectSession(c)
    <3>1. /\ sq' = sq /\ cpc[c] \in {"start", "ask", "reconnect"}
          /\ cpc'[c] \in {"ask", "connected", "failed"}
      BY <1>1, <1>11, <2>1 DEF TryConnect, Reconnect, AskDaemon, ClientGoto
    <3> QED  BY <1>10, <3>1
  <2>2. CASE ConnectSession(c) /\ AskDaemon(c)
    <3>1. cpc'[c] = "sess" /\ cpc'[c] \in {"connected", "failed"}
      BY <1>1, <2>2 DEF ConnectSession, AskDaemon, ClientGoto
    <3> QED  BY <3>1
  <2> QED  BY <1>6, <1>11, <2>1, <2>2
<1>12. CASE RecvResponse(c) \/ RecvJobResponse(c) \/ RecvEOF(c)
  <2>1. /\ sq' = sq /\ cpc[c] # "gone"
        /\ cpc'[c] \in {"reconnect", "done", "failed"}
    BY <1>1, <1>12 DEF RecvResponse, RecvJobResponse, RecvEOF, ClientGoto
  <2>2. cpc[c] = "sess" => RecvJobResponse(c) \/ RecvEOF(c)
    BY <1>12 DEF RecvResponse
  <2> QED  BY <1>7, <1>10, <2>1, <2>2
<1>13. CASE SendRequest(c) \/ (ClientRestart(c) /\ cpc[c] # "gone")
  <2>1. /\ sq' = sq /\ cpc[c] \in {"connected", "done", "failed"}
        /\ cpc'[c] \in {"wait", "start"}
    BY <1>1, <1>13 DEF SendRequest, ClientRestart, ClientGoto
  <2> QED  BY <1>10, <2>1
<1> QED  BY <1>8, <1>9, <1>11, <1>12, <1>13 DEF ClientStep

LEMMA ServiceStep ==
  ASSUME ServiceInv, [Next]_vars
  PROVE  [Service!Next]_(Service!vars)
<1> USE DEF ServiceInv
<1>0. Requests' = Jobs' /\ TypeOK
  BY NextStep, OnlyJobsInHand DEF PoolInv
<1>1. CASE DaemonStep
  <2>1. ASSUME NEW p \in Pids, ForkSession(p) PROVE Service!Next
    <3>1. PICK c \in Clients : Service!Open(p, c)
      BY <1>0, <2>1, OpenStep
    <3> QED  BY <3>1 DEF Service!Next
  <2> QED  BY <1>0, <1>1, <2>1, HiddenStep DEF DaemonStep
<1>2. ASSUME NEW p \in Pids, SessionStep(p)
      PROVE  Service!Next \/ UNCHANGED Service!vars
  <2>1. CASE \/ Service!Call(p) \/ Service!Answer(p) \/ Service!Detach(p)
             \/ Service!Leave(p)
    BY <2>1 DEF Service!Next
  <2>2. CASE HandlerRefuses(p) \/ HandlerRunsJob(p) \/ HandlerDetaches(p)
    BY <1>0, <2>1, <2>2, HandlerStep, AnswerStep
  <2> QED  BY <1>0, <1>2, <2>1, <2>2, CallStep, LeaveStep, HiddenStep DEF SessionStep
<1>3. CASE \E c \in Clients : ClientStep(c)
  BY <1>3, ClientSimulates
<1>4. CASE Environment
  <2>1. CASE DaemonStart
    BY <2>1, StartStep DEF Service!Next
  <2>2. ASSUME NEW c \in Clients, RunnerEnds(c) PROVE Service!Next
    BY <2>2, FinishStep DEF Service!Next
  <2> QED  BY <1>0, <1>4, <2>1, <2>2, HiddenStep, ClientSimulates DEF Environment
<1>5. CASE UNCHANGED vars
  BY <1>0, <1>5, HiddenStep
<1> QED  BY <1>1, <1>2, <1>3, <1>4, <1>5 DEF Next

(* Daemon, session servers, runners and clients implement the service: a    *)
(* session for an eligible caller, one for each key and start of the        *)
(* daemon, which takes requests of its own caller only, one at a time, and  *)
(* does not leave with one in hand; jobs of runners, which have the ids of  *)
(* that caller, outlive their sessions and the daemon, and are cut short by *)
(* neither; the answer to a job for the client whose job it was, and once.  *)
THEOREM SessionsAreServed == Spec => ServesSessions
<1>1. ServiceInv /\ [Next]_vars => [Service!Next]_(Service!vars)
  BY ServiceStep
<1>2. Spec => []ServiceInv
  <2>1. PoolInv /\ ConnInv => ServiceInv
    BY OnlyJobsInHand DEF ServiceInv
  <2> QED  BY <2>1, PoolIsInvariant, ConnectionsAreInOnePlace, PTL
<1> QED  BY <1>1, <1>2, ServiceInit, PTL DEF Spec, ServesSessions, Service!Spec

=============================================================================
