------------------------------ MODULE PidFile ------------------------------
(***************************************************************************)
(* The pidfile protocol of hasher-privd (pidfile.c and its callers in main *)
(* of hasher-privd.c): check_pid in the foreground, daemon(3), which       *)
(* changes the process id, write_pid in steps, service, remove_pid.        *)
(*                                                                         *)
(* Several starts of the daemon share the file.  The file is an inode that *)
(* a path leads to: a start may hold an inode that was unlinked meanwhile. *)
(* An inode is named after the start that created it.                      *)
(***************************************************************************)
EXTENDS Naturals

CONSTANTS
  Starts,      \* the starts of the daemon
  Pids,        \* process ids, reused
  Others,      \* the process ids of living processes that are not the daemon
  Leftover,    \* the pidfile of an earlier daemon
  NoInode

ASSUME PidFileConstants ==
  /\ Pids \subseteq Nat \ {0} /\ Others \subseteq Pids
  /\ Leftover \notin Starts /\ NoInode \notin Starts \cup {Leftover}

VARIABLES
  overlap, \* starts may overlap; otherwise one at a time, as by a service manager
  pc,      \* control point of each start
  pid,     \* its process id, 0 if it has none
  fd,      \* the inode write_pid has open
  path,    \* the inode the pidfile's path leads to
  content, \* the process id an inode holds, 0 if it is empty
  lock     \* the start holding the flock of an inode, or NoInode

Inodes == Starts \cup {Leftover}
vars == <<overlap, pc, pid, fd, path, content, lock>>

Starting == {"check", "daemon", "open", "flock", "write", "close"}
Serving == {"serve", "remove"}
Points == Starting \cup Serving \cup {"off", "refused", "gone"}
Alive(i) == pc[i] \in Starting \cup Serving

Init ==
  /\ overlap \in BOOLEAN
  /\ pc = [i \in Starts |-> "off"]
  /\ pid = [i \in Starts |-> 0]
  /\ fd = [i \in Starts |-> NoInode]
  /\ path \in {NoInode, Leftover}
  /\ \E p \in Pids : content = [n \in Inodes |-> IF n = Leftover THEN p ELSE 0]
  /\ lock = [n \in Inodes |-> NoInode]

LivePids == Others \cup {pid[i] : i \in Starts}

Goto(i, point) == pc' = [pc EXCEPT ![i] = point]

\* The end of a process: its descriptors are closed, its locks released.
Leave(i, point) ==
  /\ Goto(i, point)
  /\ pid' = [pid EXCEPT ![i] = 0]
  /\ fd' = [fd EXCEPT ![i] = NoInode]
  /\ lock' = [n \in Inodes |-> IF lock[n] = i THEN NoInode ELSE lock[n]]

Start(i) ==
  /\ pc[i] = "off"
  /\ overlap \/ \A j \in Starts : pc[j] \notin Starting
  /\ \E p \in Pids \ LivePids : pid' = [pid EXCEPT ![i] = p]
  /\ Goto(i, "check")
  /\ UNCHANGED <<overlap, fd, path, content, lock>>

\* read_pid: zero if there is no pidfile or it is empty.
ReadPid == IF path = NoInode THEN 0 ELSE content[path]

\* check_pid: another living process has the process id of the pidfile.
CheckPidNever(i) == FALSE
CheckPidExists(i) == path # NoInode
CheckPid(i) ==
  /\ ReadPid \notin {0, pid[i]}
  /\ ReadPid \in LivePids

Check(i) ==
  /\ pc[i] = "check"
  /\ \/ CheckPid(i) /\ Leave(i, "refused")
     \/ ~CheckPid(i) /\ Goto(i, "daemon") /\ UNCHANGED <<pid, fd, lock>>
  /\ UNCHANGED <<overlap, path, content>>

\* daemon(3): the parent exits, the child goes on.
Daemonize(i) ==
  /\ pc[i] = "daemon"
  /\ \E p \in Pids \ LivePids : pid' = [pid EXCEPT ![i] = p]
  /\ Goto(i, "open")
  /\ UNCHANGED <<overlap, fd, path, content, lock>>

\* write_pid: open creates or truncates the file ...
Open(i) ==
  /\ pc[i] = "open"
  /\ path' = IF path = NoInode THEN i ELSE path
  /\ fd' = [fd EXCEPT ![i] = path']
  /\ content' = [content EXCEPT ![path'] = 0]
  /\ Goto(i, "flock")
  /\ UNCHANGED <<overlap, pid, lock>>

\* ... flock does not wait ...
Flock(i) ==
  /\ pc[i] = "flock"
  /\ \/ /\ lock[fd[i]] = NoInode
        /\ lock' = [lock EXCEPT ![fd[i]] = i]
        /\ Goto(i, "write")
        /\ UNCHANGED <<pid, fd>>
     \/ lock[fd[i]] # NoInode /\ Leave(i, "refused")
  /\ UNCHANGED <<overlap, path, content>>

\* ... fclose writes the buffered number ...
Write(i) ==
  /\ pc[i] = "write"
  /\ content' = [content EXCEPT ![fd[i]] = pid[i]]
  /\ Goto(i, "close")
  /\ UNCHANGED <<overlap, pid, fd, path, lock>>

\* ... and closes the file, which releases the lock.
Close(i) ==
  /\ pc[i] = "close"
  /\ lock' = [lock EXCEPT ![fd[i]] = NoInode]
  /\ fd' = [fd EXCEPT ![i] = NoInode]
  /\ Goto(i, "serve")
  /\ UNCHANGED <<overlap, pid, path, content>>

\* A termination signal; the sessions are waited for.
Finish(i) ==
  /\ pc[i] = "serve" /\ Goto(i, "remove")
  /\ UNCHANGED <<overlap, pid, fd, path, content, lock>>

\* remove_pid, by name, and exit.
RemovePid(i) ==
  /\ pc[i] = "remove"
  /\ path' = NoInode
  /\ Leave(i, "gone")
  /\ UNCHANGED <<overlap, content>>

\* The process is killed, or dies of a call that fails, in write_pid or later.
Crash(i) ==
  /\ Alive(i) /\ Leave(i, "gone")
  /\ UNCHANGED <<overlap, path, content>>

Next == \E i \in Starts :
  \/ Start(i) \/ Check(i) \/ Daemonize(i) \/ Open(i) \/ Flock(i) \/ Write(i)
  \/ Close(i) \/ Finish(i) \/ RemovePid(i) \/ Crash(i)

Spec == Init /\ [][Next]_vars

-----------------------------------------------------------------------------
(* Properties.                                                             *)

TypeOK ==
  /\ overlap \in BOOLEAN
  /\ pc \in [Starts -> Points]
  /\ pid \in [Starts -> Pids \cup {0}]
  /\ \A i \in Starts : pid[i] \in Pids \ Others <=> Alive(i)
  /\ fd \in [Starts -> Inodes \cup {NoInode}]
  /\ path \in Inodes \cup {NoInode}
  /\ content \in [Inodes -> Pids \cup {0}]
  /\ lock \in [Inodes -> Starts \cup {NoInode}]

\* What DESIGN says of the start of the server: check the pidfile, abort if a
\* server is already running.  Two daemons would take the main socket from
\* each other.
AtMostOneServes ==
  \A i, j \in Starts : pc[i] \in Serving /\ pc[j] \in Serving => i = j

\* Starts that do not overlap keep this promise, and the pidfile leads to the
\* daemon that serves from write_pid to remove_pid, whatever stale file it
\* found, although process ids are reused and a start may die at any point.
SerialStartsAreSafe ==
  ~overlap =>
    /\ AtMostOneServes
    /\ \A i \in Starts : pc[i] \in Serving => ReadPid = pid[i]

\* Starts never all refuse each other: if all that were made were refused,
\* the pidfile of an earlier daemon holds the process id of another process.
NoMutualRefusal ==
  /\ \E i \in Starts : pc[i] = "refused"
  /\ \A i \in Starts : pc[i] \in {"off", "refused"}
  => ReadPid \in Others
=============================================================================
