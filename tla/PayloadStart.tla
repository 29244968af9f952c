---------------------------- MODULE PayloadStart ----------------------------
(***************************************************************************)
(* One job of a session, from its configuration to execve(2) of the        *)
(* payload: CallerConfig composed with what job_executor and chrootuid do  *)
(* to descriptors (fds.c, chrootuid.c, child.c), to the processes left by  *)
(* an earlier job (killuid.c), to ids, namespaces and limits (chrootuid.c, *)
(* unshare.c), and to the processors of the payload (set_affinity_nproc).  *)
(* The runner and the executor look the client up in /proc by the pid that *)
(* came with its connection (cgroup.c, ns.c, procfd.c).                    *)
(*                                                                         *)
(* A descriptor table maps numbers to what is open there; system calls take *)
(* the lowest free number.  After fork(2) the two halves share nothing of   *)
(* this state, so a behaviour follows one of them, named by who.            *)
(***************************************************************************)
EXTENDS CallerConfig, FiniteSets, Sequences

CONSTANTS
  Cpus,        \* processors in the affinity mask of the executor
  Rlim,        \* the limits the executor inherits: cur and max
  Procs,       \* the client and what may get its pid later: owner, and the
               \* namespaces that differ from those of the server
  Leftovers,   \* bound: what an earlier job may have left
  Orders       \* bound: orders in which the client may send its descriptors

\* What the client sends: its streams and the directory of the chroot.
Sent == {"in", "out", "err", "root"}

\* What a job leaves: processes that are alive or have SIGKILL pending, and IPC
\* objects in the IPC namespace of the server or the client.  A plain object
\* can be read by its owner; a hidden one cannot (its mode is 0000), or was
\* given to another user; a last one was made by the system call in which
\* SIGKILL met its process.
Processes(state) == Users \X {"process"} \X {state}
Spaces == {"server", "client"}
Ipc(spaces, kinds) == Users \X spaces \X kinds
Made == {"plain", "hidden"}

ASSUME StartAssumption ==
  /\ IsFiniteSet(Cpus) /\ Cpus \subseteq Nat
  /\ Rlim \in [cur : Int, max : Int]
  /\ "client" \in DOMAIN Procs /\ Procs["client"].owner = Caller.uid
  /\ "new" \notin DOMAIN Procs
  /\ \A l \in Leftovers : l \subseteq Processes("alive") \cup Ipc(Spaces, Made)

\* fd_recv gives them the numbers above the connection, each its own.
ASSUME OrdersAssumption ==
  \A at \in Orders : /\ at \in [Sent -> 4..7]
                    /\ \A a, b \in Sent : at[a] = at[b] => a = b

\* /proc/self/ns, in the order of readdir; one entry for those that have to
\* be the same.
NsDir == <<"ipc", "mnt", "net", "pid", "uts">>

MaxFd == 15    \* more numbers than one executor ever has open
Fd == 0..MaxFd

(* What the session left open, and what else a number may lead to.          *)
Session == {"journal", "conn", "pipe"}
PayloadEnds == {"slave", "slave2", "outw", "errw", "ctl1"}
Objects == Session \cup Sent \cup PayloadEnds \cup
           {"cwd", "log", "master", "master2", "outr", "errr", "ctl0",
            "x11dir", "nullr", "x11", "none"}

VARIABLES
  who,         \* the process: the executor, or the parent or child half
  table,       \* descriptor table
  cloexec,     \* descriptors with the close-on-exec flag
  std_fds,     \* job->std_fds
  chroot_fd, log_fd, master, slave, pipe_out, pipe_err, ctl,
  job,         \* the pseudo-user of the job: "user1" or "user2"
  pts,         \* dev_pts_mounted
  tty,         \* the client's stdin is a terminal
  kernel,      \* namespaces the kernel can isolate
  left,        \* what is left of an earlier job
  id,          \* uid, gid and supplementary groups of the process
  target,      \* local variable groups of chrootuid
  ns,          \* whose each namespace is: of the server, a process, or new
  cgroup,      \* whose the cgroup is
  atpid,       \* the process that has the pid of the client, if any
  proc,        \* the process proc_fd or pid_ns_fd is a directory of
  entry,       \* position in NsDir
  enter_ns,    \* namespaces that have been opened to be entered
  rlim,        \* the resource limits, cur and max
  set, tmp, i  \* local variables of set_affinity_nproc

opts == <<job, pts, tty, kernel>>
pty == <<master, slave>>
pipes == <<pipe_out, pipe_err, ctl>>
cpu == <<set, tmp, i>>
kept == <<chroot_fd, log_fd>>
fds == <<table, cloexec, std_fds, kept, pty, pipes>>
proc_fd == <<atpid, proc, entry, enter_ns>>
place == <<ns, cgroup, proc_fd>>
priv == <<left, id, target, place, rlim>>
other == <<opts, priv, cpu, confVars, jobVars>>   \* all but descriptors
startVars == <<who, fds, opts, priv, cpu>>
vars == <<pc, why, confVars, jobVars, startVars>>

nproc == conf["nproc"]     \* change_nproc

-----------------------------------------------------------------------------
(***************************************************************************)
(* System calls on a table.                                                *)
(***************************************************************************)
Open(t) == {n \in Fd : t[n] # "none"}
Lowest(t) == CHOOSE n \in Fd \ Open(t) : \A k \in Fd \ Open(t) : n <= k
Put(t, obj) == [t EXCEPT ![Lowest(t)] = obj]
At(t, obj) == IF \E n \in Fd : t[n] = obj
              THEN CHOOSE n \in Fd : t[n] = obj ELSE -1
Dup2(t, from, to) == [t EXCEPT ![to] = t[from]]
CloseAll(t, nums) == [n \in Fd |-> IF n \in nums THEN "none" ELSE t[n]]
CloseFrom(t, n) == CloseAll(t, {k \in Fd : k >= n})

(* move_fd: dup2 to the new number, then close the old one.                 *)
MoveFd(t, from, to) ==
  IF from < 0 \/ from = to THEN t ELSE CloseAll(Dup2(t, from, to), {from})

Root == [uid |-> 0, gid |-> 0, groups |-> {0}]
Gone == <<-1, -1>>

Init ==
  /\ ConfigInit
  /\ who = "executor" /\ table = [n \in Fd |-> "none"] /\ cloexec = {}
  /\ std_fds = [n \in 0..2 |-> -1] /\ chroot_fd = -1 /\ log_fd = -1
  /\ master = -1 /\ slave = -1 /\ pipe_out = Gone /\ pipe_err = Gone /\ ctl = Gone
  /\ job = "user1" /\ pts = FALSE /\ tty = FALSE /\ kernel = Ns
  /\ left = {} /\ id = Root /\ target = {} /\ rlim = Rlim
  /\ ns = [n \in Ns \cup {"mnt"} |-> "server"] /\ cgroup = "server"
  /\ atpid = "client" /\ proc = "none" /\ entry = 1 /\ enter_ns = {}
  /\ set = Cpus /\ tmp = {} /\ i = 0

Die(reason) == Dies(reason) /\ UNCHANGED <<confVars, jobVars, startVars>>
Step(from, to) == pc = from /\ pc' = to /\ UNCHANGED why

-----------------------------------------------------------------------------
(***************************************************************************)
(* The client may leave at any time, and its pid may be used again; this    *)
(* matters only while something is looked up under that pid.                *)
(***************************************************************************)
LookingUp == {"accept", "cgroup owner", "cgroup file",
              "ns", "ns owner", "ns compare", "ns open"}
PidChanges ==
  /\ pc \in LookingUp
  /\ \/ atpid # "none" /\ atpid' = "none"
     \/ atpid = "none" /\ atpid' \in DOMAIN Procs \ {"client"}
  /\ UNCHANGED <<pc, why, who, fds, opts, left, id, target, ns, cgroup, proc, entry>>
  /\ UNCHANGED <<enter_ns, rlim, cpu, confVars, jobVars>>

\* An open directory of /proc stays with its process: once that has left,
\* nothing can be opened in it, whoever has the pid then.
ProcByPid == atpid
Proc == IF proc = atpid THEN proc ELSE "none"

\* open_proc_fd: open the directory, then look at its owner.
OpenProc(from, next) ==
  /\ pc = from
  /\ IF atpid = "none"
     THEN Die("proc")
     ELSE /\ proc' = atpid /\ pc' = next
          /\ UNCHANGED <<why, who, fds, opts, left, id, target, ns, cgroup, atpid>>
          /\ UNCHANGED <<entry, enter_ns, rlim, cpu, confVars, jobVars>>
CheckOwner(from, next) ==
  /\ pc = from
  /\ IF Proc = "none" \/ Procs[Proc].owner # Caller.uid
     THEN Die("owner")
     ELSE pc' = next /\ UNCHANGED <<why, confVars, jobVars, startVars>>

\* join_caller_cgroup, in the runner of a chrootuid job.
OpenCallerProc == OpenProc("accept", "cgroup owner")
CheckCallerProc == CheckOwner("cgroup owner", "cgroup file")
JoinCallerCgroup ==
  /\ pc = "cgroup file"
  /\ IF Proc = "none" THEN Die("cgroup")
     ELSE /\ cgroup' \in {Proc, "server"}   \* "server": the file was empty
          /\ proc' = "none" /\ pc' = "executor"
          /\ UNCHANGED <<why, who, fds, opts, left, id, target, ns, atpid, entry>>
          /\ UNCHANGED <<enter_ns, rlim, cpu, confVars, jobVars>>

-----------------------------------------------------------------------------
(***************************************************************************)
(* The executor starts with the descriptors of the handler: the daemon's    *)
(* standard ones, the connection, what the client sent, in the order it     *)
(* came, and the pipe of spawn_job_runner.                                  *)
(***************************************************************************)
SpawnExecutor ==
  /\ Step("executor", "std")
  /\ \E at \in Orders :
       /\ table' = [n \in Fd |-> CASE n <= 2 -> "journal"
                                   [] n = 3 -> "conn"
                                   [] n \in 4..7 -> CHOOSE o \in Sent : at[o] = n
                                   [] n = 8 -> "pipe"
                                   [] OTHER -> "none"]
       /\ std_fds' = [n \in 0..2 |-> at[IF n = 0 THEN "in" ELSE
                                        IF n = 1 THEN "out" ELSE "err"]]
       /\ chroot_fd' = at["root"]
  /\ job' \in Users
  /\ left' \in Leftovers
  /\ UNCHANGED <<who, cloexec, log_fd, pty, pipes, pts, tty, kernel>>
  /\ UNCHANGED <<id, target, place, rlim, confVars, jobVars, cpu>>

(* job_executor resets the standard descriptors, one after the other.       *)
ResetStd ==
  /\ Step("std", "sanitize")
  /\ table' = MoveFd(MoveFd(MoveFd(table, std_fds[0], 0), std_fds[1], 1),
                     std_fds[2], 2)
  /\ std_fds' = [n \in 0..2 |-> -1]
  /\ UNCHANGED <<who, cloexec, kept, pty, pipes, other>>

(***************************************************************************)
(* sanitize_fds: reorder_fds moves log_fd and chroot_fd, the lower one      *)
(* first, to the numbers after stderr; everything above is closed.          *)
(***************************************************************************)
ReorderFdStale(r) ==
  IF r.fd < r.start THEN r
  ELSE [r EXCEPT !.t = Dup2(r.t, r.fd, r.start), !.start = @ + 1]
ReorderFd(r) ==     \* r: table, first number to use, descriptor to move
  IF r.fd < r.start THEN r
  ELSE [t |-> Dup2(r.t, r.fd, r.start), start |-> r.start + 1, fd |-> r.start]

Reordered ==
  LET lower == IF log_fd < chroot_fd THEN log_fd ELSE chroot_fd
      upper == IF log_fd < chroot_fd THEN chroot_fd ELSE log_fd
      one == ReorderFd([t |-> table, start |-> 3, fd |-> lower])
      two == ReorderFd([t |-> one.t, start |-> one.start, fd |-> upper])
  IN  [t |-> CloseFrom(two.t, two.start),
       log |-> IF log_fd < chroot_fd THEN one.fd ELSE two.fd,
       chroot |-> IF log_fd < chroot_fd THEN two.fd ELSE one.fd]

SanitizeFds(next) ==
  IF \E n \in 0..2 : table[n] = "none"
  THEN Die("descriptors")
  ELSE /\ table' = Reordered.t
       /\ log_fd' = Reordered.log /\ chroot_fd' = Reordered.chroot
       /\ pc' = next /\ UNCHANGED why
       /\ UNCHANGED <<who, cloexec, std_fds, pty, pipes, other>>

Sanitize == pc = "sanitize" /\ SanitizeFds("env")

-----------------------------------------------------------------------------
(***************************************************************************)
(* spawn_killuid: a process with both pseudo-users as its real and its      *)
(* effective id kills their processes, then removes the IPC objects of the  *)
(* effective one, swaps the ids and does so again, all in the IPC namespace *)
(* it is in.  Until they are killed the processes of an earlier job may go  *)
(* on.                                                                      *)
(***************************************************************************)
killing == <<who, fds, opts, id, target, place, rlim, cpu, confVars, jobVars>>

LeftoverActs ==
  /\ pc = "killuid"
  /\ \E u \in Users, n \in Spaces, k \in Made :
       <<u, "process", "alive">> \in left /\ left' = left \cup {<<u, n, k>>}
  /\ UNCHANGED <<pc, why, killing>>

\* kill(-1, SIGKILL) leaves the signal pending, and nobody waits for the end of
\* processes that are children of others.
KillUid ==
  \/ /\ Step("killuid", "purge")
     /\ left' = {IF x[2] = "process" THEN <<x[1], "process", "dying">> ELSE x : x \in left}
     /\ UNCHANGED killing
  \/ pc = "killuid" /\ Die("killuid")

\* A killed process finishes the system call it is in, then it is gone.
DyingActs ==
  /\ pc \in {"purge", "purge swapped", "groups"}
  /\ \E p \in left \cap Processes("dying") :
       \/ \E n \in Spaces : left' = left \cup {<<p[1], n, "last">>}
       \/ left' = left \ {p}
  /\ UNCHANGED <<pc, why, killing>>

\* purge_sem, purge_shm and purge_msg go over all objects.  What *_STAT refuses
\* is skipped (killuid has no capabilities any more: the owner needs the read
\* permission), and so is what has another owner.
Purge(u) == left' = left \ {<<u, ns["ipc"], k>> : k \in {"plain", "last"}}
PurgeIpcOnce ==
  /\ Step("purge", "groups") /\ Purge("user2")
  /\ UNCHANGED killing
PurgeIpc ==
  /\ \/ Step("purge", "purge swapped") /\ Purge("user2")
     \/ Step("purge swapped", "groups") /\ Purge("user1")
  /\ UNCHANGED killing

\* The pseudo-user of the job, as getpwnam and initgroups know it.
Pseudo == Passwd[conf[job]]

\* The groups of the pseudo-user are remembered; the executor has none.
InitGroups ==
  /\ Step("groups", "ns")
  /\ target' = Pseudo.groups /\ id' = [id EXCEPT !.groups = {}]
  /\ UNCHANGED <<who, fds, opts, left, place, rlim, cpu, confVars, jobVars>>

-----------------------------------------------------------------------------
(***************************************************************************)
(* setup_ns: the entries of /proc/self/ns are compared with those of the    *)
(* client; the ones that differ are opened, and entered at the end.  When   *)
(* openat fails the namespace is not entered, and nothing is said.          *)
(***************************************************************************)
OpenNsProc == OpenProc("ns", "ns owner")
CheckNsProc == CheckOwner("ns owner", "ns compare")

CompareNs ==
  /\ pc = "ns compare" /\ entry <= Len(NsDir)
  /\ LET n == NsDir[entry] IN
     IF Proc = "none" \/ (n = "pid" /\ n \in Procs[Proc].differs)
     THEN Die("ns")
     ELSE /\ IF n \in Procs[Proc].differs
             THEN pc' = "ns open" /\ UNCHANGED entry
             ELSE pc' = pc /\ entry' = entry + 1
          /\ UNCHANGED <<why, who, fds, opts, left, id, target, ns, cgroup, atpid, proc>>
          /\ UNCHANGED <<enter_ns, rlim, cpu, confVars, jobVars>>

OpenNs ==
  /\ Step("ns open", "ns compare")
  /\ enter_ns' = IF Proc = "none" THEN enter_ns
                 ELSE enter_ns \cup {<<NsDir[entry], Proc>>}
  /\ entry' = entry + 1
  /\ UNCHANGED <<who, fds, opts, left, id, target, ns, cgroup, atpid, proc, rlim, cpu>>
  /\ UNCHANGED <<confVars, jobVars>>

EnterNs ==
  /\ Step("ns compare", "reopen") /\ entry > Len(NsDir)
  /\ ns' = [n \in DOMAIN ns |-> IF \E p \in DOMAIN Procs : <<n, p>> \in enter_ns
                                THEN CHOOSE p \in DOMAIN Procs : <<n, p>> \in enter_ns
                                ELSE ns[n]]
  /\ proc' = "none" /\ entry' = 1 /\ enter_ns' = {}
  /\ UNCHANGED <<who, fds, opts, left, id, target, cgroup, atpid, rlim, cpu>>
  /\ UNCHANGED <<confVars, jobVars>>

(* The mount namespace is always left; the chroot is reopened in the new    *)
(* one, and the old descriptor stays open.                                  *)
Reopen ==
  /\ Step("reopen", "log")
  /\ ns' = [ns EXCEPT !["mnt"] = "new"]
  /\ chroot_fd' = Lowest(table) /\ table' = Put(table, "cwd")
  /\ UNCHANGED <<who, cloexec, std_fds, log_fd, pty, pipes, opts, left, id, target>>
  /\ UNCHANGED <<cgroup, proc_fd, rlim, cpu, confVars, jobVars>>

(* setup_mountpoints may mount devpts; setup_devices listens on dev/log,    *)
(* and without it log_fd is -1.                                             *)
LogListen ==
  /\ Step("log", "close")
  /\ pts' \in BOOLEAN
  /\ \/ log_fd' = Lowest(table) /\ table' = Put(table, "log")
     \/ log_fd' = -1 /\ UNCHANGED table
  /\ UNCHANGED <<who, cloexec, std_fds, chroot_fd, pty, pipes, job, tty, kernel>>
  /\ UNCHANGED <<priv, cpu, confVars, jobVars>>

CloseChroot ==
  /\ Step("close", "again")
  /\ table' = CloseAll(table, {chroot_fd}) /\ chroot_fd' = -1
  /\ UNCHANGED <<who, cloexec, std_fds, log_fd, pty, pipes, other>>

SanitizeAgain == pc = "again" /\ SanitizeFds("pipes")

Pair(t, a, b) == <<At(t, a), At(t, b)>>

MakePipes ==
  /\ Step("pipes", "x11")
  /\ LET t == IF use_pty THEN table
              ELSE Put(Put(Put(Put(table, "outr"), "outw"), "errr"), "errw")
     IN /\ table' = t
        /\ pipe_out' = Pair(t, "outr", "outw")
        /\ pipe_err' = Pair(t, "errr", "errw")
  /\ UNCHANGED <<who, cloexec, std_fds, kept, pty, ctl, other>>

(* x11_prepare_connect and the socketpair; without the directory of the X   *)
(* sockets forwarding is dropped.                                           *)
X11Prepared == IF x11 = "unix" THEN BOOLEAN ELSE {x11 = "inet"}
PrepareX11 ==
  /\ Step("x11", "unshare")
  /\ \E ok \in X11Prepared :
       LET d == IF x11 = "unix" THEN Put(table, "x11dir") ELSE table
           t == IF ok THEN Put(Put(d, "ctl0"), "ctl1") ELSE table
       IN /\ table' = t /\ ctl' = Pair(t, "ctl0", "ctl1")
          /\ x11' = IF ok THEN x11 ELSE "none"
  /\ UNCHANGED <<who, cloexec, std_fds, kept, pty, pipe_out, pipe_err>>
  /\ UNCHANGED <<opts, priv, cpu, confVars, wlimit, use_pty, share>>

(***************************************************************************)
(* do_unshare for the namespaces in s: one that is to be shared is left as  *)
(* it is; one that the kernel cannot isolate is fatal unless the client     *)
(* did not say anything about it.                                           *)
(***************************************************************************)
DoUnshare(s, can) ==
  [n \in DOMAIN ns |-> IF n \in s \cap can /\ share[n] <= 0 THEN "new" ELSE ns[n]]
UnshareFatal(s, can) == \E n \in s \ can : share[n] = 0

\* With X11 forwarding over the network, the parent half needs the network of
\* the caller: only the child leaves it, after the fork.
UnshareEarly == IF x11 = "inet" THEN Ns \ {"net"} ELSE Ns
UnshareIpcUtsNetwork ==
  /\ pc = "unshare"
  /\ kernel' \in {Ns, Ns \ {"net"}}
  /\ IF UnshareFatal(UnshareEarly, kernel')
     THEN Dies("unshare") /\ UNCHANGED ns
     ELSE Step("unshare", "pty") /\ ns' = DoUnshare(UnshareEarly, kernel')
  /\ UNCHANGED <<who, fds, job, pts, tty, left, id, target, cgroup, proc_fd, rlim, cpu>>
  /\ UNCHANGED <<confVars, jobVars>>

(* open_pty of the host; the slave may fail to open after the master.       *)
OpenPty ==
  /\ Step("pty", "pty2")
  /\ \E ok \in BOOLEAN :
       LET t == IF ok THEN Put(Put(table, "master"), "slave") ELSE table
       IN table' = t /\ master' = At(t, "master") /\ slave' = At(t, "slave")
  /\ UNCHANGED <<who, cloexec, std_fds, kept, pipes, other>>

(* open_pty in the chroot, if devpts is mounted there; it replaces the      *)
(* other pty when its number is higher.                                     *)
OpenPtyChrooted ==
  /\ pc = "pty2"
  /\ \E ok \in IF pts THEN BOOLEAN ELSE {FALSE} :
       LET t == IF ok THEN Put(Put(table, "master2"), "slave2") ELSE table IN
       IF At(t, "master2") > master
       THEN /\ table' = CloseAll(t, {master, slave})
            /\ master' = At(t, "master2") /\ slave' = At(t, "slave2")
       ELSE table' = t /\ UNCHANGED pty
  /\ IF master' < 0 THEN Dies("pty") ELSE Step("pty2", "rlimits")
  /\ UNCHANGED <<who, cloexec, std_fds, kept, pipes, other>>

(***************************************************************************)
(* set_rlimits: what the configuration sets, with a soft limit no higher    *)
(* than the hard one; setrlimit(2) refuses it otherwise.                    *)
(***************************************************************************)
NewRlim ==
  LET max == IF conf["hard"] >= 0 THEN conf["hard"] ELSE rlim.max
      cur == IF conf["soft"] >= 0 THEN conf["soft"] ELSE rlim.cur
  IN  [max |-> max, cur |-> IF max < cur THEN max ELSE cur]

SetRlimits ==
  /\ pc = "rlimits"
  /\ IF NewRlim.cur > NewRlim.max
     THEN Dies("setrlimit") /\ UNCHANGED rlim
     ELSE Step("rlimits", "cloexec") /\ rlim' = NewRlim
  /\ UNCHANGED <<who, fds, opts, left, id, target, place, cpu, confVars, jobVars>>

CloexecFdsAbove ==
  /\ Step("cloexec", "fork")
  /\ cloexec' = {n \in Open(table) : n > 3}
  /\ UNCHANGED <<who, table, std_fds, kept, pty, pipes, other>>
CloexecFds ==
  /\ Step("cloexec", "fork")
  /\ cloexec' = {n \in Open(table) : n > 2}
  /\ UNCHANGED <<who, table, std_fds, kept, pty, pipes, other>>

Fork ==
  /\ Step("fork", "halves")
  /\ who' \in {"parent", "child"}
  /\ UNCHANGED <<fds, other>>

(* Each half closes the other's ends.  The parent takes the ids of the      *)
(* caller and goes on in ParentIO.                                          *)
ParentHalf ==
  /\ Step("halves", "loop") /\ who = "parent"
  /\ table' = CloseAll(table, {slave, pipe_out[2], pipe_err[2], ctl[2]})
  /\ slave' = -1
  /\ id' = [id EXCEPT !.uid = Caller.uid, !.gid = Caller.gid]
  /\ UNCHANGED <<who, cloexec, std_fds, kept, master, pipes, opts>>
  /\ UNCHANGED <<left, target, place, rlim, cpu, confVars, jobVars>>

LateNone == {}
UnshareLate == IF x11 = "inet" THEN {"net"} ELSE {}
ChildHalf ==
  /\ pc = "halves" /\ who = "child"
  /\ table' = CloseAll(table, {master, pipe_out[1], pipe_err[1], ctl[1]})
  /\ master' = -1
  /\ IF UnshareFatal(UnshareLate, kernel)
     THEN Dies("unshare") /\ UNCHANGED ns
     ELSE Step("halves", "identity") /\ ns' = DoUnshare(UnshareLate, kernel)
  /\ UNCHANGED <<who, cloexec, std_fds, kept, slave, pipes, opts>>
  /\ UNCHANGED <<left, id, target, cgroup, proc_fd, rlim, cpu, confVars, jobVars>>

\* The result of setgroups(2) is not looked at, those of setgid and setuid are.
ChildIdentity ==
  /\ Step("identity", "connect")
  /\ \E groups \in {target, id.groups} :
       id' = [uid |-> Pseudo.uid, gid |-> Pseudo.gid, groups |-> groups]
  /\ UNCHANGED <<who, fds, opts, left, target, place, rlim, cpu, confVars, jobVars>>

(***************************************************************************)
(* connect_fds: the streams of the payload.  Without a pty, a stdin that is *)
(* a terminal is replaced by a pipe at its end of file (nullify_stdin).     *)
(***************************************************************************)
NullifyStdin(t) == [t EXCEPT ![0] = "nullr"]
ConnectFds ==
  /\ Step("connect", "cpus")
  /\ tty' \in BOOLEAN
  /\ LET in == IF use_pty THEN Dup2(table, slave, 0)
               ELSE IF tty' THEN NullifyStdin(table) ELSE table
         out == Dup2(in, IF use_pty THEN slave ELSE pipe_out[2], 1)
         err == Dup2(out, IF use_pty THEN slave ELSE pipe_err[2], 2)
     IN table' = CloseAll(err, {slave, pipe_out[2], pipe_err[2]} \ 0..2)
  /\ cloexec' = cloexec \ 0..2
  /\ UNCHANGED <<who, std_fds, kept, pty, pipes, job, pts, kernel>>
  /\ UNCHANGED <<priv, cpu, confVars, jobVars>>

-----------------------------------------------------------------------------
(***************************************************************************)
(* set_affinity_nproc: nproc bits of tmp are shuffled over cpucount         *)
(* positions, then the j-th processor of the mask is kept if bit j is set.  *)
(***************************************************************************)
CpuCount == Cardinality(set)

StartAffinity ==
  /\ pc = "cpus"
  /\ IF nproc = 0 \/ CpuCount <= nproc
     THEN pc' = "listen" /\ UNCHANGED tmp
     ELSE pc' = "shuffle" /\ tmp' = 0..nproc - 1
  /\ UNCHANGED <<why, who, fds, opts, priv, set, i, confVars, jobVars>>

(* cpu_set_swap_bits *)
SwapBitsOnce(x, y, s) == IF x \in s THEN (s \ {x}) \cup {y} ELSE s
SwapBits(x, y, s) ==
  {k \in s : k \notin {x, y}} \cup (IF x \in s THEN {y} ELSE {})
                              \cup (IF y \in s THEN {x} ELSE {})

Shuffle ==
  /\ pc = "shuffle" /\ i < nproc
  /\ \E r \in 0..CpuCount - 1 : tmp' = SwapBits(i, r, tmp)
  /\ i' = i + 1
  /\ UNCHANGED <<pc, why, who, fds, opts, priv, set, confVars, jobVars>>

Rank(k) == Cardinality({l \in set : l < k})

SetAffinity ==
  /\ Step("shuffle", "listen") /\ i = nproc
  /\ set' = {k \in set : Rank(k) \in tmp}
  /\ UNCHANGED <<who, fds, opts, priv, tmp, i, confVars, jobVars>>

(* The rest of handle_child: the X11 socket is sent to the parent and       *)
(* closed; then the program is executed.                                    *)
ListenX11 ==
  /\ Step("listen", "exec")
  /\ LET t == IF ctl[2] >= 0 THEN Put(table, "x11") ELSE table
     IN table' = CloseAll(t, {At(t, "x11")})
  /\ UNCHANGED <<who, cloexec, std_fds, kept, pty, pipes, other>>

Finished == pc \in {"exec", "loop", "dead"} /\ UNCHANGED vars

Next ==
  \/ ConfigNext /\ UNCHANGED startVars
  \/ PidChanges \/ OpenCallerProc \/ CheckCallerProc \/ JoinCallerCgroup
  \/ SpawnExecutor \/ ResetStd \/ Sanitize
  \/ LeftoverActs \/ KillUid \/ DyingActs \/ PurgeIpc \/ InitGroups
  \/ OpenNsProc \/ CheckNsProc \/ CompareNs \/ OpenNs \/ EnterNs
  \/ Reopen \/ LogListen \/ CloseChroot \/ SanitizeAgain \/ MakePipes
  \/ PrepareX11 \/ UnshareIpcUtsNetwork \/ OpenPty \/ OpenPtyChrooted
  \/ SetRlimits \/ CloexecFds \/ Fork \/ ParentHalf
  \/ ChildHalf \/ ChildIdentity \/ ConnectFds
  \/ StartAffinity \/ Shuffle \/ SetAffinity \/ ListenX11 \/ Finished

Spec == Init /\ [][Next]_vars

-----------------------------------------------------------------------------
(***************************************************************************)
(* Properties.                                                             *)
(***************************************************************************)
AfterExec == CloseAll(table, cloexec)

\* What execve(2) leaves open is the pty three times, or the stdin of the
\* client, unless that is a terminal, and the pipes to the parent half.
HasItsStreams ==
  /\ Open(AfterExec) = 0..2
  /\ use_pty => /\ AfterExec[0] \in {"slave", "slave2"}
                /\ AfterExec[1] = AfterExec[0] /\ AfterExec[2] = AfterExec[0]
  /\ ~use_pty => /\ AfterExec[0] = (IF tty THEN "nullr" ELSE "in")
                 /\ AfterExec[1] = "outw" /\ AfterExec[2] = "errw"

(* In every arrangement of the descriptors that the executor inherits, and  *)
(* with every pty, pipe and X11 combination, the payload starts with its    *)
(* three streams and no other descriptor: none of the session, none of the  *)
(* parent's ends, and no directory outside its chroot (chrootuid.c:126-174, *)
(* child.c:36).                                                             *)
PayloadHoldsItsStreams == pc = "exec" => HasItsStreams

(* The loop of the parent finds under the numbers it uses the client's      *)
(* streams, the read ends, the pty and the log socket, although these were  *)
(* renumbered on the way; it holds no end of the payload, nor the pipe its  *)
(* handler waits on, so that each of them can reach its end of file         *)
(* (chrootuid.c:189, caller_runner.c:302).                                  *)
ParentHoldsItsEnds ==
  pc = "loop" =>
    /\ table[0] = "in" /\ table[1] = "out" /\ table[2] = "err"
    /\ \A n \in Fd : table[n] \notin PayloadEnds \cup Session \cup {"root", "cwd"}
    /\ table[master] \in {"master", "master2"}
    /\ log_fd >= 0 => table[log_fd] = "log"
    /\ (log_fd < 0) = (At(table, "log") < 0)
    /\ ~use_pty => table[pipe_out[1]] = "outr" /\ table[pipe_err[1]] = "errr"
    /\ (x11 # "none") => table[ctl[1]] = "ctl0"

(* Whatever random() returns, the payload gets exactly nproc of the         *)
(* processors it had, or all of them if there are no more (child.c:187).    *)
AffinityIsExact ==
  pc = "exec" =>
    /\ set \subseteq Cpus
    /\ Cardinality(set) = IF nproc = 0 \/ Cardinality(Cpus) <= nproc
                          THEN Cardinality(Cpus) ELSE nproc

(* The payload has the ids of the pseudo-user of its job and none of the    *)
(* groups of root; the pseudo-user is not the caller, and in a numbered     *)
(* session it is one that the file of that number names, so that sessions   *)
(* of one caller do not share pseudo-users by mistake.  The parent half has *)
(* the ids of the caller and no supplementary group.                        *)
PayloadIdentity ==
  /\ pc = "exec" =>
       /\ id.uid = Pseudo.uid /\ id.gid = Pseudo.gid /\ id.groups \subseteq Pseudo.groups
       /\ id.uid # Caller.uid /\ id.gid # Caller.gid /\ ValidId(id.uid)
       /\ caller_num => \E f \in NumFiles :
                          job \in DOMAIN f.set /\ f.set[job] = conf[job]
  /\ pc = "loop" => id = [uid |-> Caller.uid, gid |-> Caller.gid, groups |-> {}]

(* The environment of a job only tightens the work limit of its session:    *)
(* where the configuration sets one, the job has one that is no higher,     *)
(* whatever the client sends, zero included.  The resource limits of the    *)
(* configuration hold in both halves, and no combination of them and the    *)
(* inherited ones has a soft limit above the hard one.                      *)
LimitsHold ==
  /\ pc \in {"exec", "loop"} =>
       /\ conf["wlimit"] # 0 => wlimit # 0 /\ wlimit <= conf["wlimit"]
       /\ conf["hard"] >= 0 => rlim.max = conf["hard"]
       /\ conf["soft"] >= 0 => rlim.cur <= conf["soft"]
  /\ why # "setrlimit"

(* The payload runs in namespaces of its own, whatever was asked for X11,   *)
(* unless the client asked to share one or asked nothing and the kernel     *)
(* cannot isolate it; a parent that has to reach an X server over the       *)
(* network stays in the network of the caller.                              *)
PayloadIsolated ==
  /\ pc = "exec" =>
       /\ ns["mnt"] = "new"
       /\ \A n \in Ns : \/ ns[n] = "new" \/ share[n] = 1
                        \/ share[n] = -1 /\ n \notin kernel
  /\ pc = "loop" /\ x11 = "inet" => ns["net"] # "new"

(* Whoever has got the pid of the client by the time the runner and the     *)
(* executor look it up, the job never runs in the cgroup or in a namespace  *)
(* of another user's process, nor in namespaces of two processes at once:   *)
(* what the owner check has seen is what is used afterwards                 *)
(* (procfd.c:26, cgroup.c:51, ns.c:29).                                     *)
StaysWithCaller ==
  LET Mine == {p \in DOMAIN Procs : Procs[p].owner = Caller.uid}
  IN /\ cgroup \in Mine \cup {"server"}
     /\ \E p \in Mine : \A n \in DOMAIN ns : ns[n] \in {"server", "new", p}

\* What killuid cannot remove: an object of the client's own IPC namespace is
\* not in the one it looks at; for the others see DyingActs and Purge.
Survivors == Processes("dying") \cup Ipc({"client"}, Made)
             \cup Ipc({"server"}, {"hidden"}) \cup Ipc(Spaces, {"last"})

(* When the payload starts, no process of either pseudo-user runs any more, *)
(* and of the IPC objects an earlier job has made none that killuid can     *)
(* read is there, even if that job was at work until it was killed.         *)
(* Objects without read permission or given away, those of the last system  *)
(* call of a killed process, and those in an IPC namespace of the client's  *)
(* own may remain (killuid.c:59, ipc.c:51, chrootuid.c:83, 109).            *)
FreshStart == pc \in {"exec", "loop"} => left \subseteq Survivors
=============================================================================
