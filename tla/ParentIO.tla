----------------------------- MODULE ParentIO -----------------------------
(***************************************************************************)
(* The executor of a chrootuid job from its start to its exit status:      *)
(* job_executor, spawn_killuid and chrootuid up to the fork of the payload, *)
(* and then handle_parent (parent.c), the loop that copies the output of   *)
(* the payload, feeds its pty, enforces the work limits and collects its   *)
(* status.                                                                 *)
(*                                                                         *)
(* The payload is the forked child and, perhaps, a background process it   *)
(* leaves behind; both hold the write ends of its output streams.  Bytes   *)
(* are counted, not represented.  Signals follow pselect(2) on Linux: they *)
(* are blocked except inside it, and it delivers them only when no         *)
(* descriptor is ready.                                                    *)
(***************************************************************************)
EXTENDS Naturals

CONSTANTS
  BytesRead,    \* wlimit.bytes_read, 0 for none
  BytesWritten, \* wlimit.bytes_written, 0 for none
  TimeIdle,     \* wlimit.time_idle, 0 for none
  TimeElapsed,  \* wlimit.time_elapsed is set
  Cap,          \* bound: bytes a pipe from the payload holds
  InCap,        \* bound: bytes the input queue of a pty or a tty holds
  Background,   \* bound: the payload may leave a background process
  UsesLog,      \* bound: the payload may connect to the log socket
  ExitCodes,    \* bound: exit statuses of the payload
  TermSigs      \* bound: signals that may kill it

ASSUME ParentConstants ==
  /\ TimeElapsed \in BOOLEAN /\ Background \in BOOLEAN
  /\ UsesLog \in BOOLEAN
  /\ BytesRead \in Nat /\ BytesWritten \in Nat /\ TimeIdle \in Nat
  /\ Cap \in Nat \ {0} /\ InCap \in Nat \ {0}
  /\ ExitCodes \subseteq 0..255 /\ TermSigs \subseteq 1..64

VARIABLES
  use_pty,    \* the configuration of the job: use_pty
  ppc,        \* control point of the executor
  ret,        \* where it continues after sigchld_handler
  blocked,    \* SIGCHLD is blocked
  chld,       \* SIGCHLD is pending
  handler,    \* sigchld_handler is installed
  alrm,       \* SIGALRM: "off", "armed", "pending", "arrived" (sigalrm_arrived)
  child_pid,  \* child_pid is not zero
  child_rc,   \* child_rc
  fds,        \* the streams the parent reads: slave_read_*_fd and fd_list
  avail,      \* master_avail
  ttyfd,      \* master_read_fd is not -1
  nread,      \* total_bytes_read, up to its limit
  nwritten,   \* total_bytes_written, up to its limit
  waited,     \* seconds the current pselect has waited
  \* the payload and the world
  child,      \* "none", "running", "zombie", "reaped"
  status,     \* the wait status of the child
  bg,         \* "none", "alive", "gone": the background process
  buf,        \* buf[s]: unread bytes of stream s
  wr,         \* wr[s]: somebody holds the write end of stream s
  log,        \* the connection to the log socket: "none", "pending", "accepted"
  late,       \* it was made when the death of the child had been noticed
  tty,        \* unread bytes typed at the tty
  eof,        \* end of file at the tty
  inq         \* bytes of input the payload has not read

sigVars == <<blocked, chld, handler, alrm>>
childVars == <<child_pid, child_rc>>
ioVars == <<fds, avail, ttyfd, nread, nwritten, waited>>
logVars == <<log, late>>
payloadVars == <<child, status, bg>>
worldVars == <<buf, wr, logVars, tty, eof, inq>>
vars == <<use_pty, ppc, ret, blocked, chld, handler, alrm, child_pid, child_rc, fds, avail,
          ttyfd, nread, nwritten, waited, child, status, bg,
          buf, wr, log, late, tty, eof, inq>>

Streams == {"out", "err", "log"}
\* The output of the payload: with a pty, stdout and stderr are one stream.
StdStreams == IF use_pty THEN {"out"} ELSE {"out", "err"}
SIGTERM == 15
Exited(n) == [how |-> "exit", n |-> n]
Signaled(n) == [how |-> "signal", n |-> n]
Statuses == {Exited(n) : n \in ExitCodes} \cup {Signaled(n) : n \in TermSigs}
Points == {"start", "killuid", "block", "fork", "setup", "check", "select",
           "handler", "drain", "forget", "done", "limit", "died"}
Ended == {"done", "limit", "died"}

Upto(n, limit) == IF n > limit THEN limit ELSE n

Init ==
  /\ use_pty \in BOOLEAN
  /\ ppc = "start" /\ ret = "check"
  /\ blocked = TRUE /\ chld = FALSE /\ handler = FALSE /\ alrm = "off"
  /\ child_pid = FALSE /\ child_rc = 0
  /\ fds = {} /\ avail = 0 /\ ttyfd = FALSE /\ nread = 0 /\ nwritten = 0 /\ waited = 0
  /\ child = "none" /\ status = Exited(0) /\ bg = "none"
  /\ buf = [s \in Streams |-> 0] /\ wr = [s \in Streams |-> FALSE]
  /\ log = "none" /\ late = FALSE
  /\ tty = 0 /\ eof = FALSE /\ inq = 0

-----------------------------------------------------------------------------
(* Before the loop.                                                        *)

\* job_executor was forked with SIGCHLD blocked; it unblocks all signals.
UnblockAllNot ==
  /\ ppc = "start" /\ ppc' = "killuid"
  /\ UNCHANGED <<use_pty, ret, sigVars, childVars, ioVars, payloadVars, worldVars>>
UnblockAll ==
  /\ ppc = "start" /\ ppc' = "killuid"
  /\ blocked' = FALSE
  /\ UNCHANGED <<use_pty, ret, chld, handler, alrm, childVars, ioVars, payloadVars, worldVars>>

\* spawn_killuid forks and waits; the SIGCHLD of that child is ignored unless
\* it is blocked.  A failure is fatal, as is one of the steps that follow.
SpawnKilluid ==
  /\ ppc = "killuid"
  /\ chld' = blocked
  /\ ppc' \in {"block", "died"}
  /\ UNCHANGED <<use_pty, ret, blocked, handler, alrm, childVars, ioVars, payloadVars, worldVars>>

BlockSigchld ==
  /\ ppc = "block" /\ ppc' = "fork"
  /\ blocked' = TRUE
  /\ UNCHANGED <<use_pty, ret, chld, handler, alrm, childVars, ioVars, payloadVars, worldVars>>

ForkPayload ==
  /\ ppc = "fork" /\ ppc' = "setup"
  /\ child' = "running"
  /\ wr' = [s \in Streams |-> s \in StdStreams]
  /\ UNCHANGED <<use_pty, ret, sigVars, childVars, ioVars, status, bg, buf, logVars, tty, eof, inq>>

\* handle_parent: the handler, the descriptors and the timer.
Setup ==
  /\ ppc = "setup" /\ ppc' = "check"
  /\ child_pid' = TRUE /\ handler' = TRUE
  /\ fds' = StdStreams /\ ttyfd' = use_pty
  /\ alrm' = IF TimeElapsed THEN "armed" ELSE "off"
  /\ UNCHANGED <<use_pty, ret, blocked, chld, child_rc, avail, nread, nwritten, waited, payloadVars, worldVars>>

-----------------------------------------------------------------------------
(* The loop of handle_parent.                                              *)

\* forget_child and exit of limit_exceeded.
LimitExceeded ==
  /\ ppc' = "limit"
  /\ child_rc' = IF child_pid THEN 128 + SIGTERM ELSE child_rc
  /\ child_pid' = FALSE

\* work_limits_ok finds that a limit has been reached.
OverLimit ==
  \/ alrm = "arrived"
  \/ BytesRead # 0 /\ nread >= BytesRead
  \/ BytesWritten # 0 /\ nwritten >= BytesWritten

\* handle_io gives up: no child and no descriptors to handle.
NothingLeftEarly == ~child_pid
NothingLeft == ~child_pid /\ fds = {}

CheckLimits ==
  /\ ppc = "check"
  /\ \/ OverLimit /\ LimitExceeded
     \/ /\ ~OverLimit
        /\ ppc' = IF NothingLeft THEN "drain" ELSE "select"
        /\ UNCHANGED childVars
  /\ waited' = 0
  /\ UNCHANGED <<use_pty, ret, sigVars, fds, avail, ttyfd, nread, nwritten, payloadVars, worldVars>>

\* What pselect finds ready.  Input and listeners are selected only while the
\* child is alive, output and log connections always.
ReadyStreams == {s \in fds : buf[s] > 0 \/ ~wr[s]}
LogReady == child_pid /\ log = "pending"
TtyReady == child_pid /\ ttyfd /\ avail = 0 /\ (tty > 0 \/ eof)
SlaveReady == child_pid /\ use_pty /\ avail > 0 /\ inq < InCap
AnyReady == ReadyStreams # {} \/ LogReady \/ TtyReady \/ SlaveReady

\* A signal pselect would deliver.
Interruption == chld \/ alrm = "pending"

\* The descriptors that stay after reading those in S: not the ones at end of
\* file.
RemainingAtEof(S) == fds
Remaining(S) == {s \in fds : s \in S => buf[s] > 0}

\* copy_log: what was read is cut at its first NUL, if it has one, and an
\* incomplete line gets its end.
Copied(n) == 0..n
LineEnd(k) == IF k > 0 THEN {0, 2} ELSE {0}

\* read_retry and xwrite_all of the given streams.
Forward(S) ==
  LET n(s) == IF s \in S THEN buf[s] ELSE 0 IN
  /\ buf' = [s \in Streams |-> IF s \in S THEN 0 ELSE buf[s]]
  /\ \E k \in Copied(n("log")) : \E e \in LineEnd(k) :
       nwritten' = Upto(nwritten + n("out") + n("err") + k + e, BytesWritten)

\* write_loop to the pty: what fits; the count is that of the whole buffer.
FeedSlave ==
  LET n == Upto(avail, InCap - inq) IN
  /\ inq' = inq + n /\ avail' = avail - n
  /\ nread' = Upto(nread + avail, BytesRead)
  /\ UNCHANGED <<tty, ttyfd>>

\* read_retry from the tty: data, ^D for end of file, or an error.
ReadTty ==
  /\ \/ tty > 0 /\ avail' = tty /\ tty' = 0 /\ UNCHANGED ttyfd
     \/ tty = 0 /\ avail' = 1 /\ UNCHANGED <<tty, ttyfd>>
     \/ ttyfd' = FALSE /\ UNCHANGED <<tty, avail>>
  /\ UNCHANGED <<inq, nread>>

\* One round of handle_io that succeeds.
HandleIo ==
  /\ ppc = "select" /\ AnyReady
  /\ ppc' = "check"
  /\ Forward(ReadyStreams)
  /\ fds' = Remaining(ReadyStreams) \cup (IF LogReady THEN {"log"} ELSE {})
  /\ log' = IF LogReady THEN "accepted" ELSE log
  /\ \/ SlaveReady /\ FeedSlave
     \/ TtyReady /\ ReadTty
     \/ ~SlaveReady /\ ~TtyReady /\ UNCHANGED <<inq, avail, nread, tty, ttyfd>>
  /\ UNCHANGED <<use_pty, ret, sigVars, childVars, waited, payloadVars, wr, late, eof>>

\* write_loop to the pty fails: handle_io returns before it sees to the logs.
SlaveWriteFails ==
  /\ ppc = "select" /\ SlaveReady
  /\ ppc' = "drain"
  /\ Forward(ReadyStreams \ {"log"})
  /\ fds' = Remaining(ReadyStreams \ {"log"})
  /\ UNCHANGED <<use_pty, ret, sigVars, childVars, avail, ttyfd, nread, waited, payloadVars,
                 wr, logVars, tty, eof, inq>>

\* xwrite_all fails: the client's stdout or stderr is gone.
XwriteDies ==
  /\ ppc = "select" /\ \E s \in ReadyStreams : buf[s] > 0
  /\ ppc' = "died"
  /\ UNCHANGED <<use_pty, ret, sigVars, childVars, ioVars, payloadVars, worldVars>>

\* sigchld_handler up to waitpid; the handler is installed for one signal.
EnterHandler(point) ==
  /\ handler' = FALSE /\ chld' = FALSE
  /\ child_pid' = FALSE
  /\ ret' = point
  /\ ppc' = IF child_pid THEN "handler" ELSE point

\* pselect is interrupted: all deliverable signals are handled.
Interrupted ==
  /\ ppc = "select" /\ ~AnyReady /\ Interruption
  /\ alrm' = IF alrm = "pending" THEN "arrived" ELSE alrm
  /\ \/ chld /\ handler /\ EnterHandler("check")
     \/ ~(chld /\ handler) /\ ppc' = "check" /\ chld' = FALSE /\ UNCHANGED <<ret, handler, child_pid>>
  /\ UNCHANGED <<use_pty, blocked, child_rc, ioVars, payloadVars, worldVars>>

\* The status of the child as an exit code.
CodeExitOnly(s) == IF s.how = "exit" THEN s.n ELSE 0
Code(s) == IF s.how = "exit" THEN s.n ELSE 128 + s.n

\* waitpid of sigchld_handler returns.
HandlerReaps ==
  /\ ppc = "handler" /\ child = "zombie"
  /\ child' = "reaped"
  /\ child_rc' = IF status = Exited(0) THEN child_rc ELSE Code(status)
  /\ ppc' = ret
  /\ UNCHANGED <<use_pty, ret, sigVars, child_pid, ioVars, status, bg, worldVars>>

\* A second passes in pselect; after time_idle of them it returns zero.
Tick ==
  /\ ppc = "select" /\ ~AnyReady /\ ~Interruption /\ TimeIdle # 0
  /\ waited' = waited + 1
  /\ \/ waited + 1 >= TimeIdle /\ LimitExceeded
     \/ waited + 1 < TimeIdle /\ UNCHANGED <<ppc, childVars>>
  /\ UNCHANGED <<use_pty, ret, sigVars, fds, avail, ttyfd, nread, nwritten, payloadVars,
                 worldVars>>

(* After the loop.                                                         *)

\* wait_child unblocks SIGCHLD: a pending or arriving one is handled.
DrainSignal ==
  /\ ppc = "drain" /\ chld /\ handler
  /\ EnterHandler("drain")
  /\ UNCHANGED <<use_pty, blocked, alrm, child_rc, ioVars, payloadVars, worldVars>>

\* The child is gone or a second is over; the handler is uninstalled.
DrainOver ==
  /\ ppc = "drain" /\ ~(chld /\ handler)
  /\ ppc' = "forget"
  /\ handler' = FALSE /\ blocked' = FALSE /\ chld' = FALSE
  /\ UNCHANGED <<use_pty, ret, alrm, childVars, ioVars, payloadVars, worldVars>>

ForgetChild ==
  /\ ppc = "forget" /\ ppc' = "done"
  /\ child_rc' = IF child_pid THEN 128 + SIGTERM ELSE child_rc
  /\ child_pid' = FALSE
  /\ UNCHANGED <<use_pty, ret, sigVars, ioVars, payloadVars, worldVars>>

-----------------------------------------------------------------------------
(* The payload, the user and the clock.                                    *)

PayloadAlive == child = "running" \/ bg = "alive"

Writes(s) ==
  /\ wr[s] /\ PayloadAlive /\ buf[s] < Cap
  /\ buf' = [buf EXCEPT ![s] = @ + 1]
  /\ UNCHANGED <<use_pty, ppc, ret, sigVars, childVars, ioVars, payloadVars, wr, logVars, tty, eof, inq>>

\* The payload reads all its input.
Reads ==
  /\ PayloadAlive /\ inq > 0 /\ inq' = 0
  /\ UNCHANGED <<use_pty, ppc, ret, sigVars, childVars, ioVars, payloadVars, buf, wr, logVars, tty, eof>>

\* A process of the payload connects to the log socket in the chroot, on which
\* the executor listens until its end.
LogConnect ==
  /\ UsesLog /\ PayloadAlive /\ log = "none" /\ ppc \notin Ended
  /\ log' = "pending" /\ wr' = [wr EXCEPT !["log"] = TRUE]
  /\ late' = (~child_pid /\ ppc # "setup")
  /\ UNCHANGED <<use_pty, ppc, ret, sigVars, childVars, ioVars, payloadVars, buf, tty, eof, inq>>

\* The payload closes a stream before it ends.
Closes(s) ==
  /\ wr[s] /\ PayloadAlive /\ wr' = [wr EXCEPT ![s] = FALSE]
  /\ UNCHANGED <<use_pty, ppc, ret, sigVars, childVars, ioVars, payloadVars, buf, logVars, tty, eof, inq>>

LeaveBackground ==
  /\ Background /\ child = "running" /\ bg = "none" /\ bg' = "alive"
  /\ UNCHANGED <<use_pty, ppc, ret, sigVars, childVars, ioVars, child, status, worldVars>>

\* The last process of the payload closes every stream.
CloseStreams(last) == wr' = IF last THEN [s \in Streams |-> FALSE] ELSE wr

ChildExits ==
  /\ child = "running" /\ child' = "zombie"
  /\ status' \in Statuses
  /\ chld' = (blocked \/ handler)
  /\ CloseStreams(bg # "alive")
  /\ UNCHANGED <<use_pty, ppc, ret, blocked, handler, alrm, childVars, ioVars, bg, buf, logVars, tty, eof, inq>>
BackgroundExits ==
  /\ bg = "alive" /\ bg' = "gone"
  /\ CloseStreams(child # "running")
  /\ UNCHANGED <<use_pty, ppc, ret, sigVars, childVars, ioVars, child, status, buf, logVars, tty, eof, inq>>

Types ==
  /\ use_pty /\ ~eof
  /\ \/ tty < InCap /\ tty' = tty + 1 /\ UNCHANGED eof
     \/ eof' = TRUE /\ UNCHANGED tty
  /\ UNCHANGED <<use_pty, ppc, ret, sigVars, childVars, ioVars, payloadVars, buf, wr, logVars, inq>>

TimerExpires ==
  /\ alrm = "armed" /\ alrm' = "pending"
  /\ UNCHANGED <<use_pty, ppc, ret, blocked, chld, handler, childVars, ioVars, payloadVars, worldVars>>

ParentStep ==
  \/ UnblockAll \/ SpawnKilluid \/ BlockSigchld \/ ForkPayload \/ Setup
  \/ CheckLimits \/ HandleIo \/ SlaveWriteFails \/ XwriteDies \/ Interrupted
  \/ HandlerReaps \/ DrainSignal \/ DrainOver \/ ForgetChild

World ==
  \/ \E s \in Streams : Writes(s) \/ Closes(s)
  \/ Reads \/ LogConnect \/ LeaveBackground \/ ChildExits
  \/ BackgroundExits \/ Types \/ TimerExpires \/ Tick

Next == ParentStep \/ World

Spec == Init /\ [][Next]_vars

\* The executor is scheduled; nothing is assumed of the payload.
FairSpec == Spec /\ WF_vars(ParentStep)

-----------------------------------------------------------------------------
(* Properties.                                                             *)

TypeOK ==
  /\ use_pty \in BOOLEAN
  /\ ppc \in Points /\ ret \in {"check", "drain"}
  /\ blocked \in BOOLEAN /\ chld \in BOOLEAN /\ handler \in BOOLEAN
  /\ alrm \in {"off", "armed", "pending", "arrived"}
  /\ child_pid \in BOOLEAN /\ child_rc \in 0..255
  /\ fds \subseteq Streams /\ ttyfd \in BOOLEAN
  /\ avail \in 0..InCap /\ nread \in 0..BytesRead /\ nwritten \in 0..BytesWritten
  /\ waited \in 0..TimeIdle
  /\ child \in {"none", "running", "zombie", "reaped"}
  /\ status \in Statuses \cup {Exited(0)}
  /\ bg \in {"none", "alive", "gone"}
  /\ buf \in [Streams -> 0..Cap] /\ wr \in [Streams -> BOOLEAN]
  /\ log \in {"none", "pending", "accepted"}
  /\ late \in BOOLEAN
  /\ tty \in 0..InCap /\ eof \in BOOLEAN /\ inq \in 0..InCap

\* sigchld_handler waits for the child inside a signal handler, so it must
\* only ever run when the child is dead: were the SIGCHLD of the killuid
\* child still pending, the loop would stop copying output while the payload
\* runs, and a payload that fills its pipe would never end.
HandlerNeverBlocks == ppc = "handler" => child = "zombie"

\* If the parent returns by itself and no input could fail to be delivered,
\* all output of the payload, background processes included, has been copied,
\* and its log messages have been read, also those sent after the death of
\* the child: neither that death nor its signal cuts them off.  The exception
\* is a connection made when the death has been noticed: the log socket is no
\* longer selected then (parent.c:274), and its messages are lost.
OutputComplete ==
  ppc \in {"drain", "forget", "done"} /\ ~use_pty =>
    /\ buf["out"] = 0 /\ buf["err"] = 0
    /\ ~late => log # "pending" /\ buf["log"] = 0

\* The executor exits with status zero exactly if the child did and could be
\* collected: never for a job that failed, was killed, or is still running
\* when the parent gives up on it.
ExitCodeIsTrue ==
  ppc = "done" => (child_rc = 0 <=> child = "reaped" /\ status = Exited(0))

\* When the last process of the payload is gone the executor comes to an end,
\* although signals wait while descriptors are ready and a tty at end of file
\* is always ready.
ParentLeaves ==
  child \in {"zombie", "reaped"} /\ bg # "alive" ~> ppc \in Ended

\* What hasher-priv.conf(5) says of wlimit_time_elapsed: it limits the total
\* execution time.
ElapsedIsEnforced == alrm = "pending" ~> ppc \in Ended
=============================================================================
