----------------------------- MODULE JobRunner -----------------------------
(***************************************************************************)
(* The life of one job after CMD_JOB_RUN (caller_runner.c): the job        *)
(* request handler that waits until it may release the session server, the *)
(* job runner that watches the client and the job, the executor that does  *)
(* the privileged work, and the client waiting for the result.             *)
(*                                                                         *)
(* The executor of a chrootuid job changes to the ids of the caller late   *)
(* (chrootuid in chrootuid.c), the others never do; the runner has the     *)
(* ids of the caller from before it starts to poll.  Only what follows     *)
(* from this for kill(2) is modelled of the executor's work.               *)
(***************************************************************************)
EXTENDS Integers

CONSTANTS
  ExitCodes,  \* bound: the exit statuses of an executor
  CanStop     \* bound: the caller may stop and continue its executor

ASSUME RunnerConstants ==
  /\ CanStop \in BOOLEAN
  /\ ExitCodes \subseteq 0..255

VARIABLES
  spawning, \* is_job_spawning: the job is a chrootuid job
  hnd,      \* handler: "wait" or "exited"; the session server waits for it
  run,      \* runner: its control point
  ev,       \* the events of the runner's current epoll_wait batch
  pending,  \* signals pending for the runner
  chldmask, \* SIGCHLD is blocked in the runner
  runpipe,  \* the runner holds the write end of job->pipe_fds
  exe,      \* executor: its control point
  root,     \* the executor runs, or ended, without the ids of the caller
  stopped,  \* the executor is stopped by a signal
  killed,   \* SIGTERM of the runner is pending for the executor
  status,   \* the wait status of the executor
  client,   \* "wait", "answered", "eof" or "gone"
  answer    \* the response to CMD_JOB_RUN: FAILED or a status; NoAnswer

vars == <<spawning, hnd, run, ev, pending, chldmask, runpipe, exe, root, stopped, killed,
          status, client, answer>>
exeVars == <<exe, root, stopped, killed, status>>
clientVars == <<client, answer>>

FAILED == -1       \* CMD_STATUS_FAILED
NoAnswer == -2
SIGTERM == 15
Exited(n) == [how |-> "exit", n |-> n]
Signaled(n) == [how |-> "signal", n |-> n]
Statuses == {Exited(n) : n \in ExitCodes} \cup {Signaled(n) : n \in {9, SIGTERM}}

Running == {"forked", "sanitized", "dropped"}

Init ==
  /\ spawning \in BOOLEAN
  /\ hnd = "wait" /\ run = "forked" /\ ev = {} /\ pending = {}
  /\ chldmask = FALSE /\ runpipe = spawning
  /\ exe = "none" /\ root = TRUE /\ stopped = FALSE /\ killed = FALSE
  /\ status = Exited(0)
  /\ client = "wait" /\ answer = NoAnswer

-----------------------------------------------------------------------------
(* The runner.                                                             *)

\* A dying runner closes its descriptors; init inherits and reaps its child.
RunnerExit ==
  /\ run' = "exited" /\ runpipe' = FALSE /\ pending' = {}
  /\ exe' = IF exe = "zombie" THEN "reaped" ELSE exe

\* join_caller_cgroup for a chrootuid job; it dies if the client is gone.
JoinCgroup ==
  /\ run = "forked"
  /\ \/ run' = "block" /\ UNCHANGED <<runpipe, pending, exe>>
     \/ spawning /\ RunnerExit
  /\ UNCHANGED <<spawning, hnd, ev, chldmask, root, stopped, killed, status, clientVars>>

\* SIGCHLD has to be blocked before the executor is forked: its disposition
\* is the default one, which discards the signal.
BlockSigchldNot ==
  /\ run = "block" /\ run' = "spawn"
  /\ UNCHANGED <<spawning, hnd, ev, pending, chldmask, runpipe, exeVars, clientVars>>
BlockSigchld ==
  /\ run = "block" /\ run' = "spawn"
  /\ chldmask' = TRUE
  /\ UNCHANGED <<spawning, hnd, ev, pending, runpipe, exeVars, clientVars>>

\* spawn_job_executor: fork, or give up without a response.
SpawnExecutor ==
  /\ run = "spawn"
  /\ \/ run' = "dealloc" /\ exe' = "forked" /\ UNCHANGED <<runpipe, pending>>
     \/ RunnerExit
  /\ UNCHANGED <<spawning, hnd, ev, chldmask, root, stopped, killed, status, clientVars>>

\* deallocate_job_resources closes, among others, the write end of the pipe.
DeallocateKeep ==
  /\ run = "dealloc" /\ run' = "setup"
  /\ UNCHANGED <<spawning, hnd, ev, pending, chldmask, runpipe, exeVars, clientVars>>
Deallocate ==
  /\ run = "dealloc" /\ run' = "setup"
  /\ runpipe' = FALSE
  /\ UNCHANGED <<spawning, hnd, ev, pending, chldmask, exeVars, clientVars>>

\* The ids of the caller, the signal and the epoll descriptor; or it dies.
Unprivileged ==
  /\ run = "setup"
  /\ \/ run' = "poll" /\ chldmask' = TRUE /\ UNCHANGED <<runpipe, pending, exe>>
     \/ RunnerExit /\ UNCHANGED chldmask
  /\ UNCHANGED <<spawning, hnd, ev, root, stopped, killed, status, clientVars>>

\* epoll_wait: hang-up of the client's connection, pending signals.
HupReadyNever == FALSE
HupReady == client = "gone"
RunnerPoll ==
  /\ run = "poll"
  /\ ev' = {e \in {"hup", "signal"} :
              \/ e = "hup" /\ HupReady
              \/ e = "signal" /\ pending # {}}
  /\ ev' # {}
  /\ run' = "events"
  /\ UNCHANGED <<spawning, hnd, pending, chldmask, runpipe, exeVars, clientVars>>

\* The batch is searched for a hang-up first, then for a signal; of several
\* pending signals signalfd hands out SIGTERM before SIGCHLD.
RunnerEvents ==
  /\ run = "events" /\ ev' = {}
  /\ \/ "hup" \in ev /\ run' = "hup" /\ UNCHANGED pending
     \/ /\ "hup" \notin ev /\ "TERM" \in pending
        /\ run' = "term" /\ pending' = pending \ {"TERM"}
     \/ /\ "hup" \notin ev /\ "TERM" \notin pending
        /\ run' = "chld_wait" /\ pending' = pending \ {"CHLD"}
  /\ UNCHANGED <<spawning, hnd, chldmask, runpipe, exeVars, clientVars>>

\* kill(pid, SIGTERM) of terminate_executor; it fails with EPERM while the
\* executor does not have the ids of the caller.
CanKill == ~root
TerminateExecutor ==
  /\ run \in {"hup", "term"} /\ CanKill
  /\ killed' = (exe \in Running)
  /\ run' = IF run = "hup" THEN "hup_wait" ELSE "term_wait"
  /\ UNCHANGED <<spawning, hnd, ev, pending, chldmask, runpipe, exe, root, stopped, status, clientVars>>

\* After a failed kill there is no wait: the runner leaves at once, or tells
\* the client that its job failed.
TerminateFails ==
  /\ run \in {"hup", "term"} /\ ~CanKill
  /\ \/ run = "hup" /\ RunnerExit
     \/ run = "term" /\ run' = "fail" /\ UNCHANGED <<runpipe, pending, exe>>
  /\ UNCHANGED <<spawning, hnd, ev, chldmask, root, stopped, killed, status, clientVars>>

\* wait_job: the status the runner reports.
WaitJob(s) == IF s.how = "exit" THEN s.n ELSE 128 + s.n

\* send_response_to_client; a client that has left is not an error.
Respond(rc) ==
  IF client = "wait" THEN client' = "answered" /\ answer' = rc
                     ELSE UNCHANGED clientVars

\* waitpid blocks until the executor is dead, whatever SIGCHLD was sent for.
Waited ==
  /\ run \in {"hup_wait", "chld_wait", "term_wait"} /\ exe = "zombie"
  /\ exe' = "reaped"
  /\ \/ /\ run = "hup_wait" /\ run' = "exited"
        /\ UNCHANGED clientVars
     \/ /\ run = "chld_wait" /\ run' = "exited"
        /\ Respond(WaitJob(status))
     \/ /\ run = "term_wait" /\ run' = "fail"
        /\ UNCHANGED clientVars
  /\ UNCHANGED <<spawning, hnd, ev, pending, chldmask, runpipe, root, stopped, killed, status>>

\* The end of job_runner after a termination signal.
RespondFailed ==
  /\ run = "fail"
  /\ Respond(FAILED)
  /\ RunnerExit
  /\ UNCHANGED <<spawning, hnd, ev, chldmask, root, stopped, killed, status>>

-----------------------------------------------------------------------------
(* The executor.                                                           *)

\* SIGCHLD for the runner: discarded unless it is blocked.
Sigchld ==
  IF run # "exited" /\ chldmask THEN pending' = pending \cup {"CHLD"}
                                ELSE UNCHANGED pending

\* job_executor resets the standard descriptors and sanitizes the others: it
\* closes its copies of the pipe and of the connection.
Sanitize ==
  /\ exe = "forked" /\ exe' = "sanitized"
  /\ UNCHANGED <<spawning, hnd, run, ev, pending, chldmask, runpipe, root, stopped, killed, status, clientVars>>

\* chrootuid: after the fork of the payload the parent takes the caller's ids.
DropPrivileges ==
  /\ exe = "sanitized" /\ spawning
  /\ exe' = "dropped" /\ root' = FALSE
  /\ UNCHANGED <<spawning, hnd, run, ev, pending, chldmask, runpipe, stopped, killed, status, clientVars>>

ExecutorEnds(s) ==
  /\ status' = s /\ killed' = FALSE
  /\ exe' = IF run = "exited" THEN "reaped" ELSE "zombie"
  /\ Sigchld
  /\ UNCHANGED <<spawning, hnd, run, ev, chldmask, runpipe, root, stopped, clientVars>>

\* The executor finishes its job, dies of an error or of a signal.
ExecutorExits ==
  /\ exe \in Running
  /\ \E s \in Statuses : (stopped => s = Signaled(9)) /\ ExecutorEnds(s)

\* The default action of SIGTERM, once the executor is not stopped.
ExecutorTerminated ==
  /\ exe \in Running /\ ~stopped /\ killed
  /\ ExecutorEnds(Signaled(SIGTERM))

\* The caller stops or continues a process with its ids: SIGCHLD is sent too.
StopOrContinue ==
  /\ CanStop /\ exe = "dropped"
  /\ stopped' = ~stopped
  /\ Sigchld
  /\ UNCHANGED <<spawning, hnd, run, ev, chldmask, runpipe, exe, root, killed, status, clientVars>>

-----------------------------------------------------------------------------
(* The handler, the client and the environment of the runner.              *)

\* spawn_job_runner in the parent: end of file on the pipe for a chrootuid
\* job, the end of the runner for another one.
HandlerExits ==
  /\ hnd = "wait"
  /\ IF spawning THEN ~runpipe /\ exe # "forked" ELSE run = "exited"
  /\ hnd' = "exited"
  /\ UNCHANGED <<spawning, run, ev, pending, chldmask, runpipe, exeVars, clientVars>>

\* End of file for the client: every holder of the connection has closed it.
ClientEOF ==
  /\ client = "wait" /\ hnd = "exited" /\ run = "exited" /\ exe # "forked"
  /\ client' = "eof" /\ UNCHANGED answer
  /\ UNCHANGED <<spawning, hnd, run, ev, pending, chldmask, runpipe, exeVars>>

\* The client is interrupted.
ClientLeaves ==
  /\ client = "wait"
  /\ client' = "gone" /\ UNCHANGED answer
  /\ UNCHANGED <<spawning, hnd, run, ev, pending, chldmask, runpipe, exeVars>>

\* A termination signal for the runner, blocked since the session server.
TermRunner ==
  /\ run # "exited" /\ "TERM" \notin pending
  /\ pending' = pending \cup {"TERM"}
  /\ UNCHANGED <<spawning, hnd, run, ev, chldmask, runpipe, exeVars, clientVars>>

RunnerStep ==
  \/ JoinCgroup \/ BlockSigchld \/ SpawnExecutor \/ Deallocate \/ Unprivileged
  \/ RunnerPoll \/ RunnerEvents \/ TerminateExecutor \/ TerminateFails
  \/ Waited \/ RespondFailed

Next ==
  \/ RunnerStep
  \/ Sanitize \/ DropPrivileges \/ ExecutorExits \/ ExecutorTerminated
  \/ StopOrContinue
  \/ HandlerExits \/ ClientEOF \/ ClientLeaves \/ TermRunner

Spec == Init /\ [][Next]_vars

\* Every process is scheduled.  Auxiliary jobs are short: "could be trusted to
\* not linger too long"; nothing is assumed about the end of a chrootuid job.
FairSpec ==
  /\ Spec
  /\ WF_vars(RunnerStep) /\ WF_vars(HandlerExits) /\ WF_vars(ClientEOF)
  /\ WF_vars(Sanitize) /\ WF_vars(DropPrivileges) /\ WF_vars(ExecutorTerminated)
  /\ WF_vars(~spawning /\ ExecutorExits)

-----------------------------------------------------------------------------
(* Properties.                                                             *)

Service ==
  INSTANCE JobService WITH
    Ends <- Statuses, WellEnded <- Exited(0),
    over <- IF exe \in {"zombie", "reaped"} THEN {status} ELSE {}

\* Handler, runner and executor together implement the service.  The client
\* is told a status only when the job is over, and success exactly if the
\* executor exited with status zero: a job that was killed, or given up, is
\* never reported as successful.  The end of a job is never missed: once the
\* executor is dead the client is answered or gets end of file, even if the
\* executor died before the runner could poll, or was stopped and continued
\* before (caller_runner.c:169, 261, caller_job.c:187).
ServesJob == Service!Spec

\* The session server is released although the job may run for ever: both
\* the runner and the executor get rid of the pipe the handler waits on.
HandlerReleased == <>(hnd = "exited")

\* A client that leaves while its chrootuid job runs with the caller's ids,
\* and the runner is polling, takes the job with it (or the job is stopped
\* and will get the signal when it is continued).
LateDisconnectAborts ==
  run = "poll" /\ exe = "dropped" /\ client = "gone" ~> exe # "dropped" \/ stopped

\* What hasher-privd(8) says: if the client disconnects from the runner, the
\* job must be aborted.
DisconnectAborts ==
  client = "gone" /\ run = "poll" ~> exe \notin Running
=============================================================================
