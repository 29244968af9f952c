-------------------------- MODULE JobRunnerProofs --------------------------
(***************************************************************************)
(* Handler, runner and executor implement every step of JobService: the    *)
(* safety part of ServesJob, for any exit statuses.  That the end of the   *)
(* job is passed on in time is liveness and stays with TLC.                *)
(***************************************************************************)
EXTENDS JobRunner, TLAPS

\* The control points of the executor.
Points == {"none"} \cup Running \cup {"zombie", "reaped"}

\* The executor is forked once, by a runner that has none: what has ended
\* never starts again.  Its wait status is one that waitpid returns, or the
\* initial one.
RunnerInv ==
  /\ exe \in Points
  /\ run \in {"forked", "block", "spawn"} => exe = "none"
  /\ run \in {"hup_wait", "chld_wait", "term_wait"} => exe # "none"
  /\ run \in {"hup", "term", "dealloc", "setup", "poll", "events"} => exe # "none"
  /\ status \in Statuses \cup {Exited(0)}

\* What the runner reports for a job that is over is 0 exactly for the exit
\* status 0, and a status of one byte (wait_job in caller_runner.c).
LEMMA ReportedStatus ==
  ASSUME NEW s \in Statuses \cup {Exited(0)}
  PROVE  /\ s = Exited(0) => WaitJob(s) = 0
         /\ s # Exited(0) => WaitJob(s) \in 1..255
<1>. USE RunnerConstants
<1>1. CASE s \in {Exited(n) : n \in ExitCodes}
  <2>1. PICK n \in ExitCodes : s = Exited(n)
    BY <1>1
  <2>2. s.how = "exit" /\ s.n = n /\ n \in 0..255
    BY <2>1 DEF Exited
  <2>3. WaitJob(s) = n
    BY <2>2 DEF WaitJob
  <2>4. s = Exited(0) => n = 0
    BY <2>2 DEF Exited
  <2>5. s # Exited(0) => n # 0
    BY <2>1
  <2>. QED
    BY <2>2, <2>3, <2>4, <2>5
<1>2. CASE s \in {Signaled(n) : n \in {9, SIGTERM}}
  <2>1. PICK n \in {9, 15} : s = Signaled(n)
    BY <1>2 DEF SIGTERM
  <2>2. s.how = "signal" /\ s.n = n
    BY <2>1 DEF Signaled
  <2>3. WaitJob(s) = 128 + n
    BY <2>2 DEF WaitJob
  <2>4. s # Exited(0)
    BY <2>2 DEF Exited
  <2>. QED
    BY <2>1, <2>3, <2>4
<1>3. CASE s = Exited(0)
  BY <1>3 DEF Exited, WaitJob
<1>. QED
  BY <1>1, <1>2, <1>3 DEF Statuses

LEMMA InitIsRunnerInv == Init => RunnerInv
  BY DEF Init, RunnerInv, Points

\* One step of the processes keeps the invariant, and is a step of the service
\* or one that the client cannot see.
LEMMA StepIsService ==
  ASSUME RunnerInv, [Next]_vars
  PROVE  RunnerInv' /\ (Service!Next \/ UNCHANGED Service!vars)
<1>1. CASE UNCHANGED vars
  BY <1>1 DEF vars, RunnerInv, Service!vars
\* The steps that neither start nor end the executor and say nothing to the
\* client.
<1>2. ASSUME UNCHANGED <<status, clientVars>>, exe \in {"zombie", "reaped"} <=> exe' \in {"zombie", "reaped"}
      PROVE  UNCHANGED Service!vars
  BY <1>2 DEF Service!vars, clientVars
<1>3. CASE JoinCgroup
  BY <1>2, <1>3 DEF JoinCgroup, RunnerExit, RunnerInv, Points
<1>4. CASE BlockSigchld
  BY <1>2, <1>4 DEF BlockSigchld, exeVars, RunnerInv, Points
<1>5. CASE SpawnExecutor
  BY <1>2, <1>5 DEF SpawnExecutor, RunnerExit, RunnerInv, Points, Running
<1>6. CASE Deallocate
  BY <1>2, <1>6 DEF Deallocate, exeVars, RunnerInv, Points
<1>7. CASE Unprivileged
  BY <1>2, <1>7 DEF Unprivileged, RunnerExit, RunnerInv, Points
<1>8. CASE RunnerPoll
  BY <1>2, <1>8 DEF RunnerPoll, exeVars, RunnerInv, Points
<1>9. CASE RunnerEvents
  BY <1>2, <1>9 DEF RunnerEvents, exeVars, RunnerInv, Points
<1>10. CASE TerminateExecutor
  BY <1>2, <1>10 DEF TerminateExecutor, RunnerInv, Points
<1>11. CASE TerminateFails
  BY <1>2, <1>11 DEF TerminateFails, RunnerExit, RunnerInv, Points
<1>12. CASE Waited
  <2>1. RunnerInv' /\ exe = "zombie" /\ exe' = "reaped" /\ status' = status
    BY <1>12 DEF Waited, RunnerInv, Points
  <2>2. CASE UNCHANGED clientVars
    BY <1>2, <2>1, <2>2
  <2>3. CASE Respond(WaitJob(status)) /\ client = "wait"
    <3>1. WaitJob(status) \in Service!Results
      BY <2>1, ReportedStatus DEF RunnerInv, Service!Results, Exited
    <3>2. client' = "answered" /\ answer' = WaitJob(status)
      BY <2>3 DEF Respond
    <3>3. Service!Answer
      BY <2>1, <2>3, <3>1, <3>2 DEF Service!Answer
    <3>. QED
      BY <2>1, <3>3 DEF Service!Next
  <2>. QED
    BY <1>12, <2>1, <2>2, <2>3 DEF Waited, Respond
<1>13. CASE RespondFailed
  <2>1. RunnerInv' /\ status' = status /\ (exe \in {"zombie", "reaped"} <=> exe' \in {"zombie", "reaped"})
    BY <1>13 DEF RespondFailed, RunnerExit, RunnerInv, Points
  <2>2. CASE UNCHANGED clientVars
    BY <1>2, <2>1, <2>2
  <2>3. CASE client = "wait" /\ client' = "answered" /\ answer' = FAILED
    <3>1. Service!Answer
      BY <2>1, <2>3 DEF Service!Answer, Service!Results
    <3>. QED
      BY <2>1, <3>1 DEF Service!Next
  <2>. QED
    BY <1>13, <2>1, <2>2, <2>3 DEF RespondFailed, Respond
<1>14. CASE Sanitize
  BY <1>2, <1>14 DEF Sanitize, RunnerInv, Points, Running
<1>15. CASE DropPrivileges
  BY <1>2, <1>15 DEF DropPrivileges, RunnerInv, Points, Running
<1>16. ASSUME NEW s \in Statuses, exe \in Running, ExecutorEnds(s)
       PROVE  RunnerInv' /\ (Service!Next \/ UNCHANGED Service!vars)
  <2>1. RunnerInv'
    BY <1>16 DEF ExecutorEnds, RunnerInv, Points, Running
  <2>2. exe \notin {"zombie", "reaped"} /\ exe' \in {"zombie", "reaped"}
    BY <1>16 DEF ExecutorEnds, Running
  <2>3. status' = s /\ UNCHANGED clientVars
    BY <1>16 DEF ExecutorEnds
  <2>4. Service!End
    BY <2>2, <2>3 DEF Service!End, clientVars
  <2>. QED
    BY <2>1, <2>4 DEF Service!Next
<1>17. CASE ExecutorExits
  BY <1>16, <1>17 DEF ExecutorExits
<1>18. CASE ExecutorTerminated
  BY <1>16, <1>18 DEF ExecutorTerminated, Statuses
<1>19. CASE StopOrContinue
  BY <1>2, <1>19 DEF StopOrContinue, RunnerInv, Points
<1>20. CASE HandlerExits
  BY <1>2, <1>20 DEF HandlerExits, exeVars, RunnerInv, Points
<1>21. CASE ClientEOF
  <2>1. RunnerInv' /\ Service!Close
    BY <1>21 DEF ClientEOF, exeVars, RunnerInv, Service!Close
  <2>. QED
    BY <2>1 DEF Service!Next
<1>22. CASE ClientLeaves
  <2>1. RunnerInv' /\ Service!Leave
    BY <1>22 DEF ClientLeaves, exeVars, RunnerInv, Service!Leave
  <2>. QED
    BY <2>1 DEF Service!Next
<1>23. CASE TermRunner
  BY <1>2, <1>23 DEF TermRunner, exeVars, RunnerInv
<1>. QED
  BY <1>1, <1>3, <1>4, <1>5, <1>6, <1>7, <1>8, <1>9, <1>10, <1>11, <1>12, <1>13, <1>14, <1>15,
     <1>17, <1>18, <1>19, <1>20, <1>21, <1>22, <1>23 DEF Next, RunnerStep

\* The client of a job is told at most one result: a failure of the service,
\* or what became of the job once it is over, with 0 for a job that exited
\* with status 0 and for no other (Promise of JobService; caller_runner.c).
THEOREM ResultsAreTrue == Spec => Service!Promise
<1>1. Init => Service!Init
  BY DEF Init, Service!Init
<1>2. RunnerInv /\ [Next]_vars => RunnerInv'
  BY StepIsService
<1>3. RunnerInv /\ [Next]_vars => [Service!Next]_(Service!vars)
  BY StepIsService
<1>. QED
  BY <1>1, <1>2, <1>3, InitIsRunnerInv, PTL DEF Spec, Service!Promise

=============================================================================
