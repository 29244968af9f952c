----------------------------- MODULE JobService -----------------------------
(***************************************************************************)
(* What the service promises the client of one job: at most one result,    *)
(* never before the job is over unless it is a failure of the service, and *)
(* success exactly for a job that ended well; after the end of the job a   *)
(* waiting client hears of it.  Everything about the processes that bring  *)
(* this about is left to JobRunner.                                        *)
(***************************************************************************)
EXTENDS Integers

CONSTANTS
  Ends,      \* how a job may end
  WellEnded, \* the one of them that is success
  FAILED,    \* the result when the service gives the job up
  NoAnswer   \* no result yet

VARIABLES
  over,      \* the ways in which the job has ended: none or one
  client,    \* "wait", "answered", "eof" or "gone"
  answer     \* the result the client was told

vars == <<over, client, answer>>

Init == over = {} /\ client = "wait" /\ answer = NoAnswer

\* The job ends.
End == over = {} /\ over' \in {{e} : e \in Ends} /\ UNCHANGED <<client, answer>>

\* The results that may be told.
Results == {FAILED} \cup (IF over = {} THEN {} ELSE
                          IF over = {WellEnded} THEN {0} ELSE 1..255)
Answer ==
  /\ client = "wait" /\ client' = "answered"
  /\ answer' \in Results
  /\ UNCHANGED over

\* The connection is closed without a result.
Close == client = "wait" /\ client' = "eof" /\ UNCHANGED <<over, answer>>

\* The client does not wait any longer.
Leave == client = "wait" /\ client' = "gone" /\ UNCHANGED <<over, answer>>

Next == End \/ Answer \/ Close \/ Leave

\* What is promised of every single step ...
Promise == Init /\ [][Next]_vars

\* ... and that the end of the job is passed on.
Spec == Promise /\ WF_vars(over # {} /\ (Answer \/ Close))
=============================================================================
