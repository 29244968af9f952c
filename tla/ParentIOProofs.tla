--------------------------- MODULE ParentIOProofs ---------------------------
(* Proofs about ParentIO, for every limit, every capacity and every status *)
(* of the payload.                                                         *)
EXTENDS ParentIO, TLAPS

-----------------------------------------------------------------------------
(* The inductive invariant.                                                *)

Before == {"start", "killuid", "block", "fork"}     \* there is no payload yet
InLoop == {"check", "select", "handler", "drain", "forget"}

\* A pending SIGCHLD is never that of the killuid child: it means that the
\* payload has died.
SignalsAreOfPayload ==
  /\ chld => child \in {"zombie", "reaped"}
  /\ ppc = "killuid" => ~blocked
  /\ ppc \in Before => ~handler /\ ~child_pid /\ child = "none"
  /\ ppc = "setup" => ~child_pid /\ ~handler

\* What child_pid, the handler and the wait status know of each other.
ChildKnown ==
  /\ child_pid => child \in {"running", "zombie"}
  /\ ppc = "handler" => ~child_pid /\ child = "zombie"
  /\ ppc \in InLoop \ {"handler"} => (child_pid \/ child = "reaped")
  /\ ppc = "setup" => child \in {"running", "zombie"}

\* child_rc is that of the payload as soon as it is reaped, and zero before.
CodeKnown ==
  /\ ppc \in Before \cup {"setup"} => child_rc = 0
  /\ ppc \in InLoop => IF child = "reaped"
                       THEN child_rc = 0 <=> status = Exited(0)
                       ELSE child_rc = 0
  /\ ExitCodeIsTrue

\* A stream the parent does not read is at its end; a log connection made
\* before the death of the payload is noticed is accepted before that.
StreamsKnown ==
  /\ ppc \in Before => \A s \in Streams : ~wr[s] /\ buf[s] = 0
  /\ ppc \in Before \cup {"setup"} => fds = {}
  /\ ppc = "setup" => \A s \in {"out", "err"} \ StdStreams : ~wr[s] /\ buf[s] = 0
  /\ \A s \in {"out", "err"} :
       ppc \in InLoop \cup {"done"} /\ s \notin fds => ~wr[s] /\ buf[s] = 0
  /\ log = "none" => ~wr["log"] /\ buf["log"] = 0 /\ "log" \notin fds
  /\ log = "pending" => "log" \notin fds
  /\ log = "accepted" /\ "log" \notin fds => ~wr["log"] /\ buf["log"] = 0
  /\ ppc \in Before => log = "none" /\ bg = "none"
  /\ ~use_pty /\ ppc \in InLoop \cup {"done"} /\ ~child_pid /\ ~late =>
       log # "pending"
  /\ ~use_pty /\ ppc = "handler" => ret = "check"
  /\ ~use_pty /\ ppc \in {"drain", "forget", "done"} => ~child_pid /\ fds = {}
  /\ ~use_pty /\ ppc = "done" => child = "reaped"

\* The Boolean variables.
Flags ==
  /\ use_pty \in BOOLEAN /\ blocked \in BOOLEAN /\ chld \in BOOLEAN
  /\ handler \in BOOLEAN /\ child_pid \in BOOLEAN /\ ttyfd \in BOOLEAN
  /\ eof \in BOOLEAN /\ late \in BOOLEAN

\* The seconds of one pselect stay below the limit that ends it.
WaitBounded == ppc = "select" /\ TimeIdle # 0 => waited < TimeIdle

ParentInv ==
  /\ TypeOK
  /\ WaitBounded
  /\ SignalsAreOfPayload /\ ChildKnown /\ CodeKnown /\ StreamsKnown
-----------------------------------------------------------------------------
(* The invariant holds initially.                                          *)
LEMMA ParentInvInitially == Init => ParentInv
<1> SUFFICES ASSUME Init PROVE ParentInv
  OBVIOUS
<1>1. Flags
  BY Zenon DEF Init, Flags
<1>2. TypeOK
  BY <1>1, ParentConstants DEF Init, TypeOK, Flags, Points, Streams
<1>3. SignalsAreOfPayload /\ ChildKnown /\ WaitBounded
  BY DEF Init, SignalsAreOfPayload, ChildKnown, WaitBounded, Before, InLoop
<1>4. CodeKnown /\ StreamsKnown
  BY DEF Init, CodeKnown, StreamsKnown, ExitCodeIsTrue, Before, InLoop, Streams
<1> QED  BY <1>2, <1>3, <1>4 DEF ParentInv

\* Boolean variables stay Boolean.
LEMMA FlagsStep == ParentInv /\ [Next]_vars => Flags'
<1> SUFFICES ASSUME ParentInv, [Next]_vars PROVE Flags'
  OBVIOUS
<1> USE DEF ParentInv, TypeOK, Flags, sigVars, childVars, ioVars, payloadVars, worldVars, logVars
<1>1. CASE UnblockAll \/ BlockSigchld \/ SpawnKilluid
  BY <1>1, Zenon DEF UnblockAll, BlockSigchld, SpawnKilluid
<1>2. CASE ForkPayload \/ Setup
  BY <1>2, Zenon DEF ForkPayload, StdStreams, Setup
<1>3. CASE CheckLimits
  BY <1>3, Zenon DEF CheckLimits, LimitExceeded, OverLimit, NothingLeft,
     SIGTERM
<1>4. CASE HandleIo
  BY <1>4, Zenon DEF HandleIo, Forward, Copied, LineEnd, Remaining, ReadyStreams, LogReady,
     SlaveReady, TtyReady, FeedSlave, ReadTty
<1>5. CASE SlaveWriteFails \/ XwriteDies
  BY <1>5, Zenon DEF SlaveWriteFails, Forward, Copied, LineEnd, Remaining, ReadyStreams,
     SlaveReady, XwriteDies
<1>6. CASE Interrupted
  BY <1>6, Zenon DEF Interrupted, EnterHandler, AnyReady, LogReady
<1>7. CASE HandlerReaps
  BY <1>7, Zenon DEF HandlerReaps, Code, Exited, Statuses, Signaled
<1>8. CASE DrainSignal
  BY <1>8, Zenon DEF DrainSignal, EnterHandler
<1>9. CASE DrainOver
  BY <1>9, Zenon DEF DrainOver
<1>10. CASE ForgetChild
  BY <1>10, Zenon DEF ForgetChild, SIGTERM
<1>11. CASE Reads \/ LogConnect \/ LeaveBackground
  BY <1>11, Zenon DEF Reads, LogConnect, LeaveBackground
<1>12. CASE ChildExits
  BY <1>12, Zenon DEF ChildExits, CloseStreams
<1>13. CASE BackgroundExits
  BY <1>13, Zenon DEF BackgroundExits, CloseStreams
<1>14. CASE Types
  BY <1>14, Zenon DEF Types
<1>15. CASE TimerExpires
  BY <1>15, Zenon DEF TimerExpires
<1>16. CASE Tick
  BY <1>16, Zenon DEF Tick, LimitExceeded, SIGTERM
<1>17. ASSUME NEW s \in Streams, Writes(s) \/ Closes(s) PROVE Flags'
  BY <1>17, Zenon DEF Writes, Closes
<1>18. CASE UNCHANGED vars
  BY <1>18, Zenon DEF vars
<1> QED
  BY <1>1, <1>2, <1>3, <1>4, <1>5, <1>6, <1>7, <1>8, <1>9, <1>10, <1>11,
     <1>12, <1>13, <1>14, <1>15, <1>16, <1>17, <1>18 DEF Next, ParentStep,
     World

\* All variables keep their types.
LEMMA TypeStep == ParentInv /\ [Next]_vars => TypeOK'
<1> SUFFICES ASSUME ParentInv, [Next]_vars PROVE TypeOK'
  OBVIOUS
<1> USE ParentConstants DEF ParentInv, TypeOK, WaitBounded, Points, Before, InLoop,
    Streams, sigVars, childVars, ioVars, payloadVars, worldVars, logVars
<1>0. Flags'
  BY FlagsStep
<1> USE DEF Flags
<1>1. CASE Reads \/ LeaveBackground \/ Types \/ TimerExpires
  <2>1. CASE Reads
    BY <1>0, <2>1 DEF Reads
  <2>2. CASE LeaveBackground
    BY <1>0, <2>2 DEF LeaveBackground
  <2>3. CASE Types
    BY <1>0, <2>3 DEF Types
  <2>4. CASE TimerExpires
    BY <1>0, <2>4 DEF TimerExpires
  <2> QED  BY <1>1, <2>1, <2>2, <2>3, <2>4
<1>2. CASE XwriteDies \/ LogConnect
  <2>1. CASE XwriteDies
    BY <1>0, <2>1 DEF XwriteDies
  <2>2. CASE LogConnect
    BY <1>0, <2>2 DEF LogConnect
  <2> QED  BY <1>2, <2>1, <2>2
<1>3. CASE UnblockAll \/ SpawnKilluid \/ BlockSigchld
  <2>1. CASE UnblockAll
    BY <1>0, <2>1 DEF UnblockAll
  <2>2. CASE SpawnKilluid
    BY <1>0, <2>2 DEF SpawnKilluid
  <2>3. CASE BlockSigchld
    BY <1>0, <2>3 DEF BlockSigchld
  <2> QED  BY <1>3, <2>1, <2>2, <2>3
<1>4. CASE ForkPayload
  BY <1>4, <1>0 DEF ForkPayload, StdStreams
<1>5. CASE Setup
  BY <1>5, <1>0 DEF Setup, StdStreams
<1>6. CASE CheckLimits
  BY <1>6, <1>0 DEF CheckLimits, LimitExceeded, OverLimit, NothingLeft,
     SIGTERM
<1>7. CASE HandleIo
  <2> DEFINE n(s) == IF s \in ReadyStreams THEN buf[s] ELSE 0
  <2>1. n("out") \in Nat /\ n("err") \in Nat /\ n("log") \in Nat
    OBVIOUS
  <2>2. nwritten' \in 0..BytesWritten /\ buf' \in [Streams -> 0..Cap]
    BY <1>7, <2>1 DEF HandleIo, Forward, Copied, LineEnd, Upto
  <2>3. /\ avail' \in 0..InCap /\ inq' \in 0..InCap /\ nread' \in 0..BytesRead
        /\ tty' \in 0..InCap
    BY <1>7 DEF HandleIo, FeedSlave, ReadTty, SlaveReady, Upto
  <2>4. fds' \subseteq Streams /\ log' \in {"none", "pending", "accepted"}
    BY <1>7 DEF HandleIo, Remaining
  <2> QED  BY <1>7, <1>0, <2>2, <2>3, <2>4 DEF HandleIo, Flags
<1>8. CASE SlaveWriteFails
  <2> DEFINE n(s) == IF s \in ReadyStreams \ {"log"} THEN buf[s] ELSE 0
  <2>1. n("out") \in Nat /\ n("err") \in Nat /\ n("log") \in Nat
    OBVIOUS
  <2>2. nwritten' \in 0..BytesWritten /\ buf' \in [Streams -> 0..Cap]
    BY <1>8, <2>1 DEF SlaveWriteFails, Forward, Copied, LineEnd, Upto
  <2> QED  BY <1>8, <1>0, <2>2 DEF SlaveWriteFails, Remaining, Flags
<1>9. CASE Interrupted
  BY <1>9, <1>0 DEF Interrupted, EnterHandler, AnyReady, LogReady
<1>10. CASE HandlerReaps
  BY <1>10, <1>0 DEF HandlerReaps, Code, Exited, Statuses, Signaled
<1>11. CASE DrainSignal
  BY <1>11, <1>0 DEF DrainSignal, EnterHandler
<1>12. CASE DrainOver
  BY <1>12, <1>0 DEF DrainOver
<1>13. CASE ForgetChild
  BY <1>13, <1>0 DEF ForgetChild, SIGTERM
<1>14. CASE ChildExits
  BY <1>14, <1>0 DEF ChildExits, CloseStreams
<1>15. CASE BackgroundExits
  BY <1>15, <1>0 DEF BackgroundExits, CloseStreams
<1>16. CASE Tick
  BY <1>16, <1>0 DEF Tick, LimitExceeded, SIGTERM
<1>17. ASSUME NEW s \in Streams, Writes(s) \/ Closes(s) PROVE TypeOK'
  <2>1. CASE Writes(s)
    BY <1>0, <2>1 DEF Writes
  <2>2. CASE Closes(s)
    BY <1>0, <2>2 DEF Closes
  <2> QED  BY <1>17, <2>1, <2>2
<1>18. CASE UNCHANGED vars
  BY <1>18, <1>0 DEF vars
<1> QED
  BY <1>1, <1>2, <1>3, <1>4, <1>5, <1>6, <1>7, <1>8, <1>9, <1>10, <1>11,
     <1>12, <1>13, <1>14, <1>15, <1>16, <1>17, <1>18 DEF Next, ParentStep,
     World

\* The clock of a pselect.
LEMMA WaitStep == ParentInv /\ [Next]_vars => WaitBounded'
<1> SUFFICES ASSUME ParentInv, [Next]_vars PROVE WaitBounded'
  OBVIOUS
<1> USE ParentConstants DEF ParentInv, TypeOK, WaitBounded, Points, Before, InLoop,
    Streams, sigVars, childVars, ioVars, payloadVars, worldVars, logVars
<1>1. CASE CheckLimits
  BY <1>1 DEF CheckLimits, LimitExceeded, OverLimit, NothingLeft, SIGTERM
<1>2. CASE Tick
  BY <1>2 DEF Tick, LimitExceeded, SIGTERM
<1>3. CASE UnblockAll \/ SpawnKilluid \/ BlockSigchld \/ ForkPayload \/ Setup \/ HandleIo \/ SlaveWriteFails \/ XwriteDies
  BY <1>3 DEF UnblockAll, SpawnKilluid, BlockSigchld, ForkPayload,
     StdStreams, Setup, HandleIo, Forward, Copied, LineEnd, Remaining, ReadyStreams,
     LogReady, SlaveReady, TtyReady, FeedSlave, ReadTty, SlaveWriteFails,
     XwriteDies
<1>4. CASE Interrupted \/ DrainSignal \/ DrainOver \/ ForgetChild
  BY <1>4 DEF Interrupted, EnterHandler, AnyReady, LogReady, DrainSignal,
     DrainOver, ForgetChild, SIGTERM
<1>5. CASE HandlerReaps
  BY <1>5 DEF HandlerReaps, Code, Exited, Statuses, Signaled
<1>6. CASE Reads \/ LogConnect \/ LeaveBackground \/ ChildExits \/ BackgroundExits \/ Types \/ TimerExpires
  BY <1>6 DEF Reads, LogConnect, LeaveBackground, ChildExits, CloseStreams,
     BackgroundExits, Types, TimerExpires
<1>7. ASSUME NEW s \in Streams, Writes(s) \/ Closes(s) PROVE WaitBounded'
  BY <1>7 DEF Writes, Closes
<1>8. CASE UNCHANGED vars
  BY <1>8 DEF vars
<1> QED
  BY <1>1, <1>2, <1>3, <1>4, <1>5, <1>6, <1>7, <1>8 DEF Next, ParentStep,
     World

\* Signals.
LEMMA SignalsStep == ParentInv /\ [Next]_vars => SignalsAreOfPayload'
<1> SUFFICES ASSUME ParentInv, [Next]_vars PROVE SignalsAreOfPayload'
  OBVIOUS
<1> USE DEF ParentInv, TypeOK, SignalsAreOfPayload, ChildKnown, Before, InLoop, Streams, sigVars,
    childVars, ioVars, payloadVars, worldVars, logVars
<1>1. CASE Reads \/ LeaveBackground \/ Types \/ TimerExpires
  BY <1>1 DEF Reads, LeaveBackground, Types, TimerExpires
<1>2. CASE XwriteDies \/ LogConnect
  BY <1>2 DEF XwriteDies, LogConnect
<1>3. CASE UnblockAll \/ SpawnKilluid \/ BlockSigchld
  BY <1>3 DEF UnblockAll, SpawnKilluid, BlockSigchld
<1>4. CASE ForkPayload
  BY <1>4 DEF ForkPayload, StdStreams
<1>5. CASE Setup
  BY <1>5 DEF Setup, StdStreams
<1>6. CASE CheckLimits
  BY <1>6 DEF CheckLimits, LimitExceeded, OverLimit, NothingLeft, SIGTERM
<1>7. CASE HandleIo
  BY <1>7 DEF HandleIo, Forward, Copied, LineEnd, Remaining, ReadyStreams, LogReady,
     SlaveReady, TtyReady, FeedSlave, ReadTty
<1>8. CASE SlaveWriteFails
  BY <1>8 DEF SlaveWriteFails, Forward, Copied, LineEnd, Remaining, ReadyStreams, SlaveReady
<1>9. CASE Interrupted
  BY <1>9 DEF Interrupted, EnterHandler, AnyReady, LogReady
<1>10. CASE HandlerReaps
  BY <1>10, ParentConstants DEF HandlerReaps, Code, Exited, Statuses, Signaled
<1>11. CASE DrainSignal
  BY <1>11 DEF DrainSignal, EnterHandler
<1>12. CASE DrainOver
  BY <1>12 DEF DrainOver
<1>13. CASE ForgetChild
  BY <1>13 DEF ForgetChild, SIGTERM
<1>14. CASE ChildExits
  BY <1>14 DEF ChildExits, CloseStreams
<1>15. CASE BackgroundExits
  BY <1>15 DEF BackgroundExits, CloseStreams
<1>16. CASE Tick
  BY <1>16 DEF Tick, LimitExceeded, SIGTERM
<1>17. ASSUME NEW s \in Streams, Writes(s) \/ Closes(s) PROVE SignalsAreOfPayload'
  BY <1>17 DEF Writes, Closes
<1>18. CASE UNCHANGED vars
  BY <1>18 DEF vars
<1> QED
  BY <1>1, <1>2, <1>3, <1>4, <1>5, <1>6, <1>7, <1>8, <1>9, <1>10, <1>11,
     <1>12, <1>13, <1>14, <1>15, <1>16, <1>17, <1>18 DEF Next, ParentStep,
     World

\* What is known of the payload.
LEMMA ChildStep == ParentInv /\ [Next]_vars => ChildKnown'
<1> SUFFICES ASSUME ParentInv, [Next]_vars PROVE ChildKnown'
  OBVIOUS
<1> USE DEF ParentInv, TypeOK, SignalsAreOfPayload, ChildKnown, Before, InLoop, Streams, sigVars,
    childVars, ioVars, payloadVars, worldVars, logVars
<1>1. CASE Reads \/ LeaveBackground \/ Types \/ TimerExpires
  BY <1>1 DEF Reads, LeaveBackground, Types, TimerExpires
<1>2. CASE XwriteDies \/ LogConnect
  BY <1>2 DEF XwriteDies, LogConnect
<1>3. CASE UnblockAll \/ SpawnKilluid \/ BlockSigchld
  BY <1>3 DEF UnblockAll, SpawnKilluid, BlockSigchld
<1>4. CASE ForkPayload
  BY <1>4 DEF ForkPayload, StdStreams
<1>5. CASE Setup
  BY <1>5 DEF Setup, StdStreams
<1>6. CASE CheckLimits
  BY <1>6 DEF CheckLimits, LimitExceeded, OverLimit, NothingLeft, SIGTERM
<1>7. CASE HandleIo
  BY <1>7 DEF HandleIo, Forward, Copied, LineEnd, Remaining, ReadyStreams, LogReady,
     SlaveReady, TtyReady, FeedSlave, ReadTty
<1>8. CASE SlaveWriteFails
  BY <1>8 DEF SlaveWriteFails, Forward, Copied, LineEnd, Remaining, ReadyStreams, SlaveReady
<1>9. CASE Interrupted
  BY <1>9 DEF Interrupted, EnterHandler, AnyReady, LogReady
<1>10. CASE HandlerReaps
  BY <1>10, ParentConstants DEF HandlerReaps, Code, Exited, Statuses, Signaled
<1>11. CASE DrainSignal
  BY <1>11 DEF DrainSignal, EnterHandler
<1>12. CASE DrainOver
  BY <1>12 DEF DrainOver
<1>13. CASE ForgetChild
  BY <1>13 DEF ForgetChild, SIGTERM
<1>14. CASE ChildExits
  BY <1>14 DEF ChildExits, CloseStreams
<1>15. CASE BackgroundExits
  BY <1>15 DEF BackgroundExits, CloseStreams
<1>16. CASE Tick
  BY <1>16 DEF Tick, LimitExceeded, SIGTERM
<1>17. ASSUME NEW s \in Streams, Writes(s) \/ Closes(s) PROVE ChildKnown'
  BY <1>17 DEF Writes, Closes
<1>18. CASE UNCHANGED vars
  BY <1>18 DEF vars
<1> QED
  BY <1>1, <1>2, <1>3, <1>4, <1>5, <1>6, <1>7, <1>8, <1>9, <1>10, <1>11,
     <1>12, <1>13, <1>14, <1>15, <1>16, <1>17, <1>18 DEF Next, ParentStep,
     World

\* The exit code.
LEMMA CodeStep == ParentInv /\ [Next]_vars => CodeKnown'
<1> SUFFICES ASSUME ParentInv, [Next]_vars PROVE CodeKnown'
  OBVIOUS
<1> USE DEF ParentInv, TypeOK, SignalsAreOfPayload, ChildKnown, CodeKnown,
    ExitCodeIsTrue, Before, InLoop, Streams, sigVars,
    childVars, ioVars, payloadVars, worldVars, logVars
<1>1. CASE Reads \/ LeaveBackground \/ Types \/ TimerExpires
  BY <1>1 DEF Reads, LeaveBackground, Types, TimerExpires
<1>2. CASE XwriteDies \/ LogConnect
  BY <1>2 DEF XwriteDies, LogConnect
<1>3. CASE UnblockAll \/ SpawnKilluid \/ BlockSigchld
  BY <1>3 DEF UnblockAll, SpawnKilluid, BlockSigchld
<1>4. CASE ForkPayload
  BY <1>4 DEF ForkPayload, StdStreams
<1>5. CASE Setup
  BY <1>5 DEF Setup, StdStreams
<1>6. CASE CheckLimits
  BY <1>6 DEF CheckLimits, LimitExceeded, OverLimit, NothingLeft, SIGTERM
<1>7. CASE HandleIo
  BY <1>7 DEF HandleIo, Forward, Copied, LineEnd, Remaining, ReadyStreams, LogReady,
     SlaveReady, TtyReady, FeedSlave, ReadTty
<1>8. CASE SlaveWriteFails
  BY <1>8 DEF SlaveWriteFails, Forward, Copied, LineEnd, Remaining, ReadyStreams, SlaveReady
<1>9. CASE Interrupted
  BY <1>9 DEF Interrupted, EnterHandler, AnyReady, LogReady
<1>10. CASE HandlerReaps
  BY <1>10, ParentConstants DEF HandlerReaps, Code, Exited, Statuses, Signaled
<1>11. CASE DrainSignal
  BY <1>11 DEF DrainSignal, EnterHandler
<1>12. CASE DrainOver
  BY <1>12 DEF DrainOver
<1>13. CASE ForgetChild
  BY <1>13 DEF ForgetChild, SIGTERM
<1>14. CASE ChildExits
  BY <1>14 DEF ChildExits, CloseStreams
<1>15. CASE BackgroundExits
  BY <1>15 DEF BackgroundExits, CloseStreams
<1>16. CASE Tick
  BY <1>16 DEF Tick, LimitExceeded, SIGTERM
<1>17. ASSUME NEW s \in Streams, Writes(s) \/ Closes(s) PROVE CodeKnown'
  BY <1>17 DEF Writes, Closes
<1>18. CASE UNCHANGED vars
  BY <1>18 DEF vars
<1> QED
  BY <1>1, <1>2, <1>3, <1>4, <1>5, <1>6, <1>7, <1>8, <1>9, <1>10, <1>11,
     <1>12, <1>13, <1>14, <1>15, <1>16, <1>17, <1>18 DEF Next, ParentStep,
     World

\* The streams.
LEMMA StreamsStep == ParentInv /\ [Next]_vars => StreamsKnown'
<1> SUFFICES ASSUME ParentInv, [Next]_vars PROVE StreamsKnown'
  OBVIOUS
<1> USE DEF ParentInv, TypeOK, SignalsAreOfPayload, ChildKnown, StreamsKnown, StdStreams, Before, InLoop, Streams, sigVars,
    childVars, ioVars, payloadVars, worldVars, logVars
<1>1. CASE Reads \/ LeaveBackground \/ Types \/ TimerExpires
  <2>1. CASE Reads
    BY <2>1 DEF Reads
  <2>2. CASE LeaveBackground
    BY <2>2 DEF LeaveBackground
  <2>3. CASE Types
    BY <2>3 DEF Types
  <2>4. CASE TimerExpires
    BY <2>4 DEF TimerExpires
  <2> QED  BY <1>1, <2>1, <2>2, <2>3, <2>4
<1>2. CASE XwriteDies \/ LogConnect
  <2>1. CASE XwriteDies
    BY <2>1 DEF XwriteDies
  <2>2. CASE LogConnect
    <3>1. ppc \notin Before
      BY <2>2 DEF LogConnect, PayloadAlive
    <3> QED  BY <2>2, <3>1 DEF LogConnect
  <2> QED  BY <1>2, <2>1, <2>2
<1>3. CASE UnblockAll \/ SpawnKilluid \/ BlockSigchld
  BY <1>3 DEF UnblockAll, SpawnKilluid, BlockSigchld
<1>4. CASE ForkPayload
  BY <1>4 DEF ForkPayload, StdStreams
<1>5. CASE Setup
  BY <1>5 DEF Setup, StdStreams
<1>6. CASE CheckLimits
  BY <1>6 DEF CheckLimits, LimitExceeded, OverLimit, NothingLeft, SIGTERM
<1>7. CASE HandleIo
  BY <1>7 DEF HandleIo, Forward, Copied, LineEnd, Remaining, ReadyStreams, LogReady,
     SlaveReady, TtyReady, FeedSlave, ReadTty
<1>8. CASE SlaveWriteFails
  BY <1>8 DEF SlaveWriteFails, Forward, Copied, LineEnd, Remaining, ReadyStreams, SlaveReady
<1>9. CASE Interrupted
  BY <1>9 DEF Interrupted, EnterHandler, AnyReady, LogReady
<1>10. CASE HandlerReaps
  BY <1>10, ParentConstants DEF HandlerReaps, Code, Exited, Statuses, Signaled
<1>11. CASE DrainSignal
  BY <1>11 DEF DrainSignal, EnterHandler
<1>12. CASE DrainOver
  BY <1>12 DEF DrainOver
<1>13. CASE ForgetChild
  BY <1>13 DEF ForgetChild, SIGTERM
<1>14. CASE ChildExits
  BY <1>14 DEF ChildExits, CloseStreams
<1>15. CASE BackgroundExits
  BY <1>15 DEF BackgroundExits, CloseStreams
<1>16. CASE Tick
  BY <1>16 DEF Tick, LimitExceeded, SIGTERM
<1>17. ASSUME NEW s \in Streams, Writes(s) \/ Closes(s) PROVE StreamsKnown'
  <2>1. CASE Writes(s)
    BY <2>1 DEF Writes
  <2>2. CASE Closes(s)
    BY <2>2 DEF Closes
  <2> QED  BY <1>17, <2>1, <2>2
<1>18. CASE UNCHANGED vars
  BY <1>18 DEF vars
<1> QED
  BY <1>1, <1>2, <1>3, <1>4, <1>5, <1>6, <1>7, <1>8, <1>9, <1>10, <1>11,
     <1>12, <1>13, <1>14, <1>15, <1>16, <1>17, <1>18 DEF Next, ParentStep,
     World

\* The invariant of the executor.
THEOREM ParentIsInvariant == Spec => []ParentInv
<1>1. ParentInv /\ [Next]_vars => ParentInv'
  BY TypeStep, WaitStep, SignalsStep, ChildStep, CodeStep, StreamsStep DEF ParentInv
<1> QED  BY <1>1, ParentInvInitially, PTL DEF Spec

\* sigchld_handler is entered only when the payload is dead, so its waitpid
\* never stops the loop (parent.c:110).
THEOREM HandlerIsShort == Spec => []HandlerNeverBlocks
<1>1. ParentInv => HandlerNeverBlocks
  BY DEF ParentInv, ChildKnown, HandlerNeverBlocks
<1> QED  BY <1>1, ParentIsInvariant, PTL

\* Without a pty the parent leaves its loop only when all output of the
\* payload is copied, and all log messages are read whose connection was made
\* before the death of the payload was noticed (parent.c:274, 297).
THEOREM OutputIsComplete == Spec => []OutputComplete
<1>1. ParentInv => OutputComplete
  <2> SUFFICES ASSUME ParentInv, ppc \in {"drain", "forget", "done"}, ~use_pty
               PROVE  /\ buf["out"] = 0 /\ buf["err"] = 0
                      /\ ~late => log # "pending" /\ buf["log"] = 0
    BY DEF OutputComplete
  <2>1. ~child_pid /\ fds = {} /\ ppc \in InLoop \cup {"done"}
    BY DEF ParentInv, StreamsKnown, InLoop
  <2>2. ~late => log # "pending"
    BY <2>1 DEF ParentInv, StreamsKnown
  <2>3. ~late => log \in {"none", "accepted"}
    BY <2>2 DEF ParentInv, TypeOK
  <2>4. ~late => buf["log"] = 0
    BY <2>1, <2>3 DEF ParentInv, StreamsKnown
  <2>5. buf["out"] = 0 /\ buf["err"] = 0
    BY <2>1 DEF ParentInv, StreamsKnown
  <2> QED  BY <2>2, <2>4, <2>5
<1> QED  BY <1>1, ParentIsInvariant, PTL

\* The exit status of the executor is zero exactly for a payload that exited
\* with zero and was collected (parent.c:440).
THEOREM ExitCodeIsThatOfPayload == Spec => []ExitCodeIsTrue
<1>1. ParentInv => ExitCodeIsTrue
  BY DEF ParentInv, CodeKnown
<1> QED  BY <1>1, ParentIsInvariant, PTL
=============================================================================
