--------------------------- MODULE PidFileProofs ---------------------------
(* Proofs about PidFile, for any number of starts and process ids, and     *)
(* whatever pidfile an earlier daemon left.                                *)
EXTENDS PidFile, TLAPS

-----------------------------------------------------------------------------
(* The inductive invariant.                                                *)

\* No two living starts have the same process id.
PidsDiffer ==
  \A i, j \in Starts : Alive(i) /\ Alive(j) /\ pid[i] = pid[j] => i = j

\* write_pid holds the lock of the file it has open, and only while it works.
Holding == {"write", "close"}
LocksHeld ==
  /\ \A i \in Starts : pc[i] \in Holding \cup {"flock"} => fd[i] \in Inodes
  /\ \A n \in Inodes, i \in Starts :
       lock[n] = i => pc[i] \in Holding /\ fd[i] = n

\* Starts that do not overlap: one at a time is past check_pid, and then no
\* daemon serves; what it writes is the file the path leads to.
Checked == Starting \ {"check"}
OneStarts ==
  ~overlap =>
    /\ \A i, j \in Starts : pc[i] \in Starting /\ pc[j] \in Starting => i = j
    /\ \A i, j \in Starts : pc[i] \in Checked => pc[j] \notin Serving
    /\ \A i \in Starts : pc[i] \in Holding \cup {"flock"} => fd[i] = path
    /\ \A i \in Starts : pc[i] = "close" => content[path] = pid[i]

PidFileInv ==
  TypeOK /\ PidsDiffer /\ LocksHeld /\ OneStarts /\ SerialStartsAreSafe /\ NoMutualRefusal

-----------------------------------------------------------------------------
\* What the constants say of the values a pidfile can hold.
LEMMA Constants ==
  /\ 0 \notin Pids /\ NoInode \notin Inodes /\ NoInode \notin Starts
  /\ Starts \subseteq Inodes /\ Leftover \in Inodes /\ Others \subseteq Pids
  BY PidFileConstants DEF Inodes

USE Constants DEF PidFileInv, Points, Starting, Serving, Checked, Holding, Alive, Goto, Leave

\* At first no start is made.
LEMMA PidFileInvInitially == Init => PidFileInv
<1> SUFFICES ASSUME Init PROVE PidFileInv
  OBVIOUS
<1>1. TypeOK
  BY DEF Init, TypeOK
<1>2. PidsDiffer /\ LocksHeld
  BY DEF Init, PidsDiffer, LocksHeld
<1>3. OneStarts /\ SerialStartsAreSafe /\ NoMutualRefusal
  BY DEF Init, OneStarts, SerialStartsAreSafe, AtMostOneServes, NoMutualRefusal
<1> QED  BY <1>1, <1>2, <1>3

\* The variables keep their types.
LEMMA TypeStep == PidFileInv /\ [Next]_vars => TypeOK'
<1> SUFFICES ASSUME PidFileInv, [Next]_vars PROVE TypeOK'
  OBVIOUS
<1> USE DEF TypeOK
<1>1. ASSUME NEW i \in Starts, Start(i) PROVE TypeOK'
  BY <1>1 DEF Start, LivePids
<1>2. ASSUME NEW i \in Starts, Check(i) PROVE TypeOK'
  BY <1>2 DEF Check, CheckPid, ReadPid, LivePids
<1>3. ASSUME NEW i \in Starts, Daemonize(i) PROVE TypeOK'
  BY <1>3 DEF Daemonize, LivePids
<1>4. ASSUME NEW i \in Starts, Open(i) PROVE TypeOK'
  BY <1>4 DEF Open
<1>5. ASSUME NEW i \in Starts, Flock(i) PROVE TypeOK'
  BY <1>5 DEF Flock
<1>6. ASSUME NEW i \in Starts, Write(i) PROVE TypeOK'
  BY <1>6 DEF Write
<1>7. ASSUME NEW i \in Starts, Close(i) PROVE TypeOK'
  BY <1>7 DEF Close
<1>8. ASSUME NEW i \in Starts, Finish(i) PROVE TypeOK'
  BY <1>8 DEF Finish
<1>9. ASSUME NEW i \in Starts, RemovePid(i) PROVE TypeOK'
  BY <1>9 DEF RemovePid
<1>10. ASSUME NEW i \in Starts, Crash(i) PROVE TypeOK'
  BY <1>10 DEF Crash
<1>11. CASE UNCHANGED vars
  BY <1>11 DEF vars
<1> QED
  BY <1>1, <1>2, <1>3, <1>4, <1>5, <1>6, <1>7, <1>8, <1>9, <1>10, <1>11 DEF Next

\* A new process gets a process id that is not in use.
LEMMA PidsStep == PidFileInv /\ [Next]_vars => PidsDiffer'
<1> SUFFICES ASSUME PidFileInv, [Next]_vars PROVE PidsDiffer'
  OBVIOUS
<1> USE DEF TypeOK, PidsDiffer
<1>1. ASSUME NEW i \in Starts, Start(i) PROVE PidsDiffer'
  BY <1>1 DEF Start, LivePids
<1>2. ASSUME NEW i \in Starts, Check(i) PROVE PidsDiffer'
  BY <1>2 DEF Check, CheckPid, ReadPid, LivePids
<1>3. ASSUME NEW i \in Starts, Daemonize(i) PROVE PidsDiffer'
  BY <1>3 DEF Daemonize, LivePids
<1>4. ASSUME NEW i \in Starts, Open(i) PROVE PidsDiffer'
  BY <1>4 DEF Open
<1>5. ASSUME NEW i \in Starts, Flock(i) PROVE PidsDiffer'
  BY <1>5 DEF Flock
<1>6. ASSUME NEW i \in Starts, Write(i) PROVE PidsDiffer'
  BY <1>6 DEF Write
<1>7. ASSUME NEW i \in Starts, Close(i) PROVE PidsDiffer'
  BY <1>7 DEF Close
<1>8. ASSUME NEW i \in Starts, Finish(i) PROVE PidsDiffer'
  BY <1>8 DEF Finish
<1>9. ASSUME NEW i \in Starts, RemovePid(i) PROVE PidsDiffer'
  BY <1>9 DEF RemovePid
<1>10. ASSUME NEW i \in Starts, Crash(i) PROVE PidsDiffer'
  BY <1>10 DEF Crash
<1>11. CASE UNCHANGED vars
  BY <1>11 DEF vars
<1> QED
  BY <1>1, <1>2, <1>3, <1>4, <1>5, <1>6, <1>7, <1>8, <1>9, <1>10, <1>11 DEF Next

\* Locks end with their holders.
LEMMA LocksStep == PidFileInv /\ [Next]_vars => LocksHeld'
<1> SUFFICES ASSUME PidFileInv, [Next]_vars PROVE LocksHeld'
  OBVIOUS
<1> USE DEF TypeOK, LocksHeld
<1>1. ASSUME NEW i \in Starts, Start(i) PROVE LocksHeld'
  BY <1>1 DEF Start, LivePids
<1>2. ASSUME NEW i \in Starts, Check(i) PROVE LocksHeld'
  BY <1>2 DEF Check, CheckPid, ReadPid, LivePids
<1>3. ASSUME NEW i \in Starts, Daemonize(i) PROVE LocksHeld'
  BY <1>3 DEF Daemonize, LivePids
<1>4. ASSUME NEW i \in Starts, Open(i) PROVE LocksHeld'
  BY <1>4 DEF Open
<1>5. ASSUME NEW i \in Starts, Flock(i) PROVE LocksHeld'
  BY <1>5 DEF Flock
<1>6. ASSUME NEW i \in Starts, Write(i) PROVE LocksHeld'
  BY <1>6 DEF Write
<1>7. ASSUME NEW i \in Starts, Close(i) PROVE LocksHeld'
  BY <1>7 DEF Close
<1>8. ASSUME NEW i \in Starts, Finish(i) PROVE LocksHeld'
  BY <1>8 DEF Finish
<1>9. ASSUME NEW i \in Starts, RemovePid(i) PROVE LocksHeld'
  BY <1>9 DEF RemovePid
<1>10. ASSUME NEW i \in Starts, Crash(i) PROVE LocksHeld'
  BY <1>10 DEF Crash
<1>11. CASE UNCHANGED vars
  BY <1>11 DEF vars
<1> QED
  BY <1>1, <1>2, <1>3, <1>4, <1>5, <1>6, <1>7, <1>8, <1>9, <1>10, <1>11 DEF Next

\* A start that meets a daemon at work does not get past check_pid.
LEMMA OneStartsStep == PidFileInv /\ [Next]_vars => OneStarts'
<1> SUFFICES ASSUME PidFileInv, [Next]_vars PROVE OneStarts'
  OBVIOUS
<1> USE DEF TypeOK, PidsDiffer, LocksHeld, OneStarts,
    SerialStartsAreSafe, AtMostOneServes
<1>1. ASSUME NEW i \in Starts, Start(i) PROVE OneStarts'
  BY <1>1 DEF Start, LivePids
<1>2. ASSUME NEW i \in Starts, Check(i) PROVE OneStarts'
  BY <1>2 DEF Check, CheckPid, ReadPid, LivePids
<1>3. ASSUME NEW i \in Starts, Daemonize(i) PROVE OneStarts'
  BY <1>3 DEF Daemonize, LivePids
<1>4. ASSUME NEW i \in Starts, Open(i) PROVE OneStarts'
  BY <1>4 DEF Open
<1>5. ASSUME NEW i \in Starts, Flock(i) PROVE OneStarts'
  BY <1>5 DEF Flock
<1>6. ASSUME NEW i \in Starts, Write(i) PROVE OneStarts'
  BY <1>6 DEF Write
<1>7. ASSUME NEW i \in Starts, Close(i) PROVE OneStarts'
  BY <1>7 DEF Close
<1>8. ASSUME NEW i \in Starts, Finish(i) PROVE OneStarts'
  BY <1>8 DEF Finish
<1>9. ASSUME NEW i \in Starts, RemovePid(i) PROVE OneStarts'
  BY <1>9 DEF RemovePid
<1>10. ASSUME NEW i \in Starts, Crash(i) PROVE OneStarts'
  BY <1>10 DEF Crash
<1>11. CASE UNCHANGED vars
  BY <1>11 DEF vars
<1> QED
  BY <1>1, <1>2, <1>3, <1>4, <1>5, <1>6, <1>7, <1>8, <1>9, <1>10, <1>11 DEF Next

\* Serial starts.
LEMMA SerialStep == PidFileInv /\ [Next]_vars => SerialStartsAreSafe'
<1> SUFFICES ASSUME PidFileInv, [Next]_vars PROVE SerialStartsAreSafe'
  OBVIOUS
<1> USE DEF TypeOK, PidsDiffer, LocksHeld, OneStarts,
    SerialStartsAreSafe, AtMostOneServes, ReadPid
<1>1. ASSUME NEW i \in Starts, Start(i) PROVE SerialStartsAreSafe'
  BY <1>1 DEF Start, LivePids
<1>2. ASSUME NEW i \in Starts, Check(i) PROVE SerialStartsAreSafe'
  BY <1>2 DEF Check, CheckPid, ReadPid, LivePids
<1>3. ASSUME NEW i \in Starts, Daemonize(i) PROVE SerialStartsAreSafe'
  BY <1>3 DEF Daemonize, LivePids
<1>4. ASSUME NEW i \in Starts, Open(i) PROVE SerialStartsAreSafe'
  BY <1>4 DEF Open
<1>5. ASSUME NEW i \in Starts, Flock(i) PROVE SerialStartsAreSafe'
  BY <1>5 DEF Flock
<1>6. ASSUME NEW i \in Starts, Write(i) PROVE SerialStartsAreSafe'
  BY <1>6 DEF Write
<1>7. ASSUME NEW i \in Starts, Close(i) PROVE SerialStartsAreSafe'
  BY <1>7 DEF Close
<1>8. ASSUME NEW i \in Starts, Finish(i) PROVE SerialStartsAreSafe'
  BY <1>8 DEF Finish
<1>9. ASSUME NEW i \in Starts, RemovePid(i) PROVE SerialStartsAreSafe'
  BY <1>9 DEF RemovePid
<1>10. ASSUME NEW i \in Starts, Crash(i) PROVE SerialStartsAreSafe'
  BY <1>10 DEF Crash
<1>11. CASE UNCHANGED vars
  BY <1>11 DEF vars, ReadPid
<1> QED
  BY <1>1, <1>2, <1>3, <1>4, <1>5, <1>6, <1>7, <1>8, <1>9, <1>10, <1>11 DEF Next

\* The last start that is refused was refused for another process.
LEMMA RefusalStep == PidFileInv /\ [Next]_vars => NoMutualRefusal'
<1> SUFFICES ASSUME PidFileInv, [Next]_vars PROVE NoMutualRefusal'
  OBVIOUS
<1> USE DEF TypeOK, LocksHeld, NoMutualRefusal, ReadPid
<1>1. ASSUME NEW i \in Starts, Start(i) PROVE NoMutualRefusal'
  BY <1>1 DEF Start, LivePids
<1>2. ASSUME NEW i \in Starts, Check(i) PROVE NoMutualRefusal'
  BY <1>2 DEF Check, CheckPid, ReadPid, LivePids
<1>3. ASSUME NEW i \in Starts, Daemonize(i) PROVE NoMutualRefusal'
  BY <1>3 DEF Daemonize, LivePids
<1>4. ASSUME NEW i \in Starts, Open(i) PROVE NoMutualRefusal'
  BY <1>4 DEF Open
<1>5. ASSUME NEW i \in Starts, Flock(i) PROVE NoMutualRefusal'
  BY <1>5 DEF Flock
<1>6. ASSUME NEW i \in Starts, Write(i) PROVE NoMutualRefusal'
  BY <1>6 DEF Write
<1>7. ASSUME NEW i \in Starts, Close(i) PROVE NoMutualRefusal'
  BY <1>7 DEF Close
<1>8. ASSUME NEW i \in Starts, Finish(i) PROVE NoMutualRefusal'
  BY <1>8 DEF Finish
<1>9. ASSUME NEW i \in Starts, RemovePid(i) PROVE NoMutualRefusal'
  BY <1>9 DEF RemovePid
<1>10. ASSUME NEW i \in Starts, Crash(i) PROVE NoMutualRefusal'
  BY <1>10 DEF Crash
<1>11. CASE UNCHANGED vars
  BY <1>11 DEF vars, ReadPid
<1> QED
  BY <1>1, <1>2, <1>3, <1>4, <1>5, <1>6, <1>7, <1>8, <1>9, <1>10, <1>11 DEF Next

\* The invariant of the pidfile protocol.
THEOREM PidFileIsInvariant == Spec => []PidFileInv
<1>1. PidFileInv /\ [Next]_vars => PidFileInv'
  BY TypeStep, PidsStep, LocksStep, OneStartsStep, SerialStep, RefusalStep
<1> QED  BY <1>1, PidFileInvInitially, PTL DEF Spec

\* Any number of starts that do not overlap leave at most one daemon serving,
\* and the pidfile names it (hasher-privd.c:339, pidfile.c:56).
THEOREM SerialStartsSafe == Spec => []SerialStartsAreSafe
  BY PidFileIsInvariant, PTL

\* Starts, overlapping or not, never all refuse each other (pidfile.c:56).
THEOREM SomeStartPrevails == Spec => []NoMutualRefusal
  BY PidFileIsInvariant, PTL
=============================================================================
