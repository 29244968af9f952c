------------------------- MODULE JobRequestProofs -------------------------
(* Proofs about JobRequest, for every set of lengths, every limit and every*)
(* peer.                                                                   *)
EXTENDS JobRequest, SequenceTheorems, TLAPS

-----------------------------------------------------------------------------
(* Type correctness.                                                       *)

\* The messages of hasher-priv are well formed.
LEMMA MessageType ==
  ASSUME NEW t \in Commands, NEW n \in Nat, NEW k \in Nat
  PROVE  /\ [type |-> t, len |-> n, argc |-> k] \in Messages
         /\ Fds(t, n) \in Messages
         /\ Strings(t, n) \in Messages
<1>1. t \in SUBSET Bits
  BY DEF Commands, Bits, TYPE, FDS, ARGUMENTS, ENVIRON, CHROOT_FD, PERSONALITY, RUN
<1>2. FdSize * n \in Nat /\ 2 * n \in Nat
  BY JobConstants
<1> QED  BY <1>1, <1>2 DEF Messages, Fds, Strings

\* What hasher-priv may have to send is a sequence of messages.
LEMMA ScriptType ==
  ASSUME NEW j \in Nat, NEW n \in Nat, NEW e \in Nat, NEW b \in BOOLEAN
  PROVE  Script(j, n, e, b) \in Seq(Messages)
<1> DEFINE type == [type |-> TYPE, len |-> j, argc |-> 0]
           pers == [type |-> PERSONALITY, len |-> 0, argc |-> 0]
           run == [type |-> RUN, len |-> 0, argc |-> 0]
<1>1. {TYPE, FDS, ARGUMENTS, ENVIRON, CHROOT_FD, PERSONALITY, RUN} \subseteq Commands
  BY DEF Commands
<1>2. /\ type \in Messages /\ pers \in Messages /\ run \in Messages
      /\ Fds(FDS, 3) \in Messages /\ Fds(CHROOT_FD, 1) \in Messages
      /\ Strings(ARGUMENTS, n) \in Messages /\ Strings(ENVIRON, e) \in Messages
  BY <1>1, MessageType
<1> HIDE DEF type, pers, run
<1>3. <<type, Fds(FDS, 3)>> \in Seq(Messages)
  BY <1>2
<1>4. << Strings(ARGUMENTS, n), Strings(ENVIRON, e), Fds(CHROOT_FD, 1) >> \in Seq(Messages)
  BY <1>2
<1>5. (IF b THEN <<pers>> ELSE <<>>) \in Seq(Messages)
  BY <1>2
<1>6. <<run>> \in Seq(Messages)
  BY <1>2
<1>7. (IF j \in Spawning
         THEN << Strings(ARGUMENTS, n), Strings(ENVIRON, e), Fds(CHROOT_FD, 1) >>
              \o (IF b THEN <<pers>> ELSE <<>>)
         ELSE <<>>) \in Seq(Messages)
  BY <1>4, <1>5
<1> QED  BY <1>3, <1>6, <1>7 DEF Script, type, pers, run

\* The variables of the handler and of its peer keep their types.
THEOREM TypeCorrect == Spec => []TypeOK
<1> USE JobConstants
<1>1. Init => TypeOK
  <2> SUFFICES ASSUME Init PROVE TypeOK
    OBVIOUS
  <2>1. script = <<>> => script \in Seq(Messages)
    OBVIOUS
  <2>2. ASSUME NEW j \in Spawning, NEW n \in 1..MaxArgc, NEW e \in 0..MaxArgc, NEW b \in BOOLEAN,
               script = Script(j, n, e, b)
        PROVE  script \in Seq(Messages)
    <3>1. j \in Nat /\ n \in Nat /\ e \in Nat
      BY DEF Spawning
    <3> QED  BY <2>2, <3>1, ScriptType
  <2>3. ASSUME NEW j \in Auxiliary, script = Script(j, 0, 0, FALSE)
        PROVE  script \in Seq(Messages)
    <3>1. j \in Nat
      BY DEF Auxiliary
    <3> QED  BY <2>3, <3>1, ScriptType
  <2>4. script \in Seq(Messages)
    BY <2>1, <2>2, <2>3 DEF Init, StartScript
  <2>5. cpc \in {"rogue", "send"}
    BY DEF Init, StartScript
  <2> QED  BY <2>4, <2>5 DEF Init, TypeOK, Bits, JOB_NONE
<1>2. TypeOK /\ [Next]_vars => TypeOK'
  <2> SUFFICES ASSUME TypeOK, [Next]_vars PROVE TypeOK'
    OBVIOUS
  <2> USE DEF TypeOK, Messages, Bits, jobVars, clientVars
  <2>1. CASE RecvFails
    BY <2>1 DEF RecvFails, CancelJob
  <2>2. CASE RejectRepeated
    BY <2>2 DEF RejectRepeated, CancelJob
  <2>3. CASE OnType
    BY <2>3 DEF OnType, Command, Received, Done
  <2>4. CASE OnPersonality
    BY <2>4 DEF OnPersonality, Command, Received, Done
  <2>5. CASE OnChrootFd
    BY <2>5 DEF OnChrootFd, Command, Received, Done, BadPayload, BadRequest, CancelJob
  <2>6. CASE OnFds
    BY <2>6 DEF OnFds, Command, Received, Done, BadPayload, BadRequest, CancelJob
  <2>7. CASE OnArguments
    BY <2>7 DEF OnArguments, Command, Received, Done, BadPayload, BadRequest, TooLong, CancelJob
  <2>8. CASE OnEnviron
    BY <2>8 DEF OnEnviron, Command, Received, Done, BadPayload, TooLong, CancelJob
  <2>9. CASE OnRun
    BY <2>9 DEF OnRun, Command, Received, BadPayload, BadRequest, CancelJob
  <2>10. CASE OnUnknown
    BY <2>10 DEF OnUnknown, Received, BadRequest, CancelJob
  <2>11. CASE ClientSend
    <3>1. script \in Seq(Messages) /\ script # <<>>
      BY <2>11 DEF ClientSend
    <3>2. Head(script) \in Messages /\ Tail(script) \in Seq(Messages)
      <4> HIDE DEF Messages
      <4> QED  BY <3>1
    <3> QED  BY <2>11, <3>2 DEF ClientSend
  <2>12. CASE ClientRecv \/ ClientRan \/ ClientEOF \/ ClientKilled
    BY <2>12 DEF ClientRecv, ClientRan, ClientEOF, ClientKilled
  <2>13. CASE RogueSend
    BY <2>13 DEF RogueSend
  <2>14. CASE UNCHANGED vars
    BY <2>14 DEF vars
  <2> QED
    BY <2>1, <2>2, <2>3, <2>4, <2>5, <2>6, <2>7, <2>8, <2>9, <2>10, <2>11, <2>12,
       <2>13, <2>14 DEF Next, HandlerStep
<1> QED  BY <1>1, <1>2, PTL DEF Spec

-----------------------------------------------------------------------------
(* Safety of what is run.                                                  *)

\* The mask tells which fields of the job are set, and the arguments in the
\* job, once received, are valid for the type in the job.
JobInv ==
  /\ 1 \notin mask => jtype = JOB_NONE
  /\ 3 \notin mask => argc = 0
  /\ hpc # "failed" => /\ 3 \in mask => ValidArguments(jtype, argc)
                       /\ 5 \in mask => chroot_fd

\* No order of commands, however strange, makes the handler run a job whose
\* arguments do not fit its type, or a chrootuid job without a root directory.
THEOREM RunIsSafe == Spec => []RunSafe
<1> USE JobConstants
<1>1. Init => JobInv /\ RunSafe
  BY DEF Init, JobInv, RunSafe
<1>2. TypeOK /\ JobInv /\ RunSafe /\ [Next]_vars => JobInv' /\ RunSafe'
  <2> SUFFICES ASSUME TypeOK, JobInv, RunSafe, [Next]_vars PROVE JobInv' /\ RunSafe'
    OBVIOUS
  <2> USE DEF JobInv, RunSafe, jobVars, clientVars
  <2>1. CASE RecvFails \/ RejectRepeated
    BY <2>1 DEF RecvFails, RejectRepeated, CancelJob
  <2>2. CASE OnType
    \* The type is set once, and before that no arguments are accepted.
    <3>1. 1 \notin mask /\ jtype = JOB_NONE
      BY <2>2 DEF OnType, Command, Received, Repeated, TYPE
    <3>2. hpc = "recv" /\ 3 \notin mask
      BY <2>2, <3>1 DEF OnType, Command, Received, ValidArguments, Spawning, Auxiliary, JOB_NONE
    <3> QED
      BY <2>2, <3>1, <3>2 DEF OnType, Command, Received, Done, TYPE
  <2>3. CASE OnPersonality
    BY <2>3 DEF OnPersonality, Command, Received, Done, PERSONALITY
  <2>4. CASE OnChrootFd
    BY <2>4 DEF OnChrootFd, Command, Received, Done, BadPayload, BadRequest, CancelJob, CHROOT_FD
  <2>5. CASE OnFds
    BY <2>5 DEF OnFds, Command, Received, Done, BadPayload, BadRequest, CancelJob, FDS
  <2>6. CASE OnArguments
    BY <2>6 DEF OnArguments, Command, Received, Done, BadPayload, BadRequest, TooLong, CancelJob,
                ARGUMENTS
  <2>7. CASE OnEnviron
    BY <2>7 DEF OnEnviron, Command, Received, Done, BadPayload, TooLong, CancelJob, ENVIRON
  <2>8. CASE OnRun
    \* validate_job adds what the mask proves about the fields.
    <3>1. hpc = "recv" /\ mask' = mask \cup RUN
      BY <2>8 DEF OnRun, Command, Received
    <3>2. CASE hpc' = "ran"
      <4>1. ValidJob(jtype, mask) /\ UNCHANGED <<jtype, argc, chroot_fd>>
        BY <2>8, <3>2 DEF OnRun, BadPayload, BadRequest, CancelJob
      <4>2. CASE jtype \in Spawning
        BY <3>1, <4>1, <4>2
        DEF ValidJob, CHROOT_FD, ARGUMENTS, RUN, ValidArguments, Spawning, Auxiliary
      <4>3. CASE jtype \notin Spawning
        BY <3>1, <4>1, <4>3 DEF RUN, ValidArguments
      <4> QED  BY <4>2, <4>3
    <3>3. CASE hpc' = "failed"
      BY <2>8, <3>1, <3>3 DEF OnRun, BadPayload, BadRequest, CancelJob, RUN
    <3> QED  BY <2>8, <3>2, <3>3 DEF OnRun, BadPayload, BadRequest, CancelJob
  <2>9. CASE OnUnknown
    BY <2>9 DEF OnUnknown, Received, BadRequest, CancelJob
  <2>10. CASE ClientSend \/ ClientRecv \/ ClientRan \/ ClientEOF \/ ClientKilled \/ RogueSend
    BY <2>10 DEF ClientSend, ClientRecv, ClientRan, ClientEOF, ClientKilled, RogueSend
  <2>11. CASE UNCHANGED vars
    BY <2>11 DEF vars
  <2> QED
    BY <2>1, <2>2, <2>3, <2>4, <2>5, <2>6, <2>7, <2>8, <2>9, <2>10, <2>11
    DEF Next, HandlerStep
<1> QED  BY <1>1, <1>2, TypeCorrect, PTL DEF Spec

-----------------------------------------------------------------------------
(* Agreement of hasher-priv and the handler.                               *)

\* The script of a job, back to front: what hasher-priv has still to send
\* when the handler has recorded the commands in m.
Plans == {p \in [job : Spawning \cup Auxiliary, nargs : 0..MaxArgc, nenv : 0..MaxArgc,
                 pers : BOOLEAN] : p.job \in Spawning => p.nargs >= 1}
TypeMsg(p) == [type |-> TYPE, len |-> p.job, argc |-> 0]
PersMsg == [type |-> PERSONALITY, len |-> 0, argc |-> 0]
RunMsg == [type |-> RUN, len |-> 0, argc |-> 0]
Rest7 == <<RunMsg>>
Rest6(p) == IF p.pers THEN <<PersMsg>> \o Rest7 ELSE Rest7
Rest5(p) == <<Fds(CHROOT_FD, 1)>> \o Rest6(p)
Rest4(p) == <<Strings(ENVIRON, p.nenv)>> \o Rest5(p)
Rest3(p) == <<Strings(ARGUMENTS, p.nargs)>> \o Rest4(p)
Rest2(p) == <<Fds(FDS, 3)>> \o (IF p.job \in Spawning THEN Rest3(p) ELSE Rest7)
Rest1(p) == <<TypeMsg(p)>> \o Rest2(p)

\* Before each command, the commands recorded, the one that comes and what
\* comes after it.
Stage(p, m, msg, rest) ==
  \/ m = {} /\ msg = TypeMsg(p) /\ rest = Rest2(p)
  \/ m = {1} /\ msg = Fds(FDS, 3)
     /\ rest = (IF p.job \in Spawning THEN Rest3(p) ELSE Rest7)
  \/ /\ p.job \in Spawning
     /\ \/ m = {1, 2} /\ msg = Strings(ARGUMENTS, p.nargs) /\ rest = Rest4(p)
        \/ m = {1, 2, 3} /\ msg = Strings(ENVIRON, p.nenv) /\ rest = Rest5(p)
        \/ m = {1, 2, 3, 4} /\ msg = Fds(CHROOT_FD, 1) /\ rest = Rest6(p)
        \/ m = {1, 2, 3, 4, 5} /\ p.pers /\ msg = PersMsg /\ rest = Rest7
        \/ m = {1, 2, 3, 4, 5} /\ ~p.pers /\ msg = RunMsg /\ rest = <<>>
        \/ m = {1, 2, 3, 4, 5, 6} /\ p.pers /\ msg = RunMsg /\ rest = <<>>
  \/ p.job \notin Spawning /\ m = {1, 2} /\ msg = RunMsg /\ rest = <<>>

\* hasher-priv is about to send what the handler has not recorded, or has
\* sent the first of it; the type in the job is the one of the script.
InStep(p) ==
  /\ 1 \in mask => jtype = p.job
  /\ \E msg \in Messages, rest \in Seq(Messages) :
       /\ Stage(p, mask, msg, rest)
       /\ \/ wire = NoMsg /\ script = <<msg>> \o rest
          \/ wire = msg /\ script = rest
ScriptInv ==
  cpc # "rogue" /\ hpc = "recv" => \E p \in Plans : InStep(p)

LEMMA RestType ==
  ASSUME NEW p \in Plans
  PROVE  /\ TypeMsg(p) \in Messages /\ PersMsg \in Messages /\ RunMsg \in Messages
         /\ Fds(FDS, 3) \in Messages /\ Fds(CHROOT_FD, 1) \in Messages
         /\ Strings(ARGUMENTS, p.nargs) \in Messages /\ Strings(ENVIRON, p.nenv) \in Messages
         /\ Rest7 \in Seq(Messages) /\ Rest6(p) \in Seq(Messages) /\ Rest5(p) \in Seq(Messages)
         /\ Rest4(p) \in Seq(Messages) /\ Rest3(p) \in Seq(Messages) /\ Rest2(p) \in Seq(Messages)
<1>. USE JobConstants
<1>1. p.job \in Nat /\ p.nargs \in Nat /\ p.nenv \in Nat
  BY DEF Plans, Spawning, Auxiliary
<1>2. {TYPE, FDS, ARGUMENTS, ENVIRON, CHROOT_FD, PERSONALITY, RUN} \subseteq Commands
  BY DEF Commands
<1>3. /\ TypeMsg(p) \in Messages /\ PersMsg \in Messages /\ RunMsg \in Messages
      /\ Fds(FDS, 3) \in Messages /\ Fds(CHROOT_FD, 1) \in Messages
      /\ Strings(ARGUMENTS, p.nargs) \in Messages /\ Strings(ENVIRON, p.nenv) \in Messages
  BY <1>1, <1>2, MessageType DEF TypeMsg, PersMsg, RunMsg
<1>4. ASSUME NEW m \in Messages, NEW s \in Seq(Messages)
      PROVE  <<m>> \o s \in Seq(Messages)
  <2>1. <<m>> \in Seq(Messages)
    OBVIOUS
  <2>. QED
    BY <2>1, ConcatProperties
<1>5. Rest7 \in Seq(Messages)
  BY <1>3 DEF Rest7
<1>6. Rest6(p) \in Seq(Messages)
  BY <1>3, <1>4, <1>5 DEF Rest6
<1>7. Rest5(p) \in Seq(Messages)
  BY <1>3, <1>4, <1>6 DEF Rest5
<1>8. Rest4(p) \in Seq(Messages)
  BY <1>3, <1>4, <1>7 DEF Rest4
<1>9. Rest3(p) \in Seq(Messages)
  BY <1>3, <1>4, <1>8 DEF Rest3
<1>10. Rest2(p) \in Seq(Messages)
  BY <1>3, <1>4, <1>5, <1>9 DEF Rest2
<1>. QED
  BY <1>3, <1>5, <1>6, <1>7, <1>8, <1>9, <1>10

\* Tuples as concatenations.
LEMMA TupleOfTwo ==
  ASSUME NEW M, NEW x \in M, NEW y \in M
  PROVE  <<x>> \o <<y>> = <<x, y>>
<1>1. <<x>> \in Seq(M) /\ <<y>> \in Seq(M) /\ <<x, y>> \in Seq(M)
  OBVIOUS
<1>2. Len(<<x>>) = 1 /\ Len(<<y>>) = 1 /\ Len(<<x, y>>) = 2
  OBVIOUS
<1>3. \A i \in 1..2 : (<<x>> \o <<y>>)[i] = <<x, y>>[i]
  OBVIOUS
<1>4. Len(<<x>> \o <<y>>) = 2
  BY <1>1, <1>2
<1>5. <<x>> \o <<y>> \in Seq(M)
  BY <1>1, ConcatProperties
<1>. QED
  BY ONLY <1>1, <1>2, <1>3, <1>4, <1>5, SeqEqual

LEMMA TupleOfThree ==
  ASSUME NEW M, NEW x \in M, NEW y \in M, NEW z \in M
  PROVE  <<x>> \o (<<y>> \o <<z>>) = <<x, y, z>>
<1>1. <<x>> \in Seq(M) /\ <<y, z>> \in Seq(M) /\ <<x, y, z>> \in Seq(M)
  OBVIOUS
<1>2. Len(<<x>>) = 1 /\ Len(<<y, z>>) = 2 /\ Len(<<x, y, z>>) = 3
  OBVIOUS
<1>3. \A i \in 1..3 : (<<x>> \o <<y, z>>)[i] = <<x, y, z>>[i]
  OBVIOUS
<1>4. Len(<<x>> \o <<y, z>>) = 3
  BY <1>1, <1>2
<1>5. <<x>> \o <<y, z>> \in Seq(M)
  BY <1>1, ConcatProperties
<1>6. <<x>> \o <<y, z>> = <<x, y, z>>
  BY ONLY <1>1, <1>2, <1>3, <1>4, <1>5, SeqEqual
<1>. QED
  BY <1>6, TupleOfTwo

\* Concatenation, kept apart from what the provers know of \o.
Cat(s, t) == s \o t

LEMMA CatAssociative ==
  ASSUME NEW u \in Seq(Messages), NEW v \in Seq(Messages), NEW w \in Seq(Messages)
  PROVE  Cat(u, v) \in Seq(Messages) /\ Cat(Cat(u, v), w) = Cat(u, Cat(v, w))
<1>1. u \o v \in Seq(Messages)
  BY ConcatProperties
<1>2. (u \o v) \o w = u \o (v \o w)
  BY ConcatAssociative
<1>. QED
  BY <1>1, <1>2 DEF Cat

\* hasher-priv starts with a whole script.
LEMMA ScriptIsPlan ==
  ASSUME NEW p \in Plans
  PROVE  Script(p.job, p.nargs, p.nenv, p.pers) = <<TypeMsg(p)>> \o Rest2(p)
<1>. DEFINE t == <<TypeMsg(p)>>
            f == <<Fds(FDS, 3)>>
            a == <<Strings(ARGUMENTS, p.nargs)>>
            e == <<Strings(ENVIRON, p.nenv)>>
            c == <<Fds(CHROOT_FD, 1)>>
            x == IF p.pers THEN <<PersMsg>> ELSE <<>>
            r == <<RunMsg>>
            S == Seq(Messages)
            y == IF p.job \in Spawning THEN Cat(Cat(a, Cat(e, c)), x) ELSE <<>>
            z == IF p.job \in Spawning THEN Cat(a, Cat(e, Cat(c, Cat(x, r)))) ELSE r
<1>1. t \in S /\ f \in S /\ a \in S /\ e \in S /\ c \in S /\ x \in S /\ r \in S /\ <<>> \in S
  BY RestType
<1>2. <<TypeMsg(p), Fds(FDS, 3)>> = t \o f
  BY RestType, TupleOfTwo
<1>3. <<Strings(ARGUMENTS, p.nargs), Strings(ENVIRON, p.nenv), Fds(CHROOT_FD, 1)>> = a \o (e \o c)
  BY RestType, TupleOfThree
<1>4. Script(p.job, p.nargs, p.nenv, p.pers) = Cat(Cat(Cat(t, f), y), r)
  BY <1>2, <1>3 DEF Script, TypeMsg, PersMsg, RunMsg, Cat
<1>5. Rest6(p) = Cat(x, r)
  <2>1. <<>> \o r = r
    BY <1>1, ConcatEmptySeq
  <2>. QED
    BY <2>1 DEF Rest6, Rest7, Cat
<1>6. <<TypeMsg(p)>> \o Rest2(p) = Cat(t, Cat(f, z))
  BY <1>5 DEF Rest2, Rest3, Rest4, Rest5, Rest7, Cat
<1>7. Cat(<<>>, r) = r
  BY <1>1, ConcatEmptySeq DEF Cat
<1>. HIDE DEF t, f, a, e, c, x, r, S
<1>8. \A u, v, w \in S : Cat(u, v) \in S /\ Cat(Cat(u, v), w) = Cat(u, Cat(v, w))
  BY CatAssociative DEF S
<1>9. Cat(y, r) = z /\ y \in S
  <2>1. Cat(e, c) \in S /\ Cat(a, Cat(e, c)) \in S /\ Cat(x, r) \in S /\ Cat(Cat(a, Cat(e, c)), x) \in S
    BY <1>1, <1>8
  <2>2. Cat(Cat(Cat(a, Cat(e, c)), x), r) = Cat(Cat(a, Cat(e, c)), Cat(x, r))
    BY <1>1, <1>8, <2>1
  <2>3. Cat(Cat(a, Cat(e, c)), Cat(x, r)) = Cat(a, Cat(Cat(e, c), Cat(x, r)))
    BY <1>1, <1>8, <2>1
  <2>4. Cat(Cat(e, c), Cat(x, r)) = Cat(e, Cat(c, Cat(x, r)))
    BY <1>1, <1>8, <2>1
  <2>. QED
    BY <1>1, <1>7, <2>1, <2>2, <2>3, <2>4
<1>. HIDE DEF y, z
<1>10. Cat(Cat(Cat(t, f), y), r) = Cat(t, Cat(f, Cat(y, r)))
  <2>1. Cat(t, f) \in S /\ Cat(y, r) \in S
    BY <1>1, <1>8, <1>9
  <2>2. Cat(Cat(Cat(t, f), y), r) = Cat(Cat(t, f), Cat(y, r))
    BY <1>1, <1>8, <1>9, <2>1
  <2>3. Cat(Cat(t, f), Cat(y, r)) = Cat(t, Cat(f, Cat(y, r)))
    BY <1>1, <1>8, <2>1
  <2>. QED
    BY <2>2, <2>3
<1>. QED
  BY <1>4, <1>6, <1>9, <1>10
\* A command of hasher-priv is one the handler takes: it is not repeated, and
\* its length and contents are what its type and the job call for.
LEMMA StageFits ==
  ASSUME NEW p \in Plans, NEW m, NEW msg, NEW rest, Stage(p, m, msg, rest)
  PROVE  /\ m \cap msg.type = {} /\ msg.type \in Commands
         /\ msg.type = TYPE => msg.len = p.job
         /\ msg.type # TYPE => 1 \in m
         /\ msg.type = FDS => msg.len = FdSize * 3
         /\ msg.type = CHROOT_FD => msg.len = FdSize
         /\ msg.type = ARGUMENTS => p.job \in Spawning /\ msg.argc >= 1
         /\ msg.type = RUN => /\ msg.len = 0
                              /\ p.job \in Spawning => CHROOT_FD \subseteq m /\ ARGUMENTS \subseteq m
<1>. USE JobConstants DEF TYPE, FDS, ARGUMENTS, ENVIRON, CHROOT_FD, PERSONALITY, RUN, Commands
<1>1. p.nargs \in Nat /\ (p.job \in Spawning => p.nargs >= 1)
  BY DEF Plans
<1>2. FdSize * 1 = FdSize
  OBVIOUS
<1>3. CASE m = {} /\ msg = TypeMsg(p)
  BY <1>3 DEF TypeMsg
<1>4. CASE m = {1} /\ msg = Fds(FDS, 3)
  BY <1>4 DEF Fds
<1>5. CASE m = {1, 2} /\ p.job \in Spawning /\ msg = Strings(ARGUMENTS, p.nargs)
  BY <1>1, <1>5 DEF Strings
<1>6. CASE m = {1, 2, 3} /\ msg = Strings(ENVIRON, p.nenv)
  BY <1>6 DEF Strings
<1>7. CASE m = {1, 2, 3, 4} /\ msg = Fds(CHROOT_FD, 1)
  <2>1. msg = [type |-> {5}, len |-> FdSize, argc |-> 0]
    BY <1>2, <1>7 DEF Fds
  <2>2. msg.type = {5} /\ msg.len = FdSize
    BY <2>1
  <2>. QED
    BY <1>7, <2>2
<1>8. CASE m = {1, 2, 3, 4, 5} /\ msg = PersMsg
  BY <1>8 DEF PersMsg
<1>9. CASE (m = {1, 2, 3, 4, 5} \/ m = {1, 2, 3, 4, 5, 6}) /\ msg = RunMsg
  BY <1>9 DEF RunMsg
<1>10. CASE m = {1, 2} /\ p.job \notin Spawning /\ msg = RunMsg
  BY <1>10 DEF RunMsg
<1>. QED
  BY <1>3, <1>4, <1>5, <1>6, <1>7, <1>8, <1>9, <1>10 DEF Stage

\* Some command is due with m seen, and the script that starts with it is rest.
Due(p, m, rest) ==
  \E msg2 \in Messages, rest2 \in Seq(Messages) : Stage(p, m, msg2, rest2) /\ rest = <<msg2>> \o rest2

\* After any command but the last, the next one is due.
LEMMA StageAdvances ==
  ASSUME NEW p \in Plans, NEW m, NEW msg, NEW rest, Stage(p, m, msg, rest), msg.type # RUN
  PROVE  Due(p, m \cup msg.type, rest)
<1>. USE DEF TYPE, FDS, ARGUMENTS, ENVIRON, CHROOT_FD, PERSONALITY, RUN
<1>1. <<>> \in Seq(Messages) /\ Rest7 = <<RunMsg>> \o <<>>
  <2>1. <<RunMsg>> \in Seq(Messages)
    BY RestType
  <2>. QED
    BY <2>1, EmptySeq, ConcatEmptySeq DEF Rest7
<1>2. ASSUME NEW msg2 \in Messages, NEW rest2 \in Seq(Messages),
             Stage(p, m \cup msg.type, msg2, rest2), rest = <<msg2>> \o rest2
      PROVE  Due(p, m \cup msg.type, rest)
  BY <1>2 DEF Due
<1>3. CASE m = {} /\ msg = TypeMsg(p) /\ rest = Rest2(p)
  <2>1. m \cup msg.type = {1}
    BY <1>3 DEF TypeMsg
  <2>. DEFINE r == IF p.job \in Spawning THEN Rest3(p) ELSE Rest7
  <2>2. Stage(p, {1}, Fds(FDS, 3), r) /\ rest = <<Fds(FDS, 3)>> \o r
    BY <1>3 DEF Stage, Rest2
  <2>3. r \in Seq(Messages) /\ Fds(FDS, 3) \in Messages
    BY RestType
  <2>. QED
    BY <1>2, <2>1, <2>2, <2>3
<1>4. CASE m = {1} /\ msg = Fds(FDS, 3) /\ rest = (IF p.job \in Spawning THEN Rest3(p) ELSE Rest7)
  <2>1. m \cup msg.type = {1, 2}
    BY <1>4 DEF Fds
  <2>2. CASE p.job \in Spawning
    <3>1. Stage(p, {1, 2}, Strings(ARGUMENTS, p.nargs), Rest4(p))
      BY <2>2 DEF Stage
    <3>2. rest = <<Strings(ARGUMENTS, p.nargs)>> \o Rest4(p)
      BY <1>4, <2>2 DEF Rest3
    <3>. QED
      BY <1>2, <2>1, <3>1, <3>2, RestType
  <2>3. CASE p.job \notin Spawning
    <3>1. Stage(p, {1, 2}, RunMsg, <<>>)
      BY <2>3 DEF Stage
    <3>2. rest = <<RunMsg>> \o <<>>
      BY <1>1, <1>4, <2>3
    <3>. QED
      BY <1>1, <1>2, <2>1, <3>1, <3>2, RestType
  <2>. QED
    BY <2>2, <2>3
<1>5. CASE p.job \in Spawning /\ m = {1, 2} /\ msg = Strings(ARGUMENTS, p.nargs) /\ rest = Rest4(p)
  <2>1. m \cup msg.type = {1, 2, 3}
    BY <1>5 DEF Strings
  <2>2. Stage(p, {1, 2, 3}, Strings(ENVIRON, p.nenv), Rest5(p))
    BY <1>5 DEF Stage
  <2>3. rest = <<Strings(ENVIRON, p.nenv)>> \o Rest5(p)
    BY <1>5 DEF Rest4
  <2>. QED
    BY <1>2, <2>1, <2>2, <2>3, RestType
<1>6. CASE p.job \in Spawning /\ m = {1, 2, 3} /\ msg = Strings(ENVIRON, p.nenv) /\ rest = Rest5(p)
  <2>1. m \cup msg.type = {1, 2, 3, 4}
    BY <1>6 DEF Strings
  <2>2. Stage(p, {1, 2, 3, 4}, Fds(CHROOT_FD, 1), Rest6(p))
    BY <1>6 DEF Stage
  <2>3. rest = <<Fds(CHROOT_FD, 1)>> \o Rest6(p)
    BY <1>6 DEF Rest5
  <2>. QED
    BY <1>2, <2>1, <2>2, <2>3, RestType
<1>7. CASE p.job \in Spawning /\ m = {1, 2, 3, 4} /\ msg = Fds(CHROOT_FD, 1) /\ rest = Rest6(p)
  <2>1. m \cup msg.type = {1, 2, 3, 4, 5}
    BY <1>7 DEF Fds
  <2>2. CASE p.pers
    <3>1. Stage(p, {1, 2, 3, 4, 5}, PersMsg, Rest7)
      BY <1>7, <2>2 DEF Stage
    <3>2. rest = <<PersMsg>> \o Rest7
      BY <1>7, <2>2 DEF Rest6
    <3>. QED
      BY <1>2, <2>1, <3>1, <3>2, RestType
  <2>3. CASE ~p.pers
    <3>1. Stage(p, {1, 2, 3, 4, 5}, RunMsg, <<>>)
      BY <1>7, <2>3 DEF Stage
    <3>2. rest = <<RunMsg>> \o <<>>
      BY <1>1, <1>7, <2>3 DEF Rest6
    <3>. QED
      BY <1>1, <1>2, <2>1, <3>1, <3>2, RestType
  <2>. QED
    BY <2>2, <2>3
<1>8. CASE p.job \in Spawning /\ m = {1, 2, 3, 4, 5} /\ p.pers /\ msg = PersMsg /\ rest = Rest7
  <2>1. m \cup msg.type = {1, 2, 3, 4, 5, 6}
    BY <1>8 DEF PersMsg
  <2>2. Stage(p, {1, 2, 3, 4, 5, 6}, RunMsg, <<>>)
    BY <1>8 DEF Stage
  <2>3. rest = <<RunMsg>> \o <<>>
    BY <1>1, <1>8
  <2>. QED
    BY <1>1, <1>2, <2>1, <2>2, <2>3, RestType
<1>9. msg # RunMsg
  BY DEF RunMsg
<1>. QED
  BY <1>3, <1>4, <1>5, <1>6, <1>7, <1>8, <1>9 DEF Stage

\* No command of hasher-priv is refused for what it is: the order in which
\* main sends them, and the lengths and counts it sends, are those that
\* receive_job_request takes, so that only a timeout, an exhausted resource or
\* strings beyond MAX_ARGS_SIZE can end a request.
THEOREM RequestsAreAccepted == Spec => []ClientAccepted
<1>. USE JobConstants
<1>1. Init => ScriptInv /\ ClientAccepted
  <2> SUFFICES ASSUME Init PROVE ScriptInv /\ ClientAccepted
    OBVIOUS
  <2>1. ASSUME NEW p \in Plans, script = Script(p.job, p.nargs, p.nenv, p.pers)
        PROVE  InStep(p)
    <3>1. script = <<TypeMsg(p)>> \o Rest2(p)
      BY <2>1, ScriptIsPlan
    <3>2. Stage(p, mask, TypeMsg(p), Rest2(p)) /\ wire = NoMsg /\ 1 \notin mask
      BY DEF Stage, Init
    <3>3. TypeMsg(p) \in Messages /\ Rest2(p) \in Seq(Messages)
      BY RestType
    <3>. QED
      BY <3>1, <3>2, <3>3 DEF InStep
  <2>2. ASSUME NEW j \in Spawning, NEW n \in 1..MaxArgc, NEW e \in 0..MaxArgc, NEW b \in BOOLEAN,
               script = Script(j, n, e, b)
        PROVE  \E p \in Plans : InStep(p)
    <3>1. [job |-> j, nargs |-> n, nenv |-> e, pers |-> b] \in Plans
      BY DEF Plans
    <3>. QED
      BY <2>1, <2>2, <3>1
  <2>3. ASSUME NEW j \in Auxiliary, script = Script(j, 0, 0, FALSE)
        PROVE  \E p \in Plans : InStep(p)
    <3>1. [job |-> j, nargs |-> 0, nenv |-> 0, pers |-> FALSE] \in Plans
      BY DEF Plans, Spawning, Auxiliary
    <3>. QED
      BY <2>1, <2>3, <3>1
  <2>. QED
    BY <2>2, <2>3 DEF Init, StartScript, ScriptInv, ClientAccepted
<1>2. TypeOK /\ ScriptInv /\ ClientAccepted /\ [Next]_vars => ScriptInv' /\ ClientAccepted'
  <2> SUFFICES ASSUME TypeOK, ScriptInv, ClientAccepted, [Next]_vars
               PROVE  ScriptInv' /\ ClientAccepted'
    OBVIOUS
  <2>1. CASE cpc = "rogue"
    <3>1. cpc' = "rogue"
      BY <2>1 DEF Next, HandlerStep, RecvFails, RejectRepeated, OnType, OnPersonality, OnChrootFd,
                  OnFds, OnArguments, OnEnviron, OnRun, OnUnknown, Done, BadPayload, BadRequest,
                  TooLong, ClientSend, ClientRecv, ClientRan, ClientEOF, ClientKilled, RogueSend,
                  vars, clientVars
    <3>. QED
      BY <3>1 DEF ScriptInv, ClientAccepted
  <2>2. CASE cpc # "rogue" /\ hpc # "recv"
    \* The handler is over; what the client still does changes nothing here.
    <3>1. UNCHANGED <<hpc, fault>>
      BY <2>2 DEF Next, HandlerStep, RecvFails, RejectRepeated, OnType, OnPersonality, OnChrootFd,
                  OnFds, OnArguments, OnEnviron, OnRun, OnUnknown, Command, Received, ClientSend,
                  ClientRecv, ClientRan, ClientEOF, ClientKilled, RogueSend, vars
    <3>. QED
      BY <2>2, <3>1 DEF ScriptInv, ClientAccepted
  <2>3. CASE cpc # "rogue" /\ hpc = "recv"
    <3>1. PICK p \in Plans : InStep(p)
      BY <2>3 DEF ScriptInv
    <3>2. PICK msg \in Messages, rest \in Seq(Messages) :
            /\ Stage(p, mask, msg, rest)
            /\ \/ wire = NoMsg /\ script = <<msg>> \o rest
               \/ wire = msg /\ script = rest
      BY <3>1 DEF InStep
    <3>3. 1 \in mask => jtype = p.job
      BY <3>1 DEF InStep
    <3>4. CASE HandlerStep /\ wire # NoMsg
      <4>1. wire = msg /\ script = rest /\ Stage(p, mask, wire, script)
        BY <3>2, <3>4
      <4>2. /\ mask \cap wire.type = {} /\ wire.type \in Commands
            /\ wire.type = TYPE => wire.len = p.job
            /\ wire.type # TYPE => 1 \in mask
            /\ wire.type = FDS => wire.len = FdSize * 3
            /\ wire.type = CHROOT_FD => wire.len = FdSize
            /\ wire.type = ARGUMENTS => p.job \in Spawning /\ wire.argc >= 1
            /\ wire.type = RUN => /\ wire.len = 0
                                  /\ p.job \in Spawning => CHROOT_FD \subseteq mask /\ ARGUMENTS \subseteq mask
        BY <4>1, StageFits
      <4>3. ASSUME wire.type # RUN, mask' = mask \cup wire.type, wire' = NoMsg, script' = script,
                   jtype' = IF wire.type = TYPE THEN wire.len ELSE jtype, hpc' = hpc
            PROVE  ScriptInv' /\ ClientAccepted'
        <5>1. PICK msg2 \in Messages, rest2 \in Seq(Messages) :
                Stage(p, mask \cup wire.type, msg2, rest2) /\ script = <<msg2>> \o rest2
          <6>1. msg.type # RUN
            BY <4>1, <4>3
          <6>2. Due(p, mask \cup msg.type, rest)
            <7>1. p \in Plans /\ Stage(p, mask, msg, rest)
              BY <3>1, <3>2
            <7>. QED
              BY ONLY <6>1, <7>1, StageAdvances, Zenon
          <6>. QED
            BY <4>1, <6>2 DEF Due
        <5>2. jtype' = p.job
          BY <3>3, <4>2, <4>3
        <5>3. \E m \in Messages, r \in Seq(Messages) :
                /\ Stage(p, mask', m, r)
                /\ \/ wire' = NoMsg /\ script' = <<m>> \o r
                   \/ wire' = m /\ script' = r
          BY <4>3, <5>1
        <5>. QED
          BY <2>3, <4>3, <5>2, <5>3 DEF ScriptInv, InStep, ClientAccepted
      <4>4. ASSUME hpc' = "failed" => fault' # "none", hpc' # "recv" PROVE ScriptInv' /\ ClientAccepted'
        BY <4>4 DEF ScriptInv, ClientAccepted
      <4>5. CASE RecvFails \/ RejectRepeated \/ OnUnknown
        BY <3>4, <4>2, <4>5 DEF RecvFails, RejectRepeated, Repeated, OnUnknown
      <4>6. CASE OnType
        BY <4>3, <4>6 DEF OnType, Command, Received, Done, TYPE, RUN, clientVars
      <4>7. CASE OnPersonality
        <5>1. wire.type # TYPE /\ wire.type # RUN
          BY <4>7 DEF OnPersonality, Command, PERSONALITY, TYPE, RUN
        <5>2. mask' = mask \cup wire.type /\ wire' = NoMsg /\ UNCHANGED <<script, jtype, hpc>>
          BY <4>7 DEF OnPersonality, Command, Received, Done, clientVars
        <5>. QED
          BY <4>3, <5>1, <5>2
      <4>8. CASE OnChrootFd
        <5>1. wire.type = CHROOT_FD /\ wire.len = FdSize
          BY <4>2, <4>8 DEF OnChrootFd, Command
        <5>. QED
          BY <4>3, <4>4, <4>8, <5>1 DEF OnChrootFd, Command, Received, Done, BadPayload, CancelJob,
                                        CHROOT_FD, TYPE, RUN, clientVars
      <4>9. CASE OnFds
        <5>1. wire.type = FDS /\ wire.len = FdSize * 3
          BY <4>2, <4>9 DEF OnFds, Command
        <5>2. CASE Received /\ Done /\ UNCHANGED jtype
          <6>1. wire.type # TYPE /\ wire.type # RUN
            <7>1. FDS # TYPE /\ FDS # RUN
              BY DEF FDS, TYPE, RUN
            <7>. QED
              BY <5>1, <7>1
          <6>2. mask' = mask \cup wire.type /\ wire' = NoMsg /\ UNCHANGED <<script, jtype, hpc>>
            BY <5>2 DEF Received, Done, clientVars
          <6>. QED
            BY <4>3, <6>1, <6>2
        <5>3. CASE BadPayload
          BY <4>4, <5>3 DEF BadPayload, CancelJob
        <5>. QED
          BY <4>9, <5>1, <5>2, <5>3 DEF OnFds, Command
      <4>10. CASE OnArguments
        <5>1. wire.type = ARGUMENTS /\ 1 \in mask
          BY <4>2, <4>10 DEF OnArguments, Command, ARGUMENTS, TYPE
        <5>2. ValidArguments(jtype, wire.argc)
          BY <3>3, <4>2, <5>1 DEF ValidArguments
        <5>. QED
          BY <4>3, <4>4, <4>10, <5>1, <5>2
          DEF OnArguments, Command, Received, Done, BadPayload, TooLong, CancelJob,
              ARGUMENTS, TYPE, RUN, clientVars
      <4>11. CASE OnEnviron
        BY <4>3, <4>4, <4>11 DEF OnEnviron, Command, Received, Done, BadPayload, TooLong, CancelJob,
                                 ENVIRON, TYPE, RUN, clientVars
      <4>12. CASE OnRun
        <5>1. wire.type = RUN /\ 1 \in mask /\ wire.len = 0
          BY <4>2, <4>12 DEF OnRun, Command, RUN, TYPE
        <5>2. ValidJob(jtype, mask)
          BY <3>3, <4>2, <5>1 DEF ValidJob
        <5>. QED
          BY <4>4, <4>12, <5>1, <5>2 DEF OnRun, BadPayload, CancelJob
      <4>. QED
        BY <3>4, <4>5, <4>6, <4>7, <4>8, <4>9, <4>10, <4>11, <4>12 DEF HandlerStep
    <3>5. CASE HandlerStep /\ wire = NoMsg
      <4>1. RecvFails
        BY <3>5 DEF HandlerStep, RejectRepeated, OnType, OnPersonality, OnChrootFd, OnFds,
                    OnArguments, OnEnviron, OnRun, OnUnknown, Command, Received
      <4>. QED
        BY <4>1 DEF RecvFails, CancelJob, ScriptInv, ClientAccepted
    <3>6. CASE ClientSend
      <4>1. wire = NoMsg /\ script = <<msg>> \o rest /\ UNCHANGED <<hpc, mask, jtype>>
            /\ wire' = Head(script) /\ script' = Tail(script)
        BY <3>2, <3>6 DEF ClientSend, jobVars
      <4>2. wire' = msg /\ script' = rest
        BY <4>1
      <4>3. InStep(p)'
        BY <3>2, <3>3, <4>1, <4>2 DEF InStep
      <4>. QED
        BY <2>3, <4>1, <4>3 DEF ScriptInv, ClientAccepted
    <3>7. CASE ClientRecv \/ ClientRan \/ ClientEOF \/ ClientKilled \/ RogueSend \/ UNCHANGED vars
      <4>1. UNCHANGED <<hpc, mask, jtype, wire, script>>
        BY <2>3, <3>7 DEF ClientRecv, ClientRan, ClientEOF, ClientKilled, RogueSend, vars, jobVars
      <4>2. InStep(p)'
        BY <3>1, <4>1 DEF InStep
      <4>. QED
        BY <2>3, <4>1, <4>2 DEF ScriptInv, ClientAccepted
    <3>. QED
      BY <3>4, <3>5, <3>6, <3>7 DEF Next
  <2>. QED
    BY <2>1, <2>2, <2>3
<1>. QED
  BY <1>1, <1>2, TypeCorrect, PTL DEF Spec

=============================================================================
