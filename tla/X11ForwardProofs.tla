-------------------------- MODULE X11ForwardProofs --------------------------
(***************************************************************************)
(* Theorems of X11Forward, for any number of connections and any length of  *)
(* what programs and the X server send on them.                             *)
(***************************************************************************)
EXTENDS X11Forward, FiniteSetTheorems, FunctionTheorems, SequenceTheorems,
        WellFoundedInduction, TLAPS

USE ForwardConstants

(***************************************************************************)
(* The inductive invariant.                                                *)
(***************************************************************************)
Token == Conns \X {"hdr", "fake", "wrong", "bare", "junk", "data", "reply", "real"}
IO == [master : Fd, slave : Fd, master_buf : Seq(Token), slave_buf : Seq(Token),
       authenticated : BOOLEAN]

TypeOK ==
  /\ list \in Seq(IO \cup {NoIO})
  /\ table \in [Fd -> Ends \cup {NoEnd}]
  /\ relay \in [Conns -> {"none", "open", "refused", "closed"}]
  /\ kind \in [Conns -> {"fake", "wrong", "bare", "junk"}]
  /\ whole \subseteq Conns /\ sent \in [Ends -> Nat]
  /\ inq \in [Ends -> Seq(Token)] /\ out \in [Ends -> Seq(Token)]

(* No end of a connection has two descriptors.                              *)
TableIsInjective ==
  \A a, b \in Fd : table[a] = table[b] /\ table[a] # NoEnd => a = b

(* A connection waits to be accepted only before it has been.               *)
BacklogOk == \A c \in backlog : c \in Conns /\ relay[c] = "none"

(* What pselect has said of a descriptor to be written is still true when    *)
(* its turn comes: the number has not been given to another end, and nobody  *)
(* but the relay fills an end up.                                           *)
ReadyOk ==
  /\ ready \subseteq (Fd \cup {-1}) \X {"r", "w", "listen", "ctl"}
  /\ \A r \in ready : r[2] = "w" =>
       r[1] \in Fd /\ table[r[1]] # NoEnd /\ Writable(table[r[1]])

(* The fake key of a first packet that was sent by one write is in front of  *)
(* what has not been read until the slot is authenticated, and nowhere from  *)
(* then on.                                                                 *)
FakeFree(s, c) == \A n \in DOMAIN s : s[n] # <<c, "fake">>
Presents(s, c) ==
  /\ Len(s) >= 2 /\ s[1] = <<c, "hdr">> /\ s[2] = <<c, "fake">>
  /\ \A n \in DOMAIN s : n > 2 => s[n] # <<c, "fake">>

NotYetSent ==
  \A c \in Conns :
    /\ relay[c] = "none" /\ c \notin backlog => sent[Slave(c)] = 0
    /\ sent[Slave(c)] = 0 =>
         c \notin whole /\ inq[Slave(c)] = <<>> /\ out[Master(c)] = <<>>
    /\ \A i \in Slots : table[list[i].slave] = Slave(c) /\ sent[Slave(c)] = 0 =>
         ~list[i].authenticated

FirstReadOk == \A i \in Slots : ~list[i].authenticated => list[i].slave_buf = <<>>

FakeIsReplaced ==
  \A c \in Conns : c \in whole /\ kind[c] = "fake" =>
    /\ sent[Slave(c)] >= 2
    /\ FakeFree(out[Master(c)], c)
    /\ relay[c] = "none" => Presents(inq[Slave(c)], c)
    /\ \A i \in Slots : table[list[i].slave] = Slave(c) =>
         IF list[i].authenticated
         THEN FakeFree(inq[Slave(c)], c) /\ FakeFree(list[i].slave_buf, c)
         ELSE Presents(inq[Slave(c)], c)

TableInv ==
  /\ TypeOK /\ TableIsInjective /\ BacklogOk /\ TableMatchesSlots
ForwardInv ==
  /\ TableInv /\ ReadyOk /\ OnlyPeersBreak
  /\ NotYetSent /\ FirstReadOk /\ FakeIsReplaced

-----------------------------------------------------------------------------
(***************************************************************************)
(* Ends, the lowest free number and the first empty slot.                   *)
(***************************************************************************)
LEMMA EndFacts ==
  /\ \A c \in Conns : Slave(c) \in Ends /\ Master(c) \in Ends
  /\ \A c, d : /\ Slave(c) # Master(d)
               /\ Slave(c) = Slave(d) => c = d
               /\ Master(c) = Master(d) => c = d
               /\ Slave(c)[1] = c /\ Master(c)[1] = c
  /\ \A e \in Ends : e # NoEnd /\ e[1] \in Conns /\ e \in {Slave(e[1]), Master(e[1])}
<1>1. ASSUME NEW e \in Ends PROVE e # NoEnd
  <2>1. PICK c \in Conns, s \in {"slave", "master"} : e = <<c, s>>
    BY DEF Ends
  <2>2. Len(<<c, s>>) = 2 /\ Len(<<>>) = 0
    OBVIOUS
  <2>. QED
    BY <2>1, <2>2 DEF NoEnd
<1>2. \A e \in Ends : e[1] \in Conns /\ e \in {Slave(e[1]), Master(e[1])}
  BY DEF Slave, Master, Ends
<1>. QED
  BY <1>1, <1>2 DEF Slave, Master, Ends

(* The library has well-foundedness of finite sets under inclusion; the      *)
(* initial segments of a set of numbers are ordered as the numbers are.      *)
LEMMA LeastOf ==
  ASSUME NEW T \in SUBSET Nat, T # {}, IsFiniteSet(T)
  PROVE  \E n \in T : \A m \in T : n <= m
<1>. DEFINE Upto(n) == {m \in T : m <= n}
            U == {Upto(n) : n \in T}
<1>1. U \subseteq FiniteSubsetsOf(T)
  <2>1. ASSUME NEW n \in T PROVE Upto(n) \in SUBSET T /\ IsFiniteSet(Upto(n))
    <3>1. Upto(n) \in SUBSET T
      OBVIOUS
    <3>. HIDE DEF Upto
    <3>. QED
      BY <3>1, FS_Subset
  <2>. HIDE DEF Upto
  <2>. QED
    BY <2>1 DEF FiniteSubsetsOf
<1>2. PICK x \in U : \A y \in U : ~(<<y, x>> \in StrictSubsetOrdering(T))
  <2>1. U # {}
    <3>1. PICK t \in T : TRUE
      OBVIOUS
    <3>2. Upto(t) \in U
      OBVIOUS
    <3>. QED
      BY <3>2
  <2>. HIDE DEF U
  <2>. QED
    BY <1>1, <2>1, FS_StrictSubsetOrderingWellFounded, WFMin
<1>3. PICK n \in T : x = Upto(n)
  BY <1>2
<1>4. ASSUME NEW m \in T, m < n PROVE FALSE
  <2>1. n \in Nat /\ m \in Nat
    OBVIOUS
  <2>2. n \in Upto(n) /\ n \notin Upto(m)
    BY <1>4, <2>1
  <2>3. ASSUME NEW k \in Upto(m) PROVE k \in Upto(n)
    <3>1. k \in T /\ k \in Nat /\ k <= m
      OBVIOUS
    <3>. QED
      BY <1>4, <2>1, <3>1
  <2>4. Upto(m) \in U /\ Upto(m) \subseteq T /\ Upto(n) \subseteq T
    OBVIOUS
  <2>. HIDE DEF Upto, U
  <2>5. <<Upto(m), Upto(n)>> \in StrictSubsetOrdering(T)
    BY <2>2, <2>3, <2>4 DEF StrictSubsetOrdering
  <2>. QED
    BY <1>2, <1>3, <2>4, <2>5
<1>5. \A m \in T : n <= m
  <2>1. ASSUME NEW m \in T PROVE n <= m
    <3>1. n \in Nat /\ m \in Nat /\ ~(m < n)
      BY <1>4
    <3>. QED
      BY <3>1
  <2>. QED
    BY <2>1
<1>. QED
  BY <1>5

LEMMA FdIsFinite ==
  /\ Cardinality(Conns) \in Nat /\ MaxFd \in Nat
  /\ IsFiniteSet(Fd) /\ Cardinality(Fd) = 2 * Cardinality(Conns) + 2
<1>1. Cardinality(Conns) \in Nat
  BY FS_CardinalityType
<1>2. MaxFd \in Nat
  BY <1>1 DEF MaxFd
<1>3. IsFiniteSet(0..MaxFd) /\ Cardinality(0..MaxFd) = IF 0 > MaxFd THEN 0 ELSE MaxFd - 0 + 1
  BY <1>2, FS_Interval
<1>. QED
  BY <1>1, <1>2, <1>3 DEF Fd, MaxFd

LEMMA LowestIsFree ==
  ASSUME NEW t, \E n \in Fd : t[n] = NoEnd
  PROVE  LowestFd(t) \in Fd /\ t[LowestFd(t)] = NoEnd
<1>. DEFINE T == {n \in Fd : t[n] = NoEnd}
<1>1. T \subseteq Fd /\ T # {} /\ T \subseteq Nat
  BY FdIsFinite DEF Fd
<1>2. IsFiniteSet(T)
  BY <1>1, FdIsFinite, FS_Subset
<1>3. \E n \in T : \A m \in T : n <= m
  <2>. HIDE DEF T
  <2>. QED
    BY <1>1, <1>2, LeastOf
<1>4. \E n \in Fd : t[n] = NoEnd /\ \A k \in Fd : t[k] = NoEnd => n <= k
  BY <1>3
<1>. QED
  BY <1>4 DEF LowestFd

(* There are two free numbers for a connection to come.                      *)
LEMMA RoomForTwo ==
  ASSUME TypeOK, TableIsInjective
  PROVE  \E a, b \in Fd : a # b /\ table[a] = NoEnd /\ table[b] = NoEnd
<1>. DEFINE Used == {n \in Fd : table[n] # NoEnd}
            Free == Fd \ Used
            g == [n \in Used |-> table[n]]
            N == Cardinality(Conns)
<1>1. IsFiniteSet(Ends) /\ Cardinality(Ends) = N * 2
  <2>1. IsFiniteSet({"slave", "master"}) /\ Cardinality({"slave", "master"}) = 2
    <3>1. IsFiniteSet({"slave"}) /\ Cardinality({"slave"}) = 1
      BY FS_Singleton
    <3>2. {"slave", "master"} = {"slave"} \cup {"master"} /\ "master" \notin {"slave"}
      OBVIOUS
    <3>3. /\ IsFiniteSet({"slave"} \cup {"master"})
          /\ Cardinality({"slave"} \cup {"master"}) = Cardinality({"slave"}) + 1
      <4>. DEFINE S == {"slave"}
      <4>1. IsFiniteSet(S) /\ "master" \notin S
        BY <3>1, <3>2
      <4>. HIDE DEF S
      <4>2. IsFiniteSet(S \cup {"master"}) /\ Cardinality(S \cup {"master"}) = Cardinality(S) + 1
        BY <4>1, FS_AddElement
      <4>. QED
        BY <4>2 DEF S
    <3>. QED
      BY <3>1, <3>2, <3>3
  <2>. QED
    BY <2>1, FS_Product DEF Ends
<1>2. g \in Injection(Used, Ends)
  <2>1. g \in [Used -> Ends]
    BY DEF TypeOK
  <2>2. \A a, b \in Used : g[a] = g[b] => a = b
    BY DEF TableIsInjective
  <2>. HIDE DEF g, Used
  <2>. QED
    BY <2>1, <2>2, Fun_IsInj
<1>3. IsFiniteSet(Used) /\ Cardinality(Used) <= N * 2
  <2>. HIDE DEF g, Used, N
  <2>. QED
    BY <1>1, <1>2, FS_Injection
<1>4. IsFiniteSet(Free) /\ Cardinality(Free) = Cardinality(Fd) - Cardinality(Used)
  <2>1. Fd \cap Used = Used
    OBVIOUS
  <2>. HIDE DEF Used
  <2>2. /\ IsFiniteSet(Fd \ Used)
        /\ Cardinality(Fd \ Used) = Cardinality(Fd) - Cardinality(Fd \cap Used)
    BY FdIsFinite, FS_Difference
  <2>. QED
    BY <2>1, <2>2
<1>5. Cardinality(Free) >= 2
  <2>1. Cardinality(Used) \in Nat /\ N \in Nat /\ Cardinality(Fd) = 2 * N + 2
    BY <1>3, FdIsFinite, FS_CardinalityType
  <2>. HIDE DEF Used, Free, N
  <2>. QED
    BY <1>3, <1>4, <2>1
<1>6. PICK a \in Free : TRUE
  <2>. HIDE DEF Free
  <2>. QED
    BY <1>5, FS_EmptySet
<1>7. IsFiniteSet(Free \ {a}) /\ Cardinality(Free \ {a}) = Cardinality(Free) - 1
  <2>. HIDE DEF Free
  <2>. QED
    BY <1>4, FS_RemoveElement
<1>8. PICK b \in Free \ {a} : TRUE
  <2>1. Cardinality(Free) \in Nat
    <3>. HIDE DEF Free
    <3>. QED
      BY <1>4, FS_CardinalityType
  <2>. HIDE DEF Free
  <2>. QED
    BY <1>5, <1>7, <2>1, FS_EmptySet
<1>. QED
  BY <1>8

LEMMA SlotFacts ==
  ASSUME TypeOK
  PROVE  /\ \A i \in Slots : i \in 1..Len(list) /\ list[i] \in IO
         /\ Len(list) \in Nat /\ DOMAIN list = 1..Len(list)
         /\ NoIO \notin IO
<1>1. Len(list) \in Nat /\ DOMAIN list = 1..Len(list)
  BY LenProperties DEF TypeOK
<1>2. NoIO \notin IO
  BY FdIsFinite DEF NoIO, IO, Fd
<1>3. \A i \in DOMAIN list : list[i] \in IO \cup {NoIO}
  BY <1>1, ElementOfSeq DEF TypeOK
<1>. QED
  BY <1>1, <1>2, <1>3 DEF Slots

(* io_x11_new uses a slot nobody has and leaves the others where they are.   *)
LEMMA NewSlot ==
  ASSUME TypeOK, NEW io \in IO
  PROVE  LET l == IoNew(io) IN
         /\ l \in Seq(IO \cup {NoIO})
         /\ \E k \in DOMAIN l :
              /\ k \notin Slots /\ l[k] = io
              /\ {j \in DOMAIN l : l[j] # NoIO} = Slots \cup {k}
              /\ \A j \in Slots : l[j] = list[j]
<1>. DEFINE S == IO \cup {NoIO}
<1>1. /\ list \in Seq(S) /\ io \in S /\ io # NoIO
      /\ Len(list) \in Nat /\ DOMAIN list = 1..Len(list) /\ Slots \subseteq DOMAIN list
      /\ \A j \in DOMAIN list \ Slots : list[j] = NoIO
  BY SlotFacts DEF TypeOK, Slots
<1>2. \A j \in Slots : list[j] # NoIO
  BY DEF Slots
<1>. HIDE DEF S
<1>3. CASE Slots = DOMAIN list
  <2>1. IoNew(io) = Append(list, io)
    BY <1>3 DEF IoNew
  <2>2. /\ Append(list, io) \in Seq(S) /\ Len(Append(list, io)) = Len(list) + 1
        /\ \A j \in 1..Len(list) : Append(list, io)[j] = list[j]
        /\ Append(list, io)[Len(list) + 1] = io
    BY <1>1, AppendProperties
  <2>3. DOMAIN Append(list, io) = 1..Len(list) + 1
    BY <2>2, LenProperties
  <2>4. Len(list) + 1 \notin Slots
    BY <1>1
  <2>5. {j \in DOMAIN Append(list, io) : Append(list, io)[j] # NoIO} = Slots \cup {Len(list) + 1}
    BY <1>1, <1>2, <1>3, <2>2, <2>3
  <2>. QED
    BY <1>1, <1>3, <2>1, <2>2, <2>3, <2>4, <2>5 DEF S
<1>4. CASE Slots # DOMAIN list
  <2>. DEFINE T == DOMAIN list \ Slots
              k == CHOOSE i \in T : \A m \in T : i <= m
  <2>1. T # {} /\ T \subseteq Nat /\ IsFiniteSet(T)
    <3>1. IsFiniteSet(1..Len(list))
      BY <1>1, FS_Interval
    <3>2. T \subseteq 1..Len(list) /\ T # {}
      BY <1>1, <1>4
    <3>3. T \subseteq Nat
      BY <3>2
    <3>. HIDE DEF T
    <3>4. IsFiniteSet(T)
      BY <3>1, <3>2, FS_Subset
    <3>. QED
      BY <3>2, <3>3, <3>4
  <2>2. k \in T
    <3>1. \E i \in T : \A m \in T : i <= m
      <4>. HIDE DEF T
      <4>. QED
        BY <2>1, LeastOf
    <3>. QED
      BY <3>1
  <2>3. IoNew(io) = [list EXCEPT ![k] = io]
    BY <1>4 DEF IoNew
  <2>. HIDE DEF k
  <2>4. k \in 1..Len(list) /\ k \notin Slots
    BY <1>1, <2>2
  <2>5. /\ [list EXCEPT ![k] = io] \in Seq(S)
        /\ \A j \in 1..Len(list) : [list EXCEPT ![k] = io][j] = IF j = k THEN io ELSE list[j]
        /\ DOMAIN [list EXCEPT ![k] = io] = 1..Len(list)
    BY <1>1, <2>4, ExceptSeq
  <2>6. {j \in 1..Len(list) : [list EXCEPT ![k] = io][j] # NoIO} = Slots \cup {k}
    BY <1>1, <1>2, <2>4, <2>5
  <2>. QED
    BY <1>1, <2>3, <2>4, <2>5, <2>6 DEF S
<1>. QED
  BY <1>3, <1>4

-----------------------------------------------------------------------------
(***************************************************************************)
(* What is sent on a connection.                                           *)
(***************************************************************************)
Word == {"hdr", "fake", "wrong", "bare", "junk", "data", "reply"}

LEMMA FunctionIsSeq ==
  ASSUME NEW S, NEW n \in Nat, NEW f \in [1..n -> S]
  PROVE  f \in Seq(S) /\ Len(f) = n
<1>1. f \in Seq(S)
  BY SeqDef
<1>. QED
  BY <1>1, LenProperties

LEMMA StreamType ==
  ASSUME TypeOK, NEW e \in Ends
  PROVE  Stream(e) \in Seq(Token)
<1>. DEFINE k == kind[e[1]]
            rest == [n \in 1..Data[e[1]] |-> "data"]
            ts == IF e[2] = "slave" THEN FirstPacket(k) \o rest
                                    ELSE [n \in 1..Replies[e[1]] |-> "reply"]
<1>1. e[1] \in Conns /\ k \in {"fake", "wrong", "bare", "junk"}
  BY EndFacts DEF TypeOK
<1>2. Data[e[1]] \in Nat /\ Replies[e[1]] \in Nat
  BY <1>1
<1>3. FirstPacket(k) \in Seq(Word)
  <2>1. \A w, x \in Word : <<w, x>> \in Seq(Word) /\ <<x>> \in Seq(Word)
    OBVIOUS
  <2>2. k \in Word /\ "hdr" \in Word
    BY <1>1 DEF Word
  <2>. HIDE DEF k
  <2>. QED
    BY <2>1, <2>2 DEF FirstPacket
<1>4. rest \in Seq(Word) /\ [n \in 1..Replies[e[1]] |-> "reply"] \in Seq(Word)
  <2>1. /\ rest \in [1..Data[e[1]] -> Word]
        /\ [n \in 1..Replies[e[1]] |-> "reply"] \in [1..Replies[e[1]] -> Word]
    BY DEF Word
  <2>. HIDE DEF rest
  <2>. QED
    BY <1>2, <2>1, FunctionIsSeq
<1>5. ts \in Seq(Word)
  <2>. HIDE DEF rest
  <2>. QED
    BY <1>3, <1>4, ConcatProperties
<1>. HIDE DEF ts
<1>6. Len(ts) \in Nat /\ \A n \in 1..Len(ts) : ts[n] \in Word
  BY <1>5, LenProperties, ElementOfSeq
<1>7. [n \in 1..Len(ts) |-> <<e[1], ts[n]>>] \in [1..Len(ts) -> Token]
  BY <1>1, <1>6 DEF Token, Word
<1>8. [n \in 1..Len(ts) |-> <<e[1], ts[n]>>] \in Seq(Token)
  BY <1>6, <1>7, FunctionIsSeq
<1>. QED
  BY <1>8 DEF Stream, Tokens, ts

(* A program that presents the fake key does so in its second token.         *)
LEMMA StreamPresents ==
  ASSUME TypeOK, NEW c \in Conns, kind[c] = "fake"
  PROVE  Presents(Stream(Slave(c)), c)
<1>. DEFINE rest == [n \in 1..Data[c] |-> "data"]
            ts == FirstPacket("fake") \o rest
<1>1. Data[c] \in Nat
  OBVIOUS
<1>2. rest \in Seq(Word) /\ Len(rest) = Data[c] /\ \A n \in 1..Data[c] : rest[n] = "data"
  <2>1. rest \in [1..Data[c] -> Word]
    BY DEF Word
  <2>2. rest \in Seq(Word)
    BY <1>1, <2>1, SeqDef
  <2>. QED
    BY <1>1, <2>2, LenProperties
<1>3. FirstPacket("fake") \in Seq(Word) /\ FirstPacket("fake") = <<"hdr", "fake">>
  BY DEF FirstPacket, Word
<1>. HIDE DEF rest
<1>4. /\ ts \in Seq(Word) /\ Len(ts) = 2 + Data[c]
      /\ ts[1] = "hdr" /\ ts[2] = "fake" /\ \A n \in 3..2 + Data[c] : ts[n] = rest[n - 2]
  <2>. DEFINE p == FirstPacket("fake")
  <2>1. p \in Seq(Word) /\ Len(p) = 2 /\ p[1] = "hdr" /\ p[2] = "fake"
    BY <1>3
  <2>. HIDE DEF p
  <2>2. /\ p \o rest \in Seq(Word) /\ Len(p \o rest) = 2 + Data[c]
        /\ \A n \in 1..2 + Data[c] : (p \o rest)[n] = IF n <= 2 THEN p[n] ELSE rest[n - 2]
    <3>1. /\ p \o rest \in Seq(Word) /\ Len(p \o rest) = Len(p) + Len(rest)
          /\ \A n \in 1..Len(p) + Len(rest) :
               (p \o rest)[n] = IF n <= Len(p) THEN p[n] ELSE rest[n - Len(p)]
      <4>1. p \in Seq(Word) /\ rest \in Seq(Word)
        BY <1>2, <2>1
      <4>. QED
        BY ONLY <4>1, ConcatProperties, Zenon
    <3>2. Len(p) = 2 /\ Len(rest) = Data[c]
      BY <1>2, <2>1
    <3>. QED
      BY <3>1, <3>2
  <2>3. ts = p \o rest
    BY DEF p
  <2>. HIDE DEF ts
  <2>. QED
    BY <1>1, <2>1, <2>2, <2>3
<1>5. ts[1] = "hdr" /\ ts[2] = "fake" /\ \A n \in 3..Len(ts) : ts[n] = "data"
  <2>1. ASSUME NEW n \in 3..Len(ts) PROVE ts[n] = "data"
    <3>1. ts[n] = rest[n - 2] /\ n - 2 \in 1..Data[c]
      BY <1>1, <1>4
    <3>. QED
      BY <1>2, <3>1
  <2>. QED
    BY <1>4, <2>1
<1>6. Stream(Slave(c)) = [n \in 1..Len(ts) |-> <<c, ts[n]>>]
  BY DEF Stream, Tokens, Slave, rest
<1>. HIDE DEF ts
<1>7. Len(Stream(Slave(c))) = Len(ts) /\ Len(ts) >= 2 /\ DOMAIN Stream(Slave(c)) = 1..Len(ts)
      /\ \A n \in 1..Len(ts) : Stream(Slave(c))[n] = <<c, ts[n]>>
  <2>1. Stream(Slave(c)) \in Seq(Token)
    BY StreamType, EndFacts
  <2>. QED
    BY <1>1, <1>4, <1>6, <2>1, LenProperties
<1>. QED
  BY <1>1, <1>4, <1>5, <1>7 DEF Presents

-----------------------------------------------------------------------------
(***************************************************************************)
(* The steps of x11_handle_select.                                         *)
(***************************************************************************)
(* What a slot joins, and what two slots have in common: nothing.            *)
LEMMA SlotJoins ==
  ASSUME TableInv, NEW i \in Slots
  PROVE  /\ i \in 1..Len(list) /\ list[i] \in IO
         /\ list[i].slave \in Fd /\ list[i].master \in Fd /\ list[i].slave # list[i].master
         /\ \E c \in Conns : /\ relay[c] = "open" /\ table[list[i].slave] = Slave(c)
                             /\ table[list[i].master] = Master(c)
         /\ \A j \in Slots \ {i} :
              /\ list[j].slave \notin {list[i].slave, list[i].master}
              /\ list[j].master \notin {list[i].slave, list[i].master}
              /\ table[list[j].slave] # table[list[i].slave]
<1>. USE DEF TableInv
<1>1. \A j \in Slots : /\ j \in 1..Len(list) /\ list[j] \in IO
                       /\ list[j].slave \in Fd /\ list[j].master \in Fd
  BY SlotFacts DEF IO
<1>2. \A j \in Slots : \E c \in Conns :
        relay[c] = "open" /\ table[list[j].slave] = Slave(c) /\ table[list[j].master] = Master(c)
  BY DEF TableMatchesSlots
<1>3. list[i].slave # list[i].master
  BY <1>2, EndFacts
<1>4. ASSUME NEW j \in Slots \ {i}
      PROVE  /\ list[j].slave \notin {list[i].slave, list[i].master}
             /\ list[j].master \notin {list[i].slave, list[i].master}
             /\ table[list[j].slave] # table[list[i].slave]
  <2>1. PICK c \in Conns : table[list[i].slave] = Slave(c) /\ table[list[i].master] = Master(c)
    BY <1>2
  <2>2. PICK d \in Conns : table[list[j].slave] = Slave(d) /\ table[list[j].master] = Master(d)
    BY <1>2
  <2>3. list[j].slave # list[i].slave
    BY DEF TableMatchesSlots
  <2>4. c # d
    BY <1>1, <2>1, <2>2, <2>3, EndFacts DEF TableIsInjective
  <2>. QED
    BY <2>1, <2>2, <2>3, <2>4, EndFacts
<1>. QED
  BY <1>1, <1>2, <1>3, <1>4

(* A slot that is freed takes its own connection with it and no other.       *)
LEMMA FreeEffect ==
  ASSUME TableInv, NEW i \in Slots, IoFree(i)
  PROVE  /\ list' \in Seq(IO \cup {NoIO}) /\ Slots' = Slots \ {i}
         /\ \A j \in Slots' : list'[j] = list[j]
         /\ table' \in [Fd -> Ends \cup {NoEnd}]
         /\ \A n \in Fd : table'[n] = IF n \in {list[i].slave, list[i].master} THEN NoEnd
                                      ELSE table[n]
         /\ \E c \in Conns : /\ table[list[i].slave] = Slave(c) /\ table[list[i].master] = Master(c)
                             /\ relay[c] = "open" /\ relay' = [relay EXCEPT ![c] = "closed"]
         /\ ready' = {r \in ready : r[1] \notin {list[i].master, list[i].slave}}
<1>1. /\ i \in 1..Len(list) /\ list[i].slave \in Fd /\ list[i].master \in Fd
      /\ \E c \in Conns : /\ relay[c] = "open" /\ table[list[i].slave] = Slave(c)
                          /\ table[list[i].master] = Master(c)
  BY SlotJoins
<1>2. list' = [list EXCEPT ![i] = NoIO]
  BY DEF IoFree
<1>3. /\ list' \in Seq(IO \cup {NoIO}) /\ Len(list') = Len(list)
      /\ \A j \in 1..Len(list) : list'[j] = IF j = i THEN NoIO ELSE list[j]
  BY <1>1, <1>2, ExceptSeq DEF TableInv, TypeOK
<1>4. DOMAIN list' = 1..Len(list) /\ DOMAIN list = 1..Len(list)
  BY <1>2, LenProperties DEF TableInv, TypeOK
<1>5. Slots' = Slots \ {i} /\ \A j \in Slots' : list'[j] = list[j]
  BY <1>1, <1>3, <1>4 DEF Slots
<1>6. /\ table' \in [Fd -> Ends \cup {NoEnd}]
      /\ \A n \in Fd : table'[n] = IF n \in {list[i].slave, list[i].master} THEN NoEnd
                                   ELSE table[n]
  BY <1>1 DEF IoFree, TableInv, TypeOK
<1>7. \E c \in Conns : /\ table[list[i].slave] = Slave(c) /\ table[list[i].master] = Master(c)
                       /\ relay[c] = "open" /\ relay' = [relay EXCEPT ![c] = "closed"]
  BY <1>1, EndFacts DEF IoFree
<1>. QED
  BY <1>3, <1>5, <1>6, <1>7 DEF IoFree

(* A read or a write changes the buffers of one slot.                        *)
LEMMA BufferEffect ==
  ASSUME TableInv, NEW i \in Slots, NEW io \in IO,
         io.master = list[i].master, io.slave = list[i].slave,
         list' = [list EXCEPT ![i] = io]
  PROVE  /\ list' \in Seq(IO \cup {NoIO}) /\ Slots' = Slots
         /\ list'[i] = io /\ \A j \in Slots \ {i} : list'[j] = list[j]
         /\ \A j \in Slots : list'[j].master = list[j].master /\ list'[j].slave = list[j].slave
<1>1. i \in 1..Len(list) /\ NoIO \notin IO
  BY SlotJoins, SlotFacts DEF TableInv
<1>2. /\ list' \in Seq(IO \cup {NoIO}) /\ Len(list') = Len(list)
      /\ \A j \in 1..Len(list) : list'[j] = IF j = i THEN io ELSE list[j]
  BY <1>1, ExceptSeq DEF TableInv, TypeOK
<1>3. DOMAIN list' = 1..Len(list) /\ DOMAIN list = 1..Len(list)
  BY LenProperties DEF TableInv, TypeOK
<1>. QED
  BY <1>1, <1>2, <1>3 DEF Slots

(* What a write and a read do to a slot that stays.  Up is to the X server.  *)
WroteUp(i, n) ==
  LET b == list[i].slave_buf  e == table[list[i].master] IN
  /\ b # <<>> /\ n \in 1..Len(b) /\ e \notin shut \cup full
  /\ list' = [list EXCEPT ![i] = [list[i] EXCEPT !.slave_buf = SubSeq(b, n + 1, Len(b))]]
  /\ out' = [out EXCEPT ![e] = out[e] \o SubSeq(b, 1, n)]
  /\ full' \in {full, full \cup {e}} /\ ready' = ready \ {<<list[i].master, "w">>}
  /\ UNCHANGED <<table, relay, inq>>
WroteDown(i, n) ==
  LET b == list[i].master_buf  e == table[list[i].slave] IN
  /\ b # <<>> /\ n \in 1..Len(b) /\ e \notin shut \cup full
  /\ list' = [list EXCEPT ![i] = [list[i] EXCEPT !.master_buf = SubSeq(b, n + 1, Len(b))]]
  /\ out' = [out EXCEPT ![e] = out[e] \o SubSeq(b, 1, n)]
  /\ full' \in {full, full \cup {e}} /\ ready' = ready \ {<<list[i].slave, "w">>}
  /\ UNCHANGED <<table, relay, inq>>
TookUp(i, n) ==
  LET e == table[list[i].slave] IN
  /\ list[i].slave_buf = <<>> /\ n = (IF Len(inq[e]) < 2 THEN Len(inq[e]) ELSE 2)
  /\ inq[e] # <<>>
  /\ list' = [list EXCEPT ![i] = CheckAuth([list[i] EXCEPT !.slave_buf = SubSeq(inq[e], 1, n)])]
  /\ inq' = [inq EXCEPT ![e] = SubSeq(inq[e], n + 1, Len(inq[e]))]
  /\ ready' = ready \ {<<list[i].slave, "r">>} /\ UNCHANGED <<table, relay, full, out>>
TookDown(i, n) ==
  LET e == table[list[i].master] IN
  /\ list[i].master_buf = <<>> /\ n = (IF Len(inq[e]) < 2 THEN Len(inq[e]) ELSE 2)
  /\ inq[e] # <<>>
  /\ list' = [list EXCEPT ![i] = [list[i] EXCEPT !.master_buf = SubSeq(inq[e], 1, n)]]
  /\ inq' = [inq EXCEPT ![e] = SubSeq(inq[e], n + 1, Len(inq[e]))]
  /\ ready' = ready \ {<<list[i].master, "r">>} /\ UNCHANGED <<table, relay, full, out>>

(* A connection is freed when one of its ends has been closed, or when one   *)
(* that pselect had found writable takes nothing.                           *)
Frees(i) ==
  /\ IoFree(i) /\ UNCHANGED <<inq, full, out>>
  /\ \E fd \in {list[i].slave, list[i].master} :
       \/ table[fd] \in shut
       \/ <<fd, "w">> \in ready /\ table[fd] \in full

LEMMA SlotSteps ==
  ASSUME TypeOK, NEW i \in DOMAIN list,
         WriteSlave(i) \/ ReadMaster(i) \/ WriteMaster(i) \/ ReadSlave(i)
  PROVE  /\ i \in Slots /\ UNCHANGED relayed
         /\ \/ Frees(i)
            \/ \E n : WroteUp(i, n) \/ WroteDown(i, n) \/ TookUp(i, n) \/ TookDown(i, n)
<1>1. \A j \in Slots : j \in 1..Len(list) /\ list[j] \in IO
  BY SlotFacts
<1>2. CASE WriteMaster(i)
  <2>. DEFINE e == table[list[i].master]
              b == list[i].slave_buf
  <2>1. /\ i \in Slots /\ b # <<>> /\ <<list[i].master, "w">> \in ready /\ UNCHANGED <<relayed, inq>>
        /\ Write(i, e, "slave_buf", list[i].master)
    BY <1>2 DEF WriteMaster, NextStep, StepsOf
  <2>2. list[i] \in IO /\ Len(b) \in Nat
    BY <1>1, <2>1, LenProperties DEF IO
  <2>3. PICK n \in Written(e, b) :
          \/ n < 0 /\ IoFree(i) /\ UNCHANGED <<full, out>>
          \/ /\ n > 0
             /\ list' = [list EXCEPT ![i]["slave_buf"] = SubSeq(@, n + 1, Len(@))]
             /\ out' = [out EXCEPT ![e] = @ \o SubSeq(b, 1, n)]
             /\ full' \in {full, full \cup {e}}
             /\ ready' = ready \ {<<list[i].master, "w">>}
             /\ UNCHANGED <<table, relay>>
    BY <2>1 DEF Write
  <2>4. CASE e \in shut \/ e \in full
    <3>1. n = -1
      BY <2>3, <2>4 DEF Written
    <3>. QED
      BY <2>1, <2>3, <2>4, <3>1 DEF Frees
  <2>5. CASE ~(e \in shut \/ e \in full)
    <3>1. n \in 1..Len(b) /\ ~(n < 0)
      BY <2>2, <2>3, <2>5 DEF Written
    <3>2. list' = [list EXCEPT ![i] = [list[i] EXCEPT !.slave_buf = SubSeq(b, n + 1, Len(b))]]
      BY <2>3, <3>1
    <3>. QED
      BY <2>1, <2>3, <2>5, <3>1, <3>2 DEF WroteUp
  <2>. QED
    BY <2>4, <2>5
<1>3. CASE WriteSlave(i)
  <2>. DEFINE e == table[list[i].slave]
              b == list[i].master_buf
  <2>1. /\ i \in Slots /\ b # <<>> /\ <<list[i].slave, "w">> \in ready /\ UNCHANGED <<relayed, inq>>
        /\ Write(i, e, "master_buf", list[i].slave)
    BY <1>3 DEF WriteSlave, NextStep, StepsOf
  <2>2. list[i] \in IO /\ Len(b) \in Nat
    BY <1>1, <2>1, LenProperties DEF IO
  <2>3. PICK n \in Written(e, b) :
          \/ n < 0 /\ IoFree(i) /\ UNCHANGED <<full, out>>
          \/ /\ n > 0
             /\ list' = [list EXCEPT ![i]["master_buf"] = SubSeq(@, n + 1, Len(@))]
             /\ out' = [out EXCEPT ![e] = @ \o SubSeq(b, 1, n)]
             /\ full' \in {full, full \cup {e}}
             /\ ready' = ready \ {<<list[i].slave, "w">>}
             /\ UNCHANGED <<table, relay>>
    BY <2>1 DEF Write
  <2>4. CASE e \in shut \/ e \in full
    <3>1. n = -1
      BY <2>3, <2>4 DEF Written
    <3>. QED
      BY <2>1, <2>3, <2>4, <3>1 DEF Frees
  <2>5. CASE ~(e \in shut \/ e \in full)
    <3>1. n \in 1..Len(b) /\ ~(n < 0)
      BY <2>2, <2>3, <2>5 DEF Written
    <3>2. list' = [list EXCEPT ![i] = [list[i] EXCEPT !.master_buf = SubSeq(b, n + 1, Len(b))]]
      BY <2>3, <3>1
    <3>. QED
      BY <2>1, <2>3, <2>5, <3>1, <3>2 DEF WroteDown
  <2>. QED
    BY <2>4, <2>5
<1>4. CASE ReadMaster(i)
  <2>. DEFINE e == table[list[i].master]
              n == IF Len(inq[e]) < 2 THEN Len(inq[e]) ELSE 2
  <2>1. /\ i \in Slots /\ list[i].master_buf = <<>> /\ UNCHANGED <<relayed, full, out>>
        /\ Read(i, e, "master_buf", list[i].master)
    BY <1>4 DEF ReadMaster, NextStep, StepsOf
  <2>2. CASE e \in shut /\ IoFree(i) /\ UNCHANGED inq
    BY <2>1, <2>2 DEF Frees
  <2>3. CASE ~(e \in shut /\ IoFree(i) /\ UNCHANGED inq)
    <3>1. /\ inq[e] # <<>>
          /\ list' = [list EXCEPT ![i] = [list[i] EXCEPT !["master_buf"] = SubSeq(inq[e], 1, n)]]
          /\ inq' = [inq EXCEPT ![e] = SubSeq(@, n + 1, Len(@))]
          /\ ready' = ready \ {<<list[i].master, "r">>} /\ UNCHANGED <<table, relay>>
      BY <2>1, <2>3 DEF Read, BufSize
    <3>2. TookDown(i, n)
      BY <2>1, <3>1 DEF TookDown
    <3>. QED
      BY <2>1, <3>2
  <2>. QED
    BY <2>2, <2>3
<1>5. CASE ReadSlave(i)
  <2>. DEFINE e == table[list[i].slave]
              n == IF Len(inq[e]) < 2 THEN Len(inq[e]) ELSE 2
  <2>1. /\ i \in Slots /\ list[i].slave_buf = <<>> /\ UNCHANGED <<relayed, full, out>>
        /\ Read(i, e, "slave_buf", list[i].slave)
    BY <1>5 DEF ReadSlave, NextStep, StepsOf
  <2>2. CASE e \in shut /\ IoFree(i) /\ UNCHANGED inq
    BY <2>1, <2>2 DEF Frees
  <2>3. CASE ~(e \in shut /\ IoFree(i) /\ UNCHANGED inq)
    <3>1. /\ inq[e] # <<>>
          /\ list' = [list EXCEPT ![i] = CheckAuth([list[i] EXCEPT !["slave_buf"] = SubSeq(inq[e], 1, n)])]
          /\ inq' = [inq EXCEPT ![e] = SubSeq(@, n + 1, Len(@))]
          /\ ready' = ready \ {<<list[i].slave, "r">>} /\ UNCHANGED <<table, relay>>
      BY <2>1, <2>3 DEF Read, BufSize
    <3>2. TookUp(i, n)
      BY <2>1, <3>1 DEF TookUp
    <3>. QED
      BY <2>1, <3>2
  <2>. QED
    BY <2>2, <2>3
<1>. QED
  BY <1>2, <1>3, <1>4, <1>5

(***************************************************************************)
(* Pieces of sequences, and what io_check_auth_data leaves alone.           *)
(***************************************************************************)
LEMMA Pieces ==
  ASSUME NEW s \in Seq(Token), NEW n \in 0..Len(s)
  PROVE  /\ SubSeq(s, 1, n) \in Seq(Token) /\ DOMAIN SubSeq(s, 1, n) = 1..n
         /\ Len(SubSeq(s, 1, n)) = n
         /\ \A k \in 1..n : SubSeq(s, 1, n)[k] = s[k]
         /\ SubSeq(s, n + 1, Len(s)) \in Seq(Token)
         /\ DOMAIN SubSeq(s, n + 1, Len(s)) = 1..(Len(s) - n)
         /\ Len(SubSeq(s, n + 1, Len(s))) = Len(s) - n
         /\ \A k \in 1..(Len(s) - n) : SubSeq(s, n + 1, Len(s))[k] = s[n + k]
<1>1. Len(s) \in Nat /\ \A k \in 1..Len(s) : s[k] \in Token
  BY LenProperties, ElementOfSeq
<1>2. n \in Int /\ n + 1 \in Int /\ Len(s) \in Int /\ n <= Len(s) /\ 0 <= n
  BY <1>1
<1>3. /\ SubSeq(s, 1, n) \in Seq(Token) /\ Len(SubSeq(s, 1, n)) = n
      /\ \A k \in 1..n : SubSeq(s, 1, n)[k] = s[k]
  <2>1. \A k \in 1..n : s[k] \in Token
    BY <1>1, <1>2
  <2>2. /\ SubSeq(s, 1, n) \in Seq(Token)
        /\ Len(SubSeq(s, 1, n)) = IF 1 <= n THEN n - 1 + 1 ELSE 0
        /\ \A k \in 1..n - 1 + 1 : SubSeq(s, 1, n)[k] = s[1 + k - 1]
    BY <1>2, <2>1, SubSeqProperties
  <2>. QED
    BY <1>2, <2>2
<1>4. /\ SubSeq(s, n + 1, Len(s)) \in Seq(Token)
      /\ Len(SubSeq(s, n + 1, Len(s))) = Len(s) - n
      /\ \A k \in 1..(Len(s) - n) : SubSeq(s, n + 1, Len(s))[k] = s[n + k]
  <2>. DEFINE m == n + 1
              l == Len(s)
  <2>0. m \in Int /\ l \in Int
    BY <1>2
  <2>1. \A k \in m..l : s[k] \in Token
    BY <1>1, <1>2
  <2>2. /\ SubSeq(s, m, l) \in Seq(Token)
        /\ Len(SubSeq(s, m, l)) = IF m <= l THEN l - m + 1 ELSE 0
        /\ \A k \in 1..l - m + 1 : SubSeq(s, m, l)[k] = s[m + k - 1]
    <3>. HIDE DEF m, l
    <3>. QED
      BY <2>0, <2>1, SubSeqProperties
  <2>3. \A k : k \in 1..(l - n) => k \in 1..l - m + 1 /\ m + k - 1 = n + k
    BY <1>2
  <2>. QED
    BY <1>2, <2>2, <2>3
<1>. QED
  BY <1>3, <1>4, LenProperties

LEMMA Joined ==
  ASSUME NEW s \in Seq(Token), NEW t \in Seq(Token)
  PROVE  /\ s \o t \in Seq(Token) /\ Len(s) \in Nat /\ Len(t) \in Nat
         /\ DOMAIN (s \o t) = 1..(Len(s) + Len(t)) /\ Len(s \o t) = Len(s) + Len(t)
         /\ \A k \in 1..Len(s) + Len(t) :
              (s \o t)[k] = IF k <= Len(s) THEN s[k] ELSE t[k - Len(s)]
<1>1. /\ s \o t \in Seq(Token) /\ Len(s \o t) = Len(s) + Len(t)
      /\ \A k \in 1..Len(s) + Len(t) :
           (s \o t)[k] = IF k <= Len(s) THEN s[k] ELSE t[k - Len(s)]
  BY ConcatProperties
<1>. QED
  BY <1>1, LenProperties

LEMMA CheckAuthType ==
  ASSUME NEW io \in IO
  PROVE  /\ CheckAuth(io) \in IO
         /\ CheckAuth(io).master = io.master /\ CheckAuth(io).slave = io.slave
         /\ CheckAuth(io).authenticated
<1>. DEFINE b == io.slave_buf
            new == IF PresentsFake(b) THEN WithRealKey(b) ELSE b
<1>1. b \in Seq(Token) /\ io.authenticated \in BOOLEAN
  BY DEF IO
<1>2. ASSUME PresentsFake(b) PROVE WithRealKey(b) \in Seq(Token)
  <2>1. 2 \in 1..Len(b)
    BY <1>1, <1>2, LenProperties DEF PresentsFake
  <2>2. b[2] \in Token
    BY <1>1, <2>1, ElementOfSeq
  <2>3. <<b[2][1], "real">> \in Token
    BY <2>2 DEF Token
  <2>. HIDE DEF b
  <2>. QED
    BY <1>1, <2>1, <2>3, ExceptSeq DEF WithRealKey
<1>3. new \in Seq(Token)
  BY <1>1, <1>2
<1>4. CASE io.authenticated
  BY <1>4 DEF CheckAuth
<1>5. CASE ~io.authenticated
  <2>1. CheckAuth(io) = [io EXCEPT !.authenticated = TRUE, !.slave_buf = new]
    BY <1>5 DEF CheckAuth
  <2>. HIDE DEF new
  <2>. QED
    BY <1>3, <2>1 DEF IO
<1>. QED
  BY <1>4, <1>5

(* A slot that reads or writes keeps its descriptors; what the buffers, the  *)
(* ends and the slot hold are tokens.                                       *)
LEMMA MoveEffect ==
  ASSUME TableInv, NEW i \in Slots, NEW n,
         WroteUp(i, n) \/ WroteDown(i, n) \/ TookUp(i, n) \/ TookDown(i, n)
  PROVE  /\ UNCHANGED <<table, relay>> /\ ready' \subseteq ready
         /\ Slots' = Slots /\ list' \in Seq(IO \cup {NoIO})
         /\ \A j \in Slots : /\ list'[j] \in IO
                             /\ list'[j].master = list[j].master
                             /\ list'[j].slave = list[j].slave
         /\ \A j \in Slots \ {i} : list'[j] = list[j]
         /\ inq' \in [Ends -> Seq(Token)] /\ out' \in [Ends -> Seq(Token)]
<1>1. PICK c \in Conns : table[list[i].slave] = Slave(c) /\ table[list[i].master] = Master(c)
  BY SlotJoins
<1>2. list[i] \in IO /\ Slave(c) \in Ends /\ Master(c) \in Ends
  BY SlotJoins, EndFacts
<1>3. /\ list[i].slave_buf \in Seq(Token) /\ list[i].master_buf \in Seq(Token)
      /\ \A e \in Ends : inq[e] \in Seq(Token) /\ out[e] \in Seq(Token) /\ Len(inq[e]) \in Nat
  BY <1>2, LenProperties DEF IO, TableInv, TypeOK
<1>4. \A j \in Slots : list[j] \in IO
  BY SlotFacts DEF TableInv
<1>5. ASSUME NEW io \in IO, io.master = list[i].master, io.slave = list[i].slave,
             list' = [list EXCEPT ![i] = io]
      PROVE  /\ Slots' = Slots /\ list' \in Seq(IO \cup {NoIO})
             /\ \A j \in Slots : /\ list'[j] \in IO
                                 /\ list'[j].master = list[j].master
                                 /\ list'[j].slave = list[j].slave
             /\ \A j \in Slots \ {i} : list'[j] = list[j]
  <2>1. /\ list' \in Seq(IO \cup {NoIO}) /\ Slots' = Slots
        /\ list'[i] = io /\ \A j \in Slots \ {i} : list'[j] = list[j]
        /\ \A j \in Slots : list'[j].master = list[j].master /\ list'[j].slave = list[j].slave
    BY <1>5, BufferEffect
  <2>. QED
    BY <1>4, <2>1
<1>6. CASE WroteUp(i, n)
  <2>. DEFINE b == list[i].slave_buf
              io == [list[i] EXCEPT !.slave_buf = SubSeq(b, n + 1, Len(b))]
  <2>1. n \in 1..Len(b) /\ list' = [list EXCEPT ![i] = io] /\ UNCHANGED <<table, relay, inq>>
        /\ out' = [out EXCEPT ![Master(c)] = out[Master(c)] \o SubSeq(b, 1, n)]
        /\ ready' \subseteq ready
    BY <1>1, <1>6 DEF WroteUp
  <2>2. n \in 0..Len(b)
    BY <2>1
  <2>3. SubSeq(b, 1, n) \in Seq(Token) /\ SubSeq(b, n + 1, Len(b)) \in Seq(Token)
    BY <1>3, <2>2, Pieces
  <2>4. io \in IO /\ io.master = list[i].master /\ io.slave = list[i].slave
    BY <1>2, <2>3 DEF IO
  <2>5. out[Master(c)] \o SubSeq(b, 1, n) \in Seq(Token)
    BY <1>2, <1>3, <2>3, Joined
  <2>. HIDE DEF io
  <2>6. out' \in [Ends -> Seq(Token)]
    BY <1>2, <2>1, <2>5 DEF TableInv, TypeOK
  <2>. QED
    BY <1>5, <2>1, <2>4, <2>6 DEF TableInv, TypeOK
<1>7. CASE WroteDown(i, n)
  <2>. DEFINE b == list[i].master_buf
              io == [list[i] EXCEPT !.master_buf = SubSeq(b, n + 1, Len(b))]
  <2>1. n \in 1..Len(b) /\ list' = [list EXCEPT ![i] = io] /\ UNCHANGED <<table, relay, inq>>
        /\ out' = [out EXCEPT ![Slave(c)] = out[Slave(c)] \o SubSeq(b, 1, n)]
        /\ ready' \subseteq ready
    BY <1>1, <1>7 DEF WroteDown
  <2>2. n \in 0..Len(b)
    BY <2>1
  <2>3. SubSeq(b, 1, n) \in Seq(Token) /\ SubSeq(b, n + 1, Len(b)) \in Seq(Token)
    BY <1>3, <2>2, Pieces
  <2>4. io \in IO /\ io.master = list[i].master /\ io.slave = list[i].slave
    BY <1>2, <2>3 DEF IO
  <2>5. out[Slave(c)] \o SubSeq(b, 1, n) \in Seq(Token)
    BY <1>2, <1>3, <2>3, Joined
  <2>. HIDE DEF io
  <2>6. out' \in [Ends -> Seq(Token)]
    BY <1>2, <2>1, <2>5 DEF TableInv, TypeOK
  <2>. QED
    BY <1>5, <2>1, <2>4, <2>6 DEF TableInv, TypeOK
<1>8. CASE TookUp(i, n)
  <2>. DEFINE q == inq[Slave(c)]
              read == [list[i] EXCEPT !.slave_buf = SubSeq(q, 1, n)]
              io == CheckAuth(read)
  <2>1. /\ n = (IF Len(q) < 2 THEN Len(q) ELSE 2)
        /\ list' = [list EXCEPT ![i] = io] /\ UNCHANGED <<table, relay, out>>
        /\ inq' = [inq EXCEPT ![Slave(c)] = SubSeq(q, n + 1, Len(q))]
        /\ ready' \subseteq ready
    BY <1>1, <1>8 DEF TookUp
  <2>2. n \in 0..Len(q)
    BY <1>2, <1>3, <2>1
  <2>3. SubSeq(q, 1, n) \in Seq(Token) /\ SubSeq(q, n + 1, Len(q)) \in Seq(Token)
    BY <1>2, <1>3, <2>2, Pieces
  <2>4. read \in IO /\ read.master = list[i].master /\ read.slave = list[i].slave
    BY <1>2, <2>3 DEF IO
  <2>. HIDE DEF read
  <2>5. io \in IO /\ io.master = list[i].master /\ io.slave = list[i].slave
    BY <2>4, CheckAuthType
  <2>. HIDE DEF io
  <2>6. inq' \in [Ends -> Seq(Token)]
    BY <1>2, <2>1, <2>3 DEF TableInv, TypeOK
  <2>. QED
    BY <1>5, <2>1, <2>5, <2>6 DEF TableInv, TypeOK
<1>9. CASE TookDown(i, n)
  <2>. DEFINE q == inq[Master(c)]
              io == [list[i] EXCEPT !.master_buf = SubSeq(q, 1, n)]
  <2>1. /\ n = (IF Len(q) < 2 THEN Len(q) ELSE 2)
        /\ list' = [list EXCEPT ![i] = io] /\ UNCHANGED <<table, relay, out>>
        /\ inq' = [inq EXCEPT ![Master(c)] = SubSeq(q, n + 1, Len(q))]
        /\ ready' \subseteq ready
    BY <1>1, <1>9 DEF TookDown
  <2>2. n \in 0..Len(q)
    BY <1>2, <1>3, <2>1
  <2>3. SubSeq(q, 1, n) \in Seq(Token) /\ SubSeq(q, n + 1, Len(q)) \in Seq(Token)
    BY <1>2, <1>3, <2>2, Pieces
  <2>4. io \in IO /\ io.master = list[i].master /\ io.slave = list[i].slave
    BY <1>2, <2>3 DEF IO
  <2>. HIDE DEF io
  <2>5. inq' \in [Ends -> Seq(Token)]
    BY <1>2, <2>1, <2>3 DEF TableInv, TypeOK
  <2>. QED
    BY <1>5, <2>1, <2>4, <2>5 DEF TableInv, TypeOK
<1>. QED
  BY <1>6, <1>7, <1>8, <1>9

-----------------------------------------------------------------------------
(***************************************************************************)
(* The descriptor table and the list agree after every step.               *)
(***************************************************************************)
(* The numbers in use are those of the slots, number by number.              *)
LEMMA HeldBySlots ==
  ASSUME NEW t, NEW l, NEW S, \A j \in S : l[j].slave \in Fd /\ l[j].master \in Fd
  PROVE  {n \in Fd : t[n] # NoEnd} = UNION {{l[j].master, l[j].slave} : j \in S}
           <=> \A n \in Fd : t[n] # NoEnd <=> \E j \in S : n = l[j].master \/ n = l[j].slave
<1>. DEFINE U == UNION {{l[j].master, l[j].slave} : j \in S}
<1>1. \A n : n \in U <=> \E j \in S : n = l[j].master \/ n = l[j].slave
  OBVIOUS
<1>2. U \subseteq Fd
  OBVIOUS
<1>. HIDE DEF U
<1>3. {n \in Fd : t[n] # NoEnd} = U <=> \A n \in Fd : t[n] # NoEnd <=> n \in U
  BY <1>2
<1>. QED
  BY <1>1, <1>3 DEF U

LEMMA SlotsKeepTable ==
  ASSUME TableInv, NEW i \in DOMAIN list,
         WriteSlave(i) \/ ReadMaster(i) \/ WriteMaster(i) \/ ReadSlave(i)
  PROVE  TableInv'
<1>1. /\ i \in Slots /\ UNCHANGED relayed
      /\ \/ Frees(i)
         \/ \E n : WroteUp(i, n) \/ WroteDown(i, n) \/ TookUp(i, n) \/ TookDown(i, n)
  BY SlotSteps DEF TableInv
<1>2. UNCHANGED <<kind, whole, sent, backlog>>
  BY <1>1 DEF relayed
<1>3. CASE Frees(i)
  <2>1. /\ list' \in Seq(IO \cup {NoIO}) /\ Slots' = Slots \ {i}
        /\ \A j \in Slots' : list'[j] = list[j]
        /\ table' \in [Fd -> Ends \cup {NoEnd}]
        /\ \A n \in Fd : table'[n] = IF n \in {list[i].slave, list[i].master} THEN NoEnd
                                     ELSE table[n]
        /\ UNCHANGED <<inq, full, out>>
    BY <1>1, <1>3, FreeEffect DEF Frees
  <2>2. PICK c \in Conns : /\ table[list[i].slave] = Slave(c) /\ table[list[i].master] = Master(c)
                           /\ relay[c] = "open" /\ relay' = [relay EXCEPT ![c] = "closed"]
    BY <1>1, <1>3, FreeEffect DEF Frees
  <2>3. TypeOK'
    <3>1. relay' \in [Conns -> {"none", "open", "refused", "closed"}]
      BY <2>2 DEF TableInv, TypeOK
    <3>. QED
      BY <1>2, <2>1, <3>1 DEF TableInv, TypeOK
  <2>4. TableIsInjective'
    BY <2>1 DEF TableInv, TableIsInjective
  <2>5. BacklogOk'
    BY <1>2, <2>2 DEF TableInv, BacklogOk, TypeOK
  <2>6. \A j \in Slots' : /\ j \in Slots /\ list'[j] = list[j]
                          /\ list[j].slave \in Fd \ {list[i].slave, list[i].master}
                          /\ list[j].master \in Fd \ {list[i].slave, list[i].master}
                          /\ table'[list[j].slave] = table[list[j].slave]
                          /\ table'[list[j].master] = table[list[j].master]
                          /\ table[list[j].slave] # table[list[i].slave]
    <3>1. ASSUME NEW j \in Slots'
          PROVE  /\ j \in Slots /\ list'[j] = list[j]
                 /\ list[j].slave \in Fd \ {list[i].slave, list[i].master}
                 /\ list[j].master \in Fd \ {list[i].slave, list[i].master}
                 /\ table[list[j].slave] # table[list[i].slave]
      <4>1. j \in Slots \ {i} /\ list'[j] = list[j]
        BY <2>1
      <4>2. list[j].slave \in Fd /\ list[j].master \in Fd
        BY <4>1, SlotJoins
      <4>. QED
        BY <1>1, <4>1, <4>2, SlotJoins
    <3>. QED
      BY <2>1, <3>1
  <2>7. {n \in Fd : table'[n] # NoEnd} = UNION {{list'[j].master, list'[j].slave} : j \in Slots'}
    <3>1. \A n \in Fd : table[n] # NoEnd <=> \E j \in Slots : n = list[j].master \/ n = list[j].slave
      <4>1. \A j \in Slots : list[j].slave \in Fd /\ list[j].master \in Fd
        BY SlotJoins
      <4>2. {n \in Fd : table[n] # NoEnd} = UNION {{list[j].master, list[j].slave} : j \in Slots}
        BY DEF TableInv, TableMatchesSlots
      <4>. QED
        BY <4>1, <4>2, HeldBySlots
    <3>2. ASSUME NEW n \in Fd
          PROVE  table'[n] # NoEnd <=> \E j \in Slots' : n = list'[j].master \/ n = list'[j].slave
      <4>1. CASE n \in {list[i].slave, list[i].master}
        <5>1. table'[n] = NoEnd
          BY <2>1, <4>1
        <5>2. \A j \in Slots' : n # list'[j].master /\ n # list'[j].slave
          BY <2>6, <4>1
        <5>. QED
          BY <5>1, <5>2
      <4>2. CASE n \notin {list[i].slave, list[i].master}
        <5>1. table'[n] = table[n]
          BY <2>1, <4>2
        <5>2. \A j \in Slots : n = list[j].master \/ n = list[j].slave => j \in Slots'
          BY <2>1, <4>2
        <5>3. \A j \in Slots' : j \in Slots /\ list'[j] = list[j]
          BY <2>6
        <5>. QED
          BY <3>1, <5>1, <5>2, <5>3
      <4>. QED
        BY <4>1, <4>2
    <3>3. \A j \in Slots' : list'[j].slave \in Fd /\ list'[j].master \in Fd
      BY <2>6
    <3>. QED
      BY <3>2, <3>3, HeldBySlots
  <2>8. \A j \in Slots' : \E d \in Conns :
           /\ relay'[d] = "open" /\ table'[list'[j].slave] = Slave(d)
           /\ table'[list'[j].master] = Master(d)
    <3>1. ASSUME NEW j \in Slots'
          PROVE  \E d \in Conns : /\ relay'[d] = "open" /\ table'[list'[j].slave] = Slave(d)
                                  /\ table'[list'[j].master] = Master(d)
      <4>1. PICK d \in Conns : /\ relay[d] = "open" /\ table[list[j].slave] = Slave(d)
                               /\ table[list[j].master] = Master(d)
        BY <2>6, SlotJoins
      <4>2. d # c
        BY <2>2, <2>6, <4>1
      <4>3. relay'[d] = "open"
        BY <2>2, <4>1, <4>2 DEF TableInv, TypeOK
      <4>. QED
        BY <2>6, <4>1, <4>3
    <3>. QED
      BY <3>1
  <2>9. \A j, k \in Slots' : j # k => list'[j].slave # list'[k].slave
    BY <2>6 DEF TableInv, TableMatchesSlots
  <2>. QED
    BY <2>3, <2>4, <2>5, <2>7, <2>8, <2>9 DEF TableInv, TableMatchesSlots
<1>4. CASE \E n : WroteUp(i, n) \/ WroteDown(i, n) \/ TookUp(i, n) \/ TookDown(i, n)
  <2>1. PICK m : WroteUp(i, m) \/ WroteDown(i, m) \/ TookUp(i, m) \/ TookDown(i, m)
    BY <1>4
  <2>2. /\ UNCHANGED <<table, relay>>
        /\ Slots' = Slots /\ list' \in Seq(IO \cup {NoIO})
        /\ \A j \in Slots : list'[j].master = list[j].master /\ list'[j].slave = list[j].slave
        /\ inq' \in [Ends -> Seq(Token)] /\ out' \in [Ends -> Seq(Token)]
    BY <1>1, <2>1, MoveEffect
  <2>3. TypeOK' /\ TableIsInjective' /\ BacklogOk'
    BY <1>2, <2>2 DEF TableInv, TypeOK, TableIsInjective, BacklogOk
  <2>4. {n \in Fd : table'[n] # NoEnd} = UNION {{list'[j].master, list'[j].slave} : j \in Slots'}
    <3>1. UNION {{list'[j].master, list'[j].slave} : j \in Slots}
            = UNION {{list[j].master, list[j].slave} : j \in Slots}
      BY <2>2
    <3>2. {n \in Fd : table[n] # NoEnd} = UNION {{list[j].master, list[j].slave} : j \in Slots}
      BY DEF TableInv, TableMatchesSlots
    <3>. QED
      BY <2>2, <3>1, <3>2
  <2>5. \A j \in Slots' : \E d \in Conns :
           /\ relay'[d] = "open" /\ table'[list'[j].slave] = Slave(d)
           /\ table'[list'[j].master] = Master(d)
    <3>1. ASSUME NEW j \in Slots
          PROVE  \E d \in Conns : /\ relay'[d] = "open" /\ table'[list'[j].slave] = Slave(d)
                                  /\ table'[list'[j].master] = Master(d)
      <4>1. PICK d \in Conns : /\ relay[d] = "open" /\ table[list[j].slave] = Slave(d)
                               /\ table[list[j].master] = Master(d)
        BY SlotJoins
      <4>2. list'[j].master = list[j].master /\ list'[j].slave = list[j].slave
        BY <2>2
      <4>. QED
        BY <2>2, <4>1, <4>2
    <3>. QED
      BY <2>2, <3>1
  <2>6. \A j, k \in Slots' : j # k => list'[j].slave # list'[k].slave
    BY <2>2 DEF TableInv, TableMatchesSlots
  <2>7. TableMatchesSlots'
    BY <2>4, <2>5, <2>6 DEF TableMatchesSlots
  <2>. QED
    BY <2>3, <2>7 DEF TableInv
<1>. QED
  BY <1>1, <1>3, <1>4

(* What x11_handle_new does when the X server is connected: two numbers that *)
(* nobody has, and a slot of their own.                                     *)
Accepts(c, a, b) ==
  /\ a \in Fd /\ b \in Fd /\ a # b /\ table[a] = NoEnd /\ table[b] = NoEnd
  /\ table' = [[table EXCEPT ![a] = Slave(c)] EXCEPT ![b] = Master(c)]
  /\ list' = IoNew([master |-> b, slave |-> a, master_buf |-> <<>>,
                    slave_buf |-> <<>>, authenticated |-> FALSE])
  /\ relay' = [relay EXCEPT ![c] = "open"]

LEMMA NewSteps ==
  ASSUME TableInv, HandleNew
  PROVE  /\ UNCHANGED <<child, ctl, x11_fd, stray, key, sockets>> /\ ready' \subseteq ready
         /\ \E c \in backlog :
              /\ backlog' = backlog \ {c}
              /\ \/ \E a, b \in Fd : Accepts(c, a, b)
                 \/ /\ relay' = [relay EXCEPT ![c] = "refused"]
                    /\ UNCHANGED <<table, list>>
<1>. DEFINE a == LowestFd(table)
<1>1. PICK c \in backlog :
        LET t == [table EXCEPT ![a] = Slave(c)] IN
        /\ backlog' = backlog \ {c}
        /\ \E m \in X11Connect(t, c) :
             \/ /\ m.fd >= 0
                /\ table' = m.t
                /\ list' = IoNew([master |-> m.fd, slave |-> a,
                                  master_buf |-> <<>>, slave_buf |-> <<>>,
                                  authenticated |-> FALSE])
                /\ relay' = [relay EXCEPT ![c] = "open"]
             \/ /\ m.fd < 0
                /\ table' = [m.t EXCEPT ![a] = NoEnd]
                /\ relay' = [relay EXCEPT ![c] = "refused"]
                /\ UNCHANGED list
  BY DEF HandleNew
<1>. DEFINE t == [table EXCEPT ![a] = Slave(c)]
            b == LowestFd(t)
<1>2. table \in [Fd -> Ends \cup {NoEnd}] /\ c \in Conns
  BY DEF TableInv, TypeOK, BacklogOk
<1>3. PICK x \in Fd, y \in Fd : x # y /\ table[x] = NoEnd /\ table[y] = NoEnd
  BY RoomForTwo DEF TableInv
<1>4. a \in Fd /\ table[a] = NoEnd
  BY <1>3, LowestIsFree
<1>. HIDE DEF a
<1>5. \A n \in Fd \ {a} : t[n] = table[n]
  BY <1>2
<1>6. Slave(c) # NoEnd /\ t[a] = Slave(c)
  BY <1>2, <1>4, EndFacts
<1>7. b \in Fd /\ t[b] = NoEnd
  <2>1. \E n \in Fd : t[n] = NoEnd
    BY <1>3, <1>5
  <2>. HIDE DEF t
  <2>. QED
    BY <2>1, LowestIsFree
<1>. HIDE DEF b
<1>8. b # a /\ table[b] = NoEnd
  BY <1>5, <1>6, <1>7
<1>9. b >= 0
  BY <1>7, FdIsFinite DEF Fd
<1>10. X11Connect(t, c) = {[fd |-> b, t |-> [t EXCEPT ![b] = Master(c)]], [fd |-> -1, t |-> t]}
  BY DEF X11Connect, b
<1>11. PICK m \in X11Connect(t, c) :
         \/ /\ m.fd >= 0
            /\ table' = m.t
            /\ list' = IoNew([master |-> m.fd, slave |-> a,
                              master_buf |-> <<>>, slave_buf |-> <<>>,
                              authenticated |-> FALSE])
            /\ relay' = [relay EXCEPT ![c] = "open"]
         \/ /\ m.fd < 0
            /\ table' = [m.t EXCEPT ![a] = NoEnd]
            /\ relay' = [relay EXCEPT ![c] = "refused"]
            /\ UNCHANGED list
  BY <1>1
<1>12. CASE m = [fd |-> b, t |-> [t EXCEPT ![b] = Master(c)]]
  <2>1. m.fd = b /\ m.t = [t EXCEPT ![b] = Master(c)] /\ ~(b < 0)
    <3>1. b \in Int
      BY <1>7, FdIsFinite DEF Fd
    <3>. HIDE DEF t
    <3>. QED
      BY <1>9, <1>12, <3>1
  <2>2. Accepts(c, a, b)
    BY <1>4, <1>7, <1>8, <1>11, <2>1 DEF Accepts
  <2>. QED
    BY <1>1, <1>4, <1>7, <2>2 DEF HandleNew
<1>13. CASE m = [fd |-> -1, t |-> t]
  <2>1. m.fd = -1 /\ m.t = t /\ ~(-1 >= 0)
    BY <1>13
  <2>2. table' = [t EXCEPT ![a] = NoEnd] /\ relay' = [relay EXCEPT ![c] = "refused"] /\ UNCHANGED list
    BY <1>11, <2>1
  <2>3. table' = table
    BY <1>2, <1>4, <2>2
  <2>. QED
    BY <1>1, <2>2, <2>3 DEF HandleNew
<1>. QED
  BY <1>10, <1>11, <1>12, <1>13

LEMMA EndsHaveSlots ==
  ASSUME TableInv, NEW n \in Fd, table[n] # NoEnd
  PROVE  /\ \E j \in Slots : n \in {list[j].master, list[j].slave}
         /\ \E d \in Conns : relay[d] = "open" /\ table[n] \in {Slave(d), Master(d)}
<1>1. PICK j \in Slots : n \in {list[j].master, list[j].slave}
  BY DEF TableInv, TableMatchesSlots
<1>. QED
  BY <1>1, SlotJoins

(* The new slot takes what nobody has and leaves the others alone.           *)
Accepted(c, a, b, k) ==
  /\ list' \in Seq(IO \cup {NoIO})
  /\ k \notin Slots /\ Slots' = Slots \cup {k}
  /\ list'[k] = [master |-> b, slave |-> a, master_buf |-> <<>>,
                 slave_buf |-> <<>>, authenticated |-> FALSE]
  /\ \A j \in Slots : /\ list'[j] = list[j]
                      /\ list[j].slave \in Fd \ {a, b} /\ list[j].master \in Fd \ {a, b}
  /\ table' \in [Fd -> Ends \cup {NoEnd}]
  /\ table'[a] = Slave(c) /\ table'[b] = Master(c)
  /\ \A n \in Fd \ {a, b} : table'[n] = table[n]
  /\ \A n \in Fd : table[n] \notin {Slave(c), Master(c)}
  /\ relay' \in [Conns -> {"none", "open", "refused", "closed"}]
  /\ relay'[c] = "open" /\ \A d \in Conns : d # c => relay'[d] = relay[d]

LEMMA AcceptEffect ==
  ASSUME TableInv, NEW c \in backlog, \E a, b \in Fd : Accepts(c, a, b)
  PROVE  \E a, b \in Fd : \E k : Accepted(c, a, b, k)
<1>0. PICK a \in Fd, b \in Fd : Accepts(c, a, b)
  OBVIOUS
<1>1. c \in Conns /\ relay[c] = "none"
  BY DEF TableInv, BacklogOk
<1>. DEFINE io == [master |-> b, slave |-> a, master_buf |-> <<>>,
                   slave_buf |-> <<>>, authenticated |-> FALSE]
<1>2. io \in IO
  <2>1. <<>> \in Seq(Token)
    BY EmptySeq
  <2>. QED
    BY <2>1 DEF IO
<1>3. list' = IoNew(io)
  BY <1>0 DEF Accepts
<1>4. /\ list' \in Seq(IO \cup {NoIO})
      /\ \E k \in DOMAIN list' :
           /\ k \notin Slots /\ list'[k] = io
           /\ {j \in DOMAIN list' : list'[j] # NoIO} = Slots \cup {k}
           /\ \A j \in Slots : list'[j] = list[j]
  <2>1. TypeOK
    BY DEF TableInv
  <2>. HIDE DEF io
  <2>. QED
    BY <1>2, <1>3, <2>1, NewSlot
<1>5. PICK k : /\ k \notin Slots /\ list'[k] = io /\ Slots' = Slots \cup {k}
               /\ \A j \in Slots : list'[j] = list[j]
  <2>. HIDE DEF io
  <2>. QED
    BY <1>4 DEF Slots
<1>6. /\ table' \in [Fd -> Ends \cup {NoEnd}]
      /\ table'[a] = Slave(c) /\ table'[b] = Master(c)
      /\ \A n \in Fd \ {a, b} : table'[n] = table[n]
  <2>1. table \in [Fd -> Ends \cup {NoEnd}]
    BY DEF TableInv, TypeOK
  <2>2. Slave(c) \in Ends /\ Master(c) \in Ends
    BY <1>1, EndFacts
  <2>3. a # b /\ table' = [[table EXCEPT ![a] = Slave(c)] EXCEPT ![b] = Master(c)]
    BY <1>0 DEF Accepts
  <2>. QED
    BY <2>1, <2>2, <2>3
<1>7. /\ relay' \in [Conns -> {"none", "open", "refused", "closed"}]
      /\ relay'[c] = "open" /\ \A d \in Conns : d # c => relay'[d] = relay[d]
  BY <1>0, <1>1 DEF Accepts, TableInv, TypeOK
<1>8. \A n \in Fd : table[n] \notin {Slave(c), Master(c)}
  <2>1. ASSUME NEW n \in Fd, table[n] \in {Slave(c), Master(c)} PROVE FALSE
    <3>1. table[n] # NoEnd
      BY <1>1, <2>1, EndFacts
    <3>2. PICK d \in Conns : relay[d] = "open" /\ table[n] \in {Slave(d), Master(d)}
      BY <3>1, EndsHaveSlots
    <3>. QED
      BY <1>1, <2>1, <3>2, EndFacts
  <2>. QED
    BY <2>1
<1>9. \A j \in Slots : /\ list'[j] = list[j]
                       /\ list[j].slave \in Fd \ {a, b} /\ list[j].master \in Fd \ {a, b}
  <2>1. ASSUME NEW j \in Slots
        PROVE  /\ list'[j] = list[j]
               /\ list[j].slave \in Fd \ {a, b} /\ list[j].master \in Fd \ {a, b}
    <3>1. /\ list[j].slave \in Fd /\ list[j].master \in Fd
          /\ \E d \in Conns : table[list[j].slave] = Slave(d) /\ table[list[j].master] = Master(d)
      BY SlotJoins
    <3>2. table[list[j].slave] # NoEnd /\ table[list[j].master] # NoEnd
      BY <3>1, EndFacts
    <3>3. table[a] = NoEnd /\ table[b] = NoEnd
      BY <1>0 DEF Accepts
    <3>. QED
      BY <1>5, <3>1, <3>2, <3>3
  <2>. QED
    BY <2>1
<1>10. Accepted(c, a, b, k)
  BY <1>4, <1>5, <1>6, <1>7, <1>8, <1>9 DEF Accepted
<1>. QED
  BY <1>10

LEMMA NewKeepsTable ==
  ASSUME TableInv, HandleNew
  PROVE  TableInv'
<1>1. PICK c \in backlog :
        /\ backlog' = backlog \ {c}
        /\ \/ \E a, b \in Fd : Accepts(c, a, b)
           \/ relay' = [relay EXCEPT ![c] = "refused"] /\ UNCHANGED <<table, list>>
  BY NewSteps
<1>2. UNCHANGED <<kind, whole, sent, inq, out>>
  BY NewSteps DEF sockets
<1>3. c \in Conns /\ relay[c] = "none"
  BY DEF TableInv, BacklogOk
<1>4. CASE relay' = [relay EXCEPT ![c] = "refused"] /\ UNCHANGED <<table, list>>
  <2>1. Slots' = Slots
    BY <1>4 DEF Slots
  <2>2. TypeOK' /\ TableIsInjective' /\ BacklogOk'
    BY <1>1, <1>2, <1>3, <1>4 DEF TableInv, TypeOK, TableIsInjective, BacklogOk
  <2>3. \A d \in Conns : relay[d] = "open" => relay'[d] = "open"
    BY <1>3, <1>4 DEF TableInv, TypeOK
  <2>4. TableMatchesSlots'
    BY <1>4, <2>1, <2>3 DEF TableInv, TableMatchesSlots
  <2>. QED
    BY <2>2, <2>4 DEF TableInv
<1>5. CASE \E a, b \in Fd : Accepts(c, a, b)
  <2>0. PICK a \in Fd, b \in Fd : \E k : Accepted(c, a, b, k)
    BY <1>5, AcceptEffect
  <2>1. PICK k : Accepted(c, a, b, k)
    BY <2>0
  <2>2. /\ list' \in Seq(IO \cup {NoIO})
        /\ \A j \in Slots : /\ list'[j] = list[j]
                            /\ list[j].slave \in Fd \ {a, b} /\ list[j].master \in Fd \ {a, b}
        /\ table' \in [Fd -> Ends \cup {NoEnd}]
        /\ table'[a] = Slave(c) /\ table'[b] = Master(c)
        /\ \A n \in Fd \ {a, b} : table'[n] = table[n]
        /\ \A n \in Fd : table[n] \notin {Slave(c), Master(c)}
        /\ relay' \in [Conns -> {"none", "open", "refused", "closed"}]
        /\ relay'[c] = "open" /\ \A d \in Conns : d # c => relay'[d] = relay[d]
    BY <2>1 DEF Accepted
  <2>3. /\ k \notin Slots /\ Slots' = Slots \cup {k}
        /\ list'[k].slave = a /\ list'[k].master = b
    BY <2>1 DEF Accepted
  <2>4. TypeOK' /\ BacklogOk'
    BY <1>1, <1>2, <2>2 DEF TableInv, TypeOK, BacklogOk
  <2>5. TableIsInjective'
    <3>1. ASSUME NEW x \in Fd, NEW y \in Fd, table'[x] = table'[y], table'[x] # NoEnd
          PROVE  x = y
      <4>1. Slave(c) # Master(c)
        BY EndFacts
      <4>2. ASSUME NEW n \in Fd \ {a, b}
            PROVE  table'[n] = table[n] /\ table'[n] # table'[a] /\ table'[n] # table'[b]
        BY <2>2, <4>2
      <4>3. CASE x \in {a, b} /\ y \in {a, b}
        BY <2>2, <3>1, <4>1, <4>3
      <4>4. CASE x \notin {a, b} /\ y \notin {a, b}
        <5>1. table[x] = table[y] /\ table[x] # NoEnd
          BY <3>1, <4>2, <4>4
        <5>. QED
          BY <5>1 DEF TableInv, TableIsInjective
      <4>. QED
        BY <3>1, <4>2, <4>3, <4>4
    <3>. QED
      BY <3>1 DEF TableIsInjective
  <2>6. {n \in Fd : table'[n] # NoEnd} = UNION {{list'[j].master, list'[j].slave} : j \in Slots'}
    <3>1. \A n \in Fd : table[n] # NoEnd <=> \E j \in Slots : n = list[j].master \/ n = list[j].slave
      <4>1. \A j \in Slots : list[j].slave \in Fd /\ list[j].master \in Fd
        BY SlotJoins
      <4>2. {n \in Fd : table[n] # NoEnd} = UNION {{list[j].master, list[j].slave} : j \in Slots}
        BY DEF TableInv, TableMatchesSlots
      <4>. QED
        BY <4>1, <4>2, HeldBySlots
    <3>2. table'[a] # NoEnd /\ table'[b] # NoEnd
      BY <1>3, <2>2, EndFacts
    <3>3. ASSUME NEW n \in Fd
          PROVE  table'[n] # NoEnd <=> \E j \in Slots' : n = list'[j].master \/ n = list'[j].slave
      <4>1. CASE n \in {a, b}
        BY <2>3, <3>2, <4>1
      <4>2. CASE n \notin {a, b}
        <5>1. table'[n] = table[n]
          BY <2>2, <4>2
        <5>2. n # list'[k].master /\ n # list'[k].slave
          BY <2>3, <4>2
        <5>3. \A j \in Slots : list'[j] = list[j]
          BY <2>2
        <5>. QED
          BY <2>3, <3>1, <5>1, <5>2, <5>3
      <4>. QED
        BY <4>1, <4>2
    <3>4. \A j \in Slots' : list'[j].slave \in Fd /\ list'[j].master \in Fd
      BY <2>2, <2>3
    <3>. QED
      BY <3>3, <3>4, HeldBySlots
  <2>7. \A j \in Slots' : \E d \in Conns :
           /\ relay'[d] = "open" /\ table'[list'[j].slave] = Slave(d)
           /\ table'[list'[j].master] = Master(d)
    <3>1. ASSUME NEW j \in Slots
          PROVE  \E d \in Conns : /\ relay'[d] = "open" /\ table'[list'[j].slave] = Slave(d)
                                  /\ table'[list'[j].master] = Master(d)
      <4>1. PICK d \in Conns : /\ relay[d] = "open" /\ table[list[j].slave] = Slave(d)
                               /\ table[list[j].master] = Master(d)
        BY SlotJoins
      <4>2. list'[j] = list[j] /\ list[j].slave \in Fd \ {a, b} /\ list[j].master \in Fd \ {a, b}
        BY <2>2
      <4>3. /\ table'[list[j].slave] = table[list[j].slave]
            /\ table'[list[j].master] = table[list[j].master]
            /\ table[list[j].slave] # Slave(c)
        BY <2>2, <4>2
      <4>4. d # c
        BY <4>1, <4>3
      <4>5. relay'[d] = "open"
        BY <2>2, <4>1, <4>4
      <4>. QED
        BY <4>1, <4>2, <4>3, <4>5
    <3>2. relay'[c] = "open" /\ table'[list'[k].slave] = Slave(c) /\ table'[list'[k].master] = Master(c)
      BY <2>2, <2>3
    <3>. QED
      BY <1>3, <2>3, <3>1, <3>2
  <2>8. \A i, j \in Slots' : i # j => list'[i].slave # list'[j].slave
    BY <2>2, <2>3 DEF TableInv, TableMatchesSlots
  <2>. QED
    BY <2>4, <2>5, <2>6, <2>7, <2>8 DEF TableInv, TableMatchesSlots
<1>. QED
  BY <1>1, <1>4, <1>5

(* A program or the X server sends the next tokens of its stream.            *)
LEMMA SendEffect ==
  ASSUME TypeOK, NEW e \in Ends, Send(e)
  PROVE  /\ inq' \in [Ends -> Seq(Token)] /\ sent' \in [Ends -> Nat] /\ whole' \subseteq Conns
         /\ \E n \in Nat \ {0} :
              /\ n <= Len(Stream(e)) - sent[e]
              /\ inq' = [inq EXCEPT ![e] = inq[e] \o SubSeq(Stream(e), sent[e] + 1, sent[e] + n)]
              /\ sent' = [sent EXCEPT ![e] = sent[e] + n]
              /\ whole' = IF /\ e[2] = "slave" /\ sent[e] = 0
                             /\ n >= Len(FirstPacket(kind[e[1]]))
                          THEN whole \cup {e[1]} ELSE whole
<1>1. Stream(e) \in Seq(Token) /\ Len(Stream(e)) \in Nat /\ \A k \in 1..Len(Stream(e)) : Stream(e)[k] \in Token
  BY StreamType, LenProperties, ElementOfSeq
<1>2. sent[e] \in Nat /\ inq[e] \in Seq(Token)
  BY DEF TypeOK
<1>3. PICK n \in 1..Len(Stream(e)) - sent[e] :
        /\ inq' = [inq EXCEPT ![e] = @ \o SubSeq(Stream(e), sent[e] + 1, sent[e] + n)]
        /\ sent' = [sent EXCEPT ![e] = @ + n]
        /\ whole' = IF e[2] = "slave" /\ sent[e] = 0 /\ n >= Len(FirstPacket(kind[e[1]]))
                    THEN whole \cup {e[1]} ELSE whole
  BY DEF Send
<1>4. n \in Nat \ {0} /\ n <= Len(Stream(e)) - sent[e]
  BY <1>1, <1>2, <1>3
<1>5. SubSeq(Stream(e), sent[e] + 1, sent[e] + n) \in Seq(Token)
  <2>. DEFINE s == Stream(e)
              l == sent[e] + 1
              m == sent[e] + n
  <2>1. l \in Int /\ m \in Int
    BY <1>2, <1>4
  <2>2. \A k \in l..m : s[k] \in Token
    BY <1>1, <1>2, <1>4
  <2>. HIDE DEF s, l, m
  <2>3. SubSeq(s, l, m) \in Seq(Token)
    BY <2>1, <2>2, SubSeqProperties
  <2>. QED
    BY <2>3 DEF s, l, m
<1>6. inq[e] \o SubSeq(Stream(e), sent[e] + 1, sent[e] + n) \in Seq(Token)
  BY <1>2, <1>5, Joined
<1>7. inq' \in [Ends -> Seq(Token)]
  BY <1>3, <1>6 DEF TypeOK
<1>8. sent' \in [Ends -> Nat]
  <2>1. sent[e] + n \in Nat
    BY <1>2, <1>4
  <2>. QED
    BY <1>3, <2>1 DEF TypeOK
<1>9. whole' \subseteq Conns
  BY <1>3, EndFacts DEF TypeOK
<1>. QED
  BY <1>3, <1>4, <1>7, <1>8, <1>9

LEMMA TableIsKept ==
  ASSUME TableInv, [Next]_vars
  PROVE  TableInv'
<1>. USE DEF TableInv
<1>1. CASE \E i \in DOMAIN list : WriteSlave(i) \/ ReadMaster(i) \/ WriteMaster(i) \/ ReadSlave(i)
  BY <1>1, SlotsKeepTable
<1>2. CASE HandleNew
  BY <1>2, NewKeepsTable
<1>3. ASSUME UNCHANGED <<list, table, relay>> PROVE TableIsInjective' /\ TableMatchesSlots'
  BY <1>3 DEF TableIsInjective, TableMatchesSlots, Slots
<1>4. ASSUME UNCHANGED <<list, table, relay, kind, whole, sent, inq, out>> PROVE TypeOK'
  BY <1>4 DEF TypeOK
<1>5. ASSUME UNCHANGED <<relay, backlog>> PROVE BacklogOk'
  BY <1>5 DEF BacklogOk
<1>6. CASE Select \/ ChildDies \/ HandleCtl \/ ChildSends
  BY <1>3, <1>4, <1>5, <1>6 DEF Select, ChildDies, HandleCtl, ChildSends, sockets
<1>7. CASE \E c \in Conns : Connect(c)
  <2>1. PICK c \in Conns : Connect(c)
    BY <1>7
  <2>2. /\ UNCHANGED <<list, table, relay, whole, sent, inq, out>>
        /\ backlog' = backlog \cup {c} /\ relay[c] = "none"
        /\ \E k \in Kinds[c] : kind' = [kind EXCEPT ![c] = k]
    BY <2>1 DEF Connect
  <2>3. kind' \in [Conns -> {"fake", "wrong", "bare", "junk"}]
    <3>1. Kinds[c] \subseteq {"fake", "wrong", "bare", "junk"}
      OBVIOUS
    <3>. QED
      BY <2>2, <3>1 DEF TypeOK
  <2>4. TypeOK'
    BY <2>2, <2>3 DEF TypeOK
  <2>5. BacklogOk'
    BY <2>2 DEF BacklogOk
  <2>. QED
    BY <1>3, <2>2, <2>4, <2>5
<1>8. CASE \E e \in Ends : Send(e)
  <2>1. PICK e \in Ends : Send(e)
    BY <1>8
  <2>2. UNCHANGED <<backlog, list, table, relay, kind, out>>
    BY <2>1 DEF Send
  <2>3. inq' \in [Ends -> Seq(Token)] /\ sent' \in [Ends -> Nat] /\ whole' \subseteq Conns
    BY <2>1, SendEffect
  <2>4. TypeOK'
    BY <2>2, <2>3 DEF TypeOK
  <2>. QED
    BY <1>3, <1>5, <2>2, <2>4
<1>9. CASE \E e \in Ends : Shut(e) \/ Drain(e)
  <2>1. UNCHANGED <<backlog, list, table, relay, kind, whole, sent, inq, out>>
    BY <1>9 DEF Shut, Drain
  <2>. QED
    BY <1>3, <1>4, <1>5, <2>1
<1>10. CASE UNCHANGED vars
  BY <1>3, <1>4, <1>5, <1>10 DEF vars, sockets
<1>. QED
  BY <1>1, <1>2, <1>6, <1>7, <1>8, <1>9, <1>10 DEF Next

-----------------------------------------------------------------------------
(***************************************************************************)
(* What pselect has said stays true until it is used.                      *)
(***************************************************************************)
LEMMA SelectTellsTruth ==
  ASSUME TableInv, Select
  PROVE  ReadyOk'
<1>. DEFINE Kind == {"r", "w", "listen", "ctl"}
<1>1. ready' = ReadyNow /\ UNCHANGED <<table, full, shut>>
  BY DEF Select, sockets
<1>2. ASSUME NEW r \in ReadyFds
      PROVE  /\ r \in Fd \X {"r", "w"} /\ table[r[1]] # NoEnd
             /\ r[2] = "w" => Writable(table[r[1]])
  <2>1. PICK i \in Slots : r \in Watched(list[i])
    BY DEF ReadyFds
  <2>2. r \in {list[i].slave, list[i].master} \X {"r", "w"}
    BY <2>1 DEF Watched
  <2>3. /\ list[i].slave \in Fd /\ list[i].master \in Fd
        /\ \E c \in Conns : table[list[i].slave] = Slave(c) /\ table[list[i].master] = Master(c)
    BY SlotJoins
  <2>4. table[list[i].slave] # NoEnd /\ table[list[i].master] # NoEnd
    BY <2>3, EndFacts
  <2>5. r[2] = "w" => Writable(table[r[1]])
    BY DEF ReadyFds
  <2>. QED
    BY <2>2, <2>3, <2>4, <2>5
<1>3. ASSUME NEW r \in ReadyNow
      PROVE  r \in ReadyFds \/ r \in {<<-1, "listen">>, <<-1, "ctl">>}
  BY DEF ReadyNow
<1>4. ASSUME NEW r \in ReadyNow
      PROVE  /\ r \in (Fd \cup {-1}) \X Kind
             /\ r[2] = "w" => r[1] \in Fd /\ table[r[1]] # NoEnd /\ Writable(table[r[1]])
  <2>1. CASE r \in ReadyFds
    BY <1>2, <2>1
  <2>2. CASE r \in {<<-1, "listen">>, <<-1, "ctl">>}
    BY <2>2
  <2>. QED
    BY <1>3, <2>1, <2>2
<1>. HIDE DEF Kind
<1>5. ready' \subseteq (Fd \cup {-1}) \X Kind
  BY <1>1, <1>4
<1>6. \A r \in ready' : r[2] = "w" =>
        r[1] \in Fd /\ table'[r[1]] # NoEnd /\ (table'[r[1]] \notin full' \/ table'[r[1]] \in shut')
  BY <1>1, <1>4 DEF Writable
<1>. QED
  BY <1>5, <1>6 DEF ReadyOk, Writable, Kind

LEMMA ReadyIsKept ==
  ASSUME TableInv, ReadyOk, [Next]_vars
  PROVE  ReadyOk'
<1>1. ASSUME ready' \subseteq ready,
             \A r \in ready' : r[2] = "w" =>
               /\ table'[r[1]] = table[r[1]]
               /\ table[r[1]] \notin full' \ full
               /\ table[r[1]] \notin shut \ shut'
      PROVE  ReadyOk'
  <2>1. \A r \in ready' : r[2] = "w" =>
          r[1] \in Fd /\ table'[r[1]] # NoEnd /\ (table'[r[1]] \notin full' \/ table'[r[1]] \in shut')
    BY <1>1 DEF ReadyOk, Writable
  <2>2. ready' \subseteq (Fd \cup {-1}) \X {"r", "w", "listen", "ctl"}
    BY <1>1 DEF ReadyOk
  <2>. QED
    BY <2>1, <2>2 DEF ReadyOk, Writable
<1>2. CASE \E i \in DOMAIN list : WriteSlave(i) \/ ReadMaster(i) \/ WriteMaster(i) \/ ReadSlave(i)
  <2>1. PICK i \in Slots : /\ UNCHANGED relayed
                           /\ \/ Frees(i)
                              \/ \E n : WroteUp(i, n) \/ WroteDown(i, n) \/ TookUp(i, n) \/ TookDown(i, n)
    BY <1>2, SlotSteps DEF TableInv
  <2>2. UNCHANGED shut
    BY <2>1 DEF relayed
  <2>3. list[i].slave \in Fd /\ list[i].master \in Fd
    BY SlotJoins
  <2>4. CASE Frees(i)
    <3>1. /\ \A n \in Fd : table'[n] = IF n \in {list[i].slave, list[i].master} THEN NoEnd
                                       ELSE table[n]
          /\ ready' = {r \in ready : r[1] \notin {list[i].master, list[i].slave}}
          /\ UNCHANGED full
      BY <2>4, FreeEffect DEF Frees
    <3>2. \A r \in ready' : r[2] = "w" => table'[r[1]] = table[r[1]]
      BY <3>1 DEF ReadyOk
    <3>. QED
      BY <1>1, <2>2, <3>1, <3>2
  <2>5. ASSUME NEW fd \in {list[i].slave, list[i].master},
               ready' = ready \ {<<fd, "w">>}, full' \in {full, full \cup {table[fd]}},
               UNCHANGED table
        PROVE  ReadyOk'
    <3>1. ASSUME NEW r \in ready', r[2] = "w" PROVE table[r[1]] # table[fd]
      <4>1. r \in (Fd \cup {-1}) \X {"r", "w", "listen", "ctl"} /\ r # <<fd, "w">>
        BY <2>5, <3>1 DEF ReadyOk
      <4>2. r[1] # fd /\ r[1] \in Fd /\ table[r[1]] # NoEnd
        BY <2>5, <3>1, <4>1 DEF ReadyOk
      <4>. QED
        BY <2>3, <4>2 DEF TableInv, TableIsInjective
    <3>. QED
      BY <1>1, <2>2, <2>5, <3>1
  <2>6. CASE \E n : WroteUp(i, n) \/ WroteDown(i, n)
    BY <2>5, <2>6 DEF WroteUp, WroteDown
  <2>7. CASE \E n : TookUp(i, n) \/ TookDown(i, n)
    <3>1. ready' \subseteq ready /\ UNCHANGED <<table, full>>
      BY <2>7 DEF TookUp, TookDown
    <3>. QED
      BY <1>1, <2>2, <3>1
  <2>. QED
    BY <2>1, <2>4, <2>6, <2>7
<1>3. CASE HandleNew
  <2>1. /\ UNCHANGED <<full, shut>> /\ ready' \subseteq ready
        /\ \E c \in backlog : \/ \E a, b \in Fd : Accepts(c, a, b)
                              \/ UNCHANGED table
    BY <1>3, NewSteps DEF sockets
  <2>2. \A r \in ready' : r[2] = "w" => table'[r[1]] = table[r[1]]
    <3>1. CASE UNCHANGED table
      BY <3>1
    <3>2. CASE \E c \in backlog : \E a, b \in Fd : Accepts(c, a, b)
      <4>1. PICK c \in backlog, a \in Fd, b \in Fd : Accepts(c, a, b)
        BY <3>2
      <4>2. \A n \in Fd \ {a, b} : table'[n] = table[n]
        BY <4>1 DEF Accepts, TableInv, TypeOK
      <4>3. \A r \in ready' : r[2] = "w" => r[1] \in Fd \ {a, b}
        BY <2>1, <4>1 DEF ReadyOk, Accepts
      <4>. QED
        BY <4>2, <4>3
    <3>. QED
      BY <2>1, <3>1, <3>2
  <2>. QED
    BY <1>1, <2>1, <2>2
<1>4. CASE Select
  BY <1>4, SelectTellsTruth
<1>5. CASE \/ ChildDies \/ HandleCtl \/ ChildSends
           \/ \E c \in Conns : Connect(c)
           \/ \E e \in Ends : Send(e) \/ Shut(e) \/ Drain(e)
           \/ UNCHANGED vars
  <2>1. /\ ready' \subseteq ready /\ UNCHANGED table
        /\ full' \subseteq full /\ shut \subseteq shut'
    BY <1>5 DEF ChildDies, HandleCtl, ChildSends, Connect, Send, Shut, Drain, vars, sockets
  <2>. QED
    BY <1>1, <2>1
<1>. QED
  BY <1>2, <1>3, <1>4, <1>5 DEF Next

(* Whoever frees a connection has seen one of its ends closed.               *)
LEMMA BreaksAreKept ==
  ASSUME TableInv, ReadyOk, OnlyPeersBreak, [Next]_vars
  PROVE  OnlyPeersBreak'
<1>1. ASSUME shut \subseteq shut',
             \A c \in Conns : relay'[c] = "closed" =>
               relay[c] = "closed" \/ {Slave(c), Master(c)} \cap shut # {}
      PROVE  OnlyPeersBreak'
  BY <1>1 DEF OnlyPeersBreak
<1>2. CASE \E i \in DOMAIN list : WriteSlave(i) \/ ReadMaster(i) \/ WriteMaster(i) \/ ReadSlave(i)
  <2>1. PICK i \in Slots : /\ UNCHANGED relayed
                           /\ \/ Frees(i)
                              \/ \E n : WroteUp(i, n) \/ WroteDown(i, n) \/ TookUp(i, n) \/ TookDown(i, n)
    BY <1>2, SlotSteps DEF TableInv
  <2>2. UNCHANGED shut
    BY <2>1 DEF relayed
  <2>3. CASE Frees(i)
    <3>1. PICK c \in Conns :
            /\ table[list[i].slave] = Slave(c) /\ table[list[i].master] = Master(c)
            /\ relay' = [relay EXCEPT ![c] = "closed"]
      BY <2>3, FreeEffect DEF Frees
    <3>2. PICK fd \in {list[i].slave, list[i].master} :
            \/ table[fd] \in shut
            \/ <<fd, "w">> \in ready /\ table[fd] \in full
      BY <2>3 DEF Frees
    <3>3. table[fd] \in shut
      <4>1. ASSUME <<fd, "w">> \in ready PROVE Writable(table[fd])
        BY <4>1 DEF ReadyOk
      <4>. QED
        BY <3>2, <4>1 DEF Writable
    <3>4. {Slave(c), Master(c)} \cap shut # {}
      BY <3>1, <3>2, <3>3
    <3>. QED
      BY <1>1, <2>2, <3>1, <3>4 DEF TableInv, TypeOK
  <2>4. CASE \E n : WroteUp(i, n) \/ WroteDown(i, n) \/ TookUp(i, n) \/ TookDown(i, n)
    BY <1>1, <2>2, <2>4 DEF WroteUp, WroteDown, TookUp, TookDown
  <2>. QED
    BY <2>1, <2>3, <2>4
<1>3. CASE HandleNew
  <2>1. PICK c \in backlog : \/ \E a, b \in Fd : Accepts(c, a, b)
                             \/ relay' = [relay EXCEPT ![c] = "refused"]
    BY <1>3, NewSteps
  <2>2. \A d \in Conns : relay'[d] = "closed" => relay[d] = "closed"
    BY <2>1 DEF Accepts, TableInv, TypeOK
  <2>3. UNCHANGED shut
    BY <1>3, NewSteps DEF sockets
  <2>. QED
    BY <1>1, <2>2, <2>3
<1>4. CASE \/ Select \/ ChildDies \/ HandleCtl \/ ChildSends
           \/ \E c \in Conns : Connect(c)
           \/ \E e \in Ends : Send(e) \/ Shut(e) \/ Drain(e)
           \/ UNCHANGED vars
  <2>1. UNCHANGED relay /\ shut \subseteq shut'
    BY <1>4 DEF Select, ChildDies, HandleCtl, ChildSends, Connect, Send, Shut, Drain, vars, sockets
  <2>. QED
    BY <1>1, <2>1
<1>. QED
  BY <1>2, <1>3, <1>4 DEF Next

-----------------------------------------------------------------------------
(***************************************************************************)
(* The fake key on its way.                                                *)
(***************************************************************************)
KeyInv == NotYetSent /\ FirstReadOk /\ FakeIsReplaced

LEMMA FakeFreePieces ==
  ASSUME NEW s \in Seq(Token), NEW n \in 0..Len(s), NEW c, FakeFree(s, c)
  PROVE  FakeFree(SubSeq(s, 1, n), c) /\ FakeFree(SubSeq(s, n + 1, Len(s)), c)
<1>1. Len(s) \in Nat /\ \A k \in 1..Len(s) : s[k] # <<c, "fake">>
  BY LenProperties DEF FakeFree
<1>2. FakeFree(SubSeq(s, 1, n), c)
  <2>1. \A k \in 1..n : k \in 1..Len(s)
    BY <1>1
  <2>2. DOMAIN SubSeq(s, 1, n) = 1..n /\ \A k \in 1..n : SubSeq(s, 1, n)[k] = s[k]
    BY Pieces
  <2>. QED
    BY <1>1, <2>1, <2>2 DEF FakeFree
<1>3. FakeFree(SubSeq(s, n + 1, Len(s)), c)
  <2>1. \A k \in 1..(Len(s) - n) : n + k \in 1..Len(s)
    BY <1>1
  <2>2. /\ DOMAIN SubSeq(s, n + 1, Len(s)) = 1..(Len(s) - n)
        /\ \A k \in 1..(Len(s) - n) : SubSeq(s, n + 1, Len(s))[k] = s[n + k]
    BY Pieces
  <2>. QED
    BY <1>1, <2>1, <2>2 DEF FakeFree
<1>. QED
  BY <1>2, <1>3

LEMMA FakeFreeJoined ==
  ASSUME NEW s \in Seq(Token), NEW t \in Seq(Token), NEW c, FakeFree(t, c)
  PROVE  /\ FakeFree(s, c) => FakeFree(s \o t, c)
         /\ Presents(s, c) => Presents(s \o t, c)
<1>1. /\ Len(s) \in Nat /\ Len(t) \in Nat /\ DOMAIN s = 1..Len(s)
      /\ \A k \in 1..Len(t) : t[k] # <<c, "fake">>
      /\ DOMAIN (s \o t) = 1..(Len(s) + Len(t)) /\ Len(s \o t) = Len(s) + Len(t)
      /\ \A k \in 1..Len(s) + Len(t) :
           (s \o t)[k] = IF k <= Len(s) THEN s[k] ELSE t[k - Len(s)]
  BY LenProperties, Joined DEF FakeFree
<1>2. ASSUME NEW k \in 1..Len(s) + Len(t), (s \o t)[k] = <<c, "fake">>
      PROVE  k \in 1..Len(s) /\ s[k] = <<c, "fake">>
  <2>1. CASE k <= Len(s)
    BY <1>1, <1>2, <2>1
  <2>2. CASE ~(k <= Len(s))
    <3>1. k - Len(s) \in 1..Len(t)
      BY <1>1, <2>2
    <3>2. (s \o t)[k] = t[k - Len(s)]
      BY <1>1, <2>2
    <3>. QED
      BY <1>1, <1>2, <3>1, <3>2
  <2>. QED
    BY <2>1, <2>2
<1>3. FakeFree(s, c) => FakeFree(s \o t, c)
  BY <1>1, <1>2 DEF FakeFree
<1>4. ASSUME Presents(s, c) PROVE Presents(s \o t, c)
  <2>1. /\ Len(s) >= 2 /\ s[1] = <<c, "hdr">> /\ s[2] = <<c, "fake">>
        /\ \A n \in 1..Len(s) : n > 2 => s[n] # <<c, "fake">>
    BY <1>1, <1>4 DEF Presents
  <2>2. Len(s \o t) >= 2 /\ (s \o t)[1] = s[1] /\ (s \o t)[2] = s[2]
    BY <1>1, <2>1
  <2>3. \A n \in DOMAIN (s \o t) : n > 2 => (s \o t)[n] # <<c, "fake">>
    BY <1>1, <1>2, <2>1
  <2>. QED
    BY <2>1, <2>2, <2>3 DEF Presents
<1>. QED
  BY <1>3, <1>4

(* The first read finds the fake key behind the header and replaces it.      *)
LEMMA FirstReadReplaces ==
  ASSUME NEW q \in Seq(Token), NEW c, Presents(q, c), NEW io \in IO,
         ~io.authenticated, io.slave_buf = SubSeq(q, 1, 2)
  PROVE  /\ FakeFree(CheckAuth(io).slave_buf, c)
         /\ FakeFree(SubSeq(q, 3, Len(q)), c)
<1>1. /\ Len(q) \in Nat /\ Len(q) >= 2 /\ q[1] = <<c, "hdr">> /\ q[2] = <<c, "fake">>
      /\ \A n \in 1..Len(q) : n > 2 => q[n] # <<c, "fake">>
  BY LenProperties DEF Presents
<1>. DEFINE b == io.slave_buf
<1>2. 2 \in 0..Len(q)
  BY <1>1
<1>3. /\ b \in Seq(Token) /\ DOMAIN b = 1..2 /\ Len(b) = 2
      /\ b[1] = <<c, "hdr">> /\ b[2] = <<c, "fake">>
  <2>1. /\ SubSeq(q, 1, 2) \in Seq(Token) /\ DOMAIN SubSeq(q, 1, 2) = 1..2
        /\ Len(SubSeq(q, 1, 2)) = 2
        /\ \A k \in 1..2 : SubSeq(q, 1, 2)[k] = q[k]
    BY <1>2, Pieces
  <2>. QED
    BY <1>1, <2>1
<1>4. PresentsFake(b)
  BY <1>3 DEF PresentsFake
<1>5. CheckAuth(io).slave_buf = WithRealKey(b)
  BY <1>4 DEF CheckAuth, IO
<1>6. FakeFree(WithRealKey(b), c)
  <2>. HIDE DEF b
  <2>1. DOMAIN WithRealKey(b) = 1..2
    BY <1>3 DEF WithRealKey
  <2>2. WithRealKey(b)[1] = <<c, "hdr">> /\ WithRealKey(b)[2] = <<c, "real">>
    BY <1>3 DEF WithRealKey
  <2>3. \A n \in 1..2 : n = 1 \/ n = 2
    OBVIOUS
  <2>. QED
    BY <2>1, <2>2, <2>3 DEF FakeFree
<1>7. FakeFree(SubSeq(q, 3, Len(q)), c)
  <2>1. /\ DOMAIN SubSeq(q, 2 + 1, Len(q)) = 1..(Len(q) - 2)
        /\ \A k \in 1..(Len(q) - 2) : SubSeq(q, 2 + 1, Len(q))[k] = q[2 + k]
    BY <1>2, Pieces
  <2>2. \A k \in 1..(Len(q) - 2) : 2 + k \in 1..Len(q) /\ 2 + k > 2
    BY <1>1
  <2>3. 2 + 1 = 3
    OBVIOUS
  <2>. QED
    BY <1>1, <2>1, <2>2, <2>3 DEF FakeFree
<1>. QED
  BY <1>5, <1>6, <1>7

(* What a program sends of a stream that presents the fake key.              *)
LEMMA SentPiece ==
  ASSUME NEW s \in Seq(Token), NEW c, Presents(s, c),
         NEW m \in Nat, NEW n \in Nat \ {0}, n <= Len(s) - m
  PROVE  /\ SubSeq(s, m + 1, m + n) \in Seq(Token)
         /\ m >= 2 => FakeFree(SubSeq(s, m + 1, m + n), c)
         /\ m = 0 /\ n >= 2 => Presents(SubSeq(s, m + 1, m + n), c)
<1>. DEFINE l == m + 1
            u == m + n
            p == SubSeq(s, l, u)
<1>1. /\ Len(s) \in Nat /\ s[1] = <<c, "hdr">> /\ s[2] = <<c, "fake">>
      /\ \A k \in 1..Len(s) : s[k] \in Token /\ (k > 2 => s[k] # <<c, "fake">>)
  BY LenProperties, ElementOfSeq DEF Presents
<1>2. l \in Int /\ u \in Int /\ u <= Len(s)
  BY <1>1
<1>3. \A k \in l..u : k \in 1..Len(s) /\ s[k] \in Token
  BY <1>1
<1>4. /\ p \in Seq(Token) /\ Len(p) = IF l <= u THEN u - l + 1 ELSE 0
      /\ \A k \in 1..u - l + 1 : p[k] = s[l + k - 1]
  <2>. HIDE DEF l, u
  <2>. QED
    BY <1>2, <1>3, SubSeqProperties
<1>5. Len(p) = n /\ DOMAIN p = 1..n /\ \A k \in 1..n : p[k] = s[m + k]
  <2>1. Len(p) = n
    BY <1>4
  <2>2. \A k \in 1..n : k \in 1..u - l + 1 /\ l + k - 1 = m + k
    OBVIOUS
  <2>. HIDE DEF p, l, u
  <2>. QED
    BY <1>4, <2>1, <2>2, LenProperties
<1>6. \A k \in 1..n : m + k \in 1..Len(s)
  BY <1>1
<1>. HIDE DEF p
<1>7. m >= 2 => FakeFree(p, c)
  <2>1. \A k \in 1..n : m >= 2 => m + k > 2
    OBVIOUS
  <2>. QED
    BY <1>1, <1>5, <1>6, <2>1 DEF FakeFree
<1>8. m = 0 /\ n >= 2 => Presents(p, c)
  <2>1. ASSUME m = 0, n >= 2 PROVE Presents(p, c)
    <3>1. \A k \in 1..n : p[k] = s[k] /\ k \in 1..Len(s)
      BY <1>5, <1>6, <2>1
    <3>2. 1 \in 1..n /\ 2 \in 1..n
      BY <2>1
    <3>. QED
      BY <1>1, <1>5, <2>1, <3>1, <3>2 DEF Presents
  <2>. QED
    BY <2>1
<1>. QED
  BY <1>4, <1>7, <1>8 DEF p

LEMMA SlotsKeepKey ==
  ASSUME TableInv, KeyInv, NEW i \in DOMAIN list,
         WriteSlave(i) \/ ReadMaster(i) \/ WriteMaster(i) \/ ReadSlave(i)
  PROVE  KeyInv'
<1>. USE DEF KeyInv
<1>1. /\ i \in Slots /\ UNCHANGED <<backlog, kind, whole, sent>>
      /\ \/ Frees(i)
         \/ \E n : WroteUp(i, n) \/ WroteDown(i, n) \/ TookUp(i, n) \/ TookDown(i, n)
  BY SlotSteps DEF TableInv, relayed
<1>2. CASE Frees(i)
  <2>1. /\ Slots' = Slots \ {i} /\ UNCHANGED <<inq, out>>
        /\ \A j \in Slots' : list'[j] = list[j]
        /\ \A n \in Fd : table'[n] = IF n \in {list[i].slave, list[i].master} THEN NoEnd
                                     ELSE table[n]
        /\ \E c \in Conns : relay[c] = "open" /\ relay' = [relay EXCEPT ![c] = "closed"]
    BY <1>1, <1>2, FreeEffect DEF Frees
  <2>2. \A c \in Conns : relay'[c] = "none" => relay[c] = "none"
    BY <2>1 DEF TableInv, TypeOK
  <2>3. \A j \in Slots' : /\ j \in Slots /\ list'[j] = list[j]
                          /\ table'[list'[j].slave] = table[list[j].slave]
    <3>1. ASSUME NEW j \in Slots'
          PROVE  /\ j \in Slots /\ list'[j] = list[j]
                 /\ table'[list'[j].slave] = table[list[j].slave]
      <4>1. j \in Slots \ {i} /\ list'[j] = list[j]
        BY <2>1
      <4>2. list[j].slave \in Fd
        BY <4>1, SlotJoins
      <4>3. list[j].slave \notin {list[i].slave, list[i].master}
        BY <1>1, <4>1, SlotJoins
      <4>. QED
        BY <2>1, <4>1, <4>2, <4>3
    <3>. QED
      BY <3>1
  <2>4. NotYetSent'
    BY <1>1, <2>1, <2>2, <2>3 DEF NotYetSent
  <2>5. FirstReadOk'
    BY <2>3 DEF FirstReadOk
  <2>6. FakeIsReplaced'
    BY <1>1, <2>1, <2>2, <2>3 DEF FakeIsReplaced
  <2>. QED
    BY <2>4, <2>5, <2>6
<1>3. PICK c \in Conns : table[list[i].slave] = Slave(c) /\ table[list[i].master] = Master(c)
  BY <1>1, SlotJoins
<1>4. \A j \in Slots \ {i} : table[list[j].slave] # Slave(c)
  BY <1>1, <1>3, SlotJoins
<1>5. /\ list[i] \in IO /\ i \in 1..Len(list) /\ Slave(c) \in Ends /\ Master(c) \in Ends
      /\ inq[Slave(c)] \in Seq(Token) /\ out[Master(c)] \in Seq(Token)
  BY <1>1, SlotJoins, EndFacts DEF TableInv, TypeOK
<1>6. ASSUME NEW n, WroteUp(i, n) \/ WroteDown(i, n) \/ TookUp(i, n) \/ TookDown(i, n)
      PROVE  /\ UNCHANGED <<table, relay>> /\ Slots' = Slots
             /\ \A j \in Slots : list'[j].slave = list[j].slave
             /\ \A j \in Slots \ {i} : list'[j] = list[j]
  BY <1>1, <1>6, MoveEffect
\* What is left to show of a slot that stays.
<1>7. ASSUME NEW n, WroteUp(i, n) \/ WroteDown(i, n) \/ TookUp(i, n) \/ TookDown(i, n),
             sent[Slave(c)] = 0 =>
               inq'[Slave(c)] = <<>> /\ out'[Master(c)] = <<>> /\ ~list'[i].authenticated,
             ~list'[i].authenticated => list'[i].slave_buf = <<>>,
             \A d \in Conns \ {c} : inq'[Slave(d)] = inq[Slave(d)] /\ out'[Master(d)] = out[Master(d)],
             c \in whole /\ kind[c] = "fake" =>
               /\ FakeFree(out'[Master(c)], c)
               /\ IF list'[i].authenticated
                  THEN FakeFree(inq'[Slave(c)], c) /\ FakeFree(list'[i].slave_buf, c)
                  ELSE Presents(inq'[Slave(c)], c)
      PROVE  KeyInv'
  <2>1. /\ UNCHANGED <<table, relay>> /\ Slots' = Slots
        /\ \A j \in Slots : list'[j].slave = list[j].slave
        /\ \A j \in Slots \ {i} : list'[j] = list[j]
    BY <1>6, <1>7
  <2>2. relay[c] # "none"
    <3>1. PICK d \in Conns : relay[d] = "open" /\ table[list[i].slave] = Slave(d)
      BY <1>1, SlotJoins
    <3>. QED
      BY <1>3, <3>1, EndFacts
  <2>3. FirstReadOk'
    BY <1>7, <2>1 DEF FirstReadOk
  <2>4. NotYetSent'
    <3>1. ASSUME NEW d \in Conns
          PROVE  /\ relay'[d] = "none" /\ d \notin backlog' => sent'[Slave(d)] = 0
                 /\ sent'[Slave(d)] = 0 =>
                      d \notin whole' /\ inq'[Slave(d)] = <<>> /\ out'[Master(d)] = <<>>
                 /\ \A j \in Slots' : table'[list'[j].slave] = Slave(d) /\ sent'[Slave(d)] = 0 =>
                      ~list'[j].authenticated
      <4>1. CASE d = c
        <5>1. sent[Slave(c)] = 0 => c \notin whole
          BY DEF NotYetSent
        <5>2. \A j \in Slots : table[list[j].slave] = Slave(d) => j = i
          BY <1>4, <4>1
        <5>. QED
          BY <1>1, <1>7, <2>1, <2>2, <4>1, <5>1, <5>2
      <4>2. CASE d # c
        <5>1. \A j \in Slots : table[list[j].slave] = Slave(d) => j # i
          BY <1>3, <4>2, EndFacts
        <5>. QED
          BY <1>1, <1>7, <2>1, <4>2, <5>1 DEF NotYetSent
      <4>. QED
        BY <4>1, <4>2
    <3>. QED
      BY <3>1 DEF NotYetSent
  <2>5. FakeIsReplaced'
    <3>1. ASSUME NEW d \in Conns, d \in whole, kind[d] = "fake"
          PROVE  /\ sent'[Slave(d)] >= 2
                 /\ FakeFree(out'[Master(d)], d)
                 /\ relay'[d] = "none" => Presents(inq'[Slave(d)], d)
                 /\ \A j \in Slots' : table'[list'[j].slave] = Slave(d) =>
                      IF list'[j].authenticated
                      THEN FakeFree(inq'[Slave(d)], d) /\ FakeFree(list'[j].slave_buf, d)
                      ELSE Presents(inq'[Slave(d)], d)
      <4>1. CASE d = c
        <5>1. sent'[Slave(d)] >= 2
          BY <1>1, <3>1 DEF FakeIsReplaced
        <5>2. \A j \in Slots' : table'[list'[j].slave] = Slave(d) => j = i
          BY <1>4, <2>1, <4>1
        <5>. QED
          BY <1>7, <2>1, <2>2, <3>1, <4>1, <5>1, <5>2
      <4>2. CASE d # c
        <5>1. \A j \in Slots : table[list[j].slave] = Slave(d) => j # i
          BY <1>3, <4>2, EndFacts
        <5>. QED
          BY <1>1, <1>7, <2>1, <3>1, <4>2, <5>1 DEF FakeIsReplaced
      <4>. QED
        BY <4>1, <4>2
    <3>. QED
      BY <1>1, <3>1 DEF FakeIsReplaced
  <2>. QED
    BY <2>3, <2>4, <2>5
<1>8. c \in whole /\ kind[c] = "fake" =>
        /\ FakeFree(out[Master(c)], c)
        /\ IF list[i].authenticated
           THEN FakeFree(inq[Slave(c)], c) /\ FakeFree(list[i].slave_buf, c)
           ELSE Presents(inq[Slave(c)], c)
  BY <1>1, <1>3 DEF FakeIsReplaced
<1>9. /\ sent[Slave(c)] = 0 => inq[Slave(c)] = <<>> /\ ~list[i].authenticated
      /\ ~list[i].authenticated => list[i].slave_buf = <<>>
  BY <1>1, <1>3 DEF NotYetSent, FirstReadOk
<1>10. /\ Len(inq[Slave(c)]) \in Nat /\ list[i].slave_buf \in Seq(Token)
       /\ \A d \in Conns : Slave(d) \in Ends /\ Master(d) \in Ends /\ Slave(d) # Master(c)
       /\ \A d \in Conns \ {c} : Slave(d) # Slave(c) /\ Master(d) # Master(c)
  BY <1>5, LenProperties, EndFacts DEF IO
<1>11. CASE \E n : WroteUp(i, n)
  <2>. DEFINE b == list[i].slave_buf
  <2>1. PICK n : WroteUp(i, n)
    BY <1>11
  <2>2. /\ b # <<>> /\ n \in 0..Len(b) /\ UNCHANGED inq
        /\ out' = [out EXCEPT ![Master(c)] = out[Master(c)] \o SubSeq(b, 1, n)]
        /\ list' = [list EXCEPT ![i] = [list[i] EXCEPT !.slave_buf = SubSeq(b, n + 1, Len(b))]]
    BY <1>3, <2>1 DEF WroteUp
  <2>3. list[i].authenticated /\ sent[Slave(c)] # 0
    BY <1>9, <2>2
  <2>4. list'[i].authenticated /\ list'[i].slave_buf = SubSeq(b, n + 1, Len(b))
    <3>1. list'[i] = [list[i] EXCEPT !.slave_buf = SubSeq(b, n + 1, Len(b))]
      BY <1>1, <2>2 DEF Slots
    <3>. QED
      BY <1>5, <2>3, <3>1 DEF IO
  <2>5. /\ out'[Master(c)] = out[Master(c)] \o SubSeq(b, 1, n)
        /\ \A d \in Conns \ {c} : inq'[Slave(d)] = inq[Slave(d)] /\ out'[Master(d)] = out[Master(d)]
        /\ inq'[Slave(c)] = inq[Slave(c)]
    BY <1>5, <1>10, <2>2 DEF TableInv, TypeOK
  <2>6. c \in whole /\ kind[c] = "fake" =>
          /\ FakeFree(out'[Master(c)], c)
          /\ FakeFree(inq'[Slave(c)], c) /\ FakeFree(list'[i].slave_buf, c)
    <3>1. ASSUME c \in whole, kind[c] = "fake"
          PROVE  /\ FakeFree(out'[Master(c)], c)
                 /\ FakeFree(inq'[Slave(c)], c) /\ FakeFree(list'[i].slave_buf, c)
      <4>1. FakeFree(out[Master(c)], c) /\ FakeFree(inq[Slave(c)], c) /\ FakeFree(b, c)
        BY <1>8, <2>3, <3>1
      <4>2. FakeFree(SubSeq(b, 1, n), c) /\ FakeFree(SubSeq(b, n + 1, Len(b)), c)
        BY <1>10, <2>2, <4>1, FakeFreePieces
      <4>3. SubSeq(b, 1, n) \in Seq(Token)
        BY <1>10, <2>2, Pieces
      <4>4. FakeFree(out[Master(c)] \o SubSeq(b, 1, n), c)
        BY <1>5, <4>1, <4>2, <4>3, FakeFreeJoined
      <4>. QED
        BY <2>4, <2>5, <4>1, <4>2, <4>4
    <3>. QED
      BY <3>1
  <2>. QED
    BY <1>7, <2>1, <2>3, <2>4, <2>5, <2>6
<1>12. CASE \E n : WroteDown(i, n) \/ TookDown(i, n)
  <2>1. PICK n : WroteDown(i, n) \/ TookDown(i, n)
    BY <1>12
  <2>2. \/ list' = [list EXCEPT ![i] = [list[i] EXCEPT !.master_buf =
                                          SubSeq(list[i].master_buf, n + 1, Len(list[i].master_buf))]]
        \/ list' = [list EXCEPT ![i] = [list[i] EXCEPT !.master_buf = SubSeq(inq[Master(c)], 1, n)]]
    BY <1>3, <2>1 DEF WroteDown, TookDown
  <2>3. /\ list'[i].authenticated = list[i].authenticated
        /\ list'[i].slave_buf = list[i].slave_buf
    BY <1>1, <1>5, <2>2 DEF Slots, IO
  <2>4. \A d \in Conns : inq'[Slave(d)] = inq[Slave(d)] /\ out'[Master(d)] = out[Master(d)]
    <3>1. CASE WroteDown(i, n)
      <4>1. UNCHANGED inq /\ \E s : out' = [out EXCEPT ![Slave(c)] = s]
        BY <1>3, <3>1 DEF WroteDown
      <4>. QED
        BY <1>5, <1>10, <4>1, EndFacts DEF TableInv, TypeOK
    <3>2. CASE TookDown(i, n)
      <4>1. UNCHANGED out /\ \E s : inq' = [inq EXCEPT ![Master(c)] = s]
        BY <1>3, <3>2 DEF TookDown
      <4>. QED
        BY <1>5, <1>10, <4>1 DEF TableInv, TypeOK
    <3>. QED
      BY <2>1, <3>1, <3>2
  <2>5. sent[Slave(c)] = 0 => out[Master(c)] = <<>>
    BY DEF NotYetSent
  <2>. QED
    BY <1>7, <1>8, <1>9, <2>1, <2>3, <2>4, <2>5
<1>13. CASE \E n : TookUp(i, n)
  <2>. DEFINE q == inq[Slave(c)]
              rest(k) == SubSeq(q, k + 1, Len(q))
              read(k) == [list[i] EXCEPT !.slave_buf = SubSeq(q, 1, k)]
  <2>1. PICK n : TookUp(i, n)
    BY <1>13
  <2>2. /\ q # <<>> /\ n = (IF Len(q) < 2 THEN Len(q) ELSE 2) /\ UNCHANGED out
        /\ inq' = [inq EXCEPT ![Slave(c)] = rest(n)]
        /\ list' = [list EXCEPT ![i] = CheckAuth(read(n))]
    BY <1>3, <2>1 DEF TookUp
  <2>3. n \in 0..Len(q) /\ sent[Slave(c)] # 0
    BY <1>9, <1>10, <2>2
  <2>4. SubSeq(q, 1, n) \in Seq(Token)
    BY <1>5, <2>3, Pieces
  <2>5. /\ read(n) \in IO /\ read(n).slave_buf = SubSeq(q, 1, n)
        /\ read(n).authenticated = list[i].authenticated
    BY <1>5, <2>4 DEF IO
  <2>. HIDE DEF read, rest
  <2>6. list'[i] = CheckAuth(read(n)) /\ CheckAuth(read(n)).authenticated
    BY <1>1, <2>2, <2>5, CheckAuthType DEF Slots
  <2>7. /\ \A d \in Conns \ {c} : inq'[Slave(d)] = inq[Slave(d)] /\ out'[Master(d)] = out[Master(d)]
        /\ inq'[Slave(c)] = rest(n) /\ out'[Master(c)] = out[Master(c)]
    BY <1>5, <1>10, <2>2 DEF TableInv, TypeOK
  <2>8. c \in whole /\ kind[c] = "fake" =>
          FakeFree(rest(n), c) /\ FakeFree(CheckAuth(read(n)).slave_buf, c)
    <3>1. ASSUME c \in whole, kind[c] = "fake"
          PROVE  FakeFree(rest(n), c) /\ FakeFree(CheckAuth(read(n)).slave_buf, c)
      <4>1. CASE list[i].authenticated
        <5>1. FakeFree(q, c)
          BY <1>8, <3>1, <4>1
        <5>2. FakeFree(SubSeq(q, 1, n), c) /\ FakeFree(SubSeq(q, n + 1, Len(q)), c)
          BY <1>5, <2>3, <5>1, FakeFreePieces
        <5>3. CheckAuth(read(n)).slave_buf = SubSeq(q, 1, n)
          BY <2>5, <4>1 DEF CheckAuth
        <5>. QED
          BY <5>2, <5>3 DEF rest
      <4>2. CASE ~list[i].authenticated
        <5>1. Presents(q, c)
          BY <1>8, <3>1, <4>2
        <5>2. n = 2
          BY <1>10, <2>2, <5>1 DEF Presents
        <5>3. ~read(n).authenticated /\ read(n).slave_buf = SubSeq(q, 1, 2)
          BY <2>5, <4>2, <5>2
        <5>4. /\ FakeFree(CheckAuth(read(n)).slave_buf, c)
              /\ FakeFree(SubSeq(q, 3, Len(q)), c)
          BY <1>5, <2>5, <5>1, <5>3, FirstReadReplaces
        <5>5. rest(n) = SubSeq(q, 3, Len(q))
          BY <5>2 DEF rest
        <5>. QED
          BY <5>4, <5>5
      <4>. QED
        BY <4>1, <4>2
    <3>. QED
      BY <3>1
  <2>. QED
    BY <1>7, <1>8, <2>1, <2>3, <2>6, <2>7, <2>8
<1>. QED
  BY <1>1, <1>2, <1>11, <1>12, <1>13

LEMMA NewKeepsKey ==
  ASSUME TableInv, KeyInv, HandleNew
  PROVE  KeyInv'
<1>. USE DEF KeyInv
<1>1. PICK c \in backlog :
        /\ backlog' = backlog \ {c}
        /\ \/ \E a, b \in Fd : Accepts(c, a, b)
           \/ relay' = [relay EXCEPT ![c] = "refused"] /\ UNCHANGED <<table, list>>
  BY NewSteps
<1>2. UNCHANGED <<kind, whole, sent, inq, out>>
  BY NewSteps DEF sockets
<1>3. c \in Conns /\ relay[c] = "none"
  BY DEF TableInv, BacklogOk
<1>4. CASE relay' = [relay EXCEPT ![c] = "refused"] /\ UNCHANGED <<table, list>>
  <2>1. \A d \in Conns : relay'[d] = "none" => relay[d] = "none" /\ d # c
    BY <1>3, <1>4 DEF TableInv, TypeOK
  <2>2. Slots' = Slots
    BY <1>4 DEF Slots
  <2>3. NotYetSent'
    BY <1>1, <1>2, <1>4, <2>1, <2>2 DEF NotYetSent
  <2>4. FirstReadOk'
    BY <1>4, <2>2 DEF FirstReadOk
  <2>5. FakeIsReplaced'
    BY <1>2, <1>4, <2>1, <2>2 DEF FakeIsReplaced
  <2>. QED
    BY <2>3, <2>4, <2>5
<1>5. CASE \E a, b \in Fd : Accepts(c, a, b)
  <2>0. PICK a \in Fd, b \in Fd : \E k : Accepted(c, a, b, k)
    BY <1>5, AcceptEffect
  <2>1. PICK k : Accepted(c, a, b, k)
    BY <2>0
  <2>2. /\ Slots' = Slots \cup {k}
        /\ list'[k].slave = a /\ list'[k].slave_buf = <<>> /\ list'[k].authenticated = FALSE
        /\ table'[a] = Slave(c)
    BY <2>1 DEF Accepted
  <2>3. \A j \in Slots : /\ list'[j] = list[j]
                         /\ table'[list[j].slave] = table[list[j].slave]
                         /\ table[list[j].slave] # Slave(c)
    BY <2>1 DEF Accepted
  <2>4. \A d \in Conns : relay'[d] = "none" => relay[d] = "none" /\ d # c
    BY <2>1 DEF Accepted
  <2>5. \A d \in Conns : Slave(d) = Slave(c) => d = c
    BY EndFacts
  <2>6. FirstReadOk'
    BY <2>2, <2>3 DEF FirstReadOk
  <2>7. NotYetSent'
    <3>1. ASSUME NEW d \in Conns
          PROVE  /\ relay'[d] = "none" /\ d \notin backlog' => sent'[Slave(d)] = 0
                 /\ sent'[Slave(d)] = 0 =>
                      d \notin whole' /\ inq'[Slave(d)] = <<>> /\ out'[Master(d)] = <<>>
                 /\ \A j \in Slots' : table'[list'[j].slave] = Slave(d) /\ sent'[Slave(d)] = 0 =>
                      ~list'[j].authenticated
      <4>1. relay'[d] = "none" /\ d \notin backlog' => sent'[Slave(d)] = 0
        BY <1>1, <1>2, <2>4 DEF NotYetSent
      <4>2. sent'[Slave(d)] = 0 =>
              d \notin whole' /\ inq'[Slave(d)] = <<>> /\ out'[Master(d)] = <<>>
        BY <1>2 DEF NotYetSent
      <4>3. ASSUME NEW j \in Slots, table'[list'[j].slave] = Slave(d), sent'[Slave(d)] = 0
            PROVE  ~list'[j].authenticated
        BY <1>2, <2>3, <4>3 DEF NotYetSent
      <4>. QED
        BY <2>2, <4>1, <4>2, <4>3
    <3>. QED
      BY <3>1 DEF NotYetSent
  <2>8. FakeIsReplaced'
    <3>1. ASSUME NEW d \in Conns, d \in whole, kind[d] = "fake"
          PROVE  /\ sent'[Slave(d)] >= 2
                 /\ FakeFree(out'[Master(d)], d)
                 /\ relay'[d] = "none" => Presents(inq'[Slave(d)], d)
                 /\ \A j \in Slots' : table'[list'[j].slave] = Slave(d) =>
                      IF list'[j].authenticated
                      THEN FakeFree(inq'[Slave(d)], d) /\ FakeFree(list'[j].slave_buf, d)
                      ELSE Presents(inq'[Slave(d)], d)
      <4>1. /\ sent[Slave(d)] >= 2
            /\ FakeFree(out[Master(d)], d)
            /\ relay[d] = "none" => Presents(inq[Slave(d)], d)
            /\ \A j \in Slots : table[list[j].slave] = Slave(d) =>
                 IF list[j].authenticated
                 THEN FakeFree(inq[Slave(d)], d) /\ FakeFree(list[j].slave_buf, d)
                 ELSE Presents(inq[Slave(d)], d)
        BY <3>1 DEF FakeIsReplaced
      <4>2. table'[list'[k].slave] = Slave(d) => Presents(inq'[Slave(d)], d)
        BY <1>2, <1>3, <2>2, <2>5, <4>1
      <4>3. ASSUME NEW j \in Slots, table'[list'[j].slave] = Slave(d)
            PROVE  IF list'[j].authenticated
                   THEN FakeFree(inq'[Slave(d)], d) /\ FakeFree(list'[j].slave_buf, d)
                   ELSE Presents(inq'[Slave(d)], d)
        BY <1>2, <2>3, <4>1, <4>3
      <4>. QED
        BY <1>2, <2>2, <2>4, <4>1, <4>2, <4>3
    <3>. QED
      BY <1>2, <3>1 DEF FakeIsReplaced
  <2>. QED
    BY <2>6, <2>7, <2>8
<1>. QED
  BY <1>1, <1>4, <1>5

LEMMA ConnectKeepsKey ==
  ASSUME TableInv, KeyInv, NEW c \in Conns, Connect(c)
  PROVE  KeyInv'
<1>. USE DEF KeyInv
<1>1. /\ UNCHANGED <<list, table, relay, whole, sent, inq, out>>
      /\ backlog' = backlog \cup {c} /\ relay[c] = "none" /\ c \notin backlog
      /\ \E k \in Kinds[c] : kind' = [kind EXCEPT ![c] = k]
  BY DEF Connect
<1>2. Slots' = Slots
  BY <1>1 DEF Slots
<1>3. c \notin whole
  BY <1>1 DEF NotYetSent
<1>4. \A d \in Conns : d \in whole => kind'[d] = kind[d]
  BY <1>1, <1>3 DEF TableInv, TypeOK
<1>5. NotYetSent'
  BY <1>1, <1>2 DEF NotYetSent
<1>6. FirstReadOk'
  BY <1>1, <1>2 DEF FirstReadOk
<1>7. FakeIsReplaced'
  BY <1>1, <1>2, <1>4 DEF FakeIsReplaced
<1>. QED
  BY <1>5, <1>6, <1>7

LEMMA SendKeepsKey ==
  ASSUME TableInv, KeyInv, NEW e \in Ends, Send(e)
  PROVE  KeyInv'
<1>. USE DEF KeyInv
<1>1. UNCHANGED <<backlog, list, table, relay, kind, out>>
  BY DEF Send
<1>2. Slots' = Slots
  BY <1>1 DEF Slots
<1>3. PICK n \in Nat \ {0} :
        /\ n <= Len(Stream(e)) - sent[e]
        /\ inq' = [inq EXCEPT ![e] = inq[e] \o SubSeq(Stream(e), sent[e] + 1, sent[e] + n)]
        /\ sent' = [sent EXCEPT ![e] = sent[e] + n]
        /\ whole' = IF e[2] = "slave" /\ sent[e] = 0 /\ n >= Len(FirstPacket(kind[e[1]]))
                    THEN whole \cup {e[1]} ELSE whole
  BY SendEffect DEF TableInv
<1>4. FirstReadOk'
  BY <1>1, <1>2 DEF FirstReadOk
<1>5. \A d \in Conns : Slave(d) # e =>
        inq'[Slave(d)] = inq[Slave(d)] /\ sent'[Slave(d)] = sent[Slave(d)] /\ (d \in whole' <=> d \in whole)
  <2>1. ASSUME NEW d \in Conns, Slave(d) # e
        PROVE  /\ inq'[Slave(d)] = inq[Slave(d)] /\ sent'[Slave(d)] = sent[Slave(d)]
               /\ d \in whole' <=> d \in whole
    <3>1. e[2] = "slave" => d # e[1]
      <4>1. e \in {Slave(e[1]), Master(e[1])} /\ Master(e[1])[2] = "master"
        BY EndFacts DEF Master
      <4>. QED
        BY <2>1, <4>1
    <3>2. Slave(d) \in Ends
      BY EndFacts
    <3>3. d \in whole' <=> d \in whole
      BY <1>3, <3>1
    <3>. QED
      BY <1>3, <2>1, <3>2, <3>3 DEF TableInv, TypeOK
  <2>. QED
    BY <2>1
\* Nothing that the invariant speaks of changes but at the end that sends.
<1>6. ASSUME NEW d \in Conns
      PROVE  /\ relay'[d] = "none" /\ d \notin backlog' => sent'[Slave(d)] = 0
             /\ sent'[Slave(d)] = 0 =>
                  d \notin whole' /\ inq'[Slave(d)] = <<>> /\ out'[Master(d)] = <<>>
             /\ \A i \in Slots' : table'[list'[i].slave] = Slave(d) /\ sent'[Slave(d)] = 0 =>
                  ~list'[i].authenticated
  <2>1. CASE Slave(d) # e
    BY <1>1, <1>2, <1>5, <2>1 DEF NotYetSent
  <2>2. CASE Slave(d) = e
    <3>1. sent[e] \in Nat
      BY DEF TableInv, TypeOK
    <3>2. sent'[e] = sent[e] + n
      BY <1>3 DEF TableInv, TypeOK
    <3>3. sent'[Slave(d)] # 0
      BY <2>2, <3>1, <3>2
    <3>4. relay[d] = "open" \/ d \in backlog
      BY <2>2, EndFacts DEF Send, Live
    <3>. QED
      BY <1>1, <3>3, <3>4
  <2>. QED
    BY <2>1, <2>2
<1>7. ASSUME NEW d \in Conns, d \in whole', kind[d] = "fake"
      PROVE  /\ sent'[Slave(d)] >= 2
             /\ FakeFree(out'[Master(d)], d)
             /\ relay'[d] = "none" => Presents(inq'[Slave(d)], d)
             /\ \A i \in Slots' : table'[list'[i].slave] = Slave(d) =>
                  IF list'[i].authenticated
                  THEN FakeFree(inq'[Slave(d)], d) /\ FakeFree(list'[i].slave_buf, d)
                  ELSE Presents(inq'[Slave(d)], d)
  <2>1. CASE Slave(d) # e
    BY <1>1, <1>2, <1>5, <1>7, <2>1 DEF FakeIsReplaced
  <2>2. CASE Slave(d) = e
    <3>. DEFINE p == SubSeq(Stream(e), sent[e] + 1, sent[e] + n)
    <3>1. sent[e] \in Nat /\ inq[e] \in Seq(Token) /\ Stream(e) \in Seq(Token) /\ Presents(Stream(e), d)
      BY <1>7, <2>2, StreamType, StreamPresents DEF TableInv, TypeOK
    <3>2. sent'[e] = sent[e] + n /\ inq'[e] = inq[e] \o p
      BY <1>3 DEF TableInv, TypeOK
    <3>3. /\ p \in Seq(Token)
          /\ sent[e] >= 2 => FakeFree(p, d)
          /\ sent[e] = 0 /\ n >= 2 => Presents(p, d)
      <4>. DEFINE s == Stream(e)
                  m == sent[e]
      <4>1. s \in Seq(Token) /\ Presents(s, d) /\ m \in Nat /\ n \in Nat \ {0} /\ n <= Len(s) - m
        BY <1>3, <3>1
      <4>. HIDE DEF s, m
      <4>2. /\ SubSeq(s, m + 1, m + n) \in Seq(Token)
            /\ m >= 2 => FakeFree(SubSeq(s, m + 1, m + n), d)
            /\ m = 0 /\ n >= 2 => Presents(SubSeq(s, m + 1, m + n), d)
        BY ONLY <4>1, SentPiece, Zenon
      <4>. QED
        BY <4>2 DEF s, m
    <3>. HIDE DEF p
    <3>4. CASE d \in whole
      <4>1. /\ sent[e] >= 2 /\ FakeFree(out[Master(d)], d)
            /\ relay[d] = "none" => Presents(inq[e], d)
            /\ \A i \in Slots : table[list[i].slave] = e =>
                 IF list[i].authenticated
                 THEN FakeFree(inq[e], d) /\ FakeFree(list[i].slave_buf, d)
                 ELSE Presents(inq[e], d)
        BY <1>7, <2>2, <3>4 DEF FakeIsReplaced
      <4>2. /\ FakeFree(inq[e], d) => FakeFree(inq'[e], d)
            /\ Presents(inq[e], d) => Presents(inq'[e], d)
        BY <3>1, <3>2, <3>3, <4>1, FakeFreeJoined
      <4>3. sent'[e] >= 2
        BY <3>1, <3>2, <4>1
      <4>. QED
        BY <1>1, <1>2, <2>2, <4>1, <4>2, <4>3
    <3>5. CASE d \notin whole
      <4>1. sent[e] = 0 /\ n >= Len(FirstPacket(kind[e[1]])) /\ e[1] = d
        BY <1>3, <1>7, <3>5
      <4>2. n >= 2
        <5>1. FirstPacket(kind[e[1]]) = <<"hdr", "fake">>
          BY <1>7, <4>1 DEF FirstPacket
        <5>2. Len(<<"hdr", "fake">>) = 2
          OBVIOUS
        <5>. QED
          BY <4>1, <5>1, <5>2
      <4>3. /\ inq[e] = <<>> /\ out[Master(d)] = <<>>
            /\ \A i \in Slots : table[list[i].slave] = e => ~list[i].authenticated
        BY <2>2, <4>1 DEF NotYetSent
      <4>4. Presents(inq'[e], d)
        <5>1. inq'[e] = p
          BY <3>2, <3>3, <4>3, ConcatEmptySeq
        <5>. QED
          BY <3>3, <4>1, <4>2, <5>1
      <4>5. FakeFree(<<>>, d)
        BY DEF FakeFree
      <4>6. sent'[e] >= 2
        BY <3>1, <3>2, <4>1, <4>2
      <4>. QED
        BY <1>1, <1>2, <2>2, <4>3, <4>4, <4>5, <4>6
    <3>. QED
      BY <3>4, <3>5
  <2>. QED
    BY <2>1, <2>2
<1>8. NotYetSent'
  BY <1>6 DEF NotYetSent
<1>9. FakeIsReplaced'
  BY <1>1, <1>7 DEF FakeIsReplaced
<1>. QED
  BY <1>4, <1>8, <1>9

LEMMA KeyIsKept ==
  ASSUME TableInv, KeyInv, [Next]_vars
  PROVE  KeyInv'
<1>1. CASE \E i \in DOMAIN list : WriteSlave(i) \/ ReadMaster(i) \/ WriteMaster(i) \/ ReadSlave(i)
  BY <1>1, SlotsKeepKey
<1>2. CASE HandleNew
  BY <1>2, NewKeepsKey
<1>3. CASE \E c \in Conns : Connect(c)
  BY <1>3, ConnectKeepsKey
<1>4. CASE \E e \in Ends : Send(e)
  BY <1>4, SendKeepsKey
<1>5. CASE \/ Select \/ ChildDies \/ HandleCtl \/ ChildSends
           \/ \E e \in Ends : Shut(e) \/ Drain(e)
           \/ UNCHANGED vars
  <2>1. UNCHANGED <<backlog, list, table, relay, kind, whole, sent, inq, out>>
    BY <1>5 DEF Select, ChildDies, HandleCtl, ChildSends, Shut, Drain, vars, sockets
  <2>2. Slots' = Slots
    BY <2>1 DEF Slots
  <2>3. NotYetSent' /\ FirstReadOk'
    BY <2>1, <2>2 DEF KeyInv, NotYetSent, FirstReadOk
  <2>4. FakeIsReplaced'
    BY <2>1, <2>2 DEF KeyInv, FakeIsReplaced
  <2>. QED
    BY <2>3, <2>4 DEF KeyInv
<1>. QED
  BY <1>1, <1>2, <1>3, <1>4, <1>5 DEF Next

-----------------------------------------------------------------------------
(***************************************************************************)
(* Theorems.                                                               *)
(***************************************************************************)
LEMMA ForwardInit ==
  ASSUME Init
  PROVE  ForwardInv
<1>1. <<>> \in Seq(IO \cup {NoIO}) /\ <<>> \in Seq(Token)
  BY EmptySeq
<1>2. DOMAIN list = {} /\ Slots = {}
  BY DEF Init, Slots
<1>3. TypeOK
  BY <1>1 DEF Init, TypeOK
<1>4. TableIsInjective /\ BacklogOk
  BY DEF Init, TableIsInjective, BacklogOk
<1>5. TableMatchesSlots
  BY <1>2 DEF Init, TableMatchesSlots
<1>6. ReadyOk /\ OnlyPeersBreak
  BY DEF Init, ReadyOk, OnlyPeersBreak
<1>7. NotYetSent
  BY <1>2, EndFacts DEF Init, NotYetSent
<1>8. FirstReadOk /\ FakeIsReplaced
  BY <1>2 DEF Init, FirstReadOk, FakeIsReplaced
<1>. QED
  BY <1>3, <1>4, <1>5, <1>6, <1>7, <1>8 DEF ForwardInv, TableInv

(* The invariant holds whatever the programs, the X server and pselect do    *)
(* between two turns of handle_io.                                          *)
THEOREM ForwardIsInvariant == Spec => []ForwardInv
<1>1. Init => ForwardInv
  BY ForwardInit
<1>2. ForwardInv /\ [Next]_vars => ForwardInv'
  <2>1. ASSUME ForwardInv, [Next]_vars PROVE ForwardInv'
    <3>1. TableInv /\ ReadyOk /\ OnlyPeersBreak /\ KeyInv
      BY <2>1 DEF ForwardInv, KeyInv
    <3>2. TableInv' /\ ReadyOk' /\ OnlyPeersBreak' /\ KeyInv'
      BY <2>1, <3>1, TableIsKept, ReadyIsKept, BreaksAreKept, KeyIsKept
    <3>. QED
      BY <3>2 DEF ForwardInv, KeyInv
  <2>. QED
    BY <2>1
<1>. QED
  BY <1>1, <1>2, PTL DEF Spec

(* The control socket is read once, and nothing is accepted before the       *)
(* listening socket has come from it.                                       *)
CtlInv ==
  /\ x11_fd \/ stray => ctl = "closed"
  /\ <<-1, "ctl">> \in ready => ctl # "closed"
  /\ ~x11_fd => list = <<>> /\ <<-1, "listen">> \notin ready
  /\ stray => ~x11_fd

LEMMA CtlIsKept ==
  ASSUME CtlInv, [Next]_vars
  PROVE  CtlInv'
<1>1. CASE Select
  <2>1. \A r \in ReadyFds : r[2] \in {"r", "w"}
    BY DEF ReadyFds, Watched
  <2>2. <<-1, "ctl">> \notin ReadyFds /\ <<-1, "listen">> \notin ReadyFds
    BY <2>1
  <2>3. /\ <<-1, "ctl">> \in ready' => ctl # "closed"
        /\ <<-1, "listen">> \in ready' => x11_fd
    BY <1>1, <2>2 DEF Select, ReadyNow
  <2>. QED
    BY <1>1, <2>3 DEF CtlInv, Select
<1>2. CASE HandleNew
  <2>1. /\ <<-1, "listen">> \in ready /\ ready' \subseteq ready
        /\ UNCHANGED <<ctl, x11_fd, stray>>
    BY <1>2 DEF HandleNew
  <2>. QED
    BY <2>1 DEF CtlInv
<1>3. CASE HandleCtl
  <2>1. /\ <<-1, "ctl">> \in ready /\ ready' = {} /\ ctl' = "closed" /\ list' = list
        /\ x11_fd' = HandleX11Ctl /\ stray' = (key /\ ctl \in Unclosed \cup Leaked)
    BY <1>3 DEF HandleCtl
  <2>2. list = <<>>
    BY <2>1 DEF CtlInv
  <2>3. stray' => ~x11_fd'
    BY <2>1 DEF HandleX11Ctl, FdRecv, CheckListen, Unclosed, Leaked
  <2>. QED
    BY <2>1, <2>2, <2>3 DEF CtlInv
<1>4. ASSUME NEW i \in DOMAIN list,
             WriteSlave(i) \/ ReadMaster(i) \/ WriteMaster(i) \/ ReadSlave(i)
      PROVE  CtlInv'
  <2>1. list # <<>>
    BY <1>4
  <2>2. UNCHANGED <<ctl, x11_fd, stray>>
    BY <1>4 DEF WriteSlave, ReadMaster, WriteMaster, ReadSlave, relayed
  <2>3. ready' \subseteq ready
    BY <1>4 DEF WriteSlave, ReadMaster, WriteMaster, ReadSlave, Write, Read, IoFree
  <2>. QED
    BY <2>1, <2>2, <2>3 DEF CtlInv
<1>5. CASE ChildSends
  <2>1. ctl = "open" /\ UNCHANGED <<x11_fd, stray, list, ready>>
    BY <1>5 DEF ChildSends
  <2>2. ctl' # "closed"
    BY <1>5 DEF ChildSends, GenFake, AddEntry, FdSend, Unclosed, Leaked
  <2>. QED
    BY <2>1, <2>2 DEF CtlInv
<1>6. ASSUME UNCHANGED <<ctl, x11_fd, stray, list, ready>> PROVE CtlInv'
  BY <1>6 DEF CtlInv
<1>7. CASE ChildDies \/ (\E c \in Conns : Connect(c))
           \/ (\E e \in Ends : Send(e) \/ Shut(e) \/ Drain(e)) \/ UNCHANGED vars
  BY <1>6, <1>7 DEF ChildDies, Connect, Send, Shut, Drain, vars
<1>. QED
  BY <1>1, <1>2, <1>3, <1>4, <1>5, <1>7 DEF Next

(* io_x11_new and io_x11_free keep io_x11_list and the open descriptors in   *)
(* step: however connections come, are refused and go, a live slot has two   *)
(* descriptors of its own, they are the two ends of one connection, and no   *)
(* descriptor is open but those.  A descriptor that handle_x11_ctl forgets   *)
(* is never beside them: nothing is accepted then.                           *)
THEOREM DescriptorsBelongToSlots == Spec => []DescriptorsMatchSlots
<1>1. ForwardInv /\ CtlInv => DescriptorsMatchSlots
  BY DEF ForwardInv, TableInv, CtlInv, DescriptorsMatchSlots
<1>2. Init => CtlInv
  BY DEF Init, CtlInv
<1>3. CtlInv /\ [Next]_vars => CtlInv'
  BY CtlIsKept
<1>. QED
  BY <1>1, <1>2, <1>3, ForwardIsInvariant, PTL DEF Spec

(* x11_handle_select frees a connection only after the program or the X      *)
(* server has closed its end: what pselect said of a descriptor is not used  *)
(* for a connection that got the number later, and a write that takes        *)
(* nothing never meets an end that is only slow.                            *)
THEOREM BreaksComeFromPeers == Spec => []OnlyPeersBreak
<1>1. ForwardInv => OnlyPeersBreak
  BY DEF ForwardInv
<1>. QED
  BY <1>1, ForwardIsInvariant, PTL

(* io_check_auth_data replaces the fake key of every first packet that one   *)
(* write sent, however the relay's reads and writes cut the stream.         *)
THEOREM WholePacketsGetTheRealKey == Spec => []WholePacketAuthenticated
<1>1. ASSUME ForwardInv PROVE WholePacketAuthenticated
  <2>1. ASSUME NEW c \in whole, kind[c] = "fake", NEW n \in DOMAIN out[Master(c)]
        PROVE  out[Master(c)][n] # <<c, "fake">>
    <3>1. c \in Conns
      BY <1>1 DEF ForwardInv, TableInv, TypeOK
    <3>. QED
      BY <1>1, <2>1, <3>1 DEF ForwardInv, FakeIsReplaced, FakeFree
  <2>. QED
    BY <2>1 DEF WholePacketAuthenticated
<1>. QED
  BY <1>1, ForwardIsInvariant, PTL

(* fds_add_x11 asks pselect for the right descriptors: of each way either    *)
(* the near end is watched for bytes or the far end for room.               *)
LEMMA AskedForAll ==
  ASSUME TableInv
  PROVE  SleepsOnlyBehindFullEnd
<1>. SUFFICES ASSUME ReadyNow = {}, NEW i \in Slots,
                     NEW e \in {table[list[i].slave], table[list[i].master]}, Readable(e)
              PROVE  /\ Other(e) \in full \ shut
                     /\ list[i][IF e[2] = "slave" THEN "slave_buf" ELSE "master_buf"] # <<>>
  BY DEF SleepsOnlyBehindFullEnd
<1>1. PICK c \in Conns : table[list[i].slave] = Slave(c) /\ table[list[i].master] = Master(c)
  BY SlotJoins
<1>2. \A r \in Watched(list[i]) :
        ~(IF r[2] = "r" THEN Readable(table[r[1]]) ELSE Writable(table[r[1]]))
  BY DEF ReadyNow, ReadyFds
<1>3. CASE e = Slave(c)
  <2>1. Other(e) = Master(c) /\ e[2] = "slave"
    BY <1>3 DEF Other, Slave, Master
  <2>2. list[i].slave_buf # <<>>
    <3>1. ASSUME list[i].slave_buf = <<>> PROVE FALSE
      <4>1. <<list[i].slave, "r">> \in Watched(list[i])
        BY <3>1 DEF Watched
      <4>. QED
        BY <1>1, <1>2, <1>3, <4>1
    <3>. QED
      BY <3>1
  <2>3. <<list[i].master, "w">> \in Watched(list[i])
    BY <2>2 DEF Watched
  <2>4. ~Writable(Master(c))
    BY <1>1, <1>2, <2>3
  <2>. QED
    BY <2>1, <2>2, <2>4 DEF Writable
<1>4. CASE e = Master(c)
  <2>1. Other(e) = Slave(c) /\ e[2] = "master"
    BY <1>4 DEF Other, Slave, Master
  <2>2. list[i].master_buf # <<>>
    <3>1. ASSUME list[i].master_buf = <<>> PROVE FALSE
      <4>1. <<list[i].master, "r">> \in Watched(list[i])
        BY <3>1 DEF Watched
      <4>. QED
        BY <1>1, <1>2, <1>4, <4>1
    <3>. QED
      BY <3>1
  <2>3. <<list[i].slave, "w">> \in Watched(list[i])
    BY <2>2 DEF Watched
  <2>4. ~Writable(Slave(c))
    BY <1>1, <1>2, <2>3
  <2>. QED
    BY <2>1, <2>2, <2>4 DEF Writable
<1>. QED
  BY <1>1, <1>3, <1>4

(* The parent sleeps in pselect over a connection only when what an end has  *)
(* sent, or its closing, waits behind bytes that the other end does not      *)
(* take.                                                                    *)
THEOREM NothingServableIsLeft == Spec => []SleepsOnlyBehindFullEnd
<1>1. ForwardInv => SleepsOnlyBehindFullEnd
  BY AskedForAll DEF ForwardInv
<1>. QED
  BY <1>1, ForwardIsInvariant, PTL


-----------------------------------------------------------------------------
(***************************************************************************)
(* Forwarding implements X11Relay.  What a step does is told connection by  *)
(* connection: those it does not touch look the same to the peers.          *)
(***************************************************************************)
Way == {"up", "down"}

Same(x) ==
  /\ Status(x)' = Status(x)
  /\ \A d \in Way : UnderWay(x, d)' = UnderWay(x, d) /\ Given(x, d)' = Given(x, d)

LEMMA NothingSeen ==
  ASSUME \A x \in Conns : Same(x)
  PROVE  UNCHANGED Relay!vars
<1>1. [x \in Conns |-> Status(x)]' = [x \in Conns |-> Status(x)]
  BY DEF Same
<1>2. [x \in Conns |-> [d \in Way |-> UnderWay(x, d)]]' = [x \in Conns |-> [d \in Way |-> UnderWay(x, d)]]
  BY DEF Same
<1>3. [x \in Conns |-> [d \in Way |-> Given(x, d)]]' = [x \in Conns |-> [d \in Way |-> Given(x, d)]]
  BY DEF Same
<1>. QED
  BY <1>1, <1>2, <1>3 DEF Relay!vars, Way

LEMMA SeenToOpen ==
  ASSUME NEW c \in Conns, \A x \in Conns \ {c} : Same(x),
         Status(c) = "none", Status(c)' = "open",
         \A d \in Way : UnderWay(c, d)' = UnderWay(c, d) /\ Given(c, d)' = Given(c, d)
  PROVE  Relay!Open(c)
<1>1. [x \in Conns |-> Status(x)]' = [[x \in Conns |-> Status(x)] EXCEPT ![c] = "open"]
  BY DEF Same
<1>2. [x \in Conns |-> [d \in Way |-> UnderWay(x, d)]]' = [x \in Conns |-> [d \in Way |-> UnderWay(x, d)]]
  BY DEF Same
<1>3. [x \in Conns |-> [d \in Way |-> Given(x, d)]]' = [x \in Conns |-> [d \in Way |-> Given(x, d)]]
  BY DEF Same
<1>. QED
  BY <1>1, <1>2, <1>3 DEF Relay!Open, Way

LEMMA SeenToBreak ==
  ASSUME NEW c \in Conns, \A x \in Conns \ {c} : Same(x),
         Status(c) = "open", Status(c)' = "broken",
         \A d \in Way : UnderWay(c, d)' = <<>> /\ Given(c, d)' = Given(c, d)
  PROVE  Relay!Break(c)
<1>1. [x \in Conns |-> Status(x)]' = [[x \in Conns |-> Status(x)] EXCEPT ![c] = "broken"]
  BY DEF Same
<1>2. [x \in Conns |-> [d \in Way |-> UnderWay(x, d)]]'
        = [[x \in Conns |-> [d \in Way |-> UnderWay(x, d)]] EXCEPT ![c] = [d \in Way |-> <<>>]]
  BY DEF Same
<1>3. [x \in Conns |-> [d \in Way |-> Given(x, d)]]' = [x \in Conns |-> [d \in Way |-> Given(x, d)]]
  BY DEF Same
<1>. QED
  BY <1>1, <1>2, <1>3 DEF Relay!Break, Way

LEMMA SeenToSend ==
  ASSUME NEW c \in Conns, NEW d \in Way, \A x \in Conns \ {c} : Same(x),
         Status(c) = "open", Status(c)' = "open", NEW s \in BurstsOf(c, d),
         \A w \in Way : UnderWay(c, w)' = IF w = d THEN UnderWay(c, d) \o s ELSE UnderWay(c, w),
         \A w \in Way : Given(c, w)' = Given(c, w)
  PROVE  Relay!Send(c, d)
<1>1. [x \in Conns |-> Status(x)]' = [x \in Conns |-> Status(x)]
  BY DEF Same
<1>2. [x \in Conns |-> [w \in Way |-> UnderWay(x, w)]]'
        = [[x \in Conns |-> [w \in Way |-> UnderWay(x, w)]] EXCEPT ![c][d] = @ \o s]
  BY DEF Same
<1>3. [x \in Conns |-> [w \in Way |-> Given(x, w)]]' = [x \in Conns |-> [w \in Way |-> Given(x, w)]]
  BY DEF Same
<1>. QED
  BY <1>1, <1>2, <1>3 DEF Relay!Send, Way

LEMMA SeenToDeliver ==
  ASSUME NEW c \in Conns, NEW d \in Way, \A x \in Conns \ {c} : Same(x),
         Status(c) = "open", Status(c)' = "open", NEW n \in 1..Len(UnderWay(c, d)),
         \A w \in Way : UnderWay(c, w)' = IF w = d THEN SubSeq(UnderWay(c, d), n + 1, Len(UnderWay(c, d)))
                                                   ELSE UnderWay(c, w),
         \A w \in Way : Given(c, w)' = IF w = d THEN Given(c, d) \o SubSeq(UnderWay(c, d), 1, n)
                                                ELSE Given(c, w)
  PROVE  Relay!Deliver(c, d)
<1>1. [x \in Conns |-> Status(x)]' = [x \in Conns |-> Status(x)]
  BY DEF Same
<1>2. [x \in Conns |-> [w \in Way |-> UnderWay(x, w)]]'
        = [[x \in Conns |-> [w \in Way |-> UnderWay(x, w)]] EXCEPT ![c][d] = SubSeq(@, n + 1, Len(@))]
  BY DEF Same
<1>3. [x \in Conns |-> [w \in Way |-> Given(x, w)]]'
        = [[x \in Conns |-> [w \in Way |-> Given(x, w)]] EXCEPT ![c][d] = @ \o SubSeq(UnderWay(c, d), 1, n)]
  BY DEF Same
<1>4. [x \in Conns |-> [w \in Way |-> UnderWay(x, w)]][c][d] = UnderWay(c, d)
  OBVIOUS
<1>5. [x \in Conns |-> Status(x)][c] = "open"
  OBVIOUS
<1>. QED
  BY <1>1, <1>2, <1>3, <1>4, <1>5 DEF Relay!Deliver, Way

LEMMA SeenToAuthenticate ==
  ASSUME NEW c \in Conns, \A x \in Conns \ {c} : Same(x),
         Status(c) = "open", Status(c)' = "open", Given(c, "up") = <<>>,
         Len(UnderWay(c, "up")) >= 2,
         UnderWay(c, "up")[1] = <<c, "hdr">>, UnderWay(c, "up")[2] = <<c, "fake">>,
         \A w \in Way : UnderWay(c, w)' = IF w = "up" THEN [UnderWay(c, "up") EXCEPT ![2] = <<c, "real">>]
                                                      ELSE UnderWay(c, w),
         \A w \in Way : Given(c, w)' = Given(c, w)
  PROVE  Relay!Authenticate(c)
<1>1. [x \in Conns |-> Status(x)]' = [x \in Conns |-> Status(x)]
  BY DEF Same
<1>2. [x \in Conns |-> [w \in Way |-> UnderWay(x, w)]]'
        = [[x \in Conns |-> [w \in Way |-> UnderWay(x, w)]] EXCEPT ![c]["up"][2] = <<c, "real">>]
  <2>. DEFINE W == [x \in Conns |-> [w \in Way |-> UnderWay(x, w)]]
              u == [UnderWay(c, "up") EXCEPT ![2] = <<c, "real">>]
  <2>1. "up" \in Way
    BY DEF Way
  <2>2. W[c] = [w \in Way |-> UnderWay(c, w)] /\ W[c]["up"] = UnderWay(c, "up")
    BY <2>1
  <2>3. [W EXCEPT ![c]["up"][2] = <<c, "real">>]
          = [W EXCEPT ![c] = [W[c] EXCEPT !["up"] = [W[c]["up"] EXCEPT ![2] = <<c, "real">>]]]
    <3>. HIDE DEF W
    <3>. QED
      OBVIOUS
  <2>4. [W EXCEPT ![c]["up"][2] = <<c, "real">>]
          = [W EXCEPT ![c] = [[w \in Way |-> UnderWay(c, w)] EXCEPT !["up"] = u]]
    BY <2>2, <2>3
  <2>5. [x \in Conns |-> [w \in Way |-> UnderWay(x, w)]]'
          = [W EXCEPT ![c] = [[w \in Way |-> UnderWay(c, w)] EXCEPT !["up"] = u]]
    <3>1. \A x \in Conns \ {c} : [w \in Way |-> UnderWay(x, w)]' = [w \in Way |-> UnderWay(x, w)]
      BY DEF Same
    <3>2. [w \in Way |-> UnderWay(c, w)]' = [[w \in Way |-> UnderWay(c, w)] EXCEPT !["up"] = u]
      <4>1. \A w \in Way : UnderWay(c, w)' = IF w = "up" THEN u ELSE UnderWay(c, w)
        OBVIOUS
      <4>. HIDE DEF u
      <4>. QED
        BY ONLY <4>1, <2>1
    <3>. HIDE DEF u
    <3>. QED
      BY ONLY <3>1, <3>2, c \in Conns
  <2>. QED
    BY <2>4, <2>5
<1>3. [x \in Conns |-> [w \in Way |-> Given(x, w)]]' = [x \in Conns |-> [w \in Way |-> Given(x, w)]]
  BY DEF Same
<1>4. /\ [x \in Conns |-> [w \in Way |-> UnderWay(x, w)]][c]["up"] = UnderWay(c, "up")
      /\ [x \in Conns |-> [w \in Way |-> Given(x, w)]][c]["up"] = Given(c, "up")
  BY DEF Way
<1>5. [x \in Conns |-> Status(x)][c] = "open"
  OBVIOUS
<1>. QED
  BY <1>1, <1>2, <1>3, <1>4, <1>5 DEF Relay!Authenticate, Way


(* The slot of a connection, and what the connection has in it.              *)
NoSlot(c) == \A i \in Slots : table[list[i].slave] # Slave(c)

BuffersOk ==
  /\ \A i \in Slots : \A c \in Conns : table[list[i].slave] = Slave(c) =>
       /\ Buffer(c, "slave_buf") = list[i].slave_buf
       /\ Buffer(c, "master_buf") = list[i].master_buf
  /\ \A c \in Conns : NoSlot(c) =>
       Buffer(c, "slave_buf") = <<>> /\ Buffer(c, "master_buf") = <<>>

LEMMA BufferIs == TableInv => BuffersOk
<1> SUFFICES ASSUME TableInv PROVE BuffersOk
  OBVIOUS
<1>1. ASSUME NEW i \in Slots, NEW c \in Conns, table[list[i].slave] = Slave(c)
      PROVE  SlotOf(c) = {i}
  <2>1. ASSUME NEW j \in Slots, table[list[j].slave] = Slave(c) PROVE j = i
    <3>1. list[i].slave \in Fd /\ list[j].slave \in Fd /\ Slave(c) # NoEnd
      BY SlotJoins, EndFacts
    <3>2. list[i].slave = list[j].slave
      BY <1>1, <2>1, <3>1 DEF TableInv, TableIsInjective
    <3>. QED
      BY <3>2 DEF TableInv, TableMatchesSlots
  <2>. QED
    BY <1>1, <2>1 DEF SlotOf
<1>2. ASSUME NEW i \in Slots, NEW c \in Conns, table[list[i].slave] = Slave(c)
      PROVE  /\ Buffer(c, "slave_buf") = list[i].slave_buf
             /\ Buffer(c, "master_buf") = list[i].master_buf
  <2>1. (CHOOSE j \in SlotOf(c) : TRUE) = i /\ SlotOf(c) # {}
    BY <1>1, <1>2
  <2>. HIDE DEF SlotOf
  <2>2. Buffer(c, "slave_buf") = list[i]["slave_buf"] /\ Buffer(c, "master_buf") = list[i]["master_buf"]
    BY ONLY <2>1 DEF Buffer
  <2>. QED
    BY ONLY <2>2
<1>3. ASSUME NEW c \in Conns, NoSlot(c)
      PROVE  Buffer(c, "slave_buf") = <<>> /\ Buffer(c, "master_buf") = <<>>
  BY <1>3 DEF Buffer, SlotOf, NoSlot
<1>. QED
  BY <1>2, <1>3 DEF BuffersOk

LEMMA NextBufferIs == TableInv' => BuffersOk'
  BY BufferIs, PTL

(* A step that leaves the slot, the ends and the state of a connection alone *)
(* is not seen by its peers.                                                *)
LEMMA OtherConnection ==
  ASSUME TableInv, TableInv', NEW x \in Conns,
         relay'[x] = relay[x], x \in backlog' <=> x \in backlog,
         inq'[Slave(x)] = inq[Slave(x)], inq'[Master(x)] = inq[Master(x)],
         out'[Slave(x)] = out[Slave(x)], out'[Master(x)] = out[Master(x)],
         \A j \in Slots : table[list[j].slave] = Slave(x) =>
           /\ j \in Slots' /\ table'[list'[j].slave] = Slave(x)
           /\ list'[j].slave_buf = list[j].slave_buf /\ list'[j].master_buf = list[j].master_buf,
         NoSlot(x) => NoSlot(x)'
  PROVE  Same(x)
<1>1. /\ Buffer(x, "slave_buf")' = Buffer(x, "slave_buf")
      /\ Buffer(x, "master_buf")' = Buffer(x, "master_buf")
  <2>0. BuffersOk /\ BuffersOk'
    BY BufferIs, NextBufferIs
  <2>1. CASE NoSlot(x)
    BY <2>0, <2>1 DEF BuffersOk
  <2>2. CASE ~NoSlot(x)
    <3>1. PICK j \in Slots : table[list[j].slave] = Slave(x)
      BY <2>2 DEF NoSlot
    <3>2. /\ j \in Slots' /\ table'[list'[j].slave] = Slave(x)
          /\ list'[j].slave_buf = list[j].slave_buf /\ list'[j].master_buf = list[j].master_buf
      BY <3>1
    <3>3. Buffer(x, "slave_buf") = list[j].slave_buf /\ Buffer(x, "master_buf") = list[j].master_buf
      BY <2>0, <3>1 DEF BuffersOk
    <3>4. Buffer(x, "slave_buf")' = list'[j].slave_buf /\ Buffer(x, "master_buf")' = list'[j].master_buf
      BY <2>0, <3>2 DEF BuffersOk
    <3>. QED
      BY <3>2, <3>3, <3>4
  <2>. QED
    BY <2>1, <2>2
<1>2. Status(x)' = Status(x)
  BY DEF Status
<1>3. \A d \in Way : UnderWay(x, d)' = UnderWay(x, d)
  BY <1>1 DEF UnderWay
<1>4. \A d \in Way : Given(x, d)' = Given(x, d)
  BY DEF Given
<1>. QED
  BY <1>2, <1>3, <1>4 DEF Same

LEMMA Unseen ==
  ASSUME UNCHANGED <<relay, backlog, list, table, inq, out>>
  PROVE  \A x \in Conns : Same(x)
<1>1. \A x, b : Buffer(x, b)' = Buffer(x, b)
  BY DEF Buffer, SlotOf, Slots
<1>. QED
  BY <1>1 DEF Same, Status, UnderWay, Given

(***************************************************************************)
(* Besides ForwardInv: what an end sends is its own, a program sends one of  *)
(* the packets it may send, and before the first read the X server has been  *)
(* given nothing.                                                          *)
(***************************************************************************)
OwnTokens == \A e \in Ends : \A n \in DOMAIN inq[e] : inq[e][n][1] = e[1]
KindOk == \A c \in Conns : c \in backlog \/ relay[c] = "open" => kind[c] \in Kinds[c]
NothingGiven ==
  /\ \A c \in Conns : relay[c] = "none" => out[Master(c)] = <<>>
  /\ \A i \in Slots : ~list[i].authenticated => out[table[list[i].master]] = <<>>
RelayInv == OwnTokens /\ KindOk /\ NothingGiven

LEMMA RelayInit == Init => RelayInv /\ Relay!Init
<1> SUFFICES ASSUME Init PROVE RelayInv /\ Relay!Init
  OBVIOUS
<1>1. Slots = {} /\ \A c \in Conns : Slave(c) \in Ends /\ Master(c) \in Ends
  BY EndFacts DEF Init, Slots
<1>2. RelayInv
  BY <1>1 DEF Init, RelayInv, OwnTokens, KindOk, NothingGiven
<1>3. \A c \in Conns : Status(c) = "none"
  BY DEF Init, Status
<1>4. \A c \in Conns, d \in Way : UnderWay(c, d) = <<>>
  <2>1. <<>> \o <<>> = <<>>
    <3>1. <<>> \in Seq(Token)
      BY EmptySeq
    <3>. QED
      BY <3>1, ConcatEmptySeq
  <2>2. \A c, b : Buffer(c, b) = <<>>
    BY <1>1 DEF Buffer, SlotOf
  <2>. QED
    BY <1>1, <2>1, <2>2 DEF Init, UnderWay
<1>5. \A c \in Conns, d \in Way : Given(c, d) = <<>>
  BY <1>1 DEF Init, Given
<1>. QED
  BY <1>2, <1>3, <1>4, <1>5 DEF Relay!Init, Way


(* Bytes taken from the front of a buffer are taken from the front of what   *)
(* is under way; a read moves the border between the two.                   *)
LEMMA SplitJoined ==
  ASSUME NEW b \in Seq(Token), NEW q \in Seq(Token), NEW n \in 0..Len(b)
  PROVE  /\ n \in 0..Len(b \o q)
         /\ SubSeq(b \o q, 1, n) = SubSeq(b, 1, n)
         /\ SubSeq(b \o q, n + 1, Len(b \o q)) = SubSeq(b, n + 1, Len(b)) \o q
<1>. DEFINE s == b \o q
            t == SubSeq(b, n + 1, Len(b))
            u == SubSeq(s, n + 1, Len(s))
            v == SubSeq(s, 1, n)
            w == SubSeq(b, 1, n)
<1>1. /\ s \in Seq(Token) /\ Len(b) \in Nat /\ Len(q) \in Nat /\ Len(s) = Len(b) + Len(q)
      /\ \A k \in 1..Len(b) + Len(q) : s[k] = IF k <= Len(b) THEN b[k] ELSE q[k - Len(b)]
  BY Joined
<1>2. n \in Nat /\ n <= Len(b) /\ n \in 0..Len(s)
  BY <1>1
<1>3. /\ w \in Seq(Token) /\ Len(w) = n /\ \A k \in 1..n : w[k] = b[k]
      /\ t \in Seq(Token) /\ Len(t) = Len(b) - n /\ \A k \in 1..(Len(b) - n) : t[k] = b[n + k]
  BY Pieces
<1>4. /\ v \in Seq(Token) /\ Len(v) = n /\ \A k \in 1..n : v[k] = s[k]
      /\ u \in Seq(Token) /\ Len(u) = Len(s) - n /\ \A k \in 1..(Len(s) - n) : u[k] = s[n + k]
  <2>. HIDE DEF s
  <2>. QED
    BY <1>1, <1>2, Pieces
<1>5. /\ t \o q \in Seq(Token) /\ Len(t \o q) = Len(t) + Len(q)
      /\ \A k \in 1..Len(t) + Len(q) : (t \o q)[k] = IF k <= Len(t) THEN t[k] ELSE q[k - Len(t)]
  <2>. HIDE DEF t
  <2>. QED
    BY <1>3, Joined
<1>. HIDE DEF s, t, u, v, w
<1>6. v = w
  <2>1. \A k \in 1..n : v[k] = w[k]
    BY <1>1, <1>2, <1>3, <1>4
  <2>. QED
    BY ONLY <1>3, <1>4, <2>1, SeqEqual
<1>7. u = t \o q
  <2>1. Len(u) = Len(t \o q)
    BY <1>1, <1>2, <1>3, <1>4, <1>5
  <2>2. ASSUME NEW k \in 1..Len(u) PROVE u[k] = (t \o q)[k]
    <3>1. k \in 1..(Len(s) - n) /\ n + k \in 1..Len(b) + Len(q) /\ k \in 1..Len(t) + Len(q)
      BY <1>1, <1>2, <1>3, <1>4
    <3>2. u[k] = s[n + k]
      BY <1>4, <3>1
    <3>3. CASE n + k <= Len(b)
      <4>1. k <= Len(t) /\ k \in 1..(Len(b) - n)
        BY <1>1, <1>2, <1>3, <3>1, <3>3
      <4>2. s[n + k] = b[n + k] /\ t[k] = b[n + k] /\ (t \o q)[k] = t[k]
        BY <1>1, <1>3, <1>5, <3>1, <3>3, <4>1
      <4>. QED
        BY <3>2, <4>2
    <3>4. CASE ~(n + k <= Len(b))
      <4>1. ~(k <= Len(t)) /\ n + k - Len(b) = k - Len(t)
        <5>1. Len(b) \in Nat /\ n \in Nat /\ k \in Int /\ Len(t) = Len(b) - n
          BY <1>1, <1>2, <1>3, <3>1
        <5>. QED
          BY ONLY <3>4, <5>1
      <4>2. s[n + k] = q[n + k - Len(b)] /\ (t \o q)[k] = q[k - Len(t)]
        BY <1>1, <1>5, <3>1, <3>4, <4>1
      <4>. QED
        BY <3>2, <4>1, <4>2
    <3>. QED
      BY <3>3, <3>4
  <2>. QED
    BY ONLY <1>4, <1>5, <2>1, <2>2, SeqEqual
<1>. QED
  BY <1>2, <1>6, <1>7 DEF s, t, u, v, w

LEMMA Rejoined ==
  ASSUME NEW q \in Seq(Token), NEW n \in 0..Len(q)
  PROVE  SubSeq(q, 1, n) \o SubSeq(q, n + 1, Len(q)) = q
<1>. DEFINE v == SubSeq(q, 1, n)
            u == SubSeq(q, n + 1, Len(q))
<1>1. n \in Nat /\ Len(q) \in Nat /\ n <= Len(q)
  BY LenProperties
<1>2. /\ v \in Seq(Token) /\ Len(v) = n /\ \A k \in 1..n : v[k] = q[k]
      /\ u \in Seq(Token) /\ Len(u) = Len(q) - n /\ \A k \in 1..(Len(q) - n) : u[k] = q[n + k]
  BY Pieces
<1>. HIDE DEF u, v
<1>3. /\ v \o u \in Seq(Token) /\ Len(v \o u) = Len(v) + Len(u)
      /\ \A k \in 1..Len(v) + Len(u) : (v \o u)[k] = IF k <= Len(v) THEN v[k] ELSE u[k - Len(v)]
  BY <1>2, Joined
<1>4. Len(v \o u) = Len(q)
  BY <1>1, <1>2, <1>3
<1>5. ASSUME NEW k \in 1..Len(v \o u) PROVE (v \o u)[k] = q[k]
  <2>1. CASE k <= n
    <3>1. k \in 1..n
      BY <1>1, <1>4, <2>1
    <3>. QED
      BY <1>2, <1>3, <3>1
  <2>2. CASE ~(k <= n)
    <3>1. k - n \in 1..(Len(q) - n) /\ n + (k - n) = k
      BY <1>1, <1>4, <2>2
    <3>2. (v \o u)[k] = u[k - n] /\ u[k - n] = q[n + (k - n)]
      BY <1>2, <1>3, <2>2, <3>1
    <3>. QED
      BY <3>1, <3>2
  <2>. QED
    BY <2>1, <2>2
<1>6. v \o u = q
  BY ONLY <1>3, <1>4, <1>5, q \in Seq(Token), SeqEqual
<1>. QED
  BY <1>6 DEF u, v

(* The real key takes the place of the second token of what was under way.   *)
LEMMA RejoinedWithRealKey ==
  ASSUME NEW q \in Seq(Token), Len(q) >= 2
  PROVE  /\ WithRealKey(SubSeq(q, 1, 2)) \in Seq(Token)
         /\ WithRealKey(SubSeq(q, 1, 2)) \o SubSeq(q, 3, Len(q)) = [q EXCEPT ![2] = <<q[2][1], "real">>]
<1>. DEFINE p == SubSeq(q, 1, 2)
            v == WithRealKey(p)
            u == SubSeq(q, 2 + 1, Len(q))
            r == [q EXCEPT ![2] = <<q[2][1], "real">>]
<1>1. Len(q) \in Nat /\ 2 \in 0..Len(q) /\ DOMAIN q = 1..Len(q) /\ q[2] \in Token
  BY LenProperties, ElementOfSeq
<1>2. /\ p \in Seq(Token) /\ DOMAIN p = 1..2 /\ Len(p) = 2 /\ \A k \in 1..2 : p[k] = q[k]
      /\ u \in Seq(Token) /\ Len(u) = Len(q) - 2 /\ \A k \in 1..(Len(q) - 2) : u[k] = q[2 + k]
  BY <1>1, Pieces
<1>. HIDE DEF p, u
<1>3. <<q[2][1], "real">> \in Token
  BY <1>1 DEF Token
<1>4. v \in Seq(Token) /\ Len(v) = 2 /\ v[1] = q[1] /\ v[2] = <<q[2][1], "real">>
  <2>1. v = [p EXCEPT ![2] = <<q[2][1], "real">>]
    BY <1>2 DEF WithRealKey
  <2>2. v \in Seq(Token) /\ Len(v) = Len(p)
    <3>1. 2 \in 1..Len(p)
      BY <1>2
    <3>. DEFINE x == <<q[2][1], "real">>
    <3>2. x \in Token
      BY <1>3
    <3>3. [p EXCEPT ![2] = x] \in Seq(Token) /\ Len([p EXCEPT ![2] = x]) = Len(p)
      <4>. HIDE DEF x
      <4>1. p \in Seq(Token)
        BY <1>2
      <4>. QED
        BY ONLY <4>1, <3>1, <3>2, ExceptSeq
    <3>. HIDE DEF v
    <3>. QED
      BY ONLY <2>1, <3>3 DEF x
  <2>. QED
    BY <1>2, <2>1, <2>2
<1>5. r \in Seq(Token) /\ Len(r) = Len(q) /\ \A k \in 1..Len(q) : r[k] = IF k = 2 THEN <<q[2][1], "real">> ELSE q[k]
  <2>1. r \in Seq(Token) /\ Len(r) = Len(q)
    BY <1>1, <1>3, ExceptSeq
  <2>. QED
    BY <1>1, <2>1
<1>. HIDE DEF v, r
<1>6. /\ v \o u \in Seq(Token) /\ Len(v \o u) = Len(v) + Len(u)
      /\ \A k \in 1..Len(v) + Len(u) : (v \o u)[k] = IF k <= Len(v) THEN v[k] ELSE u[k - Len(v)]
  BY <1>2, <1>4, Joined
<1>7. Len(v \o u) = Len(r)
  BY <1>1, <1>2, <1>4, <1>5, <1>6
<1>8. ASSUME NEW k \in 1..Len(v \o u) PROVE (v \o u)[k] = r[k]
  <2>0. k \in 1..Len(q) /\ k \in 1..Len(v) + Len(u)
    BY <1>5, <1>6, <1>7
  <2>1. CASE k = 1
    <3>1. (v \o u)[1] = v[1]
      BY <1>4, <1>6, <2>0, <2>1
    <3>2. r[1] = q[1]
      BY <1>5, <2>0, <2>1
    <3>. QED
      BY <1>4, <2>1, <3>1, <3>2
  <2>2. CASE k = 2
    <3>1. (v \o u)[2] = v[2]
      BY <1>4, <1>6, <2>0, <2>2
    <3>2. r[2] = <<q[2][1], "real">>
      BY <1>5, <2>0, <2>2
    <3>. QED
      BY <1>4, <2>2, <3>1, <3>2
  <2>3. CASE k # 1 /\ k # 2
    <3>1. k - 2 \in 1..(Len(q) - 2) /\ 2 + (k - 2) = k /\ ~(k <= 2)
      BY <1>1, <2>0, <2>3
    <3>2. (v \o u)[k] = u[k - 2]
      BY <1>4, <1>6, <2>0, <3>1
    <3>3. u[k - 2] = q[2 + (k - 2)]
      BY <1>2, <3>1
    <3>4. r[k] = q[k]
      BY <1>5, <2>0, <2>3
    <3>. QED
      BY <3>1, <3>2, <3>3, <3>4
  <2>. QED
    BY <2>1, <2>2, <2>3
<1>9. v \o u = r
  BY ONLY <1>5, <1>6, <1>7, <1>8, SeqEqual
<1>10. u = SubSeq(q, 3, Len(q))
  BY DEF u
<1>. QED
  BY <1>4, <1>9, <1>10 DEF p, v, r


(* A slot serves one connection: what it moves is seen on no other.          *)
LEMMA OthersUnmoved ==
  ASSUME TableInv, TableInv', NEW i \in Slots, NEW c \in Conns,
         table[list[i].slave] = Slave(c), table[list[i].master] = Master(c),
         UNCHANGED <<table, relay, backlog>>, Slots' = Slots,
         \A j \in Slots : list'[j].slave = list[j].slave,
         \A j \in Slots \ {i} : list'[j] = list[j],
         \A x \in Conns \ {c} : /\ inq'[Slave(x)] = inq[Slave(x)] /\ inq'[Master(x)] = inq[Master(x)]
                                /\ out'[Slave(x)] = out[Slave(x)] /\ out'[Master(x)] = out[Master(x)]
  PROVE  \A x \in Conns \ {c} : Same(x)
<1> SUFFICES ASSUME NEW x \in Conns \ {c} PROVE Same(x)
  OBVIOUS
<1>1. Slave(x) # Slave(c)
  BY EndFacts
<1>2. \A j \in Slots : table[list[j].slave] = Slave(x) =>
        /\ j \in Slots' /\ table'[list'[j].slave] = Slave(x)
        /\ list'[j].slave_buf = list[j].slave_buf /\ list'[j].master_buf = list[j].master_buf
  BY <1>1
<1>3. NoSlot(x) => NoSlot(x)'
  BY DEF NoSlot
<1>4. /\ relay'[x] = relay[x] /\ (x \in backlog' <=> x \in backlog)
      /\ inq'[Slave(x)] = inq[Slave(x)] /\ inq'[Master(x)] = inq[Master(x)]
      /\ out'[Slave(x)] = out[Slave(x)] /\ out'[Master(x)] = out[Master(x)]
  OBVIOUS
<1>. QED
  BY <1>2, <1>3, <1>4, OtherConnection

(* What is under way on an open connection that has a slot.                  *)
LEMMA Served ==
  ASSUME TableInv, NEW i \in Slots, NEW c \in Conns, relay[c] = "open",
         table[list[i].slave] = Slave(c)
  PROVE  /\ Status(c) = "open"
         /\ UnderWay(c, "up") = list[i].slave_buf \o inq[Slave(c)]
         /\ UnderWay(c, "down") = list[i].master_buf \o inq[Master(c)]
<1>1. Buffer(c, "slave_buf") = list[i].slave_buf /\ Buffer(c, "master_buf") = list[i].master_buf
  BY BufferIs DEF BuffersOk
<1>. QED
  BY <1>1 DEF Status, UnderWay

LEMMA NextServed ==
  ASSUME TableInv', NEW i \in Slots', NEW c \in Conns, relay'[c] = "open",
         table'[list'[i].slave] = Slave(c)
  PROVE  /\ Status(c)' = "open"
         /\ UnderWay(c, "up")' = list'[i].slave_buf \o inq'[Slave(c)]
         /\ UnderWay(c, "down")' = list'[i].master_buf \o inq'[Master(c)]
<1>1. Buffer(c, "slave_buf")' = list'[i].slave_buf /\ Buffer(c, "master_buf")' = list'[i].master_buf
  BY NextBufferIs DEF BuffersOk
<1>. QED
  BY <1>1 DEF Status, UnderWay

(* A write of a buffer delivers its front.                                  *)
LEMMA WriteDelivers ==
  ASSUME TableInv, TableInv', NEW i \in Slots, NEW n, WroteUp(i, n) \/ WroteDown(i, n),
         UNCHANGED relayed
  PROVE  \E c \in Conns, d \in Way : Relay!Deliver(c, d)
<1>1. PICK c \in Conns : /\ relay[c] = "open" /\ table[list[i].slave] = Slave(c)
                         /\ table[list[i].master] = Master(c)
  BY SlotJoins
<1>2. /\ UNCHANGED <<table, relay, backlog>> /\ Slots' = Slots
      /\ \A j \in Slots : list'[j].slave = list[j].slave
      /\ \A j \in Slots \ {i} : list'[j] = list[j]
  BY MoveEffect DEF relayed
<1>3. inq' = inq
  <2>1. WroteUp(i, n) => inq' = inq
    BY ONLY TRUE DEF WroteUp
  <2>2. WroteDown(i, n) => inq' = inq
    BY ONLY TRUE DEF WroteDown
  <2>. QED
    BY <2>1, <2>2
<1>4. /\ Status(c) = "open" /\ Status(c)' = "open"
      /\ UnderWay(c, "up") = list[i].slave_buf \o inq[Slave(c)]
      /\ UnderWay(c, "down") = list[i].master_buf \o inq[Master(c)]
      /\ UnderWay(c, "up")' = list'[i].slave_buf \o inq[Slave(c)]
      /\ UnderWay(c, "down")' = list'[i].master_buf \o inq[Master(c)]
  BY <1>1, <1>2, <1>3, Served, NextServed
<1>5. /\ list[i] \in IO /\ list[i].slave_buf \in Seq(Token) /\ list[i].master_buf \in Seq(Token)
      /\ Slave(c) \in Ends /\ Master(c) \in Ends /\ Slave(c) # Master(c)
      /\ inq[Slave(c)] \in Seq(Token) /\ inq[Master(c)] \in Seq(Token) /\ out \in [Ends -> Seq(Token)]
  BY SlotJoins, EndFacts DEF TableInv, TypeOK, IO
<1>6. i \in 1..Len(list) /\ list \in Seq(IO \cup {NoIO}) /\ DOMAIN list = 1..Len(list)
  BY SlotJoins, LenProperties DEF TableInv, TypeOK
<1>7. \A x \in Conns \ {c} : /\ Slave(x) \in Ends /\ Slave(x) # Slave(c) /\ Slave(x) # Master(c)
                             /\ Master(x) \in Ends /\ Master(x) # Slave(c) /\ Master(x) # Master(c)
  BY EndFacts
<1>8. CASE WroteUp(i, n)
  <2>. DEFINE b == list[i].slave_buf
              q == inq[Slave(c)]
  <2>1. /\ n \in 1..Len(b) /\ list' = [list EXCEPT ![i] = [list[i] EXCEPT !.slave_buf = SubSeq(b, n + 1, Len(b))]]
        /\ out' = [out EXCEPT ![Master(c)] = out[Master(c)] \o SubSeq(b, 1, n)]
    BY <1>1, <1>8 DEF WroteUp
  <2>2. list'[i].slave_buf = SubSeq(b, n + 1, Len(b)) /\ list'[i].master_buf = list[i].master_buf
    BY <1>5, <1>6, <2>1 DEF IO
  <2>3. n \in 0..Len(b) /\ n >= 1
    BY <2>1, <1>5, LenProperties
  <2>4. /\ n \in 0..Len(b \o q) /\ SubSeq(b \o q, 1, n) = SubSeq(b, 1, n)
        /\ SubSeq(b \o q, n + 1, Len(b \o q)) = SubSeq(b, n + 1, Len(b)) \o q
    BY <1>5, <2>3, SplitJoined
  <2>5. /\ n \in 1..Len(UnderWay(c, "up"))
        /\ UnderWay(c, "up")' = SubSeq(UnderWay(c, "up"), n + 1, Len(UnderWay(c, "up")))
        /\ UnderWay(c, "down")' = UnderWay(c, "down")
    <3>1. UnderWay(c, "up") = b \o q /\ UnderWay(c, "up")' = SubSeq(b, n + 1, Len(b)) \o q
      BY <1>4, <2>2
    <3>2. n \in 1..Len(b \o q)
      <4>1. Len(b \o q) \in Nat
        BY <1>5, LenProperties, ConcatProperties
      <4>. DEFINE l == Len(b \o q)
      <4>2. n \in 0..l /\ l \in Nat /\ n >= 1
        BY <2>3, <2>4, <4>1
      <4>. HIDE DEF l
      <4>3. n \in 1..l
        BY ONLY <4>2
      <4>. QED
        BY <4>3 DEF l
    <3>3. UnderWay(c, "down")' = UnderWay(c, "down")
      BY <1>4, <2>2
    <3>. HIDE DEF b, q
    <3>. QED
      BY <2>4, <3>1, <3>2, <3>3
  <2>6. /\ Given(c, "up")' = Given(c, "up") \o SubSeq(UnderWay(c, "up"), 1, n)
        /\ Given(c, "down")' = Given(c, "down")
    BY <1>4, <1>5, <2>1, <2>4 DEF Given
  <2>7. \A x \in Conns \ {c} : Same(x)
    <3>1. \A x \in Conns \ {c} : /\ inq'[Slave(x)] = inq[Slave(x)] /\ inq'[Master(x)] = inq[Master(x)]
                                 /\ out'[Slave(x)] = out[Slave(x)] /\ out'[Master(x)] = out[Master(x)]
      BY <1>3, <1>5, <1>7, <2>1
    <3>. QED
      BY <1>1, <1>2, <3>1, OthersUnmoved
  <2>8. /\ \A w \in Way : UnderWay(c, w)' = IF w = "up" THEN SubSeq(UnderWay(c, "up"), n + 1, Len(UnderWay(c, "up")))
                                            ELSE UnderWay(c, w)
        /\ \A w \in Way : Given(c, w)' = IF w = "up" THEN Given(c, "up") \o SubSeq(UnderWay(c, "up"), 1, n)
                                         ELSE Given(c, w)
    BY <2>5, <2>6 DEF Way
  <2>9. "up" \in Way
    BY DEF Way
  <2>10. Relay!Deliver(c, "up")
    BY <1>4, <2>5, <2>7, <2>8, <2>9, SeenToDeliver
  <2>. QED
    BY <2>9, <2>10
<1>9. CASE WroteDown(i, n)
  <2>. DEFINE b == list[i].master_buf
              q == inq[Master(c)]
  <2>1. /\ n \in 1..Len(b) /\ list' = [list EXCEPT ![i] = [list[i] EXCEPT !.master_buf = SubSeq(b, n + 1, Len(b))]]
        /\ out' = [out EXCEPT ![Slave(c)] = out[Slave(c)] \o SubSeq(b, 1, n)]
    BY <1>1, <1>9 DEF WroteDown
  <2>2. list'[i].master_buf = SubSeq(b, n + 1, Len(b)) /\ list'[i].slave_buf = list[i].slave_buf
    BY <1>5, <1>6, <2>1 DEF IO
  <2>3. n \in 0..Len(b) /\ n >= 1
    BY <2>1, <1>5, LenProperties
  <2>4. /\ n \in 0..Len(b \o q) /\ SubSeq(b \o q, 1, n) = SubSeq(b, 1, n)
        /\ SubSeq(b \o q, n + 1, Len(b \o q)) = SubSeq(b, n + 1, Len(b)) \o q
    BY <1>5, <2>3, SplitJoined
  <2>5. /\ n \in 1..Len(UnderWay(c, "down"))
        /\ UnderWay(c, "down")' = SubSeq(UnderWay(c, "down"), n + 1, Len(UnderWay(c, "down")))
        /\ UnderWay(c, "up")' = UnderWay(c, "up")
    <3>1. UnderWay(c, "down") = b \o q /\ UnderWay(c, "down")' = SubSeq(b, n + 1, Len(b)) \o q
      BY <1>4, <2>2
    <3>2. n \in 1..Len(b \o q)
      <4>1. Len(b \o q) \in Nat
        BY <1>5, LenProperties, ConcatProperties
      <4>. DEFINE l == Len(b \o q)
      <4>2. n \in 0..l /\ l \in Nat /\ n >= 1
        BY <2>3, <2>4, <4>1
      <4>. HIDE DEF l
      <4>3. n \in 1..l
        BY ONLY <4>2
      <4>. QED
        BY <4>3 DEF l
    <3>3. UnderWay(c, "up")' = UnderWay(c, "up")
      BY <1>4, <2>2
    <3>. HIDE DEF b, q
    <3>. QED
      BY <2>4, <3>1, <3>2, <3>3
  <2>6. /\ Given(c, "down")' = Given(c, "down") \o SubSeq(UnderWay(c, "down"), 1, n)
        /\ Given(c, "up")' = Given(c, "up")
    BY <1>4, <1>5, <2>1, <2>4 DEF Given
  <2>7. \A x \in Conns \ {c} : Same(x)
    <3>1. \A x \in Conns \ {c} : /\ inq'[Slave(x)] = inq[Slave(x)] /\ inq'[Master(x)] = inq[Master(x)]
                                 /\ out'[Slave(x)] = out[Slave(x)] /\ out'[Master(x)] = out[Master(x)]
      BY <1>3, <1>5, <1>7, <2>1
    <3>. QED
      BY <1>1, <1>2, <3>1, OthersUnmoved
  <2>8. /\ \A w \in Way : UnderWay(c, w)' = IF w = "down" THEN SubSeq(UnderWay(c, "down"), n + 1, Len(UnderWay(c, "down")))
                                            ELSE UnderWay(c, w)
        /\ \A w \in Way : Given(c, w)' = IF w = "down" THEN Given(c, "down") \o SubSeq(UnderWay(c, "down"), 1, n)
                                         ELSE Given(c, w)
    BY <2>5, <2>6 DEF Way
  <2>9. "down" \in Way
    BY DEF Way
  <2>10. Relay!Deliver(c, "down")
    BY <1>4, <2>5, <2>7, <2>8, <2>9, SeenToDeliver
  <2>. QED
    BY <2>9, <2>10
<1>. QED
  BY <1>8, <1>9


(* A read of the X server moves bytes nobody can see moving; the first read  *)
(* of a program may put the real key in.                                    *)
LEMMA ReadIsHidden ==
  ASSUME TableInv, TableInv', RelayInv, NEW i \in Slots, NEW n, TookUp(i, n) \/ TookDown(i, n),
         UNCHANGED relayed
  PROVE  UNCHANGED Relay!vars \/ \E c \in Conns : Relay!Authenticate(c)
<1>1. PICK c \in Conns : /\ relay[c] = "open" /\ table[list[i].slave] = Slave(c)
                         /\ table[list[i].master] = Master(c)
  BY SlotJoins
<1>2. /\ UNCHANGED <<table, relay, backlog>> /\ Slots' = Slots
      /\ \A j \in Slots : list'[j].slave = list[j].slave
      /\ \A j \in Slots \ {i} : list'[j] = list[j]
  BY MoveEffect DEF relayed
<1>3. out' = out
  <2>1. TookUp(i, n) => out' = out
    BY ONLY TRUE DEF TookUp
  <2>2. TookDown(i, n) => out' = out
    BY ONLY TRUE DEF TookDown
  <2>. QED
    BY <2>1, <2>2
<1>4. /\ Status(c) = "open" /\ Status(c)' = "open"
      /\ UnderWay(c, "up") = list[i].slave_buf \o inq[Slave(c)]
      /\ UnderWay(c, "down") = list[i].master_buf \o inq[Master(c)]
      /\ UnderWay(c, "up")' = list'[i].slave_buf \o inq'[Slave(c)]
      /\ UnderWay(c, "down")' = list'[i].master_buf \o inq'[Master(c)]
  BY <1>1, <1>2, Served, NextServed
<1>5. /\ list[i] \in IO /\ list[i].slave_buf \in Seq(Token) /\ list[i].master_buf \in Seq(Token)
      /\ Slave(c) \in Ends /\ Master(c) \in Ends /\ Slave(c) # Master(c)
      /\ inq[Slave(c)] \in Seq(Token) /\ inq[Master(c)] \in Seq(Token) /\ inq \in [Ends -> Seq(Token)]
  BY SlotJoins, EndFacts DEF TableInv, TypeOK, IO
<1>6. i \in 1..Len(list) /\ list \in Seq(IO \cup {NoIO}) /\ DOMAIN list = 1..Len(list)
  BY SlotJoins, LenProperties DEF TableInv, TypeOK
<1>7. \A x \in Conns \ {c} : /\ Slave(x) \in Ends /\ Slave(x) # Slave(c) /\ Slave(x) # Master(c)
                             /\ Master(x) \in Ends /\ Master(x) # Slave(c) /\ Master(x) # Master(c)
  BY EndFacts
<1>8. \A d \in Way : Given(c, d)' = Given(c, d)
  BY <1>3 DEF Given
<1>9. ASSUME NEW e \in {Slave(c), Master(c)}, inq' = [inq EXCEPT ![e] = SubSeq(inq[e], n + 1, Len(inq[e]))]
      PROVE  \A x \in Conns \ {c} : Same(x)
  <2>1. \A x \in Conns \ {c} : /\ inq'[Slave(x)] = inq[Slave(x)] /\ inq'[Master(x)] = inq[Master(x)]
                               /\ out'[Slave(x)] = out[Slave(x)] /\ out'[Master(x)] = out[Master(x)]
    BY <1>3, <1>5, <1>7, <1>9
  <2>. QED
    BY <1>1, <1>2, <2>1, OthersUnmoved
<1>10. ASSUME \A x \in Conns \ {c} : Same(x), \A d \in Way : UnderWay(c, d)' = UnderWay(c, d)
       PROVE  UNCHANGED Relay!vars
  <2>1. Same(c)
    BY <1>4, <1>8, <1>10 DEF Same
  <2>. QED
    BY <1>10, <2>1, NothingSeen
<1>11. CASE TookDown(i, n)
  <2>. DEFINE q == inq[Master(c)]
              p == SubSeq(q, 1, n)
              r == SubSeq(q, n + 1, Len(q))
  <2>1. /\ list[i].master_buf = <<>> /\ n = (IF Len(q) < 2 THEN Len(q) ELSE 2)
        /\ list' = [list EXCEPT ![i] = [list[i] EXCEPT !.master_buf = p]]
        /\ inq' = [inq EXCEPT ![Master(c)] = r]
    BY <1>1, <1>11 DEF TookDown
  <2>2. n \in 0..Len(q)
    <3>1. Len(q) \in Nat
      BY <1>5, LenProperties
    <3>. HIDE DEF q
    <3>. QED
      BY <2>1, <3>1
  <2>3. list'[i].master_buf = p /\ list'[i].slave_buf = list[i].slave_buf
    <3>. HIDE DEF p
    <3>. QED
      BY <1>5, <1>6, <2>1 DEF IO
  <2>4. inq'[Master(c)] = r /\ inq'[Slave(c)] = inq[Slave(c)]
    <3>. HIDE DEF r
    <3>. QED
      BY <1>5, <2>1
  <2>5. p \o r = q /\ <<>> \o q = q
    BY <1>5, <2>2, Rejoined, ConcatEmptySeq
  <2>6. UnderWay(c, "down")' = UnderWay(c, "down") /\ UnderWay(c, "up")' = UnderWay(c, "up")
    <3>. HIDE DEF p, r, q
    <3>1. UnderWay(c, "down") = q /\ UnderWay(c, "down")' = q
      BY <1>4, <2>1, <2>3, <2>4, <2>5 DEF q
    <3>. QED
      BY <1>4, <2>3, <2>4, <3>1
  <2>7. \A x \in Conns \ {c} : Same(x)
    BY <1>9, <2>1
  <2>. QED
    BY <1>10, <2>6, <2>7 DEF Way
<1>12. CASE TookUp(i, n)
  <2>. DEFINE q == inq[Slave(c)]
              p == SubSeq(q, 1, n)
              r == SubSeq(q, n + 1, Len(q))
              io == [list[i] EXCEPT !.slave_buf = p]
  <2>1. /\ list[i].slave_buf = <<>> /\ n = (IF Len(q) < 2 THEN Len(q) ELSE 2)
        /\ list' = [list EXCEPT ![i] = CheckAuth(io)]
        /\ inq' = [inq EXCEPT ![Slave(c)] = r]
    BY <1>1, <1>12 DEF TookUp
  <2>2. n \in 0..Len(q) /\ Len(q) \in Nat
    <3>1. Len(q) \in Nat
      BY <1>5, LenProperties
    <3>. HIDE DEF q
    <3>. QED
      BY <2>1, <3>1
  <2>3. /\ p \in Seq(Token) /\ Len(p) = n /\ \A k \in 1..n : p[k] = q[k]
    BY <1>5, <2>2, Pieces
  <2>4. inq'[Slave(c)] = r /\ inq'[Master(c)] = inq[Master(c)]
    <3>. HIDE DEF r
    <3>. QED
      BY <1>5, <2>1
  <2>5. p \o r = q /\ <<>> \o q = q
    BY <1>5, <2>2, Rejoined, ConcatEmptySeq
  <2>6. \A x \in Conns \ {c} : Same(x)
    BY <1>9, <2>1
  <2>7. list'[i] = CheckAuth(io)
    <3>. HIDE DEF io
    <3>. QED
      BY <1>6, <2>1
  <2>. HIDE DEF p, r, q
  <2>8. /\ io.slave_buf = p /\ io.master_buf = list[i].master_buf
        /\ io.authenticated = list[i].authenticated /\ io \in IO
    BY <1>5, <2>3 DEF IO
  <2>. HIDE DEF io
  <2>9. UnderWay(c, "up") = q
    BY <1>4, <2>1, <2>5 DEF q
  <2>10. CheckAuth(io).master_buf = list[i].master_buf
    BY <2>8 DEF CheckAuth, IO
  <2>11. UnderWay(c, "down")' = UnderWay(c, "down")
    BY <1>4, <2>4, <2>7, <2>10
  <2>12. CASE io.authenticated \/ ~PresentsFake(p)
    <3>1. CheckAuth(io).slave_buf = p
      BY <2>8, <2>12 DEF CheckAuth, IO
    <3>2. UnderWay(c, "up")' = q
      BY <1>4, <2>4, <2>5, <2>7, <3>1
    <3>. QED
      BY <1>10, <2>6, <2>9, <2>11, <3>2 DEF Way
  <2>13. CASE ~io.authenticated /\ PresentsFake(p)
    <3>1. CheckAuth(io).slave_buf = WithRealKey(p)
      BY <2>8, <2>13 DEF CheckAuth, IO
    <3>2. n = 2 /\ Len(q) >= 2
      BY <2>1, <2>2, <2>3, <2>13 DEF PresentsFake
    <3>3. q \in Seq(Token) /\ DOMAIN q = 1..Len(q) /\ q[1] \in Token /\ q[2] \in Token
      BY <1>5, <2>2, <3>2, LenProperties, ElementOfSeq DEF q
    <3>4. q[1][2] = "hdr" /\ q[2][2] = "fake"
      BY <2>3, <2>13, <3>2 DEF PresentsFake
    <3>5. q[1][1] = c /\ q[2][1] = c
      <4>1. Slave(c)[1] = c
        BY EndFacts
      <4>2. \A k \in DOMAIN q : q[k][1] = c
        BY <1>5, <4>1 DEF RelayInv, OwnTokens, q
      <4>3. 1 \in DOMAIN q /\ 2 \in DOMAIN q
        BY <2>2, <3>2, <3>3
      <4>. QED
        BY <4>2, <4>3
    <3>6. q[1] = <<c, "hdr">> /\ q[2] = <<c, "fake">>
      BY <3>3, <3>4, <3>5 DEF Token
    <3>7. WithRealKey(p) \o r = [q EXCEPT ![2] = <<c, "real">>]
      <4>1. WithRealKey(SubSeq(q, 1, 2)) \o SubSeq(q, 3, Len(q)) = [q EXCEPT ![2] = <<q[2][1], "real">>]
        <5>1. q \in Seq(Token) /\ Len(q) >= 2
          BY <3>2, <3>3
        <5>. QED
          BY ONLY <5>1, RejoinedWithRealKey
      <4>2. p = SubSeq(q, 1, 2) /\ r = SubSeq(q, 3, Len(q))
        BY <3>2 DEF p, r
      <4>3. q[2][1] = c
        BY <3>5
      <4>. QED
        BY ONLY <4>1, <4>2, <4>3
    <3>8. UnderWay(c, "up")' = [UnderWay(c, "up") EXCEPT ![2] = <<c, "real">>]
      BY <1>4, <2>4, <2>7, <2>9, <3>1, <3>7
    <3>9. Given(c, "up") = <<>>
      BY <1>1, <2>8, <2>13 DEF Given, RelayInv, NothingGiven
    <3>10. \A w \in Way : UnderWay(c, w)' = IF w = "up" THEN [UnderWay(c, "up") EXCEPT ![2] = <<c, "real">>]
                                            ELSE UnderWay(c, w)
      BY <2>11, <3>8 DEF Way
    <3>11. /\ Len(UnderWay(c, "up")) >= 2 /\ UnderWay(c, "up")[1] = <<c, "hdr">>
           /\ UnderWay(c, "up")[2] = <<c, "fake">>
      BY <2>9, <3>2, <3>6
    <3>12. Relay!Authenticate(c)
      BY <1>4, <1>8, <2>6, <3>9, <3>10, <3>11, SeenToAuthenticate
    <3>. QED
      BY <3>12
  <2>. QED
    BY <2>12, <2>13
<1>. QED
  BY <1>11, <1>12

(* A connection that is freed breaks.                                       *)
LEMMA FreeBreaks ==
  ASSUME TableInv, TableInv', NEW i \in Slots, Frees(i), UNCHANGED relayed
  PROVE  \E c \in Conns : Relay!Break(c)
<1>1. /\ Slots' = Slots \ {i} /\ UNCHANGED <<inq, out, backlog>>
      /\ \A j \in Slots' : list'[j] = list[j]
      /\ \A n \in Fd : table'[n] = IF n \in {list[i].slave, list[i].master} THEN NoEnd
                                   ELSE table[n]
  BY FreeEffect DEF Frees, relayed
<1>2. PICK c \in Conns : /\ table[list[i].slave] = Slave(c) /\ relay[c] = "open"
                         /\ relay' = [relay EXCEPT ![c] = "closed"]
  BY FreeEffect DEF Frees
<1>3. \A j \in Slots' : /\ j \in Slots /\ list'[j] = list[j]
                        /\ table'[list'[j].slave] = table[list[j].slave]
  <2>1. ASSUME NEW j \in Slots'
        PROVE  /\ j \in Slots /\ list'[j] = list[j]
               /\ table'[list'[j].slave] = table[list[j].slave]
    <3>1. j \in Slots \ {i} /\ list'[j] = list[j]
      BY <1>1
    <3>2. list[j].slave \in Fd /\ list[j].slave \notin {list[i].slave, list[i].master}
      BY <3>1, SlotJoins
    <3>. QED
      BY <1>1, <3>1, <3>2
  <2>. QED
    BY <2>1
<1>4. relay'[c] = "closed" /\ \A x \in Conns \ {c} : relay'[x] = relay[x]
  BY <1>2 DEF TableInv, TypeOK
<1>5. \A x \in Conns \ {c} : Same(x)
  <2> SUFFICES ASSUME NEW x \in Conns \ {c} PROVE Same(x)
    OBVIOUS
  <2>1. Slave(x) # Slave(c)
    BY EndFacts
  <2>2. \A j \in Slots : table[list[j].slave] = Slave(x) =>
          /\ j \in Slots' /\ table'[list'[j].slave] = Slave(x)
          /\ list'[j].slave_buf = list[j].slave_buf /\ list'[j].master_buf = list[j].master_buf
    BY <1>1, <1>2, <1>3, <2>1
  <2>3. NoSlot(x) => NoSlot(x)'
    BY <1>3 DEF NoSlot
  <2>. QED
    BY <1>1, <1>4, <2>2, <2>3, OtherConnection
<1>6. /\ Status(c) = "open" /\ Status(c)' = "broken"
      /\ \A d \in Way : UnderWay(c, d)' = <<>> /\ Given(c, d)' = Given(c, d)
  BY <1>1, <1>2, <1>4 DEF Status, UnderWay, Given
<1>. QED
  BY <1>5, <1>6, SeenToBreak


(* An accepted program is seen as before, one turned away as broken.         *)
LEMMA NewOpensOrBreaks ==
  ASSUME TableInv, TableInv', HandleNew
  PROVE  UNCHANGED Relay!vars \/ \E c \in Conns : Relay!Break(c)
<1>1. UNCHANGED <<kind, inq, out>>
  BY NewSteps DEF sockets
<1>2. PICK c \in backlog :
        /\ backlog' = backlog \ {c}
        /\ \/ \E a, b \in Fd : Accepts(c, a, b)
           \/ relay' = [relay EXCEPT ![c] = "refused"] /\ UNCHANGED <<table, list>>
  BY NewSteps
<1>3. /\ c \in Conns /\ relay[c] = "none"
      /\ inq[Slave(c)] \in Seq(Token) /\ inq[Master(c)] \in Seq(Token)
  BY EndFacts DEF TableInv, BacklogOk, TypeOK
<1>4. NoSlot(c)
  <2>1. ASSUME NEW j \in Slots, table[list[j].slave] = Slave(c) PROVE FALSE
    <3>1. \E d \in Conns : relay[d] = "open" /\ table[list[j].slave] = Slave(d)
      BY SlotJoins
    <3>. QED
      BY <1>3, <2>1, <3>1, EndFacts
  <2>. QED
    BY <2>1 DEF NoSlot
<1>5. \A d \in Way : Given(c, d)' = Given(c, d)
  BY <1>1 DEF Given
<1>6. Status(c) = "open"
  BY <1>3 DEF Status
<1>7. CASE \E a, b \in Fd : Accepts(c, a, b)
  <2>0. PICK a \in Fd, b \in Fd : \E k : Accepted(c, a, b, k)
    BY <1>7, AcceptEffect
  <2>1. PICK k : Accepted(c, a, b, k)
    BY <2>0
  <2>2. /\ k \notin Slots /\ k \in Slots' /\ Slots' = Slots \cup {k}
        /\ list'[k] = [master |-> b, slave |-> a, master_buf |-> <<>>,
                       slave_buf |-> <<>>, authenticated |-> FALSE]
        /\ table'[a] = Slave(c) /\ table'[b] = Master(c)
        /\ relay'[c] = "open" /\ \A d \in Conns : d # c => relay'[d] = relay[d]
    BY <2>1 DEF Accepted
  <2>3. \A j \in Slots : list'[j] = list[j] /\ table'[list[j].slave] = table[list[j].slave]
    BY <2>1 DEF Accepted
  <2>4. \A x \in Conns \ {c} : Same(x)
    <3> SUFFICES ASSUME NEW x \in Conns \ {c} PROVE Same(x)
      OBVIOUS
    <3>1. Slave(x) # Slave(c)
      BY EndFacts
    <3>2. \A j \in Slots : table[list[j].slave] = Slave(x) =>
            /\ j \in Slots' /\ table'[list'[j].slave] = Slave(x)
            /\ list'[j].slave_buf = list[j].slave_buf /\ list'[j].master_buf = list[j].master_buf
      BY <2>2, <2>3
    <3>3. NoSlot(x) => NoSlot(x)'
      <4>1. ASSUME NoSlot(x), NEW j \in Slots' PROVE table'[list'[j].slave] # Slave(x)
        <5>1. CASE j = k
          BY <2>2, <3>1, <5>1
        <5>2. CASE j \in Slots
          BY <2>3, <4>1, <5>2 DEF NoSlot
        <5>. QED
          BY <2>2, <5>1, <5>2
      <4>. QED
        BY <4>1 DEF NoSlot
    <3>4. relay'[x] = relay[x] /\ (x \in backlog' <=> x \in backlog)
      BY <1>2, <2>2
    <3>. QED
      BY <1>1, <3>2, <3>3, <3>4, OtherConnection
  <2>5. Same(c)
    <3>1. /\ Status(c)' = "open"
          /\ UnderWay(c, "up")' = <<>> \o inq[Slave(c)]
          /\ UnderWay(c, "down")' = <<>> \o inq[Master(c)]
      <4>1. list'[k].slave = a /\ list'[k].slave_buf = <<>> /\ list'[k].master_buf = <<>>
        BY <2>2
      <4>2. table'[list'[k].slave] = Slave(c)
        BY <2>2, <4>1
      <4>. QED
        BY <1>1, <1>3, <2>2, <4>1, <4>2, NextServed
    <3>2. Buffer(c, "slave_buf") = <<>> /\ Buffer(c, "master_buf") = <<>>
      BY <1>3, <1>4, BufferIs DEF BuffersOk
    <3>3. UnderWay(c, "up") = <<>> \o inq[Slave(c)] /\ UnderWay(c, "down") = <<>> \o inq[Master(c)]
      BY <1>3, <3>2 DEF UnderWay
    <3>. QED
      BY <1>5, <1>6, <3>1, <3>3 DEF Same, Way
  <2>. QED
    BY <2>4, <2>5, NothingSeen
<1>8. CASE relay' = [relay EXCEPT ![c] = "refused"] /\ UNCHANGED <<table, list>>
  <2>1. relay'[c] = "refused" /\ \A x \in Conns \ {c} : relay'[x] = relay[x]
    BY <1>3, <1>8 DEF TableInv, TypeOK
  <2>2. \A x \in Conns \ {c} : Same(x)
    <3> SUFFICES ASSUME NEW x \in Conns \ {c} PROVE Same(x)
      OBVIOUS
    <3>1. Slots' = Slots /\ (x \in backlog' <=> x \in backlog)
      BY <1>2, <1>8 DEF Slots
    <3>. QED
      BY <1>1, <1>8, <2>1, <3>1, OtherConnection DEF NoSlot
  <2>3. Status(c)' = "broken" /\ \A d \in Way : UnderWay(c, d)' = <<>>
    BY <2>1 DEF Status, UnderWay
  <2>. QED
    BY <1>3, <1>5, <1>6, <2>2, <2>3, SeenToBreak
<1>. QED
  BY <1>2, <1>7, <1>8

LEMMA ConnectOpens ==
  ASSUME TableInv, NEW c \in Conns, Connect(c)
  PROVE  Relay!Open(c)
<1>1. /\ UNCHANGED <<list, table, relay, inq, out>>
      /\ backlog' = backlog \cup {c} /\ relay[c] = "none" /\ c \notin backlog
  BY DEF Connect
<1>2. \A x, b : Buffer(x, b)' = Buffer(x, b)
  BY <1>1 DEF Buffer, SlotOf, Slots
<1>3. \A x \in Conns, d \in Way : UnderWay(x, d)' = UnderWay(x, d) /\ Given(x, d)' = Given(x, d)
  BY <1>1, <1>2 DEF UnderWay, Given
<1>4. \A x \in Conns \ {c} : Status(x)' = Status(x)
  BY <1>1 DEF Status
<1>5. Status(c) = "none" /\ Status(c)' = "open"
  BY <1>1 DEF Status
<1>. QED
  BY <1>3, <1>4, <1>5, SeenToOpen DEF Same

(* What an end sends at once is a part of its stream.                        *)
Part(e, n) == SubSeq(Stream(e), sent[e] + 1, sent[e] + n)

LEMMA PartOfStream ==
  ASSUME TypeOK, NEW e \in Ends, NEW n \in Nat \ {0}, n <= Len(Stream(e)) - sent[e]
  PROVE  /\ Part(e, n) \in Seq(Token) /\ \A k \in DOMAIN Part(e, n) : Part(e, n)[k][1] = e[1]
         /\ sent[e] + 1 \in 1..Len(Stream(e)) /\ sent[e] + n \in 1..Len(Stream(e))
<1>. DEFINE s == Stream(e)
            l == sent[e] + 1
            m == sent[e] + n
            p == SubSeq(s, l, m)
<1>1. s \in Seq(Token) /\ Len(s) \in Nat /\ \A k \in 1..Len(s) : s[k] \in Token
  BY StreamType, LenProperties, ElementOfSeq
<1>2. sent[e] \in Nat
  BY DEF TypeOK
<1>3. \A k \in DOMAIN s : s[k][1] = e[1]
  BY DEF Stream, Tokens
<1>. HIDE DEF s
<1>4. l \in Int /\ m \in Int /\ l \in 1..Len(s) /\ m \in 1..Len(s)
  BY <1>1, <1>2 DEF s
<1>5. \A k \in l..m : k \in 1..Len(s)
  BY <1>1, <1>4
<1>. HIDE DEF l, m
<1>6. /\ p \in Seq(Token) /\ Len(p) = IF l <= m THEN m - l + 1 ELSE 0
      /\ \A k \in 1..m - l + 1 : p[k] = s[l + k - 1]
  BY <1>1, <1>4, <1>5, SubSeqProperties
<1>. HIDE DEF p
<1>7. ASSUME NEW k \in DOMAIN p PROVE p[k][1] = e[1]
  <2>1. k \in 1..Len(p)
    BY <1>6, LenProperties
  <2>2. k \in 1..m - l + 1 /\ l + k - 1 \in l..m
    <3>1. Len(p) = m - l + 1 \/ Len(p) = 0
      BY <1>6
    <3>2. l \in Int /\ m \in Int
      BY <1>4
    <3>. QED
      BY ONLY <2>1, <3>1, <3>2
  <2>3. l + k - 1 \in DOMAIN s
    BY <1>1, <1>5, <2>2, LenProperties
  <2>. QED
    BY <1>3, <1>6, <2>2, <2>3
<1>. QED
  BY <1>4, <1>6, <1>7 DEF Part, p, l, m, s

LEMMA SendIsSend ==
  ASSUME TableInv, RelayInv, NEW e \in Ends, Send(e)
  PROVE  \E c \in Conns, d \in Way : Relay!Send(c, d)
<1>1. UNCHANGED <<backlog, list, table, relay, kind, out>> /\ Live(e)
  BY DEF Send
<1>2. PICK n \in Nat \ {0} :
        /\ n <= Len(Stream(e)) - sent[e]
        /\ inq' = [inq EXCEPT ![e] = inq[e] \o Part(e, n)]
  BY SendEffect DEF TableInv, Part
<1>3. /\ Part(e, n) \in Seq(Token)
      /\ sent[e] + 1 \in 1..Len(Stream(e)) /\ sent[e] + n \in 1..Len(Stream(e))
  BY <1>2, PartOfStream DEF TableInv
<1>. DEFINE c == e[1]
            d == IF e = Slave(c) THEN "up" ELSE "down"
<1>4. c \in Conns /\ d \in Way /\ e \in {Slave(c), Master(c)} /\ Slave(c) # Master(c)
      /\ Slave(c) \in Ends /\ Master(c) \in Ends /\ e = (IF d = "up" THEN Slave(c) ELSE Master(c))
  BY EndFacts DEF Way
<1>5. Status(c) = "open" /\ (c \in backlog \/ relay[c] = "open") /\ relay[c] \notin {"refused", "closed"}
  BY <1>1, <1>4 DEF Live, Status, TableInv, BacklogOk
<1>6. Part(e, n) \in BurstsOf(c, d)
  <2>1. kind[c] \in Kinds[c]
    BY <1>4, <1>5 DEF RelayInv, KindOk
  <2>. HIDE DEF c, d
  <2>2. e[1] = c
    BY DEF c
  <2>3. Stream(e) = Tokens(e, kind[c])
    BY <2>2 DEF Stream
  <2>4. Part(e, n) \in {SubSeq(Tokens(e, kind[c]), a, b) : a, b \in 1..Len(Tokens(e, kind[c]))}
    <3>. DEFINE t == Tokens(e, kind[c])
                a == sent[e] + 1
                b == sent[e] + n
    <3>1. Part(e, n) = SubSeq(t, a, b) /\ a \in 1..Len(t) /\ b \in 1..Len(t)
      BY <1>3, <2>3 DEF Part
    <3>. HIDE DEF t, a, b
    <3>2. Part(e, n) \in {SubSeq(t, x, y) : x, y \in 1..Len(t)}
      BY <3>1
    <3>. QED
      BY <3>2 DEF t
  <2>. QED
    BY <1>4, <2>1, <2>4 DEF BurstsOf
<1>7. \A x, b : Buffer(x, b)' = Buffer(x, b)
  BY <1>1 DEF Buffer, SlotOf, Slots
<1>8. inq \in [Ends -> Seq(Token)] /\ inq'[e] = inq[e] \o Part(e, n)
      /\ \A f \in Ends : f # e => inq'[f] = inq[f]
  BY <1>2 DEF TableInv, TypeOK
<1>9. \A x \in Conns : Status(x)' = Status(x) /\ \A w \in Way : Given(x, w)' = Given(x, w)
  BY <1>1 DEF Status, Given
<1>10. \A x \in Conns \ {c} : Same(x)
  <2>1. \A x \in Conns \ {c} : /\ Slave(x) \in Ends /\ Slave(x) # e /\ Master(x) \in Ends /\ Master(x) # e
    BY EndFacts
  <2>2. \A x \in Conns \ {c} : inq'[Slave(x)] = inq[Slave(x)] /\ inq'[Master(x)] = inq[Master(x)]
    BY <1>8, <2>1
  <2>3. \A x \in Conns \ {c} : \A w \in Way : UnderWay(x, w)' = UnderWay(x, w)
    BY <1>1, <1>7, <2>2 DEF UnderWay
  <2>. QED
    BY <1>9, <2>3 DEF Same
<1>11. Buffer(c, "slave_buf") \in Seq(Token) /\ Buffer(c, "master_buf") \in Seq(Token)
  <2>1. CASE NoSlot(c)
    <3>1. <<>> \in Seq(Token)
      BY EmptySeq
    <3>. QED
      BY <1>4, <2>1, <3>1, BufferIs DEF BuffersOk
  <2>2. CASE ~NoSlot(c)
    <3>1. PICK j \in Slots : table[list[j].slave] = Slave(c)
      BY <2>2 DEF NoSlot
    <3>2. list[j].slave_buf \in Seq(Token) /\ list[j].master_buf \in Seq(Token)
      BY SlotJoins DEF IO
    <3>. QED
      BY <1>4, <3>1, <3>2, BufferIs DEF BuffersOk
  <2>. QED
    BY <2>1, <2>2
<1>12. UnderWay(c, d)' = UnderWay(c, d) \o Part(e, n)
  <2>. DEFINE b == IF d = "up" THEN Buffer(c, "slave_buf") ELSE Buffer(c, "master_buf")
              p == Part(e, n)
  <2>1. b \in Seq(Token) /\ inq[e] \in Seq(Token) /\ p \in Seq(Token)
    BY <1>3, <1>8, <1>11
  <2>2. UnderWay(c, d) = b \o inq[e]
    BY <1>4, <1>5 DEF UnderWay
  <2>3. UnderWay(c, d)' = b \o inq'[e]
    BY <1>1, <1>4, <1>5, <1>7 DEF UnderWay
  <2>. HIDE DEF b, p, c, d
  <2>4. (b \o inq[e]) \o p = b \o (inq[e] \o p)
    <3>. DEFINE q == inq[e]
    <3>1. b \in Seq(Token) /\ q \in Seq(Token) /\ p \in Seq(Token)
      BY <2>1
    <3>. HIDE DEF q
    <3>2. (b \o q) \o p = b \o (q \o p)
      BY ONLY <3>1, ConcatAssociative
    <3>. QED
      BY <3>2 DEF q
  <2>5. inq'[e] = inq[e] \o p
    BY <1>8 DEF p
  <2>. QED
    BY <2>2, <2>3, <2>4, <2>5 DEF p
<1>13. \A w \in Way : w # d => UnderWay(c, w)' = UnderWay(c, w)
  <2>1. \A f \in {Slave(c), Master(c)} : f # e => inq'[f] = inq[f]
    BY <1>4, <1>8
  <2>. QED
    BY <1>1, <1>4, <1>7, <2>1 DEF UnderWay, Way
<1>14. \A w \in Way : UnderWay(c, w)' = IF w = d THEN UnderWay(c, d) \o Part(e, n) ELSE UnderWay(c, w)
  BY <1>12, <1>13
<1>15. Status(c)' = "open" /\ \A w \in Way : Given(c, w)' = Given(c, w)
  BY <1>4, <1>5, <1>9
<1>. HIDE DEF c, d
<1>16. Relay!Send(c, d)
  BY <1>4, <1>5, <1>6, <1>10, <1>14, <1>15, SeenToSend
<1>. QED
  BY <1>4, <1>16


LEMMA SlotsKeepRelayInv ==
  ASSUME ForwardInv, RelayInv, NEW i \in Slots, UNCHANGED relayed,
         Frees(i) \/ \E n : WroteUp(i, n) \/ WroteDown(i, n) \/ TookUp(i, n) \/ TookDown(i, n)
  PROVE  RelayInv'
<1>0. TableInv /\ FirstReadOk
  BY DEF ForwardInv
<1>1. PICK c \in Conns : /\ relay[c] = "open" /\ table[list[i].slave] = Slave(c)
                         /\ table[list[i].master] = Master(c)
  BY <1>0, SlotJoins
<1>2. /\ Slave(c) \in Ends /\ Master(c) \in Ends /\ \A d \in Conns : Master(d) # Slave(c) /\ Master(d) \in Ends
      /\ inq \in [Ends -> Seq(Token)] /\ out \in [Ends -> Seq(Token)]
  BY <1>0, EndFacts DEF TableInv, TypeOK
<1>3. UNCHANGED <<backlog, kind>>
  BY DEF relayed
<1>4. CASE Frees(i)
  <2>1. /\ Slots' = Slots \ {i} /\ UNCHANGED <<inq, out>>
        /\ \A j \in Slots' : list'[j] = list[j]
        /\ \A n \in Fd : table'[n] = IF n \in {list[i].slave, list[i].master} THEN NoEnd
                                     ELSE table[n]
        /\ \E x \in Conns : relay[x] = "open" /\ relay' = [relay EXCEPT ![x] = "closed"]
    BY <1>0, <1>4, FreeEffect DEF Frees
  <2>2. \A x \in Conns : /\ relay'[x] = "none" => relay[x] = "none"
                         /\ relay'[x] = "open" => relay[x] = "open"
    BY <1>0, <2>1 DEF TableInv, TypeOK
  <2>3. \A j \in Slots' : j \in Slots /\ list'[j] = list[j] /\ table'[list'[j].master] = table[list[j].master]
    <3>1. ASSUME NEW j \in Slots'
          PROVE  j \in Slots /\ list'[j] = list[j] /\ table'[list'[j].master] = table[list[j].master]
      <4>1. j \in Slots \ {i} /\ list'[j] = list[j]
        BY <2>1
      <4>2. list[j].master \in Fd /\ list[j].master \notin {list[i].slave, list[i].master}
        BY <1>0, <4>1, SlotJoins
      <4>. QED
        BY <2>1, <4>1, <4>2
    <3>. QED
      BY <3>1
  <2>4. OwnTokens'
    BY <2>1 DEF RelayInv, OwnTokens
  <2>5. KindOk'
    BY <1>3, <2>2 DEF RelayInv, KindOk
  <2>6. NothingGiven'
    <3>1. \A x \in Conns : relay'[x] = "none" => out'[Master(x)] = <<>>
      BY <2>1, <2>2 DEF RelayInv, NothingGiven
    <3>2. \A j \in Slots' : ~list'[j].authenticated => out'[table'[list'[j].master]] = <<>>
      <4>1. ASSUME NEW j \in Slots', ~list'[j].authenticated
            PROVE  out'[table'[list'[j].master]] = <<>>
        <5>1. j \in Slots /\ ~list[j].authenticated
          BY <2>3, <4>1
        <5>2. out[table[list[j].master]] = <<>>
          BY <5>1 DEF RelayInv, NothingGiven
        <5>. QED
          BY <2>1, <2>3, <5>2
      <4>. QED
        BY <4>1
    <3>. QED
      BY <3>1, <3>2 DEF NothingGiven
  <2>. QED
    BY <2>4, <2>5, <2>6 DEF RelayInv
<1>5. ASSUME NEW n, WroteUp(i, n) \/ WroteDown(i, n) \/ TookUp(i, n) \/ TookDown(i, n)
      PROVE  RelayInv'
  <2>1. /\ UNCHANGED <<table, relay>> /\ Slots' = Slots
        /\ \A j \in Slots : list'[j].master = list[j].master
        /\ \A j \in Slots \ {i} : list'[j] = list[j]
    BY <1>0, <1>5, MoveEffect
  <2>2. KindOk'
    BY <1>3, <2>1 DEF RelayInv, KindOk
  <2>3. \A j \in Slots \ {i} : table[list[j].master] # Master(c) /\ \E d \in Conns : table[list[j].master] = Master(d)
    <3>1. ASSUME NEW j \in Slots \ {i}
          PROVE  table[list[j].master] # Master(c) /\ \E d \in Conns : table[list[j].master] = Master(d)
      <4>1. PICK d \in Conns : table[list[j].slave] = Slave(d) /\ table[list[j].master] = Master(d)
        BY <1>0, SlotJoins
      <4>2. table[list[j].slave] # table[list[i].slave]
        BY <1>0, SlotJoins
      <4>3. d # c
        BY <1>1, <4>1, <4>2
      <4>. QED
        BY <4>1, <4>3, EndFacts
    <3>. QED
      BY <3>1
  <2>4. list[i] \in IO /\ i \in 1..Len(list) /\ list \in Seq(IO \cup {NoIO}) /\ DOMAIN list = 1..Len(list)
    BY <1>0, SlotJoins, LenProperties DEF TableInv, TypeOK
  <2>5. ASSUME NEW e \in Ends, n \in 0..Len(inq[e]),
               inq' = [inq EXCEPT ![e] = SubSeq(inq[e], n + 1, Len(inq[e]))]
        PROVE  OwnTokens'
    <3>. DEFINE q == inq[e]
                r == SubSeq(q, n + 1, Len(q))
    <3>1. q \in Seq(Token) /\ n \in 0..Len(q)
      BY <1>2, <2>5
    <3>2. DOMAIN r = 1..(Len(q) - n) /\ \A k \in 1..(Len(q) - n) : r[k] = q[n + k]
      BY <3>1, Pieces
    <3>3. DOMAIN q = 1..Len(q) /\ Len(q) \in Nat
      BY <3>1, LenProperties
    <3>4. \A k \in DOMAIN q : q[k][1] = e[1]
      BY DEF RelayInv, OwnTokens
    <3>. HIDE DEF q
    <3>5. \A k \in 1..(Len(q) - n) : n + k \in 1..Len(q)
      BY <3>1, <3>3
    <3>6. \A k \in DOMAIN r : r[k][1] = e[1]
      <4>. HIDE DEF r
      <4>. QED
        BY <3>2, <3>3, <3>4, <3>5
    <3>7. inq'[e] = r /\ \A f \in Ends : f # e => inq'[f] = inq[f]
      BY <1>2, <2>5 DEF q
    <3>. HIDE DEF r
    <3>. QED
      BY <3>6, <3>7 DEF RelayInv, OwnTokens
  <2>6. CASE WroteUp(i, n)
    <3>1. /\ inq' = inq /\ list[i].slave_buf # <<>>
          /\ \E s : list' = [list EXCEPT ![i] = [list[i] EXCEPT !.slave_buf = s]]
          /\ \E s : out' = [out EXCEPT ![Master(c)] = s]
      BY <1>1, <2>6 DEF WroteUp
    <3>2. list[i].authenticated
      BY <1>0, <3>1 DEF FirstReadOk
    <3>3. list'[i].authenticated
      BY <2>4, <3>1, <3>2 DEF IO
    <3>4. \A j \in Slots : ~list'[j].authenticated => j # i /\ out'[table[list[j].master]] = out[table[list[j].master]]
      BY <1>2, <2>3, <3>1, <3>3
    <3>5. \A d \in Conns : relay[d] = "none" => out'[Master(d)] = out[Master(d)]
      <4>1. \A d \in Conns : relay[d] = "none" => Master(d) # Master(c) /\ Master(d) \in Ends
        BY <1>1, EndFacts
      <4>. QED
        BY <1>2, <3>1, <4>1
    <3>6. NothingGiven'
      BY <2>1, <3>4, <3>5 DEF RelayInv, NothingGiven
    <3>7. OwnTokens'
      BY <3>1 DEF RelayInv, OwnTokens
    <3>. QED
      BY <2>2, <3>6, <3>7 DEF RelayInv
  <2>7. CASE WroteDown(i, n)
    <3>1. /\ inq' = inq
          /\ \E s : list' = [list EXCEPT ![i] = [list[i] EXCEPT !.master_buf = s]]
          /\ \E s : out' = [out EXCEPT ![Slave(c)] = s]
      BY <1>1, <2>7 DEF WroteDown
    <3>2. list'[i].authenticated = list[i].authenticated
      BY <2>4, <3>1 DEF IO
    <3>3. \A d \in Conns : out'[Master(d)] = out[Master(d)]
      BY <1>2, <3>1
    <3>4. \A j \in Slots : /\ list'[j].authenticated = list[j].authenticated
                           /\ out'[table[list[j].master]] = out[table[list[j].master]]
      BY <1>1, <2>1, <2>3, <3>2, <3>3
    <3>5. NothingGiven'
      BY <2>1, <3>3, <3>4 DEF RelayInv, NothingGiven
    <3>6. OwnTokens'
      BY <3>1 DEF RelayInv, OwnTokens
    <3>. QED
      BY <2>2, <3>5, <3>6 DEF RelayInv
  <2>8. ASSUME NEW q \in Seq(Token), n = (IF Len(q) < 2 THEN Len(q) ELSE 2) PROVE n \in 0..Len(q)
    <3>1. Len(q) \in Nat
      BY LenProperties
    <3>. QED
      BY <2>8, <3>1
  <2>9. CASE TookUp(i, n)
    <3>. DEFINE q == inq[Slave(c)]
    <3>1. /\ out' = out /\ n = (IF Len(q) < 2 THEN Len(q) ELSE 2)
          /\ \E s : list' = [list EXCEPT ![i] = CheckAuth([list[i] EXCEPT !.slave_buf = s])]
          /\ inq' = [inq EXCEPT ![Slave(c)] = SubSeq(q, n + 1, Len(q))]
      BY <1>1, <2>9 DEF TookUp
    <3>2. OwnTokens'
      BY <1>2, <2>5, <2>8, <3>1
    <3>3. list'[i].authenticated
      <4>1. \A s : CheckAuth([list[i] EXCEPT !.slave_buf = s]).authenticated
        BY <2>4 DEF CheckAuth, IO
      <4>. QED
        BY <2>4, <3>1, <4>1
    <3>4. NothingGiven'
      BY <2>1, <3>1, <3>3 DEF RelayInv, NothingGiven
    <3>. QED
      BY <2>2, <3>2, <3>4 DEF RelayInv
  <2>10. CASE TookDown(i, n)
    <3>. DEFINE q == inq[Master(c)]
    <3>1. /\ out' = out /\ n = (IF Len(q) < 2 THEN Len(q) ELSE 2)
          /\ \E s : list' = [list EXCEPT ![i] = [list[i] EXCEPT !.master_buf = s]]
          /\ inq' = [inq EXCEPT ![Master(c)] = SubSeq(q, n + 1, Len(q))]
      BY <1>1, <2>10 DEF TookDown
    <3>2. OwnTokens'
      BY <1>2, <2>5, <2>8, <3>1
    <3>3. list'[i].authenticated = list[i].authenticated
      BY <2>4, <3>1 DEF IO
    <3>4. NothingGiven'
      BY <2>1, <3>1, <3>3 DEF RelayInv, NothingGiven
    <3>. QED
      BY <2>2, <3>2, <3>4 DEF RelayInv
  <2>. QED
    BY <1>5, <2>6, <2>7, <2>9, <2>10
<1>. QED
  BY <1>4, <1>5

LEMMA NewKeepsRelayInv ==
  ASSUME TableInv, RelayInv, HandleNew
  PROVE  RelayInv'
<1>1. UNCHANGED <<kind, inq, out>>
  BY NewSteps DEF sockets
<1>2. PICK c \in backlog :
        /\ backlog' = backlog \ {c}
        /\ \/ \E a, b \in Fd : Accepts(c, a, b)
           \/ relay' = [relay EXCEPT ![c] = "refused"] /\ UNCHANGED <<table, list>>
  BY NewSteps
<1>3. c \in Conns /\ relay[c] = "none"
  BY DEF TableInv, BacklogOk
<1>4. OwnTokens'
  BY <1>1 DEF RelayInv, OwnTokens
<1>5. CASE \E a, b \in Fd : Accepts(c, a, b)
  <2>0. PICK a \in Fd, b \in Fd : \E k : Accepted(c, a, b, k)
    BY <1>3, <1>5, AcceptEffect
  <2>1. PICK k : Accepted(c, a, b, k)
    BY <2>0
  <2>2. /\ Slots' = Slots \cup {k}
        /\ table'[list'[k].master] = Master(c)
        /\ relay'[c] = "open" /\ \A d \in Conns : d # c => relay'[d] = relay[d]
        /\ \A j \in Slots : list'[j] = list[j] /\ table'[list[j].master] = table[list[j].master]
    BY <2>1 DEF Accepted
  <2>3. KindOk'
    BY <1>1, <1>2, <2>2 DEF RelayInv, KindOk
  <2>4. out[Master(c)] = <<>>
    BY <1>3 DEF RelayInv, NothingGiven
  <2>5. \A j \in Slots : ~list'[j].authenticated => out'[table'[list'[j].master]] = <<>>
    <3>1. \A j \in Slots : ~list[j].authenticated => out[table[list[j].master]] = <<>>
      BY DEF RelayInv, NothingGiven
    <3>. QED
      BY <1>1, <2>2, <3>1
  <2>6. out'[table'[list'[k].master]] = <<>>
    BY <1>1, <2>2, <2>4
  <2>7. \A d \in Conns : relay'[d] = "none" => out'[Master(d)] = <<>>
    BY <1>1, <2>2 DEF RelayInv, NothingGiven
  <2>8. NothingGiven'
    BY <2>2, <2>5, <2>6, <2>7 DEF NothingGiven
  <2>. QED
    BY <1>4, <2>3, <2>8 DEF RelayInv
<1>6. CASE relay' = [relay EXCEPT ![c] = "refused"] /\ UNCHANGED <<table, list>>
  <2>1. \A d \in Conns : relay'[d] = IF d = c THEN "refused" ELSE relay[d]
    BY <1>6 DEF TableInv, TypeOK
  <2>2. KindOk'
    BY <1>1, <1>2, <2>1 DEF RelayInv, KindOk
  <2>3. NothingGiven'
    BY <1>1, <1>6, <2>1 DEF RelayInv, NothingGiven, Slots
  <2>. QED
    BY <1>4, <2>2, <2>3 DEF RelayInv
<1>. QED
  BY <1>2, <1>5, <1>6

(* One step of the relay and its peers is a step of X11Relay or hidden.      *)
LEMMA StepIsRelayed ==
  ASSUME ForwardInv, ForwardInv', RelayInv, [Next]_vars
  PROVE  RelayInv' /\ (Relay!Next \/ UNCHANGED Relay!vars)
<1>0. TableInv /\ TableInv'
  BY DEF ForwardInv
<1>1. CASE \E i \in DOMAIN list : WriteSlave(i) \/ ReadMaster(i) \/ WriteMaster(i) \/ ReadSlave(i)
  <2>1. PICK i \in DOMAIN list : WriteSlave(i) \/ ReadMaster(i) \/ WriteMaster(i) \/ ReadSlave(i)
    BY <1>1
  <2>2. /\ i \in Slots /\ UNCHANGED relayed
        /\ \/ Frees(i)
           \/ \E n : WroteUp(i, n) \/ WroteDown(i, n) \/ TookUp(i, n) \/ TookDown(i, n)
    BY <1>0, <2>1, SlotSteps DEF TableInv
  <2>3. RelayInv'
    BY <2>2, SlotsKeepRelayInv
  <2>4. CASE Frees(i)
    BY <1>0, <2>2, <2>3, <2>4, FreeBreaks DEF Relay!Next
  <2>5. ASSUME NEW n, WroteUp(i, n) \/ WroteDown(i, n) PROVE Relay!Next
    BY <1>0, <2>2, <2>5, WriteDelivers DEF Relay!Next, Way
  <2>6. ASSUME NEW n, TookUp(i, n) \/ TookDown(i, n) PROVE Relay!Next \/ UNCHANGED Relay!vars
    BY <1>0, <2>2, <2>6, ReadIsHidden DEF Relay!Next
  <2>. QED
    BY <2>2, <2>3, <2>4, <2>5, <2>6
<1>2. CASE HandleNew
  <2>1. RelayInv'
    BY <1>0, <1>2, NewKeepsRelayInv
  <2>2. Relay!Next \/ UNCHANGED Relay!vars
    BY <1>0, <1>2, NewOpensOrBreaks DEF Relay!Next
  <2>. QED
    BY <2>1, <2>2
<1>3. ASSUME UNCHANGED <<relay, backlog, list, table, inq, out, kind>>
      PROVE  RelayInv' /\ UNCHANGED Relay!vars
  <2>1. RelayInv'
    BY <1>3 DEF RelayInv, OwnTokens, KindOk, NothingGiven, Slots
  <2>2. UNCHANGED Relay!vars
    BY <1>3, Unseen, NothingSeen
  <2>. QED
    BY <2>1, <2>2
<1>4. CASE Select \/ ChildDies \/ HandleCtl \/ ChildSends
  <2>1. UNCHANGED <<relay, backlog, list, table, inq, out, kind>>
    <3>1. ASSUME UNCHANGED <<relay, backlog, list, table, sockets>>
          PROVE  UNCHANGED <<relay, backlog, list, table, inq, out, kind>>
      BY <3>1 DEF sockets
    <3>2. UNCHANGED <<relay, backlog, list, table, sockets>>
      <4>1. CASE Select
        BY <4>1 DEF Select
      <4>2. CASE ChildDies
        BY <4>2 DEF ChildDies
      <4>3. CASE HandleCtl
        BY <4>3 DEF HandleCtl
      <4>4. CASE ChildSends
        BY <4>4 DEF ChildSends
      <4>. QED
        BY <1>4, <4>1, <4>2, <4>3, <4>4
    <3>. QED
      BY <3>1, <3>2
  <2>. QED
    BY <1>3, <2>1
<1>5. CASE \E c \in Conns : Connect(c)
  <2>1. PICK c \in Conns : Connect(c)
    BY <1>5
  <2>2. /\ UNCHANGED <<list, table, relay, inq, out>>
        /\ backlog' = backlog \cup {c}
        /\ \E k \in Kinds[c] : kind' = [kind EXCEPT ![c] = k]
    BY <2>1 DEF Connect
  <2>3. KindOk'
    BY <1>0, <2>2 DEF RelayInv, KindOk, TableInv, TypeOK
  <2>4. OwnTokens' /\ NothingGiven'
    BY <2>2 DEF RelayInv, OwnTokens, NothingGiven, Slots
  <2>5. Relay!Next
    BY <1>0, <2>1, ConnectOpens DEF Relay!Next
  <2>. QED
    BY <2>3, <2>4, <2>5 DEF RelayInv
<1>6. CASE \E e \in Ends : Send(e)
  <2>1. PICK e \in Ends : Send(e)
    BY <1>6
  <2>2. UNCHANGED <<backlog, list, table, relay, kind, out>>
    BY <2>1 DEF Send
  <2>3. PICK n \in Nat \ {0} :
          /\ n <= Len(Stream(e)) - sent[e]
          /\ inq' = [inq EXCEPT ![e] = inq[e] \o Part(e, n)]
    BY <1>0, <2>1, SendEffect DEF TableInv, Part
  <2>4. OwnTokens'
    <3>. DEFINE p == Part(e, n)
                q == inq[e]
    <3>1. p \in Seq(Token) /\ \A k \in DOMAIN p : p[k][1] = e[1]
      BY <1>0, <2>3, PartOfStream DEF TableInv
    <3>2. q \in Seq(Token) /\ inq \in [Ends -> Seq(Token)]
      BY <1>0 DEF TableInv, TypeOK
    <3>3. \A k \in DOMAIN q : q[k][1] = e[1]
      BY DEF RelayInv, OwnTokens
    <3>4. inq'[e] = q \o p /\ \A f \in Ends : f # e => inq'[f] = inq[f]
      BY <2>3, <3>2
    <3>. HIDE DEF p, q
    <3>5. \A k \in DOMAIN (q \o p) : (q \o p)[k][1] = e[1]
      <4>1. /\ Len(q) \in Nat /\ Len(p) \in Nat /\ DOMAIN q = 1..Len(q) /\ DOMAIN p = 1..Len(p)
            /\ DOMAIN (q \o p) = 1..(Len(q) + Len(p))
            /\ \A k \in 1..Len(q) + Len(p) : (q \o p)[k] = IF k <= Len(q) THEN q[k] ELSE p[k - Len(q)]
        BY <3>1, <3>2, Joined, LenProperties
      <4>2. ASSUME NEW k \in 1..Len(q) + Len(p) PROVE (q \o p)[k][1] = e[1]
        <5>1. CASE k <= Len(q)
          <6>1. k \in DOMAIN q /\ (q \o p)[k] = q[k]
            BY <4>1, <5>1
          <6>. QED
            BY <3>3, <6>1
        <5>2. CASE ~(k <= Len(q))
          <6>1. k - Len(q) \in DOMAIN p /\ (q \o p)[k] = p[k - Len(q)]
            BY <4>1, <5>2
          <6>. QED
            BY <3>1, <6>1
        <5>. QED
          BY <5>1, <5>2
      <4>. QED
        BY <4>1, <4>2
    <3>6. \A k \in DOMAIN inq'[e] : inq'[e][k][1] = e[1]
      BY <3>4, <3>5
    <3>7. \A f \in Ends : f # e => \A k \in DOMAIN inq'[f] : inq'[f][k][1] = f[1]
      BY <3>4 DEF RelayInv, OwnTokens
    <3>. QED
      BY <3>6, <3>7 DEF OwnTokens
  <2>5. KindOk' /\ NothingGiven'
    BY <2>2 DEF RelayInv, KindOk, NothingGiven, Slots
  <2>6. Relay!Next
    BY <1>0, <2>1, SendIsSend DEF Relay!Next, Way
  <2>. QED
    BY <2>4, <2>5, <2>6 DEF RelayInv
<1>7. CASE \E e \in Ends : Shut(e) \/ Drain(e)
  BY <1>3, <1>7 DEF Shut, Drain
<1>8. CASE UNCHANGED vars
  BY <1>3, <1>8 DEF vars, sockets
<1>. QED
  BY <1>1, <1>2, <1>4, <1>5, <1>6, <1>7, <1>8 DEF Next

(* x11_handle_new, x11_handle_select and the buffers of io_x11_list are a    *)
(* pair of private byte streams for every connection: nothing is reordered,  *)
(* doubled, lost from the middle or given to another connection, whatever    *)
(* slots and descriptor numbers are reused, and nothing is changed but the   *)
(* fake key of a first packet that presents it.                             *)
THEOREM ForwardingRelays == Spec => RelaysStreams
<1>1. Init => RelayInv /\ Relay!Init
  BY RelayInit
<1>2. ForwardInv /\ ForwardInv' /\ RelayInv /\ [Next]_vars => RelayInv' /\ [Relay!Next]_(Relay!vars)
  BY StepIsRelayed
<1>. QED
  BY <1>1, <1>2, ForwardIsInvariant, PTL DEF Spec, RelaysStreams, Relay!Spec

=============================================================================
