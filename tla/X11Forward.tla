----------------------------- MODULE X11Forward -----------------------------
(***************************************************************************)
(* X11 forwarding in the parent of a chrootuid job (io_x11.c, x11.c and    *)
(* the X11 part of handle_io in parent.c): connections that programs make  *)
(* to the socket in the chroot are relayed to the X server of the caller,  *)
(* with the real authentication data in the place of the fake ones.        *)
(*                                                                         *)
(* Bytes are tokens <<c, t>> of a connection c.  The first packet of a     *)
(* program is a header and its authentication data, a bare header or       *)
(* something else; two tokens are less than BUFSIZ.  What pselect(2)       *)
(* reported and x11_handle_select has not handled yet is in ready: the     *)
(* loop is back in pselect when nothing is left.                           *)
(***************************************************************************)
EXTENDS Integers, Sequences, FiniteSets

CONSTANTS
  Conns,       \* bound: connections of programs in the chroot
  Kinds,       \* bound: the first packets of each connection
  Data,        \* bound: tokens its program sends after the first packet
  Replies      \* bound: tokens the X server sends on it

ASSUME ForwardConstants ==
  /\ IsFiniteSet(Conns)
  /\ Kinds \in [Conns -> SUBSET {"fake", "wrong", "bare", "junk"}]
  /\ Data \in [Conns -> Nat] /\ Replies \in [Conns -> Nat]

VARIABLES
  child,       \* child_pid is not zero
  ctl,         \* the control socket: what the child sent, or "closed"
  x11_fd,      \* the listening socket has been received
  stray,       \* a descriptor came with the data and is held by nothing
  key,         \* x11_key is made of hexadecimal digits
  backlog,     \* connections that wait to be accepted
  list,        \* io_x11_list
  table,       \* descriptor table: an end of a connection, or NoEnd
  ready,       \* read_fds and write_fds still to be looked at in this turn
  kind,        \* the first packet of each connection
  whole,       \* connections whose first packet was sent by one write
  relay,       \* the relay's side of a connection: "none", "open", "closed"
  shut,        \* ends that the program or the X server has closed
  full,        \* ends that take no more bytes for now
  sent,        \* number of tokens an end has sent
  inq,         \* tokens an end sent and the relay has not read
  out          \* tokens an end was given, in order

sockets == <<kind, whole, shut, full, sent, inq, out>>
vars == <<child, ctl, x11_fd, stray, key, backlog, list, table, ready, relay, sockets>>

Slave(c) == <<c, "slave">>         \* accepted from a program
Master(c) == <<c, "master">>       \* connected to the X server
Ends == Conns \X {"slave", "master"}
Other(e) == IF e[2] = "slave" THEN Master(e[1]) ELSE Slave(e[1])
NoEnd == <<>>
NoIO == [master |-> -1]
MaxFd == 2 * Cardinality(Conns) + 1
Fd == 0..MaxFd                     \* numbers above the parent's other ones
BufSize == 2                       \* bound: tokens in BUFSIZ bytes

\* What a program whose first packet is of kind k, and the X server, send.
FirstPacket(k) == IF k \in {"fake", "wrong"} THEN <<"hdr", k>> ELSE <<k>>
Tokens(e, k) ==
  LET ts == IF e[2] = "slave" THEN FirstPacket(k) \o [n \in 1..Data[e[1]] |-> "data"]
                              ELSE [n \in 1..Replies[e[1]] |-> "reply"]
  IN  [n \in 1..Len(ts) |-> <<e[1], ts[n]>>]
Stream(e) == Tokens(e, kind[e[1]])

-----------------------------------------------------------------------------
(* The descriptor table and io_x11_list.                                   *)
LowestFd(t) == CHOOSE n \in Fd : t[n] = NoEnd /\ \A k \in Fd : t[k] = NoEnd => n <= k
Slots == {i \in DOMAIN list : list[i] # NoIO}

\* io_x11_new: the first empty slot, or a new one at the end.
IoNew(io) ==
  IF Slots = DOMAIN list THEN Append(list, io)
  ELSE LET i == CHOOSE i \in DOMAIN list \ Slots :
                  \A k \in DOMAIN list \ Slots : i <= k
       IN  [list EXCEPT ![i] = io]

\* io_x11_free: the slot is emptied and both descriptors are closed; what is
\* left in the buffers is lost.
IoFree(i) ==
  /\ list' = [list EXCEPT ![i] = NoIO]
  /\ table' = [table EXCEPT ![list[i].master] = NoEnd, ![list[i].slave] = NoEnd]
  /\ relay' = [relay EXCEPT ![table[list[i].slave][1]] = "closed"]
  /\ ready' = {r \in ready : r[1] \notin {list[i].master, list[i].slave}}

-----------------------------------------------------------------------------
(* pselect(2).                                                             *)
Readable(e) == inq[e] # <<>> \/ e \in shut
Writable(e) == e \notin full \/ e \in shut

\* fds_add_x11: a full buffer waits for room at the far end, an empty one
\* for bytes at the near end.
WatchedOneWay(io) ==
  (IF io.slave_buf # <<>> THEN {<<io.master, "w">>} ELSE {<<io.slave, "r">>})
  \cup (IF io.master_buf # <<>> THEN {<<io.slave, "w">>} ELSE {})
Watched(io) ==
  (IF io.slave_buf # <<>> THEN {<<io.master, "w">>} ELSE {<<io.slave, "r">>})
  \cup (IF io.master_buf # <<>> THEN {<<io.slave, "w">>} ELSE {<<io.master, "r">>})

ReadyFdsUnasked ==
  {r \in UNION {Watched(list[i]) : i \in Slots} :
     r[2] = "r" => Readable(table[r[1]])}
ReadyFds ==
  {r \in UNION {Watched(list[i]) : i \in Slots} :
     IF r[2] = "r" THEN Readable(table[r[1]]) ELSE Writable(table[r[1]])}

\* The listener and the control socket are watched while the child lives.
ReadyNow ==
  ReadyFds
  \cup (IF child /\ x11_fd /\ backlog # {} THEN {<<-1, "listen">>} ELSE {})
  \cup (IF child /\ ctl \notin {"open", "closed"} THEN {<<-1, "ctl">>} ELSE {})

Select ==
  /\ ready = {} /\ ReadyNow # {}
  /\ ready' = ReadyNow
  /\ UNCHANGED <<child, ctl, x11_fd, stray, key, backlog, list, table, relay, sockets>>

\* SIGCHLD of the child is delivered inside pselect.
ChildDies ==
  /\ ready = {} /\ child
  /\ child' = FALSE
  /\ UNCHANGED <<ctl, x11_fd, stray, key, backlog, list, table, ready, relay, sockets>>

-----------------------------------------------------------------------------
(***************************************************************************)
(* x11_handle_select: slot by slot, and in each the four steps below in    *)
(* this order.  NextStep is the first of them that applies.                *)
(***************************************************************************)
StepsOf(i) ==
  {k \in 1..4 :
    LET io == list[i] IN
    CASE k = 1 -> io.master_buf # <<>> /\ <<io.slave, "w">> \in ready
      [] k = 2 -> io.master_buf = <<>> /\ <<io.master, "r">> \in ready
      [] k = 3 -> io.slave_buf # <<>> /\ <<io.master, "w">> \in ready
      [] k = 4 -> io.slave_buf = <<>> /\ <<io.slave, "r">> \in ready}

NextStep(i, k) ==
  /\ i \in Slots /\ k \in StepsOf(i)
  /\ \A j \in Slots : StepsOf(j) # {} => i <= j
  /\ \A l \in StepsOf(i) : k <= l

NoSteps == \A i \in Slots : StepsOf(i) = {}

\* write_loop: as much as the end takes; an error only if that is nothing.
Written(e, s) ==
  IF e \in shut \/ e \in full THEN {-1} ELSE 1..Len(s)

WriteUnmoved(i, e, buf, fd) ==
  \E n \in Written(e, list[i][buf]) :
    \/ n < 0 /\ IoFree(i) /\ UNCHANGED <<full, out>>
    \/ /\ n > 0
       /\ list' = [list EXCEPT ![i][buf] = SubSeq(@, 1, Len(@) - n)]
       /\ out' = [out EXCEPT ![e] = @ \o SubSeq(list[i][buf], 1, n)]
       /\ \/ full' = full \cup {e}
          \/ n = Len(list[i][buf]) /\ UNCHANGED full
       /\ ready' = ready \ {<<fd, "w">>}
       /\ UNCHANGED <<table, relay>>
Write(i, e, buf, fd) ==
  \E n \in Written(e, list[i][buf]) :
    \/ n < 0 /\ IoFree(i) /\ UNCHANGED <<full, out>>
    \/ /\ n > 0
       /\ list' = [list EXCEPT ![i][buf] = SubSeq(@, n + 1, Len(@))]
       /\ out' = [out EXCEPT ![e] = @ \o SubSeq(list[i][buf], 1, n)]
       /\ \/ full' = full \cup {e}
          \/ n = Len(list[i][buf]) /\ UNCHANGED full
       /\ ready' = ready \ {<<fd, "w">>}
       /\ UNCHANGED <<table, relay>>

(***************************************************************************)
(* io_check_auth_data looks at the first read only.  A packet that is      *)
(* short, of unknown byte order, without or with other data is passed on   *)
(* as it is.                                                               *)
(***************************************************************************)
PresentsFake(s) == Len(s) >= 2 /\ s[1][2] = "hdr" /\ s[2][2] = "fake"
WithRealKey(s) == [s EXCEPT ![2] = <<@[1], "real">>]
CheckAuthShort(io) ==
  IF io.authenticated THEN io
  ELSE [io EXCEPT !.authenticated = TRUE,
                  !.slave_buf = IF PresentsFake(@) /\ Len(@) > BufSize
                                THEN WithRealKey(@) ELSE @]
CheckAuth(io) ==
  IF io.authenticated THEN io
  ELSE [io EXCEPT !.authenticated = TRUE,
                  !.slave_buf = IF PresentsFake(@)
                                THEN WithRealKey(@) ELSE @]

\* read_retry: what has arrived, end of file or an error; a reset may take
\* with it what the end had sent.
Read(i, e, buf, fd) ==
  \/ /\ e \in shut
     /\ IoFree(i)
     /\ UNCHANGED inq
  \/ /\ inq[e] # <<>>
     /\ LET n == IF Len(inq[e]) < BufSize THEN Len(inq[e]) ELSE BufSize
            io == [list[i] EXCEPT ![buf] = SubSeq(inq[e], 1, n)]
        IN
        /\ list' = [list EXCEPT ![i] = IF buf = "slave_buf" THEN CheckAuth(io) ELSE io]
        /\ inq' = [inq EXCEPT ![e] = SubSeq(@, n + 1, Len(@))]
     /\ ready' = ready \ {<<fd, "r">>}
     /\ UNCHANGED <<table, relay>>

relayed == <<child, ctl, x11_fd, stray, key, backlog, kind, whole, shut, sent>>

WriteSlave(i) ==
  /\ NextStep(i, 1)
  /\ Write(i, table[list[i].slave], "master_buf", list[i].slave)
  /\ UNCHANGED <<relayed, inq>>

ReadMaster(i) ==
  /\ NextStep(i, 2)
  /\ Read(i, table[list[i].master], "master_buf", list[i].master)
  /\ UNCHANGED <<relayed, full, out>>

WriteMaster(i) ==
  /\ NextStep(i, 3)
  /\ Write(i, table[list[i].master], "slave_buf", list[i].master)
  /\ UNCHANGED <<relayed, inq>>

ReadSlave(i) ==
  /\ NextStep(i, 4)
  /\ Read(i, table[list[i].slave], "slave_buf", list[i].slave)
  /\ UNCHANGED <<relayed, full, out>>

\* x11_connect: the socket in the caller's directory, or the addresses of its
\* host in turn; a socket that cannot be connected is closed again.
X11ConnectLeaks(t, c) ==
  LET fd == LowestFd(t) IN
  {[fd |-> fd, t |-> [t EXCEPT ![fd] = Master(c)]],
   [fd |-> -1, t |-> [t EXCEPT ![fd] = Master(c)]]}
X11Connect(t, c) ==
  LET fd == LowestFd(t) IN
  {[fd |-> fd, t |-> [t EXCEPT ![fd] = Master(c)]], [fd |-> -1, t |-> t]}

\* x11_handle_new: a program is accepted first, then the X server is connected;
\* without it the program is turned away.
HandleNew ==
  /\ NoSteps /\ <<-1, "listen">> \in ready
  /\ ready' = ready \ {<<-1, "listen">>}
  /\ \E c \in backlog :
       LET slave == LowestFd(table)
           t == [table EXCEPT ![slave] = Slave(c)]
       IN /\ backlog' = backlog \ {c}
          /\ \E m \in X11Connect(t, c) :
               \/ /\ m.fd >= 0
                  /\ table' = m.t
                  /\ list' = IoNew([master |-> m.fd, slave |-> slave,
                                    master_buf |-> <<>>, slave_buf |-> <<>>,
                                    authenticated |-> FALSE])
                  /\ relay' = [relay EXCEPT ![c] = "open"]
               \/ /\ m.fd < 0
                  /\ table' = [m.t EXCEPT ![slave] = NoEnd]
                  /\ relay' = [relay EXCEPT ![c] = "refused"]
                  /\ UNCHANGED list
  /\ UNCHANGED <<child, ctl, x11_fd, stray, key, sockets>>

\* x11_check_listen: the socket is bound to the path in the chroot.  One of
\* another family or path is refused and stays open.
CheckListen == ctl # "other socket"
Unclosed == {"other socket"}

\* fd_recv: the data, one descriptor and nothing else.  Descriptors that come
\* with short data, or two at once, are not closed.
FdRecv == ctl \notin {"end of file", "irregular"}
Leaked == {"irregular"}

\* handle_x11_ctl: the real key is decoded, then the fake one and the socket
\* are received and checked.
HandleX11Ctl == key /\ FdRecv /\ CheckListen /\ ctl # "same key"

HandleCtl ==
  /\ NoSteps /\ <<-1, "listen">> \notin ready /\ <<-1, "ctl">> \in ready
  /\ x11_fd' = HandleX11Ctl
  /\ stray' = (key /\ ctl \in Unclosed \cup Leaked)
  /\ ctl' = "closed" /\ ready' = {}
  /\ UNCHANGED <<child, key, backlog, list, table, relay, sockets>>

-----------------------------------------------------------------------------
(* The child before execve, the programs in the chroot and the X server.   *)

\* xauth_gen_fake draws the fake key at random; xauth_add_entry may fail.
GenFake == {"listener", "same key", "end of file"}
AddEntry(offer) == {offer, "end of file"}

\* fd_send: all the data with the descriptor, or the child dies.
FdSend(offer) == {offer, "end of file"}

\* handle_child: x11_listen, the fake key, xauth(1), and fd_send; whatever
\* fails, the parent sees the end of file.  The parent does not rely on the
\* child, which has the ids of a pseudo-user: any socket, or several, may come.
ChildSends ==
  /\ ctl = "open" /\ child
  /\ \E offer \in GenFake \cup Unclosed \cup Leaked :
       \E added \in AddEntry(offer) : ctl' \in FdSend(added)
  /\ UNCHANGED <<child, x11_fd, stray, key, backlog, list, table, ready, relay, sockets>>

\* The socket of the chroot listens from when the child has sent it.
Connect(c) ==
  /\ \/ ctl = "listener"
     \/ x11_fd
  /\ relay[c] = "none" /\ c \notin backlog
  /\ backlog' = backlog \cup {c}
  /\ kind' \in {[kind EXCEPT ![c] = k] : k \in Kinds[c]}
  /\ UNCHANGED <<child, ctl, x11_fd, stray, key, list, table, ready, relay, whole,
                 shut, full, sent, inq, out>>

Live(e) == /\ e \notin shut
           /\ \/ relay[e[1]] = "open"
              \/ e[2] = "slave" /\ e[1] \in backlog

Send(e) ==
  /\ Live(e)
  /\ \E n \in 1..Len(Stream(e)) - sent[e] :
       /\ inq' = [inq EXCEPT ![e] = @ \o SubSeq(Stream(e), sent[e] + 1, sent[e] + n)]
       /\ sent' = [sent EXCEPT ![e] = @ + n]
       /\ whole' = IF e[2] = "slave" /\ sent[e] = 0 /\ n >= Len(FirstPacket(kind[e[1]]))
                   THEN whole \cup {e[1]} ELSE whole
  /\ UNCHANGED <<child, ctl, x11_fd, stray, key, backlog, list, table, ready, relay,
                 kind, shut, full, out>>

Shut(e) ==
  /\ Live(e)
  /\ shut' = shut \cup {e}
  /\ UNCHANGED <<child, ctl, x11_fd, stray, key, backlog, list, table, ready, relay,
                 kind, whole, full, sent, inq, out>>

Drain(e) ==
  /\ e \in full /\ Live(e)
  /\ full' = full \ {e}
  /\ UNCHANGED <<child, ctl, x11_fd, stray, key, backlog, list, table, ready, relay,
                 kind, whole, shut, sent, inq, out>>

Init ==
  /\ child = TRUE /\ ctl = "open" /\ x11_fd = FALSE /\ stray = FALSE /\ key \in BOOLEAN
  /\ backlog = {} /\ list = <<>> /\ table = [n \in Fd |-> NoEnd] /\ ready = {}
  /\ kind = [c \in Conns |-> "junk"] /\ whole = {}
  /\ relay = [c \in Conns |-> "none"]
  /\ shut = {} /\ full = {}
  /\ sent = [e \in Ends |-> 0]
  /\ inq = [e \in Ends |-> <<>>] /\ out = [e \in Ends |-> <<>>]

Next ==
  \/ Select \/ ChildDies \/ HandleNew \/ HandleCtl \/ ChildSends
  \/ \E i \in DOMAIN list :
       WriteSlave(i) \/ ReadMaster(i) \/ WriteMaster(i) \/ ReadSlave(i)
  \/ \E c \in Conns : Connect(c)
  \/ \E e \in Ends : Send(e) \/ Shut(e) \/ Drain(e)

Spec == Init /\ [][Next]_vars

-----------------------------------------------------------------------------
(* Properties.                                                             *)

\* The connection that a slot of the list serves.
SlotOf(c) == {i \in Slots : table[list[i].slave] = Slave(c)}
Buffer(c, buf) == IF SlotOf(c) = {} THEN <<>>
                  ELSE list[CHOOSE i \in SlotOf(c) : TRUE][buf]

BurstsOf(c, d) ==
  LET e == IF d = "up" THEN Slave(c) ELSE Master(c) IN
  UNION {{SubSeq(Tokens(e, k), a, b) : a, b \in 1..Len(Tokens(e, k))} : k \in Kinds[c]}

Status(c) == IF relay[c] \in {"refused", "closed"} THEN "broken"
             ELSE IF relay[c] = "open" \/ c \in backlog THEN "open"
             ELSE "none"
\* What is in the buffer of the slot is in front of what has not been read.
UnderWay(c, d) ==
  IF relay[c] \in {"refused", "closed"} THEN <<>>
  ELSE IF d = "up" THEN Buffer(c, "slave_buf") \o inq[Slave(c)]
                   ELSE Buffer(c, "master_buf") \o inq[Master(c)]
Given(c, d) == IF d = "up" THEN out[Master(c)] ELSE out[Slave(c)]

Relay == INSTANCE X11Relay WITH
  Dirs <- {"up", "down"}, Bursts <- BurstsOf,
  Hdr <- "hdr", Fake <- "fake", Real <- "real",
  conn <- [c \in Conns |-> Status(c)],
  way <- [c \in Conns |-> [d \in {"up", "down"} |-> UnderWay(c, d)]],
  got <- [c \in Conns |-> [d \in {"up", "down"} |-> Given(c, d)]]

\* Forwarding implements the pair of private byte streams of X11Relay: with
\* partial writes, closing ends, reused slots and reused descriptor numbers
\* no byte is reordered, doubled, lost from the middle or given to another
\* connection, and the real key goes only where the fake one was presented.
RelaysStreams == Relay!Spec

\* A program that writes its whole first packet at once and presents the
\* fake key is never shown to the X server with the fake key.
WholePacketAuthenticated ==
  \A c \in whole : kind[c] = "fake" =>
    \A n \in DOMAIN out[Master(c)] : out[Master(c)][n] # <<c, "fake">>

\* A connection is given up only because one of its ends has closed it: the
\* relay never takes a slow peer, or a descriptor another connection had
\* before, for a broken one.
OnlyPeersBreak ==
  \A c \in Conns : relay[c] = "closed" => {Slave(c), Master(c)} \cap shut # {}

\* The parent never sleeps in pselect over a connection it could serve: if
\* nothing is ready, then what an end has sent, or its closing, waits only
\* behind bytes that the other end does not take.
SleepsOnlyBehindFullEnd ==
  ready = {} /\ ReadyNow = {} =>
    \A i \in Slots : \A e \in {table[list[i].slave], table[list[i].master]} :
      Readable(e) => /\ Other(e) \in full \ shut
                     /\ list[i][IF e[2] = "slave" THEN "slave_buf" ELSE "master_buf"] # <<>>

\* What x11_handle_new and io_x11_free keep: the open descriptors are those of
\* the live slots, each in one slot, and a slot joins the two ends of one open
\* connection.
TableMatchesSlots ==
  /\ {n \in Fd : table[n] # NoEnd} =
       UNION {{list[i].master, list[i].slave} : i \in Slots}
  /\ \A i \in Slots : \E c \in Conns :
       /\ relay[c] = "open"
       /\ table[list[i].slave] = Slave(c) /\ table[list[i].master] = Master(c)
  /\ \A i, j \in Slots : i # j => list[i].slave # list[j].slave

\* Nothing is leaked when the X server is refused or a connection ends, and
\* nothing closed is used.  Only handle_x11_ctl forgets descriptors it has
\* received, and then no connection is ever accepted.
DescriptorsMatchSlots ==
  /\ TableMatchesSlots
  /\ stray => ~x11_fd /\ list = <<>>
=============================================================================
