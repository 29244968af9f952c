------------------------------ MODULE X11Relay ------------------------------
(***************************************************************************)
(* What X11 forwarding promises to the programs of the chroot and to the   *)
(* X server: every connection is a pair of byte streams of its own.  Bytes *)
(* arrive in the order they were sent, none twice and none from another    *)
(* connection; a connection that breaks loses what was under way and never *)
(* works again.  The one change the relay may make is to put the real key  *)
(* in the place of the fake one, in a first packet that presents it.       *)
(***************************************************************************)
EXTENDS Sequences, Naturals

CONSTANTS
  Conns,       \* connections
  Dirs,        \* "up" to the X server, "down" to the program
  Bursts(_, _),     \* what may be written at once, by connection and direction
  Hdr, Fake, Real   \* the parts of a first packet that matter

VARIABLES
  conn,        \* "none", "open" or "broken"
  way,         \* bytes under way: sent and not yet delivered
  got          \* bytes delivered

vars == <<conn, way, got>>

Init ==
  /\ conn = [c \in Conns |-> "none"]
  /\ way = [c \in Conns |-> [d \in Dirs |-> <<>>]]
  /\ got = [c \in Conns |-> [d \in Dirs |-> <<>>]]

Open(c) ==
  /\ conn[c] = "none"
  /\ conn' = [conn EXCEPT ![c] = "open"]
  /\ UNCHANGED <<way, got>>

Send(c, d) ==
  /\ conn[c] = "open"
  /\ \E s \in Bursts(c, d) : way' = [way EXCEPT ![c][d] = @ \o s]
  /\ UNCHANGED <<conn, got>>

Deliver(c, d) ==
  /\ conn[c] = "open"
  /\ \E n \in 1..Len(way[c][d]) :
       /\ got' = [got EXCEPT ![c][d] = @ \o SubSeq(way[c][d], 1, n)]
       /\ way' = [way EXCEPT ![c][d] = SubSeq(@, n + 1, Len(@))]
  /\ UNCHANGED conn

Authenticate(c) ==
  /\ conn[c] = "open" /\ got[c]["up"] = <<>>
  /\ Len(way[c]["up"]) >= 2
  /\ way[c]["up"][1] = <<c, Hdr>> /\ way[c]["up"][2] = <<c, Fake>>
  /\ way' = [way EXCEPT ![c]["up"][2] = <<c, Real>>]
  /\ UNCHANGED <<conn, got>>

Break(c) ==
  /\ conn[c] = "open"
  /\ conn' = [conn EXCEPT ![c] = "broken"]
  /\ way' = [way EXCEPT ![c] = [d \in Dirs |-> <<>>]]
  /\ UNCHANGED got

Next ==
  \E c \in Conns :
    \/ Open(c) \/ Authenticate(c) \/ Break(c)
    \/ \E d \in Dirs : Send(c, d) \/ Deliver(c, d)

Spec == Init /\ [][Next]_vars
=============================================================================
