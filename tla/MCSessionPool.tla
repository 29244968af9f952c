--------------------------- MODULE MCSessionPool ---------------------------
(* Instances of SessionPool for TLC.                                       *)
EXTENDS SessionPool, TLC

CONSTANTS c1, c2, c3, p1, p2

\* c1 and c2 are of one user and ask for the same session, but c2 runs in a
\* group that is not the primary group of the user; c3 asks for another one.
MCCallerOf ==
  [c \in {c1, c2, c3} |->
     [uid |-> "u1",
      gid |-> IF c = c2 THEN "g2" ELSE "g1",
      num |-> IF c = c3 THEN 1 ELSE 0]]
\* c1 and c2 are of one caller; the primary group of every user is g1.
MCSameCaller == [c \in {c1, c2} |-> [uid |-> "u1", gid |-> "g1", num |-> 0]]
MCPwGid == [u \in Uids |-> "g1"]

PidSymmetry == Permutations({p1, p2})
=============================================================================
