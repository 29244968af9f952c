--------------------------- MODULE MCX11Forward ---------------------------
(* Instances of X11Forward for TLC.                                        *)
EXTENDS X11Forward, TLC

CONSTANTS c1, c2

\* One connection authenticates and is answered; the other one competes with
\* it for slots and descriptor numbers.
MCKinds == c1 :> {"fake", "wrong"} @@ c2 :> {"junk"}
MCData == c1 :> 0 @@ c2 :> 0
MCReplies == c1 :> 1 @@ c2 :> 0
=============================================================================
