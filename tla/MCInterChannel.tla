--------------------------- MODULE MCInterChannel ---------------------------
(* Two transfers between two channels: back and forth, or twice the same   *)
(* way.  Twice the same way no channel both sends and receives, so that    *)
(* the build of the daemon makes no difference.                            *)
EXTENDS InterChannel

CONSTANTS t1, t2

Leg(x, y) == [src |-> x, dst |-> y]
BackAndForth == (t1 :> Leg(1, 2)) @@ (t2 :> Leg(2, 1))
Repeated == (t1 :> Leg(1, 2)) @@ (t2 :> Leg(1, 2))
MCRepeated == {[route |-> Repeated, tailReceive |-> TRUE]}
MCDeployments == [route : {BackAndForth}, tailReceive : BOOLEAN] \cup MCRepeated
=============================================================================
