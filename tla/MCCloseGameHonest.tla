------------------------- MODULE MCCloseGameHonest -------------------------
(* Model-checking instance of CloseGameHonest: three signed states, the      *)
(* honest member holding the oldest.                                         *)
EXTENDS CloseGameHonest

MCSignedStates == {[epoch |-> v, version |-> v] : v \in 1..3}
MCOldest == [epoch |-> 1, version |-> 1]

=============================================================================
