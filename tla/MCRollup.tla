------------------------------ MODULE MCRollup ------------------------------
(* Instances of Rollup for model checking. *)
EXTENDS Rollup, TLC

SingleBlock == {<<"x">>}
ShortAndLong == {<<"x">>, <<"x", "y">>}
Permuted == Permutations(Producers)
=============================================================================
