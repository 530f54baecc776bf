------------------------------ MODULE MCCluster ------------------------------
(* Two payloads that compete for the genesis state.                        *)
EXTENDS Cluster, TLC

CONSTANTS p1, p2

Siblings == {p1, p2}
SiblingsPrev == (p1 :> Genesis) @@ (p2 :> Genesis)
HostSymmetry == Permutations(Hosts)
=============================================================================
