------------------------------ MODULE MCPayout ------------------------------
(* Instances of Payout for TLC. *)
EXTENDS Payout, TLC
CONSTANTS eth, tok, alice, bob, c1, c2, late1, late2, w1, w2

Pay(t, a, n) == [token |-> t, recipient |-> a, amount |-> n]

\* A fund of two ether and one token; the claims together exceed the ether fund.
SmallFund == (eth :> 2) @@ (tok :> 1)
OverlappingClaims == (c1 :> Pay(eth, alice, 1)) @@ (c2 :> Pay(eth, bob, 2))
\* Two late receipts in one token.
TwoLate == (late1 :> Pay(eth, alice, 1)) @@ (late2 :> Pay(eth, bob, 1))
\* A withdrawal paid to the Manager's own address, and one in the other token.
TwoLeaves == (w1 :> Pay(eth, Manager, 1)) @@ (w2 :> Pay(tok, alice, 1))
CoveringEscrow == (eth :> 5) @@ (tok :> 2)
==============================================================================
