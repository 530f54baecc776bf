---------------------------- MODULE PayoutProofs ----------------------------
(***************************************************************************)
(* Proofs about the money of a closed channel (module Payout), for every   *)
(* set of tokens, recipients, claims, withdrawals and late receipts.       *)
(*                                                                         *)
(* One inductive invariant carries the four properties of Payout.  To them *)
(* it adds what the escrow has lost: the exit, the late receipts credited  *)
(* and the withdrawals paid, and nothing else (EscrowBooked).              *)
(*                                                                         *)
(* The totals are sums over finite sets, defined by a recursive function;  *)
(* the lemmas about them are proved by minimal counterexample.  What they  *)
(* need of finite sets is collected in FiniteLaws, a hypothesis of every   *)
(* lemma, which the library's theorems discharge at the end (LawsHold):    *)
(* the provers then meet that library only where it is used.               *)
(***************************************************************************)
EXTENDS Payout, TLAPS

FiniteEmptyLaw == IsFiniteSet({})
FiniteSubsetLaw == \A S, T : IsFiniteSet(T) /\ S \subseteq T => IsFiniteSet(S)
FiniteUnionLaw == \A S, T : IsFiniteSet(S) /\ IsFiniteSet(T) => IsFiniteSet(S \cup T)
FiniteAddLaw == \A S, x : IsFiniteSet(S) => IsFiniteSet(S \cup {x})

\* A set of subsets of a finite set has a member that is minimal in it.
MinimalLaw ==
  \A S, bad : IsFiniteSet(S) /\ bad \subseteq SUBSET S /\ bad # {} =>
    \E X \in bad : /\ X \subseteq S /\ IsFiniteSet(X)
                   /\ \A Y \in SUBSET X : Y # X => Y \notin bad

FiniteLaws ==
  FiniteEmptyLaw /\ FiniteSubsetLaw /\ FiniteUnionLaw /\ FiniteAddLaw /\ MinimalLaw

-----------------------------------------------------------------------------
(* Sums over finite sets.                                                   *)

LEMMA Smallest ==
  ASSUME FiniteLaws, NEW S, IsFiniteSet(S), NEW bad, bad \subseteq SUBSET S, bad # {}
  PROVE  \E X \in bad : /\ X \subseteq S /\ IsFiniteSet(X)
                        /\ \A Y \in SUBSET X : Y # X => Y \notin bad
BY Zenon DEF FiniteLaws, MinimalLaw

Sum(f, S) == SumFunctionOnSet(f, S)
Pick(s) == CHOOSE x \in s : TRUE
IterOn(f, S, g) == g = [s \in SUBSET S |-> IF s = {} THEN 0 ELSE f[Pick(s)] + g[s \ {Pick(s)}]]

\* A sum is the value of its recursive function at the whole set.
LEMMA SumIs ==
  \A f, S : Sum(f, S) = (CHOOSE g : IterOn(f, S, g))[S]
BY DEF Sum, SumFunctionOnSet, FoldFunctionOnSet, MapThenFoldSet, IterOn, Pick

LEMMA PickIn == \A s : s # {} => Pick(s) \in s
BY DEF Pick

\* Two such recursive functions agree wherever both are defined.
LEMMA IterAgree ==
  ASSUME FiniteLaws, NEW f, NEW A, NEW B, NEW g, NEW h, IterOn(f, A, g), IterOn(f, B, h),
         NEW v, IsFiniteSet(v), v \subseteq A, v \subseteq B
  PROVE  g[v] = h[v]
<1> DEFINE bad == {u \in SUBSET v : g[u] # h[u]}
<1>1. SUFFICES ASSUME bad # {} PROVE FALSE
  OBVIOUS
<1>2. PICK X \in bad : \A Y \in SUBSET X : Y # X => Y \notin bad
  <2>1. bad \subseteq SUBSET v OBVIOUS
  <2> HIDE DEF bad
  <2> QED BY <1>1, <2>1, Smallest
<1>3. g[X] = IF X = {} THEN 0 ELSE f[Pick(X)] + g[X \ {Pick(X)}]
  BY Zenon DEF IterOn
<1>4. h[X] = IF X = {} THEN 0 ELSE f[Pick(X)] + h[X \ {Pick(X)}]
  BY Zenon DEF IterOn
<1>5. X # {} => g[X \ {Pick(X)}] = h[X \ {Pick(X)}]
  BY <1>2, PickIn
<1> QED BY <1>3, <1>4, <1>5

\* The recursive function of a finite set exists.
LEMMA IterExists ==
  ASSUME FiniteLaws, NEW f, NEW S, IsFiniteSet(S)
  PROVE  \E g : IterOn(f, S, g)
<1> DEFINE bad == {X \in SUBSET S : ~ \E g : IterOn(f, X, g)}
<1>1. SUFFICES ASSUME bad # {} PROVE FALSE
  OBVIOUS
<1>2. PICK X \in bad : X \subseteq S /\ IsFiniteSet(X) /\ \A Y \in SUBSET X : Y # X => Y \notin bad
  <2>1. bad \subseteq SUBSET S OBVIOUS
  <2> HIDE DEF bad
  <2> QED BY <1>1, <2>1, Smallest
<1> DEFINE H(u) == (CHOOSE g : IterOn(f, u, g))[u]
           G == [s \in SUBSET X |-> IF s = {} THEN 0 ELSE f[Pick(s)] + H(s \ {Pick(s)})]
<1>3. ASSUME NEW u \in SUBSET X, u # X PROVE G[u] = H(u)
  <2>1. PICK g : g = (CHOOSE k : IterOn(f, u, k)) OBVIOUS
  <2>2. IterOn(f, u, g) BY <1>2, <1>3, <2>1
  <2>3. g[u] = IF u = {} THEN 0 ELSE f[Pick(u)] + g[u \ {Pick(u)}]
    BY Zenon, <2>2 DEF IterOn
  <2>4. ASSUME u # {} PROVE g[u \ {Pick(u)}] = H(u \ {Pick(u)})
    <3>1. PICK w : w = u \ {Pick(u)} BY Zenon
    <3>2. w \subseteq u /\ w \in SUBSET X /\ w # X /\ IsFiniteSet(w)
      BY <3>1, <1>2, <2>4, PickIn DEF FiniteLaws, FiniteSubsetLaw
    <3>3. PICK k : k = (CHOOSE j : IterOn(f, w, j)) OBVIOUS
    <3>4. IterOn(f, w, k) BY <1>2, <3>2, <3>3
    <3>5. g[w] = k[w] BY <2>2, <3>4, <3>2, IterAgree
    <3> QED BY <3>5, <3>3, <3>1
  <2>5. H(u) = g[u] BY <2>1
  <2> QED BY <2>3, <2>4, <2>5
<1>4. \A s \in SUBSET X : s # {} => G[s \ {Pick(s)}] = H(s \ {Pick(s)})
  BY Zenon, <1>3, PickIn
<1>5. IterOn(f, X, G)
  <2> HIDE DEF H
  <2> QED BY Zenon, <1>4 DEF IterOn
<1> QED BY <1>5

LEMMA SumEmpty ==
  ASSUME FiniteLaws
  PROVE  \A f : Sum(f, {}) = 0
<1> SUFFICES ASSUME NEW f PROVE Sum(f, {}) = 0 OBVIOUS
<1>1. PICK g : g = CHOOSE k : IterOn(f, {}, k) OBVIOUS
<1>2. IterOn(f, {}, g) BY <1>1, IterExists DEF FiniteLaws, FiniteEmptyLaw
<1>3. g[{}] = 0 BY <1>2 DEF IterOn
<1> QED BY <1>1, <1>3, SumIs

\* A sum unfolds at the element that its definition picks ...
LEMMA SumPick ==
  ASSUME FiniteLaws, NEW f, NEW S, IsFiniteSet(S), S # {}
  PROVE  Sum(f, S) = f[Pick(S)] + Sum(f, S \ {Pick(S)})
<1>1. PICK g : g = CHOOSE k : IterOn(f, S, k) OBVIOUS
<1>2. IterOn(f, S, g) BY <1>1, IterExists
<1>3. PICK w : w = S \ {Pick(S)} BY Zenon
<1>4. w \subseteq S /\ IsFiniteSet(w) BY <1>3 DEF FiniteLaws, FiniteSubsetLaw
<1>5. PICK h : h = CHOOSE k : IterOn(f, w, k) OBVIOUS
<1>6. IterOn(f, w, h) BY <1>4, <1>5, IterExists
<1>7. g[w] = h[w] BY <1>2, <1>4, <1>6, IterAgree
<1>8. g[S] = f[Pick(S)] + g[w] BY Zenon, <1>2, <1>3 DEF IterOn
<1> QED BY Zenon, <1>1, <1>3, <1>5, <1>7, <1>8, SumIs

LEMMA SumNat ==
  ASSUME FiniteLaws, NEW f, NEW S, IsFiniteSet(S), \A x \in S : f[x] \in Nat
  PROVE  Sum(f, S) \in Nat
<1> DEFINE bad == {X \in SUBSET S : Sum(f, X) \notin Nat}
<1>1. SUFFICES ASSUME bad # {} PROVE FALSE
  OBVIOUS
<1>2. PICK X \in bad : X \subseteq S /\ IsFiniteSet(X) /\ \A Y \in SUBSET X : Y # X => Y \notin bad
  <2>1. bad \subseteq SUBSET S OBVIOUS
  <2> HIDE DEF bad
  <2> QED BY <1>1, <2>1, Smallest
<1>3. X # {} BY SumEmpty
<1>4. PICK p : p = Pick(X) OBVIOUS
<1>5. p \in X BY <1>3, <1>4, PickIn
<1>6. Sum(f, X) = f[p] + Sum(f, X \ {p}) BY <1>2, <1>3, <1>4, SumPick
<1>7. Sum(f, X \ {p}) \in Nat BY <1>2, <1>5
<1> QED BY <1>2, <1>5, <1>6, <1>7

\* ... and at every other element as well: the order of summation is immaterial.
LEMMA SumAdd ==
  ASSUME FiniteLaws, NEW f, NEW S, IsFiniteSet(S), \A x \in S : f[x] \in Nat, NEW e \in S
  PROVE  Sum(f, S) = f[e] + Sum(f, S \ {e})
<1> DEFINE bad == {X \in SUBSET S : \E x \in X : Sum(f, X) # f[x] + Sum(f, X \ {x})}
<1>1. SUFFICES ASSUME bad # {} PROVE FALSE
  BY Zenon
<1>2. PICK X \in bad : X \subseteq S /\ IsFiniteSet(X) /\ \A Y \in SUBSET X : Y # X => Y \notin bad
  <2>1. bad \subseteq SUBSET S OBVIOUS
  <2> HIDE DEF bad
  <2> QED BY <1>1, <2>1, Smallest
<1>3. PICK x \in X : Sum(f, X) # f[x] + Sum(f, X \ {x}) OBVIOUS
<1>4. PICK p : p = Pick(X) OBVIOUS
<1>5. p \in X BY <1>3, <1>4, PickIn
<1>6. Sum(f, X) = f[p] + Sum(f, X \ {p}) BY <1>2, <1>3, <1>4, SumPick
<1>7. p # x BY <1>3, <1>6
<1>8. Sum(f, X \ {p}) = f[x] + Sum(f, (X \ {p}) \ {x})
  BY Zenon, <1>2, <1>3, <1>5, <1>7, X \ {p} \in SUBSET S, X \ {p} \in SUBSET X, X \ {p} # X
<1>9. Sum(f, X \ {x}) = f[p] + Sum(f, (X \ {x}) \ {p})
  BY Zenon, <1>2, <1>3, <1>5, <1>7, X \ {x} \in SUBSET S, X \ {x} \in SUBSET X, X \ {x} # X
<1>10. PICK Z : Z = (X \ {x}) \ {p} BY Zenon
<1>11. (X \ {p}) \ {x} = Z BY <1>10
<1>12. IsFiniteSet(Z) /\ Z \subseteq S BY <1>2, <1>10 DEF FiniteLaws, FiniteSubsetLaw
<1>13. Sum(f, Z) \in Nat BY <1>12, SumNat
<1>14. f[x] \in Nat /\ f[p] \in Nat BY <1>2, <1>5
<1>15. Sum(f, X) = f[p] + (f[x] + Sum(f, Z)) BY <1>6, <1>8, <1>11
<1>16. Sum(f, X \ {x}) = f[p] + Sum(f, Z) BY <1>9, <1>10
<1>17. f[p] + (f[x] + Sum(f, Z)) = f[x] + (f[p] + Sum(f, Z)) BY <1>13, <1>14
<1> QED BY <1>3, <1>15, <1>16, <1>17

LEMMA SumInsert ==
  ASSUME FiniteLaws, NEW f, NEW S, IsFiniteSet(S), NEW e, e \notin S,
         \A x \in S \cup {e} : f[x] \in Nat
  PROVE  Sum(f, S \cup {e}) = f[e] + Sum(f, S)
<1>1. (S \cup {e}) \ {e} = S OBVIOUS
<1>2. IsFiniteSet(S \cup {e}) BY DEF FiniteLaws, FiniteAddLaw
<1>3. e \in S \cup {e} OBVIOUS
<1>4. Sum(f, S \cup {e}) = f[e] + Sum(f, (S \cup {e}) \ {e}) BY <1>2, <1>3, SumAdd
<1> QED BY <1>1, <1>4

\* Functions that agree on a set have the same sum over it.
LEMMA SumEqual ==
  ASSUME FiniteLaws, NEW f, NEW g, NEW S, IsFiniteSet(S), \A x \in S : f[x] = g[x]
  PROVE  Sum(f, S) = Sum(g, S)
<1> DEFINE bad == {X \in SUBSET S : Sum(f, X) # Sum(g, X)}
<1>1. SUFFICES ASSUME bad # {} PROVE FALSE
  OBVIOUS
<1>2. PICK X \in bad : X \subseteq S /\ IsFiniteSet(X) /\ \A Y \in SUBSET X : Y # X => Y \notin bad
  <2>1. bad \subseteq SUBSET S OBVIOUS
  <2> HIDE DEF bad
  <2> QED BY <1>1, <2>1, Smallest
<1>3. X # {} BY SumEmpty
<1>4. PICK p : p = Pick(X) OBVIOUS
<1>5. p \in X BY <1>3, <1>4, PickIn
<1>6. Sum(f, X) = f[p] + Sum(f, X \ {p}) BY <1>2, <1>3, <1>4, SumPick
<1>7. Sum(g, X) = g[p] + Sum(g, X \ {p}) BY <1>2, <1>3, <1>4, SumPick
<1>8. Sum(f, X \ {p}) = Sum(g, X \ {p}) BY <1>2, <1>5
<1> QED BY <1>2, <1>5, <1>6, <1>7, <1>8

\* The sum over two disjoint sets.
LEMMA SumUnion ==
  ASSUME FiniteLaws, NEW f, NEW B, NEW S, IsFiniteSet(B), IsFiniteSet(S), \A x \in S : x \notin B,
         \A x \in B : f[x] \in Nat, \A x \in S : f[x] \in Nat
  PROVE  Sum(f, B \cup S) = Sum(f, B) + Sum(f, S)
<1> DEFINE bad == {X \in SUBSET S : Sum(f, B \cup X) # Sum(f, B) + Sum(f, X)}
<1>1. SUFFICES ASSUME bad # {} PROVE FALSE
  BY Zenon
<1>2. PICK X \in bad : X \subseteq S /\ IsFiniteSet(X) /\ \A Y \in SUBSET X : Y # X => Y \notin bad
  <2>1. bad \subseteq SUBSET S OBVIOUS
  <2> HIDE DEF bad
  <2> QED BY <1>1, <2>1, Smallest
<1>3. Sum(f, B) \in Nat BY SumNat
<1>4. X # {}
  <2>1. B \cup {} = B OBVIOUS
  <2>2. Sum(f, B) = Sum(f, B) + 0 BY <1>3
  <2>3. Sum(f, B \cup {}) = Sum(f, B) + Sum(f, {}) BY <2>1, <2>2, SumEmpty
  <2> QED BY <2>3
<1>5. PICK e \in X : TRUE BY <1>4
<1>6. PICK Y : Y = X \ {e} BY Zenon
<1>7. /\ Y \subseteq X /\ Y # X /\ e \notin Y /\ IsFiniteSet(Y) /\ e \notin B \cup Y
      /\ X = Y \cup {e} /\ B \cup X = (B \cup Y) \cup {e} /\ Y \subseteq S /\ e \in S
  BY <1>2, <1>5, <1>6 DEF FiniteLaws, FiniteSubsetLaw
<1>8. Sum(f, B \cup Y) = Sum(f, B) + Sum(f, Y) BY <1>2, <1>7
<1>9. Sum(f, X) = f[e] + Sum(f, Y) BY <1>7, SumInsert
<1>10. IsFiniteSet(B \cup Y) BY Zenon, <1>7 DEF FiniteLaws, FiniteUnionLaw
<1>11. \A x \in (B \cup Y) \cup {e} : f[x] \in Nat BY <1>7
<1>12. Sum(f, (B \cup Y) \cup {e}) = f[e] + Sum(f, B \cup Y) BY Zenon, <1>7, <1>10, <1>11, SumInsert
<1>13. Sum(f, Y) \in Nat BY <1>7, SumNat
<1>14. f[e] \in Nat BY <1>7
<1>15. Sum(f, B \cup X) = Sum(f, B) + Sum(f, X)
  <2>1. Sum(f, B \cup X) = f[e] + (Sum(f, B) + Sum(f, Y)) BY Zenon, <1>7, <1>8, <1>12
  <2>2. f[e] + (Sum(f, B) + Sum(f, Y)) = Sum(f, B) + (f[e] + Sum(f, Y)) BY <1>3, <1>13, <1>14
  <2> QED BY <2>1, <2>2, <1>9
<1> QED BY <1>15

LEMMA SumSubset ==
  ASSUME FiniteLaws, NEW f, NEW T, IsFiniteSet(T), NEW S, S \subseteq T, \A x \in T : f[x] \in Nat
  PROVE  Sum(f, S) <= Sum(f, T)
<1>1. IsFiniteSet(S) /\ IsFiniteSet(T \ S) BY DEF FiniteLaws, FiniteSubsetLaw
<1>2. T = S \cup (T \ S) OBVIOUS
<1>3. Sum(f, S \cup (T \ S)) = Sum(f, S) + Sum(f, T \ S)
  <2>1. \A x \in T \ S : x \notin S OBVIOUS
  <2>2. (\A x \in S : f[x] \in Nat) /\ (\A x \in T \ S : f[x] \in Nat) OBVIOUS
  <2> QED BY <1>1, <2>1, <2>2, SumUnion
<1>4. Sum(f, S) \in Nat /\ Sum(f, T \ S) \in Nat BY <1>1, SumNat
<1>5. Sum(f, T) = Sum(f, S) + Sum(f, T \ S) BY Zenon, <1>2, <1>3
<1> QED BY <1>4, <1>5

\* Adding two functions adds their sums.
LEMMA SumPlus ==
  ASSUME FiniteLaws, NEW f, NEW g, NEW h, NEW S, IsFiniteSet(S),
         \A x \in S : f[x] \in Nat /\ g[x] \in Nat /\ h[x] = f[x] + g[x]
  PROVE  Sum(h, S) = Sum(f, S) + Sum(g, S)
<1> DEFINE bad == {X \in SUBSET S : Sum(h, X) # Sum(f, X) + Sum(g, X)}
<1>1. SUFFICES ASSUME bad # {} PROVE FALSE
  OBVIOUS
<1>2. PICK X \in bad : X \subseteq S /\ IsFiniteSet(X) /\ \A Y \in SUBSET X : Y # X => Y \notin bad
  <2>1. bad \subseteq SUBSET S OBVIOUS
  <2> HIDE DEF bad
  <2> QED BY <1>1, <2>1, Smallest
<1>3. X # {}
  <2>1. Sum(h, {}) = Sum(f, {}) + Sum(g, {}) BY SumEmpty, 0 = 0 + 0
  <2> QED BY Zenon, <2>1
<1>4. PICK p : p = Pick(X) OBVIOUS
<1>5. p \in X BY <1>3, <1>4, PickIn
<1>6. Sum(f, X) = f[p] + Sum(f, X \ {p}) BY <1>2, <1>3, <1>4, SumPick
<1>7. Sum(g, X) = g[p] + Sum(g, X \ {p}) BY <1>2, <1>3, <1>4, SumPick
<1>8. Sum(h, X) = h[p] + Sum(h, X \ {p}) BY <1>2, <1>3, <1>4, SumPick
<1>9. Sum(h, X \ {p}) = Sum(f, X \ {p}) + Sum(g, X \ {p}) BY <1>2, <1>5
<1>10. Sum(f, X \ {p}) \in Nat /\ Sum(g, X \ {p}) \in Nat
  BY <1>2, SumNat, X \ {p} \subseteq S, IsFiniteSet(X \ {p}) DEF FiniteLaws, FiniteSubsetLaw
<1>11. f[p] \in Nat /\ g[p] \in Nat /\ h[p] = f[p] + g[p] BY <1>2, <1>5
<1>12. Sum(h, X) = Sum(f, X) + Sum(g, X) BY <1>6, <1>7, <1>8, <1>9, <1>10, <1>11
<1> QED BY <1>12

\* A function that is zero off one point.
LEMMA SumPoint ==
  ASSUME FiniteLaws, NEW f, NEW S, IsFiniteSet(S), NEW e \in S, f[e] \in Nat,
         \A x \in S : x # e => f[x] = 0
  PROVE  Sum(f, S) = f[e]
<1> DEFINE bad == {X \in SUBSET (S \ {e}) : Sum(f, X) # 0}
<1>1. bad = {}
  <2>1. SUFFICES ASSUME bad # {} PROVE FALSE OBVIOUS
  <2>2. PICK X \in bad : /\ X \subseteq S \ {e} /\ IsFiniteSet(X)
                         /\ \A Y \in SUBSET X : Y # X => Y \notin bad
    <3>1. bad \subseteq SUBSET (S \ {e}) OBVIOUS
    <3>2. IsFiniteSet(S \ {e}) BY DEF FiniteLaws, FiniteSubsetLaw
    <3> HIDE DEF bad
    <3> QED BY <2>1, <3>1, <3>2, Smallest
  <2>3. X # {} BY SumEmpty
  <2>4. PICK p : p = Pick(X) OBVIOUS
  <2>5. p \in X BY <2>3, <2>4, PickIn
  <2>6. Sum(f, X) = f[p] + Sum(f, X \ {p}) BY <2>2, <2>3, <2>4, SumPick
  <2>7. Sum(f, X \ {p}) = 0 BY <2>2, <2>5
  <2>8. f[p] = 0 BY <2>2, <2>5
  <2> QED BY <2>6, <2>7, <2>8
<1>2. Sum(f, S \ {e}) = 0 BY <1>1
<1>3. \A x \in S : f[x] \in Nat OBVIOUS
<1>4. Sum(f, S) = f[e] + Sum(f, S \ {e}) BY <1>3, SumAdd
<1> QED BY <1>2, <1>4

LEMMA SumZero ==
  ASSUME FiniteLaws, NEW f, NEW S, IsFiniteSet(S), \A x \in S : f[x] = 0
  PROVE  Sum(f, S) = 0
<1>1. CASE S = {} BY <1>1, SumEmpty
<1>2. CASE S # {}
  <2>1. PICK e \in S : TRUE BY <1>2
  <2> QED BY <2>1, SumPoint
<1> QED BY <1>1, <1>2

\* A function that is changed at one point.
LEMMA SumChange ==
  ASSUME FiniteLaws, NEW f, NEW g, NEW S, IsFiniteSet(S), NEW e \in S,
         \A x \in S : f[x] \in Nat /\ g[x] \in Nat,
         \A x \in S : x # e => f[x] = g[x]
  PROVE  Sum(g, S) = (Sum(f, S) - f[e]) + g[e]
<1>1. Sum(f, S) = f[e] + Sum(f, S \ {e}) BY SumAdd
<1>2. Sum(g, S) = g[e] + Sum(g, S \ {e}) BY SumAdd
<1>3. IsFiniteSet(S \ {e}) BY DEF FiniteLaws, FiniteSubsetLaw
<1>4. Sum(f, S \ {e}) = Sum(g, S \ {e}) BY <1>3, SumEqual
<1>5. Sum(f, S \ {e}) \in Nat BY <1>3, SumNat
<1> QED BY <1>1, <1>2, <1>4, <1>5

\* Summing by groups: the sums of the fibres of r add up to the whole sum.
LEMMA SumGroups ==
  ASSUME FiniteLaws, NEW f, NEW S, IsFiniteSet(S), \A k \in S : f[k] \in Nat,
         NEW A, IsFiniteSet(A), NEW r, \A k \in S : r[k] \in A
  PROVE  Sum([a \in A |-> Sum(f, {k \in S : r[k] = a})], A) = Sum(f, S)
<1> DEFINE H(X) == [a \in A |-> Sum(f, {k \in X : r[k] = a})]
<1> DEFINE bad == {X \in SUBSET S : Sum(H(X), A) # Sum(f, X)}
<1>1. SUFFICES ASSUME bad # {} PROVE FALSE
  BY Zenon
<1>2. PICK X \in bad : X \subseteq S /\ IsFiniteSet(X) /\ \A Y \in SUBSET X : Y # X => Y \notin bad
  <2>1. bad \subseteq SUBSET S OBVIOUS
  <2> HIDE DEF bad
  <2> QED BY <1>1, <2>1, Smallest
<1>3. ASSUME NEW X0, X0 = {} PROVE Sum(H(X0), A) = Sum(f, X0)
  <2>1. \A a \in A : {k \in X0 : r[k] = a} = {} BY <1>3
  <2>2. \A a \in A : H(X0)[a] = 0 BY <2>1, SumEmpty
  <2>3. Sum(H(X0), A) = 0
    <3> HIDE DEF H
    <3> QED BY <2>2, SumZero
  <2> QED BY <2>3, <1>3, SumEmpty
<1>4. X # {} BY <1>3
<1>5. PICK e \in X : TRUE BY <1>4
<1>6. PICK Y : Y = X \ {e} BY Zenon
<1>7. /\ Y \subseteq X /\ Y # X /\ e \notin Y /\ IsFiniteSet(Y) /\ X = Y \cup {e} /\ Y \subseteq S
      /\ e \in S
  BY <1>2, <1>5, <1>6 DEF FiniteLaws, FiniteSubsetLaw
<1>8. Sum(H(Y), A) = Sum(f, Y) BY <1>2, <1>7
<1>9. PICK g : g = [a \in A |-> IF a = r[e] THEN f[e] ELSE 0] BY Zenon
<1>10. PICK hy : hy = H(Y) BY Zenon
<1>11. PICK hx : hx = H(X) BY Zenon
<1>12. \A a \in A : hy[a] \in Nat
  <2> TAKE a \in A
  <2>1. IsFiniteSet({k \in Y : r[k] = a}) BY <1>7 DEF FiniteLaws, FiniteSubsetLaw
  <2>2. Sum(f, {k \in Y : r[k] = a}) \in Nat BY <1>7, <2>1, SumNat
  <2> QED BY <2>2, <1>10
<1>13. \A a \in A : hx[a] = hy[a] + g[a]
  <2> TAKE a \in A
  <2>1. PICK Ya : Ya = {k \in Y : r[k] = a} BY Zenon
  <2>2. PICK Xa : Xa = {k \in X : r[k] = a} BY Zenon
  <2>3. IsFiniteSet(Ya) /\ Ya \subseteq S /\ e \notin Ya
    BY <1>7, <2>1 DEF FiniteLaws, FiniteSubsetLaw
  <2>4. hy[a] = Sum(f, Ya) /\ hx[a] = Sum(f, Xa) BY Zenon, <1>10, <1>11, <2>1, <2>2
  <2>5. Sum(f, Ya) \in Nat /\ f[e] \in Nat BY <2>3, SumNat, <1>7
  <2>6. CASE r[e] = a
    <3>1. Xa = Ya \cup {e} BY <2>6, <2>1, <2>2, <1>7
    <3>2. Sum(f, Ya \cup {e}) = f[e] + Sum(f, Ya) BY <2>3, <1>7, SumInsert
    <3>3. g[a] = f[e] BY <2>6, <1>9
    <3>4. hx[a] = f[e] + Sum(f, Ya) BY <3>1, <3>2, <2>4
    <3> QED BY <3>3, <3>4, <2>4, <2>5
  <2>7. CASE r[e] # a
    <3>1. Xa = Ya BY <2>7, <2>1, <2>2, <1>7
    <3>2. g[a] = 0 BY <2>7, <1>9
    <3> QED BY <3>1, <3>2, <2>4, <2>5
  <2> QED BY <2>6, <2>7
<1>14. Sum(g, A) = f[e]
  <2>1. r[e] \in A /\ g[r[e]] = f[e] /\ f[e] \in Nat BY <1>7, <1>9
  <2>2. \A a \in A : a # r[e] => g[a] = 0 BY Zenon, <1>9
  <2>3. Sum(g, A) = g[r[e]] BY <2>1, <2>2, SumPoint
  <2> QED BY <2>1, <2>3
<1>15. \A a \in A : g[a] \in Nat BY <1>7, <1>9
<1>16. Sum(hx, A) = Sum(hy, A) + Sum(g, A) BY <1>12, <1>13, <1>15, SumPlus
<1>17. Sum(f, X) = f[e] + Sum(f, Y) BY <1>7, SumInsert
<1>18. Sum(f, Y) \in Nat /\ f[e] \in Nat BY <1>7, SumNat
<1>19. Sum(H(X), A) = Sum(f, X)
  <2>1. Sum(H(X), A) = Sum(hx, A) BY Zenon, <1>11
  <2>2. Sum(hy, A) = Sum(f, Y) BY <1>8, <1>10
  <2>3. Sum(hx, A) = Sum(f, Y) + f[e] BY Zenon, <1>14, <1>16, <2>2
  <2>4. Sum(f, Y) + f[e] = f[e] + Sum(f, Y) BY <1>18
  <2> HIDE DEF H
  <2> QED BY Zenon, <2>1, <2>3, <2>4, <1>17
<1> QED BY <1>19

-----------------------------------------------------------------------------
(* What the tables pay.                                                     *)

IsTable(T) == IsFiniteSet(DOMAIN T) /\ \A k \in DOMAIN T : T[k].amount \in Nat
InToken(T, S, t) == {k \in S : T[k].token = t}
Share(T, k, t) == IF T[k].token = t THEN T[k].amount ELSE 0

LEMMA TotalIs ==
  \A T, S, t : TotalIn(T, S, t) = Sum(Amounts(T), InToken(T, S, t))
BY DEF TotalIn, Sum, InToken

LEMMA AmountsNat ==
  ASSUME FiniteLaws, NEW T, IsTable(T), NEW S, S \subseteq DOMAIN T
  PROVE  /\ IsFiniteSet(S)
         /\ \A t : IsFiniteSet(InToken(T, S, t)) /\ InToken(T, S, t) \subseteq S
         /\ \A k \in S : Amounts(T)[k] = T[k].amount /\ Amounts(T)[k] \in Nat
<1>1. IsFiniteSet(S) BY DEF FiniteLaws, FiniteSubsetLaw, IsTable
<1>2. \A t : InToken(T, S, t) \subseteq S BY DEF InToken
<1>3. \A t : IsFiniteSet(InToken(T, S, t)) BY <1>1, <1>2 DEF FiniteLaws, FiniteSubsetLaw
<1>4. \A k \in S : Amounts(T)[k] = T[k].amount /\ Amounts(T)[k] \in Nat BY DEF Amounts, IsTable
<1> QED BY Zenon, <1>1, <1>2, <1>3, <1>4

LEMMA TotalNat ==
  ASSUME FiniteLaws, NEW T, IsTable(T), NEW S, S \subseteq DOMAIN T, NEW t
  PROVE  TotalIn(T, S, t) \in Nat
<1>1. PICK U : U = InToken(T, S, t) OBVIOUS
<1>2. IsFiniteSet(U) /\ \A k \in U : Amounts(T)[k] \in Nat BY Zenon, <1>1, AmountsNat
<1>3. Sum(Amounts(T), U) \in Nat BY <1>2, SumNat
<1> QED BY <1>1, <1>3, TotalIs

LEMMA TotalEmpty ==
  ASSUME FiniteLaws, NEW T, NEW t PROVE TotalIn(T, {}, t) = 0
<1>1. InToken(T, {}, t) = {} BY DEF InToken
<1> QED BY <1>1, TotalIs, SumEmpty

LEMMA TotalUnion ==
  ASSUME FiniteLaws, NEW T, IsTable(T), NEW S, S \subseteq DOMAIN T, NEW U, U \subseteq DOMAIN T,
         \A k \in U : k \notin S, NEW t
  PROVE  TotalIn(T, S \cup U, t) = TotalIn(T, S, t) + TotalIn(T, U, t)
<1>1. PICK A : A = InToken(T, S, t) OBVIOUS
<1>2. PICK B : B = InToken(T, U, t) OBVIOUS
<1>3. InToken(T, S \cup U, t) = A \cup B BY <1>1, <1>2 DEF InToken
<1>4. \A k \in B : k \notin A BY <1>1, <1>2 DEF InToken
<1>5. IsFiniteSet(A) /\ \A k \in A : Amounts(T)[k] \in Nat BY Zenon, <1>1, AmountsNat
<1>6. IsFiniteSet(B) /\ \A k \in B : Amounts(T)[k] \in Nat BY Zenon, <1>2, AmountsNat
<1>7. Sum(Amounts(T), A \cup B) = Sum(Amounts(T), A) + Sum(Amounts(T), B)
  BY <1>4, <1>5, <1>6, SumUnion
<1> QED BY Zenon, <1>1, <1>2, <1>3, <1>7, TotalIs

LEMMA TotalSubset ==
  ASSUME FiniteLaws, NEW T, IsTable(T), NEW U, U \subseteq DOMAIN T, NEW S, S \subseteq U, NEW t
  PROVE  TotalIn(T, S, t) <= TotalIn(T, U, t)
<1>1. PICK A : A = InToken(T, S, t) OBVIOUS
<1>2. PICK B : B = InToken(T, U, t) OBVIOUS
<1>3. A \subseteq B BY <1>1, <1>2 DEF InToken
<1>4. IsFiniteSet(B) /\ \A k \in B : Amounts(T)[k] \in Nat BY Zenon, <1>2, AmountsNat
<1>5. Sum(Amounts(T), A) <= Sum(Amounts(T), B) BY Zenon, <1>3, <1>4, SumSubset
<1> QED BY <1>1, <1>2, <1>5, TotalIs

LEMMA TotalInsert ==
  ASSUME FiniteLaws, NEW T, IsTable(T), NEW S, S \subseteq DOMAIN T,
         NEW e \in DOMAIN T, e \notin S, NEW t
  PROVE  TotalIn(T, S \cup {e}, t) = TotalIn(T, S, t) + Share(T, e, t)
<1>1. PICK A : A = InToken(T, S, t) OBVIOUS
<1>2. IsFiniteSet(A) /\ e \notin A /\ A \subseteq DOMAIN T
      /\ \A k \in A : Amounts(T)[k] \in Nat
  BY Zenon, <1>1, AmountsNat
<1>3. Amounts(T)[e] = T[e].amount /\ T[e].amount \in Nat BY DEF Amounts, IsTable
<1>4. CASE T[e].token = t
  <2>1. InToken(T, S \cup {e}, t) = A \cup {e} BY <1>1, <1>4 DEF InToken
  <2>2. \A k \in A \cup {e} : Amounts(T)[k] \in Nat BY <1>2, <1>3
  <2>3. Sum(Amounts(T), A \cup {e}) = Amounts(T)[e] + Sum(Amounts(T), A) BY <1>2, <2>2, SumInsert
  <2>4. Sum(Amounts(T), A) \in Nat BY Zenon, <1>2, SumNat
  <2>5. TotalIn(T, S \cup {e}, t) = T[e].amount + Sum(Amounts(T), A)
    BY Zenon, <2>1, <2>3, <1>3, TotalIs
  <2>6. TotalIn(T, S, t) = Sum(Amounts(T), A) BY <1>1, TotalIs
  <2>7. Share(T, e, t) = T[e].amount BY <1>4 DEF Share
  <2> QED BY <2>4, <2>5, <2>6, <2>7, <1>3
<1>5. CASE T[e].token # t
  <2>1. InToken(T, S \cup {e}, t) = A BY <1>1, <1>5 DEF InToken
  <2>2. Share(T, e, t) = 0 BY <1>5 DEF Share
  <2>3. TotalIn(T, S, t) \in Nat BY TotalNat
  <2>4. TotalIn(T, S \cup {e}, t) = TotalIn(T, S, t) BY <1>1, <2>1, TotalIs
  <2> QED BY <2>2, <2>3, <2>4
<1> QED BY <1>4, <1>5

LEMMA TotalRemove ==
  ASSUME FiniteLaws, NEW T, IsTable(T), NEW S, S \subseteq DOMAIN T, NEW e \in S, NEW t
  PROVE  TotalIn(T, S, t) = TotalIn(T, S \ {e}, t) + Share(T, e, t)
<1>1. PICK U : U = S \ {e} BY Zenon
<1>2. U \subseteq DOMAIN T /\ e \in DOMAIN T /\ e \notin U /\ S = U \cup {e} BY <1>1
<1>3. TotalIn(T, U \cup {e}, t) = TotalIn(T, U, t) + Share(T, e, t) BY <1>2, TotalInsert
<1> QED BY <1>1, <1>2, <1>3

\* The tables of the specification are finite, with natural amounts.
LEMMA Tables ==
  ASSUME FiniteLaws
  PROVE  /\ IsTable(Claims) /\ IsTable(LateReceipts) /\ IsTable(Withdrawals) /\ IsTable(Terms)
         /\ IsFiniteSet(Accounts)
<1>1. /\ IsFiniteSet(DOMAIN Claims) /\ IsFiniteSet(DOMAIN LateReceipts)
      /\ IsFiniteSet(DOMAIN Withdrawals) /\ IsFiniteSet(Recipients)
  BY PayoutAssumption
<1>2. IsTable(Claims) /\ IsTable(LateReceipts) /\ IsTable(Withdrawals)
  BY Zenon, <1>1, PayoutAssumption DEF IsTable, Payee
<1>3. DOMAIN Terms = DOMAIN Claims \cup DOMAIN LateReceipts BY DEF Terms
<1>4. IsFiniteSet(DOMAIN Terms) BY Zenon, <1>1, <1>3 DEF FiniteLaws, FiniteUnionLaw
<1>5. \A n \in DOMAIN Terms : Terms[n].amount \in Nat BY <1>2 DEF Terms, IsTable
<1>6. IsFiniteSet(Accounts) BY Zenon, <1>1 DEF FiniteLaws, FiniteAddLaw, Accounts
<1> QED BY <1>2, <1>4, <1>5, <1>6 DEF IsTable

\* The leaves of a withdrawal credit, over all accounts, exactly what they total.
LEMMA LeafCreditsTotal ==
  ASSUME FiniteLaws, NEW leaves, leaves \subseteq DOMAIN Withdrawals, NEW t
  PROVE  /\ Sum([a \in Accounts |-> LeafCredit(leaves, t, a)], Accounts)
              = TotalIn(Withdrawals, leaves, t)
         /\ \A a : LeafCredit(leaves, t, a) \in Nat
<1>1. PICK S : S = InToken(Withdrawals, leaves, t) OBVIOUS
<1>2. PICK r : r = [k \in DOMAIN Withdrawals |-> Withdrawals[k].recipient] BY Zenon
<1>3. PICK f : f = Amounts(Withdrawals) OBVIOUS
<1>4. IsFiniteSet(S) /\ S \subseteq DOMAIN Withdrawals /\ \A k \in S : f[k] \in Nat
  BY Zenon, <1>1, <1>3, Tables, AmountsNat
<1>5. \A k \in S : r[k] = Withdrawals[k].recipient BY <1>2, <1>4
<1>6. \A k \in S : r[k] \in Accounts BY Zenon, <1>4, <1>5, PayoutAssumption DEF Payee
<1>7. Sum([a \in Accounts |-> Sum(f, {k \in S : r[k] = a})], Accounts) = Sum(f, S)
  BY <1>4, <1>6, Tables, SumGroups
<1>8. \A a : LeafCredit(leaves, t, a) = Sum(f, {k \in S : r[k] = a})
  <2> TAKE a
  <2>1. PICK L : L = {w \in leaves : Withdrawals[w].recipient = a} BY Zenon
  <2>2. InToken(Withdrawals, L, t) = {k \in S : r[k] = a} BY <2>1, <1>1, <1>5 DEF InToken
  <2>3. LeafCredit(leaves, t, a) = TotalIn(Withdrawals, L, t) BY <2>1 DEF LeafCredit
  <2> QED BY <2>2, <2>3, <1>3, TotalIs
<1>9. [a \in Accounts |-> LeafCredit(leaves, t, a)]
        = [a \in Accounts |-> Sum(f, {k \in S : r[k] = a})]
  BY <1>8
<1>10. Sum(f, S) = TotalIn(Withdrawals, leaves, t) BY <1>1, <1>3, TotalIs
<1>11. \A a : Sum(f, {k \in S : r[k] = a}) \in Nat
  <2> TAKE a
  <2>1. IsFiniteSet({k \in S : r[k] = a}) BY <1>4 DEF FiniteLaws, FiniteSubsetLaw
  <2> QED BY <2>1, <1>4, SumNat
<1>12. Sum([a \in Accounts |-> LeafCredit(leaves, t, a)], Accounts)
         = TotalIn(Withdrawals, leaves, t)
  BY Zenon, <1>7, <1>9, <1>10
<1>13. \A a : LeafCredit(leaves, t, a) \in Nat BY Zenon, <1>8, <1>11
<1> QED BY <1>12, <1>13

-----------------------------------------------------------------------------
(* The inductive invariant.                                                 *)

TypeOK ==
  /\ escrow \in [Tokens -> Nat] /\ pending \in [Tokens -> [Accounts -> Nat]]
  /\ withdrawalNullifierUsed \subseteq DOMAIN Withdrawals
  /\ latestFinalizedBlockNumber \in Nat
  /\ withdrawalProofs \subseteq [leaves : SUBSET DOMAIN Withdrawals, anchor : Nat]
  /\ materialized \in BOOLEAN
  /\ lateIncomingFundAmount \in [Tokens -> Nat] /\ receivedChannelFunds \in [Tokens -> Nat]
  /\ totalWithdrawn \in [Tokens -> Nat] /\ totalCreditedOut \in [Tokens -> Nat]
  /\ managerBalance \in [Tokens -> Nat] /\ paid \in [Tokens -> Nat]
  /\ usedWithdrawalNullifiers \subseteq DOMAIN Terms
  /\ withdrawalPayouts \subseteq usedWithdrawalNullifiers
  /\ withdrawalCredits \in [Tokens -> [Accounts -> Nat]]

\* What materialization has taken out of the escrow.
Exited(t) == IF materialized THEN Fund[t] ELSE 0

\* The escrow lacks exactly the exit, the late receipts credited and the withdrawals paid.
EscrowBooked ==
  \A t \in Tokens :
    Escrowed[t] = escrow[t] + Exited(t) + TotalIn(LateReceipts, lateBalance, t)
                    + TotalIn(Withdrawals, withdrawalNullifierUsed, t)

ProofsAnchored == \A p \in withdrawalProofs : p.anchor <= latestFinalizedBlockNumber

IInv ==
  /\ TypeOK /\ ValueConserved /\ EachClaimPaidOnce /\ LateCheckpointComplete
  /\ EscrowBooked /\ ProofsAnchored

LEMMA InitIInv ==
  ASSUME FiniteLaws
  PROVE  Init => IInv
<1> SUFFICES ASSUME Init PROVE IInv OBVIOUS
<1> USE DEF Init
<1>1. TypeOK BY Zenon, PayoutAssumption DEF TypeOK, Zero
<1>2. ValueConserved
  <2> SUFFICES ASSUME NEW t \in Tokens
               PROVE /\ Escrowed[t] = escrow[t] + SumFunctionOnSet(pending[t], Accounts)
                                        + managerBalance[t] + paid[t]
                     /\ escrow[t] >= 0 /\ managerBalance[t] >= 0
                     /\ \A a \in Accounts : pending[t][a] >= 0
                     /\ managerBalance[t] = receivedChannelFunds[t] - totalCreditedOut[t]
                     /\ receivedChannelFunds[t] <= Cap(t)
    BY Zenon DEF ValueConserved
  <2>1. Sum(pending[t], Accounts) = 0 BY Tables, SumZero
  <2>2. Escrowed[t] \in Nat /\ Fund[t] \in Nat BY Zenon, PayoutAssumption
  <2>3. SumFunctionOnSet(pending[t], Accounts) = 0 BY <2>1 DEF Sum
  <2> QED BY SMT, Z3, <2>2, <2>3 DEF Zero, Cap
<1>3. EachClaimPaidOnce
  <2>1. ASSUME NEW t \in Tokens
        PROVE /\ totalCreditedOut[t] =
                   TotalIn(Terms, usedWithdrawalNullifiers \ withdrawalPayouts, t)
              /\ \A a \in Recipients :
                   withdrawalCredits[t][a] =
                     TotalIn(Terms, {n \in withdrawalPayouts : Terms[n].recipient = a}, t)
              /\ totalWithdrawn[t] = TotalIn(Terms, usedWithdrawalNullifiers, t)
              /\ totalWithdrawn[t] <= Cap(t)
    <3>1. TotalIn(Terms, {}, t) = 0 BY TotalEmpty
    <3>2. {} \ {} = {} OBVIOUS
    <3>3. \A a : {n \in {} : Terms[n].recipient = a} = {} OBVIOUS
    <3>4. Fund[t] \in Nat BY Zenon, PayoutAssumption
    <3> QED BY SMT, Z3, <3>1, <3>2, <3>3, <3>4 DEF Zero, Accounts, Cap
  <2> QED BY Zenon, <2>1 DEF EachClaimPaidOnce
<1>4. LateCheckpointComplete
  BY Zenon, TotalEmpty DEF LateCheckpointComplete, Zero
<1>5. EscrowBooked
  <2> SUFFICES ASSUME NEW t \in Tokens
               PROVE Escrowed[t] = escrow[t] + Exited(t) + TotalIn(LateReceipts, lateBalance, t)
                                     + TotalIn(Withdrawals, withdrawalNullifierUsed, t)
    BY DEF EscrowBooked
  <2>1. TotalIn(LateReceipts, {}, t) = 0 /\ TotalIn(Withdrawals, {}, t) = 0 BY TotalEmpty
  <2>2. Escrowed[t] \in Nat BY PayoutAssumption
  <2> QED BY SMT, Z3, <2>1, <2>2 DEF Exited
<1>6. ProofsAnchored BY DEF ProofsAnchored
<1> QED BY <1>1, <1>2, <1>3, <1>4, <1>5, <1>6 DEF IInv

-----------------------------------------------------------------------------
(* Every step keeps it.                                                     *)

\* The escrow loses what the pull ledger gains.
LEMMA CreditStep ==
  ASSUME FiniteLaws, TypeOK, NEW credit \in [Tokens -> [Accounts -> Nat]], CreditEscrow(credit)
  PROVE  /\ escrow' \in [Tokens -> Nat] /\ pending' \in [Tokens -> [Accounts -> Nat]]
         /\ \A t \in Tokens :
              /\ Sum(credit[t], Accounts) \in Nat
              /\ escrow'[t] = escrow[t] - Sum(credit[t], Accounts)
              /\ Sum(pending'[t], Accounts) = Sum(pending[t], Accounts) + Sum(credit[t], Accounts)
              /\ Sum(pending[t], Accounts) \in Nat
<1>1. \A t \in Tokens : credit[t] \in [Accounts -> Nat] /\ pending[t] \in [Accounts -> Nat]
  BY DEF TypeOK
<1>2. \A t \in Tokens : Sum(credit[t], Accounts) \in Nat /\ Sum(pending[t], Accounts) \in Nat
  <2> TAKE t \in Tokens
  <2>1. \A a \in Accounts : credit[t][a] \in Nat /\ pending[t][a] \in Nat BY <1>1
  <2> QED BY Zenon, <2>1, Tables, SumNat
<1>3. /\ \A t \in Tokens : escrow[t] >= Sum(credit[t], Accounts)
      /\ escrow' = [t \in Tokens |-> escrow[t] - Sum(credit[t], Accounts)]
      /\ pending' = [t \in Tokens |-> [a \in Accounts |-> pending[t][a] + credit[t][a]]]
  BY DEF CreditEscrow, Sum
<1>4. escrow' \in [Tokens -> Nat]
  <2>1. \A t \in Tokens : escrow[t] \in Nat BY DEF TypeOK
  <2>2. \A t \in Tokens : escrow[t] - Sum(credit[t], Accounts) \in Nat BY SMT, Z3, <1>2, <1>3, <2>1
  <2> QED BY <1>3, <2>2
<1>5. pending' \in [Tokens -> [Accounts -> Nat]]
  BY SMT, Z3, <1>1, <1>3
<1>6. \A t \in Tokens :
        Sum(pending'[t], Accounts) = Sum(pending[t], Accounts) + Sum(credit[t], Accounts)
  <2> TAKE t \in Tokens
  <2>1. \A a \in Accounts : /\ pending[t][a] \in Nat /\ credit[t][a] \in Nat
                            /\ pending'[t][a] = pending[t][a] + credit[t][a]
    BY <1>1, <1>3
  <2> QED BY SMT, Z3, <2>1, Tables, SumPlus
<1> QED BY Zenon, <1>2, <1>3, <1>4, <1>5, <1>6

\* Where a credit moves d out of the escrow and nothing else of the books changes,
\* value stays conserved.
LEMMA CreditConserves ==
  ASSUME FiniteLaws, TypeOK, ValueConserved, NEW credit \in [Tokens -> [Accounts -> Nat]],
         CreditEscrow(credit),
         UNCHANGED <<managerBalance, paid, receivedChannelFunds, totalCreditedOut>>,
         lateIncomingFundAmount' \in [Tokens -> Nat],
         \A t \in Tokens : lateIncomingFundAmount'[t] >= lateIncomingFundAmount[t]
  PROVE  ValueConserved'
<1> SUFFICES ASSUME NEW t \in Tokens
             PROVE /\ Escrowed[t] = escrow'[t] + SumFunctionOnSet(pending'[t], Accounts)
                                      + managerBalance'[t] + paid'[t]
                   /\ escrow'[t] >= 0 /\ managerBalance'[t] >= 0
                   /\ \A a \in Accounts : pending'[t][a] >= 0
                   /\ managerBalance'[t] = receivedChannelFunds'[t] - totalCreditedOut'[t]
                   /\ receivedChannelFunds'[t] <= Cap(t)'
  BY Zenon DEF ValueConserved
<1>1. /\ escrow' \in [Tokens -> Nat] /\ pending' \in [Tokens -> [Accounts -> Nat]]
      /\ Sum(credit[t], Accounts) \in Nat
      /\ escrow'[t] = escrow[t] - Sum(credit[t], Accounts)
      /\ Sum(pending'[t], Accounts) = Sum(pending[t], Accounts) + Sum(credit[t], Accounts)
      /\ Sum(pending[t], Accounts) \in Nat
  BY Zenon, CreditStep
<1>2. /\ Escrowed[t] = escrow[t] + Sum(pending[t], Accounts) + managerBalance[t] + paid[t]
      /\ managerBalance[t] = receivedChannelFunds[t] - totalCreditedOut[t]
      /\ receivedChannelFunds[t] <= Cap(t)
  BY Zenon DEF ValueConserved, Sum
<1>3. /\ escrow[t] \in Nat /\ managerBalance[t] \in Nat /\ paid[t] \in Nat
      /\ receivedChannelFunds[t] \in Nat /\ lateIncomingFundAmount[t] \in Nat
      /\ Fund[t] \in Nat /\ lateIncomingFundAmount'[t] \in Nat
  BY Zenon, PayoutAssumption DEF TypeOK
<1>4. Escrowed[t] = escrow'[t] + Sum(pending'[t], Accounts) + managerBalance'[t] + paid'[t]
  BY SMT, Z3, <1>1, <1>2, <1>3
<1>5. receivedChannelFunds'[t] <= Cap(t)'
  BY SMT, Z3, <1>2, <1>3 DEF Cap
<1>6. escrow'[t] >= 0 /\ managerBalance'[t] >= 0 /\ \A a \in Accounts : pending'[t][a] >= 0
  BY SMT, Z3, <1>1, <1>3
<1> QED BY Zenon, <1>2, <1>4, <1>5, <1>6 DEF Sum

\* A credit to the Manager's address sums to its amount.
LEMMA ToManagerSum ==
  ASSUME FiniteLaws, NEW amounts \in [Tokens -> Nat]
  PROVE  /\ ToManager(amounts) \in [Tokens -> [Accounts -> Nat]]
         /\ \A t \in Tokens : Sum(ToManager(amounts)[t], Accounts) = amounts[t]
<1>1. ToManager(amounts) \in [Tokens -> [Accounts -> Nat]] BY DEF ToManager
<1>2. ASSUME NEW t \in Tokens PROVE Sum(ToManager(amounts)[t], Accounts) = amounts[t]
  <2>1. PICK f : f = ToManager(amounts)[t] OBVIOUS
  <2>2. Manager \in Accounts BY DEF Accounts
  <2>3. f[Manager] = amounts[t] /\ amounts[t] \in Nat /\ \A a \in Accounts : a # Manager => f[a] = 0
    BY <2>1, <2>2 DEF ToManager
  <2>4. Sum(f, Accounts) = f[Manager] BY <2>2, <2>3, Tables, SumPoint
  <2> QED BY <2>1, <2>3, <2>4
<1> QED BY <1>1, <1>2

LEMMA FinalizeBlockInv ==
  ASSUME FiniteLaws
  PROVE  IInv /\ FinalizeBlock => IInv'
<1> SUFFICES ASSUME IInv, FinalizeBlock PROVE IInv' OBVIOUS
<1> USE DEF IInv, FinalizeBlock, rollupVars, lateVars, accrualVars, fundVars
<1>1. TypeOK' BY SMT, Z3 DEF TypeOK
<1>2. ValueConserved' BY Zenon DEF ValueConserved, Cap
<1>3. EachClaimPaidOnce' BY Zenon DEF EachClaimPaidOnce, Cap
<1>4. LateCheckpointComplete' BY DEF LateCheckpointComplete
<1>5. EscrowBooked' BY Zenon DEF EscrowBooked, Exited
<1>6. ProofsAnchored' BY SMT, Z3 DEF ProofsAnchored, TypeOK
<1> QED BY <1>1, <1>2, <1>3, <1>4, <1>5, <1>6

LEMMA ProveWithdrawalsInv ==
  ASSUME FiniteLaws, IInv, NEW leaves \in SUBSET DOMAIN Withdrawals, ProveWithdrawals(leaves)
  PROVE  IInv'
<1> USE DEF IInv, ProveWithdrawals, rollupVars, lateVars, accrualVars, fundVars
<1>1. TypeOK' BY SMT, Z3 DEF TypeOK
<1>2. ValueConserved' BY Zenon DEF ValueConserved, Cap
<1>3. EachClaimPaidOnce' BY Zenon DEF EachClaimPaidOnce, Cap
<1>4. LateCheckpointComplete' BY Zenon DEF LateCheckpointComplete
<1>5. EscrowBooked' BY Zenon DEF EscrowBooked, Exited
<1>6. ProofsAnchored' BY SMT, Z3 DEF ProofsAnchored, TypeOK
<1> QED BY Zenon, <1>1, <1>2, <1>3, <1>4, <1>5, <1>6

LEMMA ProveLateInv ==
  ASSUME FiniteLaws, IInv, NEW r \in DOMAIN LateReceipts, NEW anchor, ProveLate(r, anchor)
  PROVE  IInv'
<1> USE DEF IInv, ProveLate, rollupVars, lateVars, accrualVars, fundVars
<1>1. TypeOK' BY Zenon DEF TypeOK
<1>2. ValueConserved' BY Zenon DEF ValueConserved, Cap
<1>3. EachClaimPaidOnce' BY Zenon DEF EachClaimPaidOnce, Cap
<1>4. LateCheckpointComplete' BY Zenon DEF LateCheckpointComplete
<1>5. EscrowBooked' BY Zenon DEF EscrowBooked, Exited
<1>6. ProofsAnchored' BY Zenon DEF ProofsAnchored, TypeOK
<1> QED BY Zenon, <1>1, <1>2, <1>3, <1>4, <1>5, <1>6

LEMMA WithdrawInv ==
  ASSUME FiniteLaws, IInv, NEW p \in withdrawalProofs, Withdraw(p)
  PROVE  IInv'
<1> USE DEF IInv
<1>1. p.leaves \subseteq DOMAIN Withdrawals /\ p.leaves \cap withdrawalNullifierUsed = {}
  BY Zenon DEF Withdraw, WithdrawalAdmitted, TypeOK
<1>2. PICK credit : credit = [t \in Tokens |-> [a \in Accounts |-> LeafCredit(p.leaves, t, a)]]
  BY Zenon
<1>3. credit \in [Tokens -> [Accounts -> Nat]]
  BY Zenon, <1>1, <1>2, LeafCreditsTotal
<1>4. CreditEscrow(credit) BY Zenon, <1>2 DEF Withdraw
<1>5. \A t \in Tokens : Sum(credit[t], Accounts) = TotalIn(Withdrawals, p.leaves, t)
  BY Zenon, <1>1, <1>2, LeafCreditsTotal
<1>6. /\ withdrawalNullifierUsed' = withdrawalNullifierUsed \cup p.leaves
      /\ UNCHANGED <<proofVars, lateVars, accrualVars, fundVars, materialized,
                     lateIncomingFundAmount, paid>>
  BY Zenon DEF Withdraw
<1>7. /\ escrow' \in [Tokens -> Nat] /\ pending' \in [Tokens -> [Accounts -> Nat]]
      /\ \A t \in Tokens : escrow'[t] = escrow[t] - Sum(credit[t], Accounts)
  BY Zenon, <1>3, <1>4, CreditStep
<1> USE DEF proofVars, lateVars, accrualVars, fundVars
<1>11. TypeOK' BY Zenon, <1>1, <1>6, <1>7 DEF TypeOK
<1>12. ValueConserved'
  <2>1. \A t \in Tokens : lateIncomingFundAmount'[t] >= lateIncomingFundAmount[t]
    BY SMT, Z3, <1>6 DEF TypeOK
  <2> QED BY Zenon, <1>3, <1>4, <1>6, <2>1, CreditConserves DEF TypeOK
<1>13. EachClaimPaidOnce' BY Zenon, <1>6 DEF EachClaimPaidOnce, Cap
<1>14. LateCheckpointComplete' BY Zenon, <1>6 DEF LateCheckpointComplete
<1>15. EscrowBooked'
  <2> SUFFICES ASSUME NEW t \in Tokens
               PROVE Escrowed[t] = escrow'[t] + Exited(t)' + TotalIn(LateReceipts, lateBalance', t)
                                     + TotalIn(Withdrawals, withdrawalNullifierUsed', t)
    BY Zenon DEF EscrowBooked
  <2>1. TotalIn(Withdrawals, withdrawalNullifierUsed \cup p.leaves, t)
          = TotalIn(Withdrawals, withdrawalNullifierUsed, t) + TotalIn(Withdrawals, p.leaves, t)
    <3>1. \A k \in p.leaves : k \notin withdrawalNullifierUsed BY Zenon, <1>1
    <3>2. withdrawalNullifierUsed \subseteq DOMAIN Withdrawals BY DEF TypeOK
    <3> QED BY SMT, Z3, <1>1, <3>1, <3>2, Tables, TotalUnion
  <2>2. escrow'[t] = escrow[t] - TotalIn(Withdrawals, p.leaves, t) BY Zenon, <1>5, <1>7
  <2>3. Escrowed[t] = escrow[t] + Exited(t) + TotalIn(LateReceipts, lateBalance, t)
                        + TotalIn(Withdrawals, withdrawalNullifierUsed, t)
    BY Zenon DEF EscrowBooked
  <2>4. lateBalance \subseteq DOMAIN LateReceipts BY DEF LateCheckpointComplete
  <2>5. /\ TotalIn(Withdrawals, p.leaves, t) \in Nat
        /\ TotalIn(Withdrawals, withdrawalNullifierUsed, t) \in Nat
        /\ TotalIn(LateReceipts, lateBalance, t) \in Nat
    BY Zenon, <1>1, <2>4, Tables, TotalNat DEF TypeOK
  <2>6. escrow[t] \in Nat /\ Exited(t) \in Nat BY Zenon, PayoutAssumption DEF TypeOK, Exited
  <2>7. Exited(t)' = Exited(t) /\ lateBalance' = lateBalance BY Zenon, <1>6 DEF Exited
  <2>8. TotalIn(Withdrawals, withdrawalNullifierUsed', t)
          = TotalIn(Withdrawals, withdrawalNullifierUsed, t) + TotalIn(Withdrawals, p.leaves, t)
    BY Zenon, <1>6, <2>1
  <2> QED BY SMT, Z3, <2>2, <2>3, <2>5, <2>6, <2>7, <2>8
<1>16. ProofsAnchored' BY Zenon, <1>6 DEF ProofsAnchored
<1> QED BY <1>11, <1>12, <1>13, <1>14, <1>15, <1>16

LEMMA PullCreditInv ==
  ASSUME FiniteLaws, IInv, NEW t \in Tokens, NEW a \in Recipients,
         NEW amount \in 1 .. pending[t][a], PullCredit(t, a, amount)
  PROVE  IInv'
<1> USE DEF IInv, lateVars, accrualVars, fundVars, proofVars
<1>1. a \in Accounts BY DEF Accounts
<1>2. pending[t] \in [Accounts -> Nat] /\ pending[t][a] \in Nat BY <1>1 DEF TypeOK
<1>3. amount \in Nat /\ amount <= pending[t][a] BY SMT, Z3, <1>2
<1>4. /\ pending' = [pending EXCEPT ![t] = [pending[t] EXCEPT ![a] = pending[t][a] - amount]]
      /\ paid' = [paid EXCEPT ![t] = paid[t] + amount]
      /\ UNCHANGED <<escrow, withdrawalNullifierUsed, proofVars, lateVars, accrualVars, fundVars,
                     materialized, lateIncomingFundAmount>>
  BY Zenon, <1>1, <1>2 DEF PullCredit, TypeOK
<1>5. PICK g : g = [pending[t] EXCEPT ![a] = pending[t][a] - amount] BY Zenon
<1>6. /\ g \in [Accounts -> Nat] /\ g[a] = pending[t][a] - amount
      /\ \A x \in Accounts : x # a => pending[t][x] = g[x]
  BY SMT, Z3, <1>1, <1>2, <1>3, <1>5
<1>7. pending' = [pending EXCEPT ![t] = g] BY Zenon, <1>4, <1>5
<1>8. pending' \in [Tokens -> [Accounts -> Nat]] /\ paid' \in [Tokens -> Nat]
  <2>1. pending' \in [Tokens -> [Accounts -> Nat]] BY Zenon, <1>6, <1>7 DEF TypeOK
  <2>2. paid[t] + amount \in Nat BY SMT, Z3, <1>3 DEF TypeOK
  <2>3. paid' \in [Tokens -> Nat] BY Zenon, <1>4, <2>2 DEF TypeOK
  <2> QED BY <2>1, <2>3
<1>11. TypeOK' BY Zenon, <1>4, <1>8 DEF TypeOK
<1>12. ValueConserved'
  <2> SUFFICES ASSUME NEW u \in Tokens
               PROVE /\ Escrowed[u] = escrow'[u] + SumFunctionOnSet(pending'[u], Accounts)
                                        + managerBalance'[u] + paid'[u]
                     /\ escrow'[u] >= 0 /\ managerBalance'[u] >= 0
                     /\ \A x \in Accounts : pending'[u][x] >= 0
                     /\ managerBalance'[u] = receivedChannelFunds'[u] - totalCreditedOut'[u]
                     /\ receivedChannelFunds'[u] <= Cap(u)'
    BY Zenon DEF ValueConserved
  <2>1. /\ Escrowed[u] = escrow[u] + Sum(pending[u], Accounts) + managerBalance[u] + paid[u]
        /\ managerBalance[u] = receivedChannelFunds[u] - totalCreditedOut[u]
        /\ receivedChannelFunds[u] <= Cap(u)
    BY Zenon DEF ValueConserved, Sum
  <2>2. Escrowed[u] = escrow[u] + Sum(pending'[u], Accounts) + managerBalance[u] + paid'[u]
    <3>1. CASE u # t
      BY Zenon, <3>1, <2>1, <1>4, <1>7 DEF TypeOK
    <3>2. CASE u = t
      <4>1. \A x \in Accounts : pending[t][x] \in Nat /\ g[x] \in Nat BY Zenon, <1>2, <1>6
      <4>2. Sum(g, Accounts) = (Sum(pending[t], Accounts) - pending[t][a]) + g[a]
        BY SMT, Z3, <4>1, <1>1, <1>6, Tables, SumChange
      <4>3. pending'[u] = g /\ paid'[u] = paid[t] + amount BY Zenon, <3>2, <1>4, <1>7 DEF TypeOK
      <4>4. Sum(pending[t], Accounts) \in Nat BY Zenon, <4>1, Tables, SumNat
      <4>5. escrow[t] \in Nat /\ managerBalance[t] \in Nat /\ paid[t] \in Nat BY Zenon DEF TypeOK
      <4>6. Sum(pending'[u], Accounts)
              = (Sum(pending[t], Accounts) - pending[t][a]) + (pending[t][a] - amount)
        BY Zenon, <4>2, <4>3, <1>6
      <4>7. pending[t][a] \in Nat /\ amount \in Nat BY Zenon, <4>1, <1>1, <1>2, <1>3
      <4>8. Escrowed[t] = escrow[t] + Sum(pending[t], Accounts) + managerBalance[t] + paid[t]
        BY Zenon, <2>1, <3>2
      <4>9. PICK s : s = Sum(pending[t], Accounts) BY Zenon
      <4>10. PICK q : q = pending[t][a] BY Zenon
      <4>11. s \in Nat /\ q \in Nat BY Zenon, <4>4, <4>7, <4>9, <4>10
      <4>12. Sum(pending'[u], Accounts) = (s - q) + (q - amount) BY Zenon, <4>6, <4>9, <4>10
      <4>13. Escrowed[t] = escrow[t] + ((s - q) + (q - amount)) + managerBalance[t]
                             + (paid[t] + amount)
        BY SMT, Z3, <4>5, <4>7, <4>8, <4>9, <4>11
      <4> QED BY Zenon, <4>3, <4>12, <4>13, <3>2
    <3> QED BY Zenon, <3>1, <3>2
  <2>3. escrow[u] >= 0 /\ managerBalance[u] >= 0 /\ \A x \in Accounts : pending'[u][x] >= 0
    BY SMT, Z3, <1>8 DEF TypeOK
  <2> QED BY Zenon, <2>1, <2>2, <2>3, <1>4 DEF Cap, Sum
<1>13. EachClaimPaidOnce' BY Zenon, <1>4 DEF EachClaimPaidOnce, Cap
<1>14. LateCheckpointComplete' BY Zenon, <1>4 DEF LateCheckpointComplete
<1>15. EscrowBooked' BY Zenon, <1>4 DEF EscrowBooked, Exited
<1>16. ProofsAnchored' BY Zenon, <1>4 DEF ProofsAnchored
<1> QED BY <1>11, <1>12, <1>13, <1>14, <1>15, <1>16

LEMMA TermsType ==
  \A n \in DOMAIN Terms :
    Terms[n].token \in Tokens /\ Terms[n].recipient \in Recipients /\ Terms[n].amount \in Nat
BY Zenon, PayoutAssumption DEF Terms, Payee

\* An accepted claim enters every sum it belongs to.
LEMMA AccrueKeeps ==
  ASSUME FiniteLaws, TypeOK, EachClaimPaidOnce, NEW n \in DOMAIN Terms, Accrue(n),
         totalCreditedOut' = totalCreditedOut, lateIncomingFundAmount' \in [Tokens -> Nat],
         \A t \in Tokens : lateIncomingFundAmount'[t] >= lateIncomingFundAmount[t]
  PROVE  /\ EachClaimPaidOnce'
         /\ totalWithdrawn' \in [Tokens -> Nat]
         /\ withdrawalCredits' \in [Tokens -> [Accounts -> Nat]]
         /\ usedWithdrawalNullifiers' = usedWithdrawalNullifiers \cup {n}
         /\ usedWithdrawalNullifiers' \subseteq DOMAIN Terms
         /\ withdrawalPayouts' \subseteq usedWithdrawalNullifiers'
         /\ n \notin usedWithdrawalNullifiers
<1>1. PICK tok \in Tokens : tok = Terms[n].token BY Zenon, TermsType
<1>2. PICK who \in Recipients : who = Terms[n].recipient BY Zenon, TermsType
<1>3. PICK amount \in Nat : amount = Terms[n].amount BY Zenon, TermsType
<1>4. who \in Accounts BY DEF Accounts
<1>5. /\ n \notin usedWithdrawalNullifiers /\ n \notin withdrawalPayouts
      /\ totalWithdrawn[tok] + amount <= Fund[tok] + lateIncomingFundAmount'[tok]
      /\ totalWithdrawn' = [totalWithdrawn EXCEPT ![tok] = totalWithdrawn[tok] + amount]
      /\ usedWithdrawalNullifiers' = usedWithdrawalNullifiers \cup {n}
      /\ withdrawalCredits' = [withdrawalCredits EXCEPT ![tok] =
            [withdrawalCredits[tok] EXCEPT ![who] = withdrawalCredits[tok][who] + amount]]
      /\ withdrawalPayouts' = withdrawalPayouts \cup {n}
  BY Zenon, <1>1, <1>2, <1>3, <1>4 DEF Accrue, Unused, WithinCap, TypeOK
<1>6. totalWithdrawn' \in [Tokens -> Nat] /\ withdrawalCredits' \in [Tokens -> [Accounts -> Nat]]
  <2>1. totalWithdrawn[tok] + amount \in Nat BY SMT, Z3 DEF TypeOK
  <2>2. withdrawalCredits[tok] \in [Accounts -> Nat] BY Zenon DEF TypeOK
  <2>3. withdrawalCredits[tok][who] + amount \in Nat BY SMT, Z3, <2>2, <1>4
  <2>4. [withdrawalCredits[tok] EXCEPT ![who] = withdrawalCredits[tok][who] + amount]
          \in [Accounts -> Nat]
    BY Zenon, <2>2, <2>3
  <2> QED BY Zenon, <1>5, <2>1, <2>4 DEF TypeOK
<1>7. /\ usedWithdrawalNullifiers \subseteq DOMAIN Terms
      /\ withdrawalPayouts \subseteq usedWithdrawalNullifiers
  BY Zenon DEF TypeOK
<1>8. usedWithdrawalNullifiers' \ withdrawalPayouts' = usedWithdrawalNullifiers \ withdrawalPayouts
  BY Zenon, <1>5, <1>7
<1>9. EachClaimPaidOnce'
  <2> SUFFICES ASSUME NEW t \in Tokens
               PROVE /\ totalCreditedOut'[t] =
                          TotalIn(Terms, usedWithdrawalNullifiers' \ withdrawalPayouts', t)
                     /\ \A a \in Recipients :
                          withdrawalCredits'[t][a] =
                            TotalIn(Terms, {k \in withdrawalPayouts' : Terms[k].recipient = a}, t)
                     /\ totalWithdrawn'[t] = TotalIn(Terms, usedWithdrawalNullifiers', t)
                     /\ totalWithdrawn'[t] <= Cap(t)'
    BY Zenon DEF EachClaimPaidOnce
  <2>1. /\ totalCreditedOut[t] = TotalIn(Terms, usedWithdrawalNullifiers \ withdrawalPayouts, t)
        /\ \A a \in Recipients :
             withdrawalCredits[t][a] =
               TotalIn(Terms, {k \in withdrawalPayouts : Terms[k].recipient = a}, t)
        /\ totalWithdrawn[t] = TotalIn(Terms, usedWithdrawalNullifiers, t)
        /\ totalWithdrawn[t] <= Cap(t)
    BY Zenon DEF EachClaimPaidOnce
  <2>2. totalCreditedOut'[t] = TotalIn(Terms, usedWithdrawalNullifiers' \ withdrawalPayouts', t)
    BY Zenon, <1>8, <2>1
  <2>3. Share(Terms, n, t) = IF tok = t THEN amount ELSE 0 BY Zenon, <1>1, <1>3 DEF Share
  <2>4. totalWithdrawn'[t] = totalWithdrawn[t] + Share(Terms, n, t) /\ totalWithdrawn[t] \in Nat
    BY SMT, Z3, <1>5, <2>3 DEF TypeOK
  <2>5. TotalIn(Terms, usedWithdrawalNullifiers \cup {n}, t)
          = TotalIn(Terms, usedWithdrawalNullifiers, t) + Share(Terms, n, t)
    BY <1>5, <1>7, Tables, TotalInsert
  <2>6. totalWithdrawn'[t] = TotalIn(Terms, usedWithdrawalNullifiers', t)
    BY Zenon, <1>5, <2>1, <2>4, <2>5
  <2>7. totalWithdrawn'[t] <= Cap(t)'
    <3>1. Fund[t] \in Nat /\ lateIncomingFundAmount[t] \in Nat /\ lateIncomingFundAmount'[t] \in Nat
      BY Zenon, PayoutAssumption DEF TypeOK
    <3>2. CASE t = tok BY Zenon, <3>2, <1>5, <2>4 DEF Cap, TypeOK
    <3>3. CASE t # tok BY SMT, Z3, <3>1, <3>3, <1>5, <2>1, <2>4 DEF Cap, TypeOK
    <3> QED BY Zenon, <3>2, <3>3
  <2>8. ASSUME NEW a \in Recipients
        PROVE withdrawalCredits'[t][a] =
                TotalIn(Terms, {k \in withdrawalPayouts' : Terms[k].recipient = a}, t)
    <3>1. PICK P : P = {k \in withdrawalPayouts : Terms[k].recipient = a} BY Zenon
    <3>2. P \subseteq DOMAIN Terms /\ n \notin P BY Zenon, <3>1, <1>5, <1>7
    <3>3. withdrawalCredits[t][a] = TotalIn(Terms, P, t) BY Zenon, <3>1, <2>1
    <3>4. withdrawalCredits[t] \in [Accounts -> Nat] /\ a \in Accounts BY Zenon DEF TypeOK, Accounts
    <3>5. CASE a = who
      <4>1. {k \in withdrawalPayouts' : Terms[k].recipient = a} = P \cup {n}
        BY Zenon, <3>1, <3>5, <1>2, <1>5
      <4>2. TotalIn(Terms, P \cup {n}, t) = TotalIn(Terms, P, t) + Share(Terms, n, t)
        BY Zenon, <3>2, Tables, TotalInsert
      <4>3. withdrawalCredits'[t][a] = withdrawalCredits[t][a] + Share(Terms, n, t)
        <5>1. CASE t = tok
          <6>1. withdrawalCredits'[t] =
                  [withdrawalCredits[tok] EXCEPT ![who] = withdrawalCredits[tok][who] + amount]
            BY Zenon, <5>1, <1>5 DEF TypeOK
          <6> QED BY Zenon, <6>1, <5>1, <3>4, <3>5, <2>3
        <5>2. CASE t # tok
          <6>1. withdrawalCredits'[t] = withdrawalCredits[t] BY Zenon, <5>2, <1>5 DEF TypeOK
          <6> QED BY SMT, Z3, <6>1, <5>2, <3>4, <2>3
        <5> QED BY Zenon, <5>1, <5>2
      <4> QED BY Zenon, <4>1, <4>2, <4>3, <3>3
    <3>6. CASE a # who
      <4>1. {k \in withdrawalPayouts' : Terms[k].recipient = a} = P
        BY Zenon, <3>1, <3>6, <1>2, <1>5
      <4>2. withdrawalCredits'[t][a] = withdrawalCredits[t][a]
        <5>1. CASE t = tok
          <6>1. withdrawalCredits'[t] =
                  [withdrawalCredits[tok] EXCEPT ![who] = withdrawalCredits[tok][who] + amount]
            BY <5>1, <1>5 DEF TypeOK
          <6> QED BY Zenon, <6>1, <5>1, <3>4, <3>6
        <5>2. CASE t # tok BY Zenon, <5>2, <1>5 DEF TypeOK
        <5> QED BY Zenon, <5>1, <5>2
      <4> QED BY Zenon, <4>1, <4>2, <3>3
    <3> QED BY Zenon, <3>5, <3>6
  <2> QED BY Zenon, <2>2, <2>6, <2>7, <2>8
<1> QED BY Zenon, <1>5, <1>6, <1>7, <1>9

LEMMA SubmitClaimInv ==
  ASSUME FiniteLaws, IInv, NEW n \in DOMAIN Claims, SubmitClaim(n)
  PROVE  IInv'
<1> USE DEF IInv, rollupVars, proofVars, lateVars, fundVars
<1>1. n \in DOMAIN Terms /\ n \notin DOMAIN LateReceipts BY Zenon, PayoutAssumption DEF Terms
<1>2. /\ Accrue(n)
      /\ UNCHANGED <<rollupVars, proofVars, lateVars, fundVars, materialized, paid,
                     lateIncomingFundAmount>>
  BY DEF SubmitClaim
<1>3. \A t \in Tokens : lateIncomingFundAmount'[t] >= lateIncomingFundAmount[t]
  BY SMT, Z3, <1>2 DEF TypeOK
<1>4. lateIncomingFundAmount' \in [Tokens -> Nat] /\ totalCreditedOut' = totalCreditedOut
  BY Zenon, <1>2 DEF TypeOK
<1>5. /\ EachClaimPaidOnce'
      /\ totalWithdrawn' \in [Tokens -> Nat]
      /\ withdrawalCredits' \in [Tokens -> [Accounts -> Nat]]
      /\ usedWithdrawalNullifiers' = usedWithdrawalNullifiers \cup {n}
      /\ usedWithdrawalNullifiers' \subseteq DOMAIN Terms
      /\ withdrawalPayouts' \subseteq usedWithdrawalNullifiers'
  BY Zenon, <1>1, <1>2, <1>3, <1>4, AccrueKeeps
<1>11. TypeOK' BY Zenon, <1>2, <1>5 DEF TypeOK
<1>12. ValueConserved' BY Zenon, <1>2 DEF ValueConserved, Cap
<1>14. LateCheckpointComplete' BY Zenon, <1>1, <1>2, <1>5 DEF LateCheckpointComplete
<1>15. EscrowBooked' BY Zenon, <1>2 DEF EscrowBooked, Exited
<1>16. ProofsAnchored' BY <1>2 DEF ProofsAnchored
<1> QED BY Zenon, <1>5, <1>11, <1>12, <1>14, <1>15, <1>16

LEMMA MaterializeInv ==
  ASSUME FiniteLaws, IInv, NEW anchor, Materialize(anchor)
  PROVE  IInv'
<1> USE DEF IInv, proofVars, accrualVars, fundVars
<1>1. Fund \in [Tokens -> Nat] BY Zenon, PayoutAssumption
<1>2. PICK credit : credit = ToManager(Fund) OBVIOUS
<1>3. /\ credit \in [Tokens -> [Accounts -> Nat]]
      /\ \A t \in Tokens : Sum(credit[t], Accounts) = Fund[t]
  BY <1>1, <1>2, ToManagerSum
<1>4. CreditEscrow(credit) BY <1>2 DEF Materialize
<1>5. /\ ~materialized /\ materialized' = TRUE
      /\ UNCHANGED <<withdrawalNullifierUsed, proofVars, lateBalance, accrualVars, fundVars,
                     lateIncomingFundAmount, paid>>
  BY Zenon DEF Materialize
<1>7. /\ escrow' \in [Tokens -> Nat] /\ pending' \in [Tokens -> [Accounts -> Nat]]
      /\ \A t \in Tokens : escrow'[t] = escrow[t] - Sum(credit[t], Accounts)
  BY Zenon, <1>3, <1>4, CreditStep
<1>11. TypeOK' BY Zenon, <1>5, <1>7 DEF TypeOK
<1>12. ValueConserved'
  <2>1. \A t \in Tokens : lateIncomingFundAmount'[t] >= lateIncomingFundAmount[t]
    BY SMT, Z3, <1>5 DEF TypeOK
  <2> QED BY Zenon, <1>3, <1>4, <1>5, <2>1, CreditConserves DEF TypeOK
<1>13. EachClaimPaidOnce' BY Zenon, <1>5 DEF EachClaimPaidOnce, Cap
<1>14. LateCheckpointComplete' BY Zenon, <1>5 DEF LateCheckpointComplete
<1>15. EscrowBooked'
  <2> SUFFICES ASSUME NEW t \in Tokens
               PROVE Escrowed[t] = escrow'[t] + Exited(t)' + TotalIn(LateReceipts, lateBalance', t)
                                     + TotalIn(Withdrawals, withdrawalNullifierUsed', t)
    BY Zenon DEF EscrowBooked
  <2>2. escrow'[t] = escrow[t] - Fund[t] BY Zenon, <1>3, <1>7
  <2>3. Escrowed[t] = escrow[t] + 0 + TotalIn(LateReceipts, lateBalance, t)
                        + TotalIn(Withdrawals, withdrawalNullifierUsed, t)
    BY Zenon, <1>5 DEF EscrowBooked, Exited
  <2>4. lateBalance \subseteq DOMAIN LateReceipts BY DEF LateCheckpointComplete
  <2>5. /\ TotalIn(Withdrawals, withdrawalNullifierUsed, t) \in Nat
        /\ TotalIn(LateReceipts, lateBalance, t) \in Nat
    BY Zenon, <2>4, Tables, TotalNat DEF TypeOK
  <2>6. escrow[t] \in Nat /\ Fund[t] \in Nat BY Zenon, <1>1 DEF TypeOK
  <2>7. Exited(t)' = Fund[t] /\ UNCHANGED <<lateBalance, withdrawalNullifierUsed>>
    BY <1>5 DEF Exited
  <2> QED BY SMT, Z3, <2>2, <2>3, <2>5, <2>6, <2>7
<1>16. ProofsAnchored' BY <1>5 DEF ProofsAnchored
<1> QED BY <1>11, <1>12, <1>13, <1>14, <1>15, <1>16

LEMMA ClaimLateInv ==
  ASSUME FiniteLaws, IInv, NEW r \in DOMAIN LateReceipts, ClaimLate(r)
  PROVE  IInv'
<1> USE DEF IInv, proofVars, fundVars
<1>1. r \in DOMAIN Terms /\ Terms[r] = LateReceipts[r] BY Zenon, PayoutAssumption DEF Terms
<1>2. PICK tok \in Tokens : tok = LateReceipts[r].token BY Zenon, <1>1, TermsType
<1>3. PICK amount \in Nat : amount = LateReceipts[r].amount BY Zenon, <1>1, TermsType
<1>4. PICK d : d = [t \in Tokens |-> IF t = tok THEN amount ELSE 0] BY Zenon
<1>5. PICK credit : credit = ToManager(d) OBVIOUS
<1>6. /\ d \in [Tokens -> Nat] /\ \A t \in Tokens : d[t] = Share(LateReceipts, r, t)
  BY Zenon, <1>2, <1>3, <1>4 DEF Share
<1>7. credit \in [Tokens -> [Accounts -> Nat]] /\ \A t \in Tokens : Sum(credit[t], Accounts) = d[t]
  BY Zenon, <1>5, <1>6, ToManagerSum
<1>8. CreditEscrow(credit) BY Zenon, <1>2, <1>3, <1>4, <1>5 DEF ClaimLate, CreditLate
<1>9. /\ lateBalance' = lateBalance \cup {r}
      /\ lateIncomingFundAmount' =
           [lateIncomingFundAmount EXCEPT ![tok] = lateIncomingFundAmount[tok] + amount]
      /\ Accrue(r)
      /\ UNCHANGED <<withdrawalNullifierUsed, proofVars, fundVars, materialized, paid>>
  BY Zenon, <1>2, <1>3 DEF ClaimLate, Continues
<1>10. /\ lateIncomingFundAmount' \in [Tokens -> Nat]
       /\ \A t \in Tokens : lateIncomingFundAmount'[t] = lateIncomingFundAmount[t] + d[t]
  <2>1. lateIncomingFundAmount[tok] + amount \in Nat BY SMT, Z3 DEF TypeOK
  <2> QED BY SMT, Z3, <2>1, <1>4, <1>9 DEF TypeOK
<1>11. \A t \in Tokens : lateIncomingFundAmount'[t] >= lateIncomingFundAmount[t]
  <2>1. \A t \in Tokens : lateIncomingFundAmount[t] \in Nat /\ d[t] \in Nat BY Zenon, <1>6 DEF TypeOK
  <2> QED BY SMT, Z3, <1>10, <2>1
<1>12. /\ EachClaimPaidOnce'
       /\ totalWithdrawn' \in [Tokens -> Nat]
       /\ withdrawalCredits' \in [Tokens -> [Accounts -> Nat]]
       /\ usedWithdrawalNullifiers' = usedWithdrawalNullifiers \cup {r}
       /\ usedWithdrawalNullifiers' \subseteq DOMAIN Terms
       /\ withdrawalPayouts' \subseteq usedWithdrawalNullifiers'
       /\ r \notin usedWithdrawalNullifiers
  BY Zenon, <1>1, <1>9, <1>10, <1>11, AccrueKeeps
<1>13. /\ escrow' \in [Tokens -> Nat] /\ pending' \in [Tokens -> [Accounts -> Nat]]
       /\ \A t \in Tokens : escrow'[t] = escrow[t] - Sum(credit[t], Accounts)
  BY Zenon, <1>7, <1>8, CreditStep
<1>14. lateBalance \subseteq DOMAIN LateReceipts /\ r \notin lateBalance
  BY Zenon, <1>12 DEF LateCheckpointComplete
<1>15. \A t \in Tokens : TotalIn(LateReceipts, lateBalance', t)
                           = TotalIn(LateReceipts, lateBalance, t) + d[t]
  <2> TAKE t \in Tokens
  <2>1. TotalIn(LateReceipts, lateBalance \cup {r}, t)
          = TotalIn(LateReceipts, lateBalance, t) + Share(LateReceipts, r, t)
    BY Zenon, <1>14, Tables, TotalInsert
  <2> QED BY Zenon, <2>1, <1>6, <1>9
<1>21. TypeOK' BY Zenon, <1>9, <1>10, <1>12, <1>13 DEF TypeOK
<1>22. ValueConserved'
  BY Zenon, <1>7, <1>8, <1>9, <1>10, <1>11, CreditConserves
<1>24. LateCheckpointComplete'
  <2>1. lateBalance' = usedWithdrawalNullifiers' \cap DOMAIN LateReceipts
    BY Zenon, <1>9, <1>12 DEF LateCheckpointComplete
  <2>2. ASSUME NEW t \in Tokens
        PROVE lateIncomingFundAmount'[t] = TotalIn(LateReceipts, lateBalance', t)
    BY Zenon, <1>10, <1>15 DEF LateCheckpointComplete
  <2> QED BY Zenon, <2>1, <2>2 DEF LateCheckpointComplete
<1>25. EscrowBooked'
  <2> SUFFICES ASSUME NEW t \in Tokens
               PROVE Escrowed[t] = escrow'[t] + Exited(t)' + TotalIn(LateReceipts, lateBalance', t)
                                     + TotalIn(Withdrawals, withdrawalNullifierUsed', t)
    BY Zenon DEF EscrowBooked
  <2>1. escrow'[t] = escrow[t] - d[t] BY Zenon, <1>7, <1>13
  <2>2. Escrowed[t] = escrow[t] + Exited(t) + TotalIn(LateReceipts, lateBalance, t)
                        + TotalIn(Withdrawals, withdrawalNullifierUsed, t)
    BY Zenon DEF EscrowBooked
  <2>3. /\ TotalIn(Withdrawals, withdrawalNullifierUsed, t) \in Nat
        /\ TotalIn(LateReceipts, lateBalance, t) \in Nat
    BY Zenon, <1>14, Tables, TotalNat DEF TypeOK
  <2>4. escrow[t] \in Nat /\ Exited(t) \in Nat /\ d[t] \in Nat
    BY Zenon, <1>6, PayoutAssumption DEF TypeOK, Exited
  <2>5. Exited(t)' = Exited(t) /\ withdrawalNullifierUsed' = withdrawalNullifierUsed
    BY Zenon, <1>9 DEF Exited
  <2> QED BY SMT, Z3, <1>15, <2>1, <2>2, <2>3, <2>4, <2>5
<1>26. ProofsAnchored' BY <1>9 DEF ProofsAnchored
<1> QED BY Zenon, <1>12, <1>21, <1>22, <1>24, <1>25, <1>26

LEMMA PullChannelFundsInv ==
  ASSUME FiniteLaws, IInv, NEW t \in Tokens, PullChannelFunds(t)
  PROVE  IInv'
<1> USE DEF IInv, proofVars, lateVars, accrualVars
<1>1. Manager \in Accounts BY DEF Accounts
<1>2. pending[t] \in [Accounts -> Nat] /\ pending[t][Manager] \in Nat BY <1>1 DEF TypeOK
<1>3. Cap(t) \in Nat /\ receivedChannelFunds[t] \in Nat BY SMT, Z3, PayoutAssumption DEF Cap, TypeOK
<1>4. PICK d : d = Expected(t) OBVIOUS
<1>5. d \in Nat /\ d <= pending[t][Manager] /\ Cap(t) = receivedChannelFunds[t] + d
  BY SMT, Z3, <1>3, <1>4 DEF PullChannelFunds, Expected
<1>6. /\ pending' = [pending EXCEPT ![t] = [pending[t] EXCEPT ![Manager] = pending[t][Manager] - d]]
      /\ managerBalance' = [managerBalance EXCEPT ![t] = managerBalance[t] + d]
      /\ receivedChannelFunds' = [receivedChannelFunds EXCEPT ![t] = Cap(t)]
      /\ UNCHANGED <<escrow, withdrawalNullifierUsed, proofVars, lateVars, accrualVars,
                     totalCreditedOut, materialized, lateIncomingFundAmount, paid>>
  BY Zenon, <1>1, <1>2, <1>4 DEF PullChannelFunds, TypeOK
<1>7. PICK g : g = [pending[t] EXCEPT ![Manager] = pending[t][Manager] - d] BY Zenon
<1>8. /\ g \in [Accounts -> Nat] /\ g[Manager] = pending[t][Manager] - d
      /\ \A x \in Accounts : x # Manager => pending[t][x] = g[x]
  BY SMT, Z3, <1>1, <1>2, <1>5, <1>7
<1>9. pending' = [pending EXCEPT ![t] = g] BY Zenon, <1>6, <1>7
<1>10. /\ pending' \in [Tokens -> [Accounts -> Nat]] /\ managerBalance' \in [Tokens -> Nat]
       /\ receivedChannelFunds' \in [Tokens -> Nat]
  <2>1. pending' \in [Tokens -> [Accounts -> Nat]] BY Zenon, <1>8, <1>9 DEF TypeOK
  <2>2. managerBalance[t] + d \in Nat BY SMT, Z3, <1>5 DEF TypeOK
  <2>3. managerBalance' \in [Tokens -> Nat] BY Zenon, <1>6, <2>2 DEF TypeOK
  <2>4. receivedChannelFunds' \in [Tokens -> Nat] BY Zenon, <1>3, <1>6 DEF TypeOK
  <2> QED BY <2>1, <2>3, <2>4
<1>11. TypeOK' BY Zenon, <1>6, <1>10 DEF TypeOK
<1>12. ValueConserved'
  <2> SUFFICES ASSUME NEW u \in Tokens
               PROVE /\ Escrowed[u] = escrow'[u] + SumFunctionOnSet(pending'[u], Accounts)
                                        + managerBalance'[u] + paid'[u]
                     /\ escrow'[u] >= 0 /\ managerBalance'[u] >= 0
                     /\ \A x \in Accounts : pending'[u][x] >= 0
                     /\ managerBalance'[u] = receivedChannelFunds'[u] - totalCreditedOut'[u]
                     /\ receivedChannelFunds'[u] <= Cap(u)'
    BY Zenon DEF ValueConserved
  <2>1. /\ Escrowed[u] = escrow[u] + Sum(pending[u], Accounts) + managerBalance[u] + paid[u]
        /\ managerBalance[u] = receivedChannelFunds[u] - totalCreditedOut[u]
        /\ receivedChannelFunds[u] <= Cap(u)
    BY Zenon DEF ValueConserved, Sum
  <2>2. Cap(u)' = Cap(u) BY Zenon, <1>6 DEF Cap
  <2>3. escrow'[u] >= 0 /\ managerBalance'[u] >= 0 /\ \A x \in Accounts : pending'[u][x] >= 0
    BY SMT, Z3, <1>6, <1>10 DEF TypeOK
  <2>4. CASE u # t
    <3>1. pending'[u] = pending[u] /\ managerBalance'[u] = managerBalance[u]
          /\ receivedChannelFunds'[u] = receivedChannelFunds[u]
      BY Zenon, <2>4, <1>6, <1>9 DEF TypeOK
    <3> QED BY Zenon, <3>1, <2>1, <2>2, <2>3, <1>6 DEF Sum
  <2>5. CASE u = t
    <3>1. \A x \in Accounts : pending[t][x] \in Nat /\ g[x] \in Nat BY Zenon, <1>2, <1>8
    <3>2. Sum(g, Accounts) = (Sum(pending[t], Accounts) - pending[t][Manager]) + g[Manager]
      BY SMT, Z3, <3>1, <1>1, <1>8, Tables, SumChange
    <3>3. /\ pending'[u] = g /\ managerBalance'[u] = managerBalance[t] + d
          /\ receivedChannelFunds'[u] = receivedChannelFunds[t] + d
      BY Zenon, <2>5, <1>5, <1>6, <1>9 DEF TypeOK
    <3>4. Sum(pending[t], Accounts) \in Nat BY Zenon, <3>1, Tables, SumNat
    <3>5. /\ escrow[t] \in Nat /\ managerBalance[t] \in Nat /\ paid[t] \in Nat
          /\ totalCreditedOut[t] \in Nat
      BY Zenon DEF TypeOK
    <3>6. Sum(pending'[u], Accounts) = Sum(pending[t], Accounts) - d
      BY SMT, Z3, <3>2, <3>3, <3>4, <1>2, <1>5, <1>8
    <3>7. Escrowed[u] = escrow'[u] + Sum(pending'[u], Accounts) + managerBalance'[u] + paid'[u]
      BY SMT, Z3, <3>3, <3>4, <3>5, <3>6, <2>1, <2>5, <1>5, <1>6
    <3>8. managerBalance'[u] = receivedChannelFunds'[u] - totalCreditedOut'[u]
      BY SMT, Z3, <3>3, <3>5, <2>1, <2>5, <1>3, <1>5, <1>6
    <3>9. receivedChannelFunds'[u] <= Cap(u)'
      BY SMT, Z3, <3>3, <2>2, <2>5, <1>3, <1>5
    <3> QED BY Zenon, <3>7, <3>8, <3>9, <2>3 DEF Sum
  <2> QED BY Zenon, <2>4, <2>5
<1>13. EachClaimPaidOnce' BY Zenon, <1>6 DEF EachClaimPaidOnce, Cap
<1>14. LateCheckpointComplete' BY Zenon, <1>6 DEF LateCheckpointComplete
<1>15. EscrowBooked' BY Zenon, <1>6 DEF EscrowBooked, Exited
<1>16. ProofsAnchored' BY Zenon, <1>6 DEF ProofsAnchored
<1> QED BY <1>11, <1>12, <1>13, <1>14, <1>15, <1>16

LEMMA ClaimCreditInv ==
  ASSUME FiniteLaws, IInv, NEW n \in usedWithdrawalNullifiers, ClaimCredit(n)
  PROVE  IInv'
<1> USE DEF IInv, rollupVars, proofVars, lateVars
<1>0. n \in DOMAIN Terms BY Zenon DEF TypeOK
<1>1. PICK tok \in Tokens : tok = Terms[n].token BY Zenon, <1>0, TermsType
<1>2. PICK who \in Recipients : who = Terms[n].recipient BY Zenon, <1>0, TermsType
<1>3. PICK amount \in Nat : amount = Terms[n].amount BY Zenon, <1>0, TermsType
<1>4. who \in Accounts BY DEF Accounts
<1>5. /\ n \in withdrawalPayouts
      /\ amount <= withdrawalCredits[tok][who] /\ amount <= managerBalance[tok]
      /\ withdrawalPayouts' = withdrawalPayouts \ {n}
      /\ withdrawalCredits' = [withdrawalCredits EXCEPT ![tok] =
            [withdrawalCredits[tok] EXCEPT ![who] = withdrawalCredits[tok][who] - amount]]
      /\ totalCreditedOut' = [totalCreditedOut EXCEPT ![tok] = totalCreditedOut[tok] + amount]
      /\ managerBalance' = [managerBalance EXCEPT ![tok] = managerBalance[tok] - amount]
      /\ paid' = [paid EXCEPT ![tok] = paid[tok] + amount]
      /\ UNCHANGED <<rollupVars, proofVars, lateVars, totalWithdrawn, usedWithdrawalNullifiers,
                     receivedChannelFunds, materialized, lateIncomingFundAmount>>
  BY Zenon, <1>1, <1>2, <1>3, <1>4 DEF ClaimCredit, TypeOK
<1>6. withdrawalCredits' \in [Tokens -> [Accounts -> Nat]]
  <2>2. withdrawalCredits[tok] \in [Accounts -> Nat] BY Zenon DEF TypeOK
  <2>3. withdrawalCredits[tok][who] - amount \in Nat BY SMT, Z3, <2>2, <1>4, <1>5
  <2>4. [withdrawalCredits[tok] EXCEPT ![who] = withdrawalCredits[tok][who] - amount]
          \in [Accounts -> Nat]
    BY Zenon, <2>2, <2>3
  <2> QED BY Zenon, <1>5, <2>4 DEF TypeOK
<1>7. /\ totalCreditedOut' \in [Tokens -> Nat] /\ managerBalance' \in [Tokens -> Nat]
      /\ paid' \in [Tokens -> Nat]
  <2>1. /\ totalCreditedOut[tok] + amount \in Nat /\ managerBalance[tok] - amount \in Nat
        /\ paid[tok] + amount \in Nat
    BY SMT, Z3, <1>5 DEF TypeOK
  <2> QED BY Zenon, <1>5, <2>1 DEF TypeOK
<1>8. TypeOK' BY Zenon, <1>5, <1>6, <1>7 DEF TypeOK
<1>9. ValueConserved'
  <2> SUFFICES ASSUME NEW u \in Tokens
               PROVE /\ Escrowed[u] = escrow'[u] + SumFunctionOnSet(pending'[u], Accounts)
                                        + managerBalance'[u] + paid'[u]
                     /\ escrow'[u] >= 0 /\ managerBalance'[u] >= 0
                     /\ \A x \in Accounts : pending'[u][x] >= 0
                     /\ managerBalance'[u] = receivedChannelFunds'[u] - totalCreditedOut'[u]
                     /\ receivedChannelFunds'[u] <= Cap(u)'
    BY Zenon DEF ValueConserved
  <2>1. /\ Escrowed[u] = escrow[u] + Sum(pending[u], Accounts) + managerBalance[u] + paid[u]
        /\ managerBalance[u] = receivedChannelFunds[u] - totalCreditedOut[u]
        /\ receivedChannelFunds[u] <= Cap(u)
    BY Zenon DEF ValueConserved, Sum
  <2>2. Cap(u)' = Cap(u) BY Zenon, <1>5 DEF Cap
  <2>3. escrow'[u] >= 0 /\ managerBalance'[u] >= 0 /\ \A x \in Accounts : pending'[u][x] >= 0
    BY SMT, Z3, <1>5, <1>7 DEF TypeOK
  <2>4. \A a \in Accounts : pending[u][a] \in Nat BY DEF TypeOK
  <2>5. Sum(pending[u], Accounts) \in Nat BY Zenon, <2>4, Tables, SumNat
  <2>6. /\ escrow[u] \in Nat /\ managerBalance[u] \in Nat /\ paid[u] \in Nat
        /\ totalCreditedOut[u] \in Nat /\ receivedChannelFunds[u] \in Nat
    BY Zenon DEF TypeOK
  <2>7. PICK d \in Nat : /\ managerBalance'[u] = managerBalance[u] - d
                         /\ paid'[u] = paid[u] + d
                         /\ totalCreditedOut'[u] = totalCreditedOut[u] + d
    <3>1. CASE u = tok BY Zenon, <3>1, <1>5 DEF TypeOK
    <3>2. CASE u # tok
      <4>1. /\ managerBalance'[u] = managerBalance[u] /\ paid'[u] = paid[u]
            /\ totalCreditedOut'[u] = totalCreditedOut[u]
        BY Zenon, <3>2, <1>5 DEF TypeOK
      <4>2. /\ managerBalance'[u] = managerBalance[u] - 0 /\ paid'[u] = paid[u] + 0
            /\ totalCreditedOut'[u] = totalCreditedOut[u] + 0
        BY SMT, Z3, <4>1, <2>6
      <4> QED BY Zenon, <4>2
    <3> QED BY Zenon, <3>1, <3>2
  <2>8. Escrowed[u] = escrow'[u] + Sum(pending'[u], Accounts) + managerBalance'[u] + paid'[u]
    BY SMT, Z3, <2>1, <2>5, <2>6, <2>7, <1>5
  <2>9. managerBalance'[u] = receivedChannelFunds'[u] - totalCreditedOut'[u]
    BY SMT, Z3, <2>1, <2>6, <2>7, <1>5
  <2> QED BY Zenon, <2>1, <2>2, <2>3, <2>8, <2>9, <1>5 DEF Sum
<1>10. EachClaimPaidOnce'
  <2> SUFFICES ASSUME NEW t \in Tokens
               PROVE /\ totalCreditedOut'[t] =
                          TotalIn(Terms, usedWithdrawalNullifiers' \ withdrawalPayouts', t)
                     /\ \A a \in Recipients :
                          withdrawalCredits'[t][a] =
                            TotalIn(Terms, {k \in withdrawalPayouts' : Terms[k].recipient = a}, t)
                     /\ totalWithdrawn'[t] = TotalIn(Terms, usedWithdrawalNullifiers', t)
                     /\ totalWithdrawn'[t] <= Cap(t)'
    BY Zenon DEF EachClaimPaidOnce
  <2>1. /\ totalCreditedOut[t] = TotalIn(Terms, usedWithdrawalNullifiers \ withdrawalPayouts, t)
        /\ \A a \in Recipients :
             withdrawalCredits[t][a] =
               TotalIn(Terms, {k \in withdrawalPayouts : Terms[k].recipient = a}, t)
        /\ totalWithdrawn[t] = TotalIn(Terms, usedWithdrawalNullifiers, t)
        /\ totalWithdrawn[t] <= Cap(t)
    BY Zenon DEF EachClaimPaidOnce
  <2>2. Share(Terms, n, t) = IF tok = t THEN amount ELSE 0 BY Zenon, <1>1, <1>3 DEF Share
  <2>3. PICK Q : Q = usedWithdrawalNullifiers \ withdrawalPayouts BY Zenon
  <2>4. /\ Q \subseteq DOMAIN Terms /\ n \notin Q
        /\ usedWithdrawalNullifiers' \ withdrawalPayouts' = Q \cup {n}
    BY Zenon, <2>3, <1>5 DEF TypeOK
  <2>5. TotalIn(Terms, Q \cup {n}, t) = TotalIn(Terms, Q, t) + Share(Terms, n, t)
    BY Zenon, <2>4, <1>0, Tables, TotalInsert
  <2>6. totalCreditedOut'[t] = totalCreditedOut[t] + Share(Terms, n, t)
    <3>1. totalCreditedOut[t] \in Nat BY Zenon DEF TypeOK
    <3> QED BY SMT, Z3, <3>1, <2>2, <1>5 DEF TypeOK
  <2>7. totalCreditedOut'[t] = TotalIn(Terms, usedWithdrawalNullifiers' \ withdrawalPayouts', t)
    BY Zenon, <2>1, <2>3, <2>4, <2>5, <2>6
  <2>8. ASSUME NEW a \in Recipients
        PROVE withdrawalCredits'[t][a] =
                TotalIn(Terms, {k \in withdrawalPayouts' : Terms[k].recipient = a}, t)
    <3>1. PICK P : P = {k \in withdrawalPayouts : Terms[k].recipient = a} BY Zenon
    <3>2. P \subseteq DOMAIN Terms BY Zenon, <3>1 DEF TypeOK
    <3>3. withdrawalCredits[t][a] = TotalIn(Terms, P, t) BY Zenon, <3>1, <2>1
    <3>4. withdrawalCredits[t] \in [Accounts -> Nat] /\ a \in Accounts BY Zenon DEF TypeOK, Accounts
    <3>5. CASE a = who
      <4>1. {k \in withdrawalPayouts' : Terms[k].recipient = a} = P \ {n} /\ n \in P
        BY Zenon, <3>1, <3>5, <1>2, <1>5
      <4>2. TotalIn(Terms, P, t) = TotalIn(Terms, P \ {n}, t) + Share(Terms, n, t)
        BY Zenon, <3>2, <4>1, Tables, TotalRemove
      <4>3. TotalIn(Terms, P \ {n}, t) \in Nat BY Zenon, <3>2, Tables, TotalNat
      <4>4. withdrawalCredits'[t][a] = withdrawalCredits[t][a] - Share(Terms, n, t)
        <5>1. CASE t = tok
          <6>1. withdrawalCredits'[t] =
                  [withdrawalCredits[tok] EXCEPT ![who] = withdrawalCredits[tok][who] - amount]
            BY Zenon, <5>1, <1>5 DEF TypeOK
          <6> QED BY Zenon, <6>1, <5>1, <3>4, <3>5, <2>2
        <5>2. CASE t # tok
          <6>1. withdrawalCredits'[t] = withdrawalCredits[t] BY Zenon, <5>2, <1>5 DEF TypeOK
          <6> QED BY SMT, Z3, <6>1, <5>2, <3>4, <2>2
        <5> QED BY Zenon, <5>1, <5>2
      <4>5. Share(Terms, n, t) \in Nat BY SMT, Z3, <2>2
      <4>6. withdrawalCredits'[t][a] = TotalIn(Terms, P \ {n}, t)
        BY SMT, Z3, <4>2, <4>3, <4>4, <4>5, <3>3
      <4> QED BY Zenon, <4>1, <4>6
    <3>6. CASE a # who
      <4>1. {k \in withdrawalPayouts' : Terms[k].recipient = a} = P
        BY Zenon, <3>1, <3>6, <1>2, <1>5
      <4>2. withdrawalCredits'[t][a] = withdrawalCredits[t][a]
        <5>1. CASE t = tok
          <6>1. withdrawalCredits'[t] =
                  [withdrawalCredits[tok] EXCEPT ![who] = withdrawalCredits[tok][who] - amount]
            BY <5>1, <1>5 DEF TypeOK
          <6> QED BY Zenon, <6>1, <5>1, <3>4, <3>6
        <5>2. CASE t # tok BY Zenon, <5>2, <1>5 DEF TypeOK
        <5> QED BY Zenon, <5>1, <5>2
      <4> QED BY Zenon, <4>1, <4>2, <3>3
    <3> QED BY Zenon, <3>5, <3>6
  <2>9. /\ totalWithdrawn'[t] = TotalIn(Terms, usedWithdrawalNullifiers', t)
        /\ totalWithdrawn'[t] <= Cap(t)'
    BY Zenon, <2>1, <1>5 DEF Cap
  <2> QED BY Zenon, <2>7, <2>8, <2>9
<1>11. LateCheckpointComplete' BY Zenon, <1>5 DEF LateCheckpointComplete
<1>12. EscrowBooked' BY Zenon, <1>5 DEF EscrowBooked, Exited
<1>13. ProofsAnchored' BY Zenon, <1>5 DEF ProofsAnchored
<1> QED BY <1>8, <1>9, <1>10, <1>11, <1>12, <1>13

\* Every step, and a stutter, keeps the inductive invariant.
LEMMA NextIInv ==
  ASSUME FiniteLaws
  PROVE  IInv /\ [Next]_vars => IInv'
<1> SUFFICES ASSUME IInv, [Next]_vars PROVE IInv' OBVIOUS
<1>1. CASE FinalizeBlock BY <1>1, FinalizeBlockInv
<1>2. CASE \E leaves \in SUBSET DOMAIN Withdrawals : ProveWithdrawals(leaves)
  BY <1>2, ProveWithdrawalsInv
<1>3. CASE \E p \in withdrawalProofs : Withdraw(p) BY <1>3, WithdrawInv
<1>4. CASE \E t \in Tokens, a \in Recipients :
             \E amount \in 1..pending[t][a] : PullCredit(t, a, amount)
  BY <1>4, PullCreditInv
<1>5. CASE \E n \in DOMAIN Claims : SubmitClaim(n) BY <1>5, SubmitClaimInv
<1>6. CASE \E anchor \in 0..latestFinalizedBlockNumber : Materialize(anchor)
  BY <1>6, MaterializeInv
<1>7. CASE \E anchor \in 0..latestFinalizedBlockNumber :
             \E r \in DOMAIN LateReceipts : ProveLate(r, anchor)
  BY <1>7, ProveLateInv
<1>8. CASE \E r \in DOMAIN LateReceipts : ClaimLate(r) BY <1>8, ClaimLateInv
<1>9. CASE \E t \in Tokens : PullChannelFunds(t) BY <1>9, PullChannelFundsInv
<1>10. CASE \E n \in usedWithdrawalNullifiers : ClaimCredit(n) BY <1>10, ClaimCreditInv
<1>11. CASE UNCHANGED vars
  <2> USE <1>11 DEF IInv, vars, rollupVars, proofVars, lateVars, accrualVars, fundVars
  <2>1. TypeOK' BY Zenon DEF TypeOK
  <2>2. ValueConserved' BY Zenon DEF ValueConserved, Cap
  <2>3. EachClaimPaidOnce' BY Zenon DEF EachClaimPaidOnce, Cap
  <2>4. LateCheckpointComplete' BY Zenon DEF LateCheckpointComplete
  <2>5. EscrowBooked' BY Zenon DEF EscrowBooked, Exited
  <2>6. ProofsAnchored' BY Zenon DEF ProofsAnchored
  <2> QED BY Zenon, <2>1, <2>2, <2>3, <2>4, <2>5, <2>6
<1> QED BY Zenon, <1>1, <1>2, <1>3, <1>4, <1>5, <1>6, <1>7, <1>8, <1>9, <1>10, <1>11 DEF Next

\* What the escrow is booked against leaves it enough for every unpaid leaf.
LEMMA PayableByIInv ==
  ASSUME FiniteLaws, IInv
  PROVE  ProvenWithdrawalStaysPayable
<1> USE DEF IInv
<1> SUFFICES ASSUME NEW p \in withdrawalProofs, p.leaves \cap withdrawalNullifierUsed = {}
             PROVE  /\ WithdrawalAdmitted(p)
                    /\ \A t \in Tokens : escrow[t] >= TotalIn(Withdrawals, p.leaves, t)
  BY Zenon DEF ProvenWithdrawalStaysPayable
<1>1. WithdrawalAdmitted(p) BY Zenon DEF WithdrawalAdmitted, ProofsAnchored
<1>2. ASSUME NEW t \in Tokens PROVE escrow[t] >= TotalIn(Withdrawals, p.leaves, t)
  <2>1. /\ p.leaves \subseteq DOMAIN Withdrawals
        /\ withdrawalNullifierUsed \subseteq DOMAIN Withdrawals
    BY Zenon DEF TypeOK
  <2>2. \A k \in p.leaves : k \notin withdrawalNullifierUsed BY Zenon
  <2>3. TotalIn(Withdrawals, withdrawalNullifierUsed \cup p.leaves, t)
          = TotalIn(Withdrawals, withdrawalNullifierUsed, t) + TotalIn(Withdrawals, p.leaves, t)
    BY SMT, Z3, <2>1, <2>2, Tables, TotalUnion
  <2>4. TotalIn(Withdrawals, withdrawalNullifierUsed \cup p.leaves, t)
          <= TotalIn(Withdrawals, DOMAIN Withdrawals, t)
    <3>1. withdrawalNullifierUsed \cup p.leaves \subseteq DOMAIN Withdrawals BY Zenon, <2>1
    <3> QED BY Zenon, <3>1, Tables, TotalSubset
  <2>5. TotalIn(LateReceipts, lateBalance, t) <= TotalIn(LateReceipts, DOMAIN LateReceipts, t)
    <3>1. lateBalance \subseteq DOMAIN LateReceipts BY Zenon DEF LateCheckpointComplete
    <3> QED BY Zenon, <3>1, Tables, TotalSubset
  <2>6. Escrowed[t] = escrow[t] + Exited(t) + TotalIn(LateReceipts, lateBalance, t)
                        + TotalIn(Withdrawals, withdrawalNullifierUsed, t)
    BY Zenon DEF EscrowBooked
  <2>7. Escrowed[t] >= Fund[t] + TotalIn(LateReceipts, DOMAIN LateReceipts, t)
                          + TotalIn(Withdrawals, DOMAIN Withdrawals, t)
    BY Zenon, PayoutAssumption
  <2>8. /\ Exited(t) \in Nat /\ Fund[t] \in Nat /\ Exited(t) <= Fund[t] /\ escrow[t] \in Nat
        /\ Escrowed[t] \in Nat
    BY SMT, Z3, PayoutAssumption DEF Exited, TypeOK
  <2>9. lateBalance \subseteq DOMAIN LateReceipts BY DEF LateCheckpointComplete
  <2>10. /\ TotalIn(LateReceipts, lateBalance, t) \in Nat
         /\ TotalIn(LateReceipts, DOMAIN LateReceipts, t) \in Nat
         /\ TotalIn(Withdrawals, withdrawalNullifierUsed, t) \in Nat
         /\ TotalIn(Withdrawals, p.leaves, t) \in Nat
         /\ TotalIn(Withdrawals, DOMAIN Withdrawals, t) \in Nat
    BY Zenon, <2>1, <2>9, Tables, TotalNat
  <2> QED BY SMT, Z3, <2>3, <2>4, <2>5, <2>6, <2>7, <2>8, <2>10
<1> QED BY Zenon, <1>1, <1>2

-----------------------------------------------------------------------------
(* The laws about finite sets hold.                                         *)

FST == INSTANCE FiniteSetTheorems

LEMMA SameFinite == \A S : FST!IsFiniteSet(S) <=> IsFiniteSet(S)
BY DEF IsFiniteSet, FST!IsFiniteSet

LEMMA FiniteSubset == \A S, T : IsFiniteSet(T) /\ S \subseteq T => IsFiniteSet(S)
BY FST!FS_Subset, SameFinite

LEMMA FiniteUnion == \A S, T : IsFiniteSet(S) /\ IsFiniteSet(T) => IsFiniteSet(S \cup T)
BY Zenon, FST!FS_Union, SameFinite

LEMMA FiniteAdd == \A S, x : IsFiniteSet(S) => IsFiniteSet(S \cup {x})
BY Zenon, FST!FS_AddElement, SameFinite

LEMMA FiniteEmpty == IsFiniteSet({})
BY Zenon, FST!FS_EmptySet, SameFinite

LEMMA Minimal ==
  ASSUME NEW S, IsFiniteSet(S), NEW bad, bad \subseteq SUBSET S, bad # {}
  PROVE  \E X \in bad : /\ X \subseteq S /\ IsFiniteSet(X)
                        /\ \A Y \in SUBSET X : Y # X => Y \notin bad
<1>1. FST!IsWellFoundedOn(FST!StrictSubsetOrdering(S), FST!FiniteSubsetsOf(S))
  BY Zenon, FST!FS_StrictSubsetOrderingWellFounded, SameFinite
<1>2. bad \subseteq FST!FiniteSubsetsOf(S)
  BY FST!FS_FiniteSubsetsOfFinite, SameFinite
<1>3. PICK X \in bad : \A Y \in bad : <<Y, X>> \notin FST!StrictSubsetOrdering(S)
  BY Zenon, <1>1, <1>2, FST!WFMin
<1>4. X \subseteq S /\ IsFiniteSet(X)
  BY Zenon, <1>2, SameFinite DEF FST!FiniteSubsetsOf
<1>5. \A Y \in SUBSET X : Y # X => Y \notin bad
  BY Zenon, <1>3, <1>4 DEF FST!StrictSubsetOrdering
<1> QED BY Zenon, <1>4, <1>5

LEMMA LawsHold == FiniteLaws
<1>1. MinimalLaw BY Zenon, Minimal DEF MinimalLaw
<1> QED
  BY Zenon, <1>1, FiniteEmpty, FiniteSubset, FiniteUnion, FiniteAdd
  DEF FiniteLaws, FiniteEmptyLaw, FiniteSubsetLaw, FiniteUnionLaw, FiniteAddLaw

-----------------------------------------------------------------------------
\* The inductive invariant holds in every reachable state: the properties below, and the
\* escrow booked against every path out of it (withdrawNative, withdrawERC20,
\* materializeSignedHead, creditLateIncoming).
THEOREM PayoutInvariance == Spec => []IInv
<1> QED BY LawsHold, InitIInv, NextIInv, PTL DEF Spec

\* No path between escrow, pull ledger, Manager and recipients creates or strands value,
\* and the Manager holds exactly what it received and did not pay out, within its cap
\* (_creditNativeEscrow, _pullChannelFunds, claimWithdrawalCredit).
THEOREM ValueIsConserved == Spec => []ValueConserved
<1>1. IInv => ValueConserved BY DEF IInv
<1> QED BY <1>1, PayoutInvariance, PTL

\* Each accepted claim is paid at most once, by its own amount, and the accepted ones
\* together stay within the cap (_accrueWithdrawal, claimWithdrawalCredit).
THEOREM ClaimsPaidOnce == Spec => []EachClaimPaidOnce
<1>1. IInv => EachClaimPaidOnce BY DEF IInv
<1> QED BY <1>1, PayoutInvariance, PTL

\* The late-balance checkpoint holds exactly the receipts credited, and the late cap is
\* their sum (claimLateIncoming, creditLateIncoming).
THEOREM CheckpointComplete == Spec => []LateCheckpointComplete
<1>1. IInv => LateCheckpointComplete BY DEF IInv
<1> QED BY <1>1, PayoutInvariance, PTL

\* A proven withdrawal stays payable while its leaves are unpaid: its root stays accepted
\* and the escrow still covers it (_verifyWithdrawalSet, _creditNativeEscrow).
THEOREM WithdrawalsStayPayable == Spec => []ProvenWithdrawalStaysPayable
<1>1. IInv => ProvenWithdrawalStaysPayable BY LawsHold, PayableByIInv
<1> QED BY <1>1, PayoutInvariance, PTL
=============================================================================
