-------------------------- MODULE RollupMoneyProofs --------------------------
(***************************************************************************)
(* What users and producers have at stake in IntmaxRollup: the deposits    *)
(* and registrations through posts and rollbacks, and the posting bonds,   *)
(* for any number of them, of producers and posts and any stakes.          *)
(*                                                                         *)
(* Deposits.  A chain is compared with another as a pair, deposits and     *)
(* registrations together, because a pin names both.  All recorded pins    *)
(* are prefixes of the live pair, so of two of them the longer extends the *)
(* shorter: comparing counts, as _postBlockAndSubmitPinned does, is        *)
(* comparing chains.                                                       *)
(*                                                                         *)
(* Bonds.  That a released post is final is not inductive: posted is       *)
(* decremented by a removal and the indices are given out again.  CountInv *)
(* bounds "released" by the number of the producer's final posts instead,  *)
(* which no removal changes.                                               *)
(***************************************************************************)
EXTENDS RollupProofs

Mine(p) == {id \in Ids : submissions[id].submitter = p}
UpTo(p, id) == {j \in Mine(p) : j <= id}
Final(p) == {id \in Mine(p) : submissions[id].endBlockNumber <= latestFinalizedBlockNumber}
Exposed(p) == {id \in Mine(p) : submissions[id].endBlockNumber > latestFinalizedBlockNumber}

\* "released" counts at most the posts at or below the finalized height.
CountInv ==
  \A p \in Producers :
    /\ bonds[p].posted = Cardinality(Mine(p))
    /\ bonds[p].released <= Cardinality(Final(p))
    /\ \A id \in Mine(p) : submissions[id].postIndex = Cardinality(UpTo(p, id))

CreditInv ==
  /\ \A p \in Producers : bonds[p].balance >= 0
  /\ DOMAIN pendingWithdrawals = Addresses
  /\ \A a \in Addresses \ {Treasury} : pendingWithdrawals[a] \in Int

Covered(p, balance, exposed) ==
  exposed # {} => balance >= BaseStake + Cardinality(exposed) * PostStake
CoverInv == \A p \in Producers \ convicted : Covered(p, bonds[p].balance, Exposed(p))

BondInv == CountInv /\ CreditInv /\ CoverInv

-----------------------------------------------------------------------------
(* Counting.                                                                *)

LEMMA Split ==
  ASSUME NEW A, NEW B, IsFiniteSet(A \cup B), A \cap B = {}
  PROVE  /\ Cardinality(A) \in Nat /\ Cardinality(B) \in Nat
         /\ IsFiniteSet(A) /\ IsFiniteSet(B)
         /\ Cardinality(A \cup B) = Cardinality(A) + Cardinality(B)
<1>1. IsFiniteSet(A) /\ IsFiniteSet(B)
  BY FS_Subset
<1>2. Cardinality(A \cap B) = 0
  BY FS_EmptySet
<1>3. Cardinality(A) \in Nat /\ Cardinality(B) \in Nat
  BY <1>1, FS_CardinalityType
<1>4. Cardinality(A \cup B) = Cardinality(A) + Cardinality(B) - Cardinality(A \cap B)
  BY <1>1, FS_Union
<1> QED BY <1>1, <1>2, <1>3, <1>4

LEMMA FiniteIds ==
  ASSUME NEW n \in Nat, NEW S \in SUBSET (1 .. n)
  PROVE  IsFiniteSet(S) /\ Cardinality(S) \in Nat
<1>1. IsFiniteSet(1 .. n)
  BY FS_Interval
<1> QED BY Zenon, <1>1, FS_Subset, FS_CardinalityType

LEMMA Stakes ==
  ASSUME NEW a \in Int, NEW b \in Int
  PROVE  /\ a * PostStake \in Int
         /\ (a + b) * PostStake = a * PostStake + b * PostStake
         /\ a <= b => a * PostStake <= b * PostStake
         /\ a >= 0 => a * PostStake >= 0
BY StakesAssumption

LEMMA Counts ==
  ASSUME ChainInv, NEW p \in Producers
  PROVE  /\ IsFiniteSet(Mine(p)) /\ Cardinality(Mine(p)) \in Nat
         /\ IsFiniteSet(Final(p)) /\ Cardinality(Final(p)) \in Nat
         /\ IsFiniteSet(Exposed(p)) /\ Cardinality(Exposed(p)) \in Nat
         /\ \A id \in Ids : IsFiniteSet(UpTo(p, id)) /\ Cardinality(UpTo(p, id)) \in Nat
         /\ Cardinality(Mine(p)) = Cardinality(Final(p)) + Cardinality(Exposed(p))
<1>1. Len(submissions) \in Nat /\ Mine(p) \in SUBSET (1 .. Len(submissions))
  BY Heights DEF Mine, Ids
<1>2. IsFiniteSet(Mine(p)) /\ Cardinality(Mine(p)) \in Nat
  BY Zenon, <1>1, FiniteIds
<1>3. \A id \in Mine(p) : submissions[id].endBlockNumber \in Nat
  BY BatchFacts DEF Mine
<1>4. latestFinalizedBlockNumber \in Nat
  BY DEF ChainInv, TypeInv
<1>5. Mine(p) = Final(p) \cup Exposed(p) /\ Final(p) \cap Exposed(p) = {}
  BY <1>3, <1>4 DEF Final, Exposed
<1>6. \A id \in Ids : UpTo(p, id) \in SUBSET (1 .. Len(submissions))
  BY <1>1 DEF UpTo
<1>7. \A id \in Ids : IsFiniteSet(UpTo(p, id)) /\ Cardinality(UpTo(p, id)) \in Nat
  BY Zenon, <1>1, <1>6, FiniteIds
<1>8. /\ IsFiniteSet(Final(p)) /\ Cardinality(Final(p)) \in Nat
      /\ IsFiniteSet(Exposed(p)) /\ Cardinality(Exposed(p)) \in Nat
      /\ Cardinality(Mine(p)) = Cardinality(Final(p)) + Cardinality(Exposed(p))
  BY <1>2, <1>5, Split
<1> QED BY <1>2, <1>7, <1>8

\* No more than the posts above the finalized height are counted as locked.
LEMMA LockedCount ==
  ASSUME ChainInv, CountInv, NEW p \in Producers
  PROVE  /\ bonds[p].posted \in Nat /\ bonds[p].released \in Int
         /\ Cardinality(Exposed(p)) <= bonds[p].posted - bonds[p].released
<1>1. bonds[p] \in Bond /\ bonds[p].posted \in Int /\ bonds[p].released \in Int
  BY DEF ChainInv, TypeInv, BondType, Bond
<1> QED BY <1>1, Counts DEF CountInv

LEMMA CountsFinal == ChainInv /\ CountInv => ReleasedPostsAreFinal
<1> SUFFICES ASSUME ChainInv, CountInv, NEW p \in Producers, NEW id \in Mine(p),
                    submissions[id].postIndex <= bonds[p].released
             PROVE  submissions[id].endBlockNumber <= latestFinalizedBlockNumber
  BY Zenon DEF ReleasedPostsAreFinal, CountInv, Mine, UpTo
<1> SUFFICES ASSUME submissions[id].endBlockNumber > latestFinalizedBlockNumber
             PROVE  FALSE
  <2>1. submissions[id].endBlockNumber \in Nat /\ latestFinalizedBlockNumber \in Nat
    BY BatchFacts DEF Mine, ChainInv, TypeInv
  <2> QED BY <2>1
<1>1. id \in Ids /\ id \in UpTo(p, id) /\ id \in Nat
  BY BatchFacts DEF Mine, UpTo
<1>2. Final(p) \subseteq UpTo(p, id) \ {id}
  <2> SUFFICES ASSUME NEW j \in Final(p) PROVE j \in UpTo(p, id) /\ j # id
    OBVIOUS
  <2>1. /\ j \in Ids /\ j \in Mine(p) /\ j \in Nat
        /\ submissions[j].endBlockNumber \in Nat /\ submissions[id].endBlockNumber \in Nat
        /\ submissions[j].startBlockNumber \in Nat
        /\ submissions[j].startBlockNumber <= submissions[j].endBlockNumber
        /\ submissions[j].endBlockNumber <= latestFinalizedBlockNumber
        /\ latestFinalizedBlockNumber \in Nat
    BY Zenon, <1>1, BatchFacts DEF Final, Mine, ChainInv, TypeInv
  <2>2. ~(id < j)
    BY <1>1, <2>1 DEF ChainInv, BatchesOrdered
  <2> QED BY <1>1, <2>1, <2>2 DEF UpTo
<1>3. /\ IsFiniteSet(UpTo(p, id)) /\ Cardinality(UpTo(p, id)) \in Nat
      /\ Cardinality(Final(p)) \in Nat
  BY <1>1, Counts
<1>4. IsFiniteSet(UpTo(p, id) \ {id})
      /\ Cardinality(UpTo(p, id) \ {id}) = Cardinality(UpTo(p, id)) - 1
  BY <1>1, <1>3, FS_RemoveElement
<1>5. Cardinality(Final(p)) <= Cardinality(UpTo(p, id)) - 1
  BY <1>2, <1>4, FS_Subset
<1>6. bonds[p].released \in Int
  BY LockedCount
<1> QED BY <1>3, <1>5, <1>6 DEF CountInv

-----------------------------------------------------------------------------
(* Steps that post and remove nothing.                                      *)

LEMMA MineKept ==
  ASSUME SubmissionsKept
  PROVE  /\ Ids' = Ids
         /\ \A p : Mine(p)' = Mine(p)
         /\ \A p, id : UpTo(p, id)' = UpTo(p, id)
         /\ \A p, id : id \in Mine(p) => /\ submissions'[id].postIndex = submissions[id].postIndex
                                        /\ submissions'[id].endBlockNumber
                                             = submissions[id].endBlockNumber
BY DEF SubmissionsKept, Ids, Mine, UpTo

LEMMA BondFrame ==
  ASSUME BondInv, SubmissionsKept, UNCHANGED <<latestFinalizedBlockNumber, moneyVars>>
  PROVE  BondInv'
<1>1. UNCHANGED <<bonds, pendingWithdrawals, convicted>>
  BY DEF moneyVars
<1>2. \A p : Final(p)' = Final(p) /\ Exposed(p)' = Exposed(p)
  BY MineKept DEF Final, Exposed
<1>3. CountInv'
  BY <1>1, <1>2, MineKept DEF BondInv, CountInv
<1>4. CreditInv'
  BY <1>1 DEF BondInv, CreditInv, Addresses
<1>5. CoverInv'
  BY <1>1, <1>2 DEF BondInv, CoverInv, Covered
<1> QED BY <1>3, <1>4, <1>5 DEF BondInv

\* A top-up or a withdrawal that leaves the locked part in the bond.
LEMMA BalanceStep ==
  ASSUME ChainInv, BondInv, NEW p \in Producers, NEW v \in Values,
         DepositBond(p, v) \/ WithdrawBond(p, v)
  PROVE  BondInv'
<1>1. /\ bonds \in [Producers -> Bond] /\ bonds[p] \in Bond /\ bonds[p].balance \in Int
      /\ v \in Nat /\ bonds[p].balance >= 0
  BY ValuesAssumption DEF ChainInv, TypeInv, BondType, Bond, BondInv, CreditInv
<1>2. PICK b \in Nat : /\ bonds' = [bonds EXCEPT ![p] = [bonds[p] EXCEPT !.balance = b]]
                       /\ b >= bonds[p].balance \/ b >= Locked(bonds[p])
  <2>1. CASE DepositBond(p, v)
    <3>1. bonds' = [bonds EXCEPT ![p] = [bonds[p] EXCEPT !.balance = bonds[p].balance + v]]
      BY <1>1, <2>1 DEF DepositBond
    <3>2. bonds[p].balance + v \in Nat /\ bonds[p].balance + v >= bonds[p].balance
      BY <1>1
    <3> QED BY Zenon, <3>1, <3>2
  <2>2. CASE WithdrawBond(p, v)
    <3>1. bonds' = [bonds EXCEPT ![p] = [bonds[p] EXCEPT !.balance = bonds[p].balance - v]]
          /\ v <= bonds[p].balance /\ bonds[p].balance - v >= Locked(bonds[p])
      BY <1>1, <2>2 DEF WithdrawBond
    <3>2. bonds[p].balance - v \in Nat
      BY <1>1, <3>1
    <3> QED BY Zenon, <3>1, <3>2
  <2> QED BY <2>1, <2>2
<1>3. UNCHANGED <<submissions, latestFinalizedBlockNumber, pendingWithdrawals, convicted>>
  BY DEF DepositBond, WithdrawBond, finalityVars
<1>4. /\ bonds'[p].balance = b /\ bonds'[p].posted = bonds[p].posted
      /\ bonds'[p].released = bonds[p].released
      /\ \A q \in Producers \ {p} : bonds'[q] = bonds[q]
  BY <1>1, <1>2 DEF Bond
<1>5. \A q : /\ Mine(q)' = Mine(q) /\ Final(q)' = Final(q) /\ Exposed(q)' = Exposed(q)
             /\ \A id : UpTo(q, id)' = UpTo(q, id)
  BY <1>3 DEF Mine, Final, Exposed, UpTo, Ids
<1>6. CountInv'
  BY Zenon, <1>3, <1>4, <1>5 DEF BondInv, CountInv
<1>7. CreditInv'
  BY <1>3, <1>4 DEF BondInv, CreditInv, Addresses
<1>8. ASSUME p \notin convicted, Exposed(p) # {}
      PROVE  b >= BaseStake + Cardinality(Exposed(p)) * PostStake
  <2> DEFINE c == Cardinality(Exposed(p))
             u == bonds[p].posted - bonds[p].released
  <2>1. c \in Nat /\ u \in Int /\ c <= u
    BY LockedCount, Counts DEF BondInv
  <2>2. c # 0
    BY <1>8, Counts, FS_EmptySet
  <2>3. bonds[p].balance >= BaseStake + c * PostStake
    BY <1>8 DEF BondInv, CoverInv, Covered
  <2>4. Locked(bonds[p]) = BaseStake + u * PostStake
    BY <2>1, <2>2 DEF Locked
  <2> HIDE DEF c, u
  <2>5. c * PostStake <= u * PostStake /\ c * PostStake \in Int /\ u * PostStake \in Int
    BY <2>1, Stakes
  <2> QED BY <1>1, <1>2, <2>3, <2>4, <2>5, StakesAssumption DEF c
<1>9. CoverInv'
  BY Zenon, <1>3, <1>4, <1>5, <1>8 DEF BondInv, CoverInv, Covered
<1> QED BY <1>6, <1>7, <1>9 DEF BondInv

\* A post at or below the finalized height is counted as released (finalize,
\* releaseBond): no producer has fewer such posts than that.
LEMMA ReleaseStep ==
  ASSUME ChainInv, BondInv, SubmissionsKept, NEW id \in Ids,
         latestFinalizedBlockNumber' \in Nat,
         latestFinalizedBlockNumber' >= latestFinalizedBlockNumber,
         submissions[id].endBlockNumber <= latestFinalizedBlockNumber',
         UNCHANGED <<pendingWithdrawals, convicted>>,
         bonds' = [bonds EXCEPT ![submissions[id].submitter] =
                     ReleaseBondTo(@, submissions[id].postIndex)]
  PROVE  BondInv'
<1>0. PICK p \in Producers : p = submissions[id].submitter
  BY Zenon, BatchFacts DEF Submission
<1>1. /\ bonds \in [Producers -> Bond] /\ id \in Mine(p)
      /\ bonds[p] \in Bond /\ bonds[p].released \in Int /\ submissions[id].postIndex \in Int
      /\ latestFinalizedBlockNumber \in Nat
  BY Zenon, <1>0, BatchFacts DEF ChainInv, TypeInv, BondType, Bond, Submission, Mine
<1>2. /\ \A q \in Producers : /\ bonds'[q].balance = bonds[q].balance
                              /\ bonds'[q].posted = bonds[q].posted
      /\ \A q \in Producers \ {p} : bonds'[q].released = bonds[q].released
      /\ bonds'[p].released \in {bonds[p].released, submissions[id].postIndex}
  <2>1. /\ bonds'[p] = ReleaseBondTo(bonds[p], submissions[id].postIndex)
        /\ \A q \in Producers \ {p} : bonds'[q] = bonds[q]
    BY Zenon, <1>0, <1>1
  <2>2. /\ bonds'[p].balance = bonds[p].balance /\ bonds'[p].posted = bonds[p].posted
        /\ bonds'[p].released \in {bonds[p].released, submissions[id].postIndex}
    BY Zenon, <1>1, <2>1 DEF ReleaseBondTo, Bond
  <2> QED BY Zenon, <2>1, <2>2
<1>3. \A q, j : j \in Mine(q) => submissions[j].endBlockNumber \in Nat
  BY BatchFacts DEF Mine
<1>4. \A q \in Producers : Final(q) \subseteq Final(q)' /\ Exposed(q)' \subseteq Exposed(q)
                          /\ Final(q)' \subseteq Mine(q)
  BY <1>1, <1>3, MineKept DEF Final, Exposed
<1>5. ASSUME NEW q \in Producers
      PROVE  /\ IsFiniteSet(Final(q)') /\ Cardinality(Final(q)') \in Nat
             /\ Cardinality(Final(q)) <= Cardinality(Final(q)')
             /\ Cardinality(Exposed(q)') \in Nat /\ Cardinality(Exposed(q)) \in Nat
             /\ Cardinality(Exposed(q)') <= Cardinality(Exposed(q))
             /\ Cardinality(Final(q)) \in Nat
  <2>1. IsFiniteSet(Final(q)') /\ IsFiniteSet(Exposed(q)')
    BY Zenon, <1>4, Counts, FS_Subset
  <2> QED BY Zenon, <1>4, <2>1, Counts, FS_Subset, FS_CardinalityType
<1>6. UpTo(p, id) \subseteq Final(p)'
  <2> SUFFICES ASSUME NEW j \in UpTo(p, id) PROVE j \in Final(p)'
    OBVIOUS
  <2>1. j \in Ids /\ j \in Mine(p) /\ j <= id /\ j \in Nat /\ id \in Nat
    BY Zenon, BatchFacts DEF UpTo, Mine
  <2>2. /\ submissions[j].endBlockNumber \in Nat /\ submissions[id].endBlockNumber \in Nat
        /\ submissions[id].startBlockNumber \in Nat
        /\ submissions[id].startBlockNumber <= submissions[id].endBlockNumber
    BY Zenon, <2>1, BatchFacts
  <2>3. j < id => submissions[j].endBlockNumber < submissions[id].startBlockNumber
    BY Zenon, <2>1 DEF ChainInv, BatchesOrdered
  <2>4. submissions[j].endBlockNumber <= latestFinalizedBlockNumber'
    BY <2>1, <2>2, <2>3
  <2> QED BY Zenon, <2>1, <2>4, MineKept DEF Final
<1>7. submissions[id].postIndex <= Cardinality(Final(p)')
  <2>1. submissions[id].postIndex = Cardinality(UpTo(p, id))
    BY Zenon, <1>1 DEF BondInv, CountInv
  <2> QED BY Zenon, <1>1, <1>5, <1>6, <2>1, FS_Subset
<1>8. \A q \in Producers : bonds'[q].released <= Cardinality(Final(q)')
  <2>1. \A q \in Producers : bonds[q].released \in Int /\ bonds[q].released <= Cardinality(Final(q))
    BY Zenon DEF BondInv, CountInv, ChainInv, TypeInv, BondType, Bond
  <2> QED BY <1>1, <1>2, <1>5, <1>7, <2>1
<1>9. CountInv'
  BY <1>2, <1>8, MineKept DEF BondInv, CountInv
<1>10. CreditInv'
  BY Zenon, <1>2 DEF BondInv, CreditInv, Addresses
<1>11. ASSUME NEW q \in Producers \ convicted, Exposed(q)' # {}
       PROVE  bonds'[q].balance >= BaseStake + Cardinality(Exposed(q)') * PostStake
  <2>0. PICK c \in Nat, d \in Nat : c = Cardinality(Exposed(q)) /\ d = Cardinality(Exposed(q)')
    BY Zenon, <1>5
  <2>1. Exposed(q) # {} /\ d <= c
    BY Zenon, <1>4, <1>5, <1>11, <2>0
  <2>2. bonds'[q].balance = bonds[q].balance /\ bonds[q].balance >= BaseStake + c * PostStake
        /\ bonds[q].balance \in Int
    BY Zenon, <1>2, <2>0, <2>1 DEF BondInv, CoverInv, Covered, ChainInv, TypeInv, BondType, Bond
  <2>3. d * PostStake <= c * PostStake /\ c * PostStake \in Int /\ d * PostStake \in Int
    <3>1. d \in Int /\ c \in Int /\ d <= c
      BY <2>1
    <3> QED BY Zenon, <3>1, Stakes
  <2> QED BY <2>0, <2>2, <2>3, StakesAssumption
<1>12. CoverInv'
  BY Zenon, <1>11 DEF CoverInv, Covered
<1> QED BY <1>9, <1>10, <1>12 DEF BondInv

-----------------------------------------------------------------------------
(* Posts.                                                                   *)

LEMMA PostBonds ==
  ASSUME ChainInv, ChainInv', BondInv, NEW p \in Producers, NEW batch \in Batches, NEW pin \in Pins,
         NEW value \in Values \cup {0}, NEW blob, NEW stateRoot,
         Post(p, batch, pin, blob, stateRoot, value)
  PROVE  BondInv'
<1>0. PICK n \in Nat, h \in Nat : n = Len(submissions) /\ h = latestFinalizedBlockNumber
  BY Zenon, Heights DEF ChainInv, TypeInv
<1>1. /\ submissions \in Seq(Submission) /\ blockNumber \in Nat /\ h <= blockNumber
      /\ Len(batch) \in Nat /\ Len(batch) > 0 /\ value \in Nat
      /\ bonds \in [Producers -> Bond] /\ bonds[p] \in Bond
      /\ bonds[p].balance \in Int /\ bonds[p].posted \in Int /\ bonds[p].released \in Int
  <2>1. h <= blockNumber /\ blockNumber \in Nat
    BY <1>0, Heights DEF ChainInv, TypeInv, HeadType, SubmissionsTileChain
  <2>2. Len(batch) \in Nat /\ Len(batch) > 0 /\ value \in Nat
    BY BlocksType, ValuesAssumption DEF ChainInv
  <2> QED BY Zenon, <2>1, <2>2 DEF ChainInv, TypeInv, BondType, Bond
<1>2. /\ Len(submissions') = n + 1
      /\ \A id \in 1 .. n : submissions'[id] = submissions[id]
      /\ submissions'[n + 1].submitter = p
      /\ submissions'[n + 1].postIndex = bonds[p].posted + 1
      /\ submissions'[n + 1].endBlockNumber = blockNumber + Len(batch)
  BY <1>0, <1>1 DEF Post
<1>3. UNCHANGED <<latestFinalizedBlockNumber, pendingWithdrawals, convicted>>
      /\ BondSuffices(bonds[p], value)
  BY Zenon DEF Post, finalityVars
<1>4. /\ bonds'[p].balance = bonds[p].balance + value /\ bonds'[p].posted = bonds[p].posted + 1
      /\ bonds'[p].released = bonds[p].released
      /\ \A q \in Producers \ {p} : bonds'[q] = bonds[q]
  <2>1. bonds' = [bonds EXCEPT ![p] = [bonds[p] EXCEPT !.balance = bonds[p].balance + value,
                                                       !.posted = bonds[p].posted + 1]]
    BY Zenon, <1>1 DEF Post, Bond
  <2> QED BY <1>1, <2>1 DEF Bond
<1>5. Ids = 1 .. n /\ Ids' = 1 .. n + 1
  BY Zenon, <1>0, <1>2 DEF Ids
<1>6. /\ \A q \in Producers \ {p} : Mine(q)' = Mine(q)
      /\ Mine(p)' = Mine(p) \cup {n + 1} /\ n + 1 \notin Mine(p)
      /\ \A q : Mine(q) \subseteq 1 .. n
  BY <1>2, <1>5 DEF Mine
<1>7. /\ \A q \in Producers, id \in 1 .. n : UpTo(q, id)' = UpTo(q, id)
      /\ \A id : id = n + 1 => UpTo(p, id)' = Mine(p)'
  BY <1>6 DEF UpTo
<1>8. /\ \A q \in Producers : Final(q)' = Final(q)
      /\ \A q \in Producers \ {p} : Exposed(q)' = Exposed(q)
      /\ Exposed(p)' = Exposed(p) \cup {n + 1} /\ n + 1 \notin Exposed(p)
  <2>1. submissions'[n + 1].endBlockNumber > h /\ ~(submissions'[n + 1].endBlockNumber <= h)
    BY <1>1, <1>2
  <2> QED BY <1>0, <1>2, <1>3, <1>6, <2>1 DEF Final, Exposed
<1>9. /\ Cardinality(Mine(p)') = Cardinality(Mine(p)) + 1
      /\ Cardinality(Exposed(p)') = Cardinality(Exposed(p)) + 1
  BY Zenon, <1>6, <1>8, Counts, FS_AddElement
<1>10. CountInv'
  <2>1. ASSUME NEW q \in Producers
        PROVE  /\ bonds'[q].posted = Cardinality(Mine(q)')
               /\ bonds'[q].released <= Cardinality(Final(q)')
    BY Zenon, <1>4, <1>6, <1>8, <1>9 DEF BondInv, CountInv
  <2>2. ASSUME NEW q \in Producers, NEW id \in Mine(q)'
        PROVE  submissions'[id].postIndex = Cardinality(UpTo(q, id)')
    <3>1. CASE id \in Mine(q)
      BY <1>2, <1>6, <1>7, <3>1 DEF BondInv, CountInv
    <3>2. CASE id = n + 1 /\ q = p
      BY Zenon, <1>2, <1>7, <1>9, <3>2 DEF BondInv, CountInv
    <3> QED BY Zenon, <1>6, <3>1, <3>2
  <2> QED BY Zenon, <2>1, <2>2 DEF CountInv
<1>11. CreditInv'
  BY <1>1, <1>3, <1>4 DEF BondInv, CreditInv, Addresses
<1>12. bonds'[p].balance >= BaseStake + Cardinality(Exposed(p)') * PostStake
  <2>1. PICK d \in Nat, u \in Int : /\ d = Cardinality(Exposed(p)) + 1
                                    /\ u = bonds[p].posted + 1 - bonds[p].released
    BY <1>1, Counts
  <2>2. d <= u
    BY <1>1, <2>1, LockedCount, Counts DEF BondInv
  <2>3. d * PostStake <= u * PostStake /\ d * PostStake \in Int /\ u * PostStake \in Int
    BY <2>2, Stakes
  <2>4. bonds[p].balance + value >= BaseStake + u * PostStake
    BY Zenon, <1>3, <2>1 DEF BondSuffices
  <2>5. Cardinality(Exposed(p)') = d
    BY Zenon, <1>9, <2>1
  <2>6. bonds[p].balance + value >= BaseStake + d * PostStake
    BY <1>1, <2>3, <2>4, StakesAssumption
  <2> QED BY Zenon, <1>4, <2>5, <2>6
<1>13. CoverInv'
  BY Zenon, <1>3, <1>4, <1>8, <1>12 DEF BondInv, CoverInv, Covered
<1> QED BY <1>10, <1>11, <1>13 DEF BondInv

-----------------------------------------------------------------------------
(* Removals.                                                                *)

LEMMA ForfeitBounds ==
  ASSUME ChainInv, BondInv, NEW p \in Producers, NEW id \in Ids
  PROVE  /\ bonds[p].balance \in Nat
         /\ PostsRemoved(p, id) \in Nat
         /\ Forfeited(p, id) \in 0 .. bonds[p].balance
         /\ submissions[id].submitter # p => Forfeited(p, id) <= PostsRemoved(p, id) * PostStake
<1>1. bonds[p].balance \in Nat
  BY DEF ChainInv, TypeInv, BondType, Bond, BondInv, CreditInv
<1>2. PICK k \in Nat : k = PostsRemoved(p, id)
  BY Zenon, PostsRemovedType, BatchFacts, Heights
<1>3. k * PostStake \in Nat
  BY Stakes
<1>4. k * PostStake + (IF submissions[id].submitter = p THEN BaseStake ELSE 0) \in Nat
  BY <1>3, StakesAssumption
<1> QED BY <1>1, <1>2, <1>3, <1>4 DEF Forfeited, Least

\* Every removed post lies above the finalized height.
LEMMA RemovedExposed ==
  ASSUME ChainInv, NEW id \in Ids, Removable(submissions[id]), NEW j \in Removed(id)
  PROVE  /\ j \in Ids /\ j >= id /\ submissions[j].endBlockNumber > latestFinalizedBlockNumber
         /\ ~(submissions[j].endBlockNumber <= latestFinalizedBlockNumber)
<1>1. /\ id \in Nat /\ id >= 1 /\ Len(submissions) \in Nat /\ Ids = 1 .. Len(submissions)
  BY Zenon, BatchFacts, Heights DEF Ids
<1>2. j \in Ids /\ j >= id /\ j \in Nat
  BY <1>1 DEF Removed
<1>3. /\ submissions[id].startBlockNumber \in Nat /\ submissions[id].endBlockNumber \in Nat
      /\ submissions[id].startBlockNumber <= submissions[id].endBlockNumber
      /\ submissions[j].startBlockNumber \in Nat /\ submissions[j].endBlockNumber \in Nat
      /\ submissions[j].startBlockNumber <= submissions[j].endBlockNumber
      /\ latestFinalizedBlockNumber \in Nat
  BY Zenon, <1>2, BatchFacts DEF ChainInv, TypeInv
<1>4. id < j => submissions[id].endBlockNumber < submissions[j].startBlockNumber
  BY Zenon, <1>2 DEF ChainInv, BatchesOrdered
<1>5. submissions[id].startBlockNumber > latestFinalizedBlockNumber
  BY DEF Removable
<1> QED BY <1>1, <1>2, <1>3, <1>4, <1>5

LEMMA TruncateBonds ==
  ASSUME ChainInv, BondInv, NEW id \in Ids, NEW r \in Producers \cup {Outsider},
         NEW forfeit \in BOOLEAN, Removable(submissions[id]), Truncate(id, r, forfeit)
  PROVE  BondInv'
<1>1. /\ Len(submissions') = id - 1 /\ \A i \in 1 .. id - 1 : submissions'[i] = submissions[i]
      /\ id \in Nat /\ id >= 1 /\ Ids = 1 .. Len(submissions) /\ Len(submissions) \in Nat
      /\ id <= Len(submissions) /\ Ids' = 1 .. id - 1 /\ submissions[id] \in Submission
  BY TruncateType, BatchFacts, Heights DEF Ids
<1>2. UNCHANGED latestFinalizedBlockNumber /\ bonds \in [Producers -> Bond]
  BY Zenon DEF Truncate, finalityVars, ChainInv, TypeInv, BondType
<1>3. ASSUME NEW p \in Producers
      PROVE  /\ bonds'[p].posted = bonds[p].posted - PostsRemoved(p, id)
             /\ bonds'[p].released = bonds[p].released
             /\ bonds'[p].balance = bonds[p].balance - (IF forfeit THEN Forfeited(p, id) ELSE 0)
             /\ bonds[p].balance \in Nat /\ bonds[p].posted \in Int
  <2>1. bonds[p] \in Bond /\ bonds[p].balance \in Nat
    BY Zenon, <1>2, ForfeitBounds
  <2>2. bonds'[p] = [bonds[p] EXCEPT !.posted = bonds[p].posted - PostsRemoved(p, id),
                       !.balance = bonds[p].balance - (IF forfeit THEN Forfeited(p, id) ELSE 0)]
    BY Zenon, <2>1 DEF Truncate, Bond
  <2> QED BY <2>1, <2>2 DEF Bond
<1>4. ASSUME NEW p \in Producers
      PROVE  /\ Cardinality(Mine(p)') = Cardinality(Mine(p)) - PostsRemoved(p, id)
             /\ Final(p)' = Final(p)
             /\ Exposed(p)' \subseteq Exposed(p)
             /\ Cardinality(Exposed(p)') = Cardinality(Exposed(p)) - PostsRemoved(p, id)
             /\ Cardinality(Exposed(p)') \in Nat
  <2> DEFINE removed == {j \in Removed(id) : submissions[j].submitter = p}
  <2>1. removed \subseteq Mine(p) /\ \A j \in removed : j \in Exposed(p) /\ j \notin Final(p)
    BY Zenon, RemovedExposed DEF Mine, Exposed, Final
  <2>2. Mine(p)' = Mine(p) \ removed
    BY <1>1 DEF Mine, Removed
  <2>3. Final(p)' = Final(p) /\ Exposed(p)' = Exposed(p) \ removed
    <3>1. \A j \in Mine(p)' : submissions'[j] = submissions[j]
      BY Zenon, <1>1 DEF Mine
    <3> QED BY Zenon, <1>2, <2>1, <2>2, <3>1 DEF Final, Exposed
  <2>4. PostsRemoved(p, id) = Cardinality(removed)
    BY DEF PostsRemoved
  <2> HIDE DEF removed
  <2>5. /\ Mine(p) = Mine(p)' \cup removed /\ Mine(p)' \cap removed = {}
        /\ Exposed(p) = Exposed(p)' \cup removed /\ Exposed(p)' \cap removed = {}
    BY Zenon, <2>1, <2>2, <2>3
  <2>6. IsFiniteSet(Mine(p)' \cup removed) /\ IsFiniteSet(Exposed(p)' \cup removed)
    BY Zenon, <2>5, Counts
  <2>7. /\ Cardinality(Mine(p)') \in Nat /\ Cardinality(removed) \in Nat
        /\ Cardinality(Mine(p)' \cup removed) = Cardinality(Mine(p)') + Cardinality(removed)
    BY Zenon, <2>5, <2>6, Split
  <2>8. /\ Cardinality(Exposed(p)') \in Nat
        /\ Cardinality(Exposed(p)' \cup removed) = Cardinality(Exposed(p)') + Cardinality(removed)
    BY Zenon, <2>5, <2>6, Split
  <2> QED BY <2>3, <2>4, <2>5, <2>7, <2>8
<1>5. CountInv'
  <2>1. ASSUME NEW p \in Producers
        PROVE  /\ bonds'[p].posted = Cardinality(Mine(p)')
               /\ bonds'[p].released <= Cardinality(Final(p)')
    BY Zenon, <1>3, <1>4 DEF BondInv, CountInv
  <2>2. ASSUME NEW p \in Producers, NEW j \in Mine(p)'
        PROVE  submissions'[j].postIndex = Cardinality(UpTo(p, j)')
    <3>1. j \in Mine(p) /\ j \in 1 .. id - 1 /\ submissions'[j] = submissions[j]
      BY <1>1 DEF Mine
    <3>2. UpTo(p, j)' = UpTo(p, j)
      BY <1>1, <3>1 DEF UpTo, Mine
    <3> QED BY Zenon, <3>1, <3>2 DEF BondInv, CountInv
  <2> QED BY Zenon, <2>1, <2>2 DEF CountInv
<1>6. CreditInv'
  <2>1. \A p \in Producers : bonds'[p].balance >= 0
    BY <1>3, ForfeitBounds
  <2>2. Reward(id) \in Int
    <3>1. submissions[id].submitter \in Producers
      BY Zenon, <1>1 DEF Submission
    <3>2. PICK f \in Int : f = Forfeited(submissions[id].submitter, id)
      BY <3>1, ForfeitBounds
    <3> QED BY <3>2 DEF Reward
  <2>3. /\ DOMAIN pendingWithdrawals' = Addresses
        /\ \A a \in Addresses \ {Treasury} : pendingWithdrawals'[a] \in Int
    <3>1. CASE forfeit
      <4>1. pendingWithdrawals' = [pendingWithdrawals EXCEPT ![r] = @ + Reward(id),
                                     ![Treasury] = @ + TreasuryShare(id)]
        BY Zenon, <3>1 DEF Truncate
      <4>2. r # Treasury /\ r \in Addresses
        BY RolesAssumption DEF Addresses
      <4> QED BY <2>2, <4>1, <4>2 DEF BondInv, CreditInv
    <3>2. CASE ~forfeit
      BY Zenon, <3>2 DEF Truncate, BondInv, CreditInv
    <3> QED BY <3>1, <3>2
  <2> QED BY Zenon, <2>1, <2>3 DEF CreditInv, Addresses
<1>7. ASSUME NEW p \in Producers \ convicted', Exposed(p)' # {}
      PROVE  bonds'[p].balance >= BaseStake + Cardinality(Exposed(p)') * PostStake
  <2>1. PICK c \in Nat, k \in Nat, d \in Nat, b \in Nat :
          /\ c = Cardinality(Exposed(p)) /\ k = PostsRemoved(p, id)
          /\ d = Cardinality(Exposed(p)') /\ b = bonds[p].balance
    BY Zenon, <1>4, Counts, ForfeitBounds
  <2>2. p \notin convicted /\ (forfeit => submissions[id].submitter # p)
    BY Zenon DEF Truncate
  <2>3. Exposed(p) # {} /\ d = c - k
    BY Zenon, <1>4, <1>7, <2>1
  <2>4. b >= BaseStake + c * PostStake
    BY Zenon, <2>1, <2>2, <2>3 DEF BondInv, CoverInv, Covered
  <2>5. PICK t \in Nat : t = (IF forfeit THEN Forfeited(p, id) ELSE 0) /\ t <= k * PostStake
    <3>1. CASE forfeit
      BY <2>1, <2>2, <3>1, ForfeitBounds
    <3>2. CASE ~forfeit
      BY <3>2, Stakes
    <3> QED BY Zenon, <3>1, <3>2
  <2>6. bonds'[p].balance = b - t
    BY Zenon, <1>3, <2>1, <2>5
  <2>7. c = d + k /\ c * PostStake = d * PostStake + k * PostStake
        /\ d * PostStake \in Int /\ k * PostStake \in Int
    BY <2>3, Stakes
  <2>8. b - t >= BaseStake + d * PostStake
    BY <2>4, <2>5, <2>7, StakesAssumption
  <2> QED BY Zenon, <2>1, <2>6, <2>8
<1>8. CoverInv'
  BY Zenon, <1>7 DEF CoverInv, Covered
<1> QED BY <1>5, <1>6, <1>8 DEF BondInv

-----------------------------------------------------------------------------
LEMMA BondStep ==
  ASSUME ChainInv, ChainInv', BondInv, [Next]_vars
  PROVE  BondInv'
<1>1. CASE \/ Deposit
           \/ \E c \in Channels : RegisterChannel(c)
           \/ UNCHANGED vars
  <2>1. SubmissionsKept /\ UNCHANGED <<latestFinalizedBlockNumber, moneyVars>>
    BY Zenon, <1>1 DEF Deposit, RegisterChannel, vars, finalityVars, SubmissionsKept
  <2> QED BY <2>1, BondFrame
<1>2. CASE PostAny
  <2>1. PICK p \in Producers, batch \in Batches, pin \in Pins, value \in Values \cup {0} :
          \E blob, stateRoot : Post(p, batch, pin, blob, stateRoot, value)
    BY <1>2 DEF PostAny, Pins
  <2> QED BY Zenon, <2>1, PostBonds
<1>3. CASE (\E id \in Ids : AttestProofData(id)) \/ EthBlock
  <2>1. SubmissionsKept
    BY <1>3, MarksKeep
  <2>2. UNCHANGED <<latestFinalizedBlockNumber, moneyVars>>
    BY <1>3 DEF AttestProofData, EthBlock, finalityVars
  <2> QED BY <2>1, <2>2, BondFrame
<1>4. ASSUME NEW id \in Ids, Finalize(id) PROVE BondInv'
  <2>1. SubmissionsKept
    BY <1>4, MarksKeep
  <2>2. /\ latestFinalizedBlockNumber' \in Nat
        /\ latestFinalizedBlockNumber' >= latestFinalizedBlockNumber
    BY Zenon, <1>4, FinalizeInv DEF ChainInv, TypeInv
  <2>3. submissions[id].endBlockNumber <= latestFinalizedBlockNumber'
    BY <1>4, BatchFacts DEF Finalize, Finalizable
  <2>4. /\ UNCHANGED <<pendingWithdrawals, convicted>>
        /\ bonds' = [bonds EXCEPT ![submissions[id].submitter] =
                       ReleaseBondTo(@, submissions[id].postIndex)]
    BY <1>4 DEF Finalize
  <2> QED BY Zenon, <2>1, <2>2, <2>3, <2>4, ReleaseStep
<1>5. ASSUME NEW id \in Ids, ReleaseBond(id) PROVE BondInv'
  <2>1. /\ submissions' = submissions
        /\ latestFinalizedBlockNumber' = latestFinalizedBlockNumber
        /\ submissions[id].endBlockNumber <= latestFinalizedBlockNumber
        /\ UNCHANGED <<pendingWithdrawals, convicted>>
        /\ bonds' = [bonds EXCEPT ![submissions[id].submitter] =
                       ReleaseBondTo(@, submissions[id].postIndex)]
    BY Zenon, <1>5 DEF ReleaseBond, finalityVars
  <2>2. SubmissionsKept
    BY Zenon, <2>1 DEF SubmissionsKept
  <2>3. latestFinalizedBlockNumber \in Nat
    BY Zenon DEF ChainInv, TypeInv
  <2>4. /\ latestFinalizedBlockNumber' \in Nat
        /\ latestFinalizedBlockNumber' >= latestFinalizedBlockNumber
        /\ submissions[id].endBlockNumber <= latestFinalizedBlockNumber'
    BY <2>1, <2>3
  <2> QED BY Zenon, <2>1, <2>2, <2>4, ReleaseStep
<1>6. ASSUME NEW id \in Ids, NEW r \in Producers \cup {Outsider}, FraudProof(id, r)
      PROVE  BondInv'
  BY Zenon, <1>6, TruncateBonds DEF FraudProof
<1>7. ASSUME NEW id \in Ids, TimeoutRemoval(id) PROVE BondInv'
  BY Zenon, <1>7, TruncateBonds DEF TimeoutRemoval
<1>8. ASSUME NEW p \in Producers, NEW v \in Values, DepositBond(p, v) \/ WithdrawBond(p, v)
      PROVE  BondInv'
  BY <1>8, BalanceStep
<1> QED BY Zenon, <1>1, <1>2, <1>3, <1>4, <1>5, <1>6, <1>7, <1>8 DEF Next

LEMMA BondInit == Init => BondInv
<1> SUFFICES ASSUME Init PROVE BondInv
  OBVIOUS
<1>1. Ids = {}
  BY DEF Init, Ids
<1>2. \A p : Mine(p) = {} /\ Final(p) = {} /\ Exposed(p) = {}
  BY <1>1 DEF Mine, Final, Exposed
<1>3. CountInv
  <2>1. \A p \in Producers : bonds[p].posted = 0 /\ bonds[p].released = 0
    BY Zenon DEF Init
  <2>2. \A p \in Producers : Cardinality(Mine(p)) = 0 /\ Cardinality(Final(p)) = 0
    BY <1>2, FS_EmptySet
  <2> QED BY <1>2, <2>1, <2>2 DEF CountInv
<1>4. CreditInv
  BY DEF Init, CreditInv
<1>5. CoverInv
  BY <1>2 DEF CoverInv, Covered
<1> QED BY <1>3, <1>4, <1>5 DEF BondInv

\* A removal costs the offender more than the reporter gets, or nothing moves.
LEMMA RemovalCost ==
  ASSUME ChainInv, BondInv, NEW id \in Ids, NEW r \in Producers \cup {Outsider},
         NEW forfeit \in BOOLEAN, Truncate(id, r, forfeit), NEW a \in Addresses \ {Treasury},
         NEW offender \in Producers, offender = submissions[id].submitter
  PROVE  LET lost == bonds[offender].balance - bonds'[offender].balance
             gained == pendingWithdrawals'[a] - pendingWithdrawals[a]
         IN  gained < lost \/ (gained = 0 /\ lost = 0)
<1>1. bonds \in [Producers -> Bond] /\ bonds[offender] \in Bond
      /\ pendingWithdrawals[a] \in Int
  BY Zenon DEF ChainInv, TypeInv, BondType, BondInv, CreditInv
<1>2. PICK f \in Nat, b \in Nat : f = Forfeited(offender, id) /\ b = bonds[offender].balance
  BY ForfeitBounds
<1>3. bonds'[offender].balance = b - (IF forfeit THEN f ELSE 0)
  <2>1. bonds'[offender] = [bonds[offender] EXCEPT
                              !.posted = bonds[offender].posted - PostsRemoved(offender, id),
                              !.balance = b - (IF forfeit THEN f ELSE 0)]
    BY Zenon, <1>1, <1>2 DEF Truncate, Bond
  <2> QED BY <1>1, <2>1 DEF Bond
<1>4. CASE ~forfeit
  <2>1. pendingWithdrawals' = pendingWithdrawals
    BY Zenon, <1>4 DEF Truncate
  <2> QED BY <1>1, <1>2, <1>3, <1>4, <2>1
<1>5. CASE forfeit
  <2>1. PICK w \in Int : w = Reward(id) /\ (w < f \/ (w = 0 /\ f = 0)) /\ w >= 0
    BY <1>2 DEF Reward
  <2>2. pendingWithdrawals' = [pendingWithdrawals EXCEPT ![r] = @ + Reward(id),
                                 ![Treasury] = @ + TreasuryShare(id)]
    BY Zenon, <1>5 DEF Truncate
  <2>3. pendingWithdrawals'[a] = IF a = r THEN pendingWithdrawals[a] + w ELSE pendingWithdrawals[a]
    BY <2>1, <2>2, RolesAssumption DEF BondInv, CreditInv
  <2> QED BY <1>1, <1>2, <1>3, <1>5, <2>1, <2>3
<1> QED BY Zenon, <1>4, <1>5

LEMMA SelfReportStep ==
  ASSUME ChainInv, BondInv, [Next]_vars, Len(submissions') < Len(submissions),
         NEW a \in Addresses \ {Treasury}
  PROVE  LET offender == submissions[Len(submissions') + 1].submitter
             lost == bonds[offender].balance - bonds'[offender].balance
             gained == pendingWithdrawals'[a] - pendingWithdrawals[a]
         IN  gained < lost \/ (gained = 0 /\ lost = 0)
<1>1. Len(submissions) \in Nat /\ submissions \in Seq(Submission)
  BY Zenon, Heights DEF ChainInv, TypeInv
<1>2. ASSUME SubmissionsKept PROVE FALSE
  BY <1>1, <1>2 DEF SubmissionsKept
<1>3. ASSUME submissions' = submissions PROVE FALSE
  BY <1>1, <1>3
<1>4. CASE \/ Deposit
           \/ \E c \in Channels : RegisterChannel(c)
           \/ \E id \in Ids : ReleaseBond(id)
           \/ \E p \in Producers, v \in Values : DepositBond(p, v) \/ WithdrawBond(p, v)
           \/ UNCHANGED vars
  BY <1>3, <1>4 DEF Deposit, RegisterChannel, ReleaseBond, DepositBond, WithdrawBond, vars
<1>5. CASE PostAny
  <2>1. PICK e : submissions' = Append(submissions, e)
    BY <1>5 DEF PostAny, Post
  <2>2. Len(submissions') = Len(submissions) + 1
    BY <1>1, <2>1
  <2> QED BY <1>1, <2>2
<1>6. CASE \/ \E id \in Ids : AttestProofData(id) \/ Finalize(id)
           \/ EthBlock
  BY Zenon, <1>2, <1>6, MarksKeep
<1>7. ASSUME NEW id \in Ids, NEW r \in Producers \cup {Outsider}, NEW forfeit \in BOOLEAN,
             Truncate(id, r, forfeit)
      PROVE  LET offender == submissions[Len(submissions') + 1].submitter
                 lost == bonds[offender].balance - bonds'[offender].balance
                 gained == pendingWithdrawals'[a] - pendingWithdrawals[a]
             IN  gained < lost \/ (gained = 0 /\ lost = 0)
  <2>1. Len(submissions') + 1 = id
    BY <1>7, TruncateType, BatchFacts
  <2>2. PICK o \in Producers : o = submissions[id].submitter
    BY Zenon, BatchFacts DEF Submission
  <2>3. LET lost == bonds[o].balance - bonds'[o].balance
            gained == pendingWithdrawals'[a] - pendingWithdrawals[a]
        IN  gained < lost \/ (gained = 0 /\ lost = 0)
    BY Zenon, <1>7, <2>2, RemovalCost
  <2> QED BY Zenon, <2>1, <2>2, <2>3
<1>8. CASE \/ \E id \in Ids, r \in Producers \cup {Outsider} : FraudProof(id, r)
           \/ \E id \in Ids : TimeoutRemoval(id)
  BY Zenon, <1>7, <1>8 DEF FraudProof, TimeoutRemoval
<1> QED BY Zenon, <1>4, <1>5, <1>6, <1>8 DEF Next

-----------------------------------------------------------------------------
\* The inductive invariant about bonds: "posted" is the number of a producer's live
\* posts, "released" at most the number of those that are final (_chargeBond,
\* _releaseBond, _truncateSubmissions).
THEOREM BondInvariance == Spec => [](ChainInv /\ BondInv)
<1>1. Init => ChainInv /\ BondInv
  BY ChainInit, BondInit
<1>2. ChainInv /\ BondInv /\ [Next]_vars => (ChainInv /\ BondInv)'
  BY ChainStep, BondStep
<1> QED BY <1>1, <1>2, PTL DEF Spec

\* The numbering of a producer's posts survives every removal, and no post that can
\* still be removed counts as released (_releaseBond).
THEOREM ReleasesAreFinal == Spec => []ReleasedPostsAreFinal
<1>1. ChainInv /\ BondInv => ReleasedPostsAreFinal
  BY CountsFinal DEF BondInv
<1> QED BY <1>1, BondInvariance, PTL

\* The bond of a producer that was never convicted covers the base and a stake for
\* every post that can still be removed (withdrawBond, _chargeBond, _forfeitBond).
THEOREM BondsCover == Spec => []BondCoversExposure
<1>1. BondInv => BondCoversExposure
  <2> SUFFICES ASSUME BondInv, NEW p \in Producers \ convicted
               PROVE  LET exposed ==
                            {id \in Ids : /\ submissions[id].submitter = p
                                         /\ submissions[id].endBlockNumber
                                              > latestFinalizedBlockNumber}
                      IN  exposed # {} =>
                            bonds[p].balance >= BaseStake + Cardinality(exposed) * PostStake
    BY Zenon DEF BondCoversExposure
  <2>1. Exposed(p) = {id \in Ids : /\ submissions[id].submitter = p
                                  /\ submissions[id].endBlockNumber > latestFinalizedBlockNumber}
    BY Zenon DEF Exposed, Mine
  <2>2. Covered(p, bonds[p].balance, Exposed(p))
    BY Zenon DEF BondInv, CoverInv
  <2> QED BY Zenon, <2>1, <2>2 DEF Covered
<1> QED BY <1>1, BondInvariance, PTL

\* Whoever collects the reward of a conviction, it is less than what the offender
\* loses: no producer gains by reporting itself (_truncateSubmissions, finding C3).
THEOREM SelfReportCosts == Spec => SelfReportNeverProfits
<1>1. ChainInv /\ BondInv /\ [Next]_vars =>
        [Len(submissions') < Len(submissions) =>
           LET offender == submissions[Len(submissions') + 1].submitter
               Lost == bonds[offender].balance - bonds'[offender].balance
               Gained(r) == pendingWithdrawals'[r] - pendingWithdrawals[r]
           IN  \A r \in Addresses \ {Treasury} :
                 Gained(r) < Lost \/ (Gained(r) = 0 /\ Lost = 0)]_vars
  BY Zenon, SelfReportStep
<1> QED BY <1>1, BondInvariance, PTL DEF Spec, SelfReportNeverProfits

-----------------------------------------------------------------------------
(* Deposits and registrations.                                              *)

\* A pair of deposit and registration chains extends another.
Extends(new, old) == IsPrefixOf(old[1], new[1]) /\ IsPrefixOf(old[2], new[2])

Live == <<pendingDepositHashChain, pendingChannelRegHashChain>>
Consumed == <<depositHashChain, channelRegHashChain>>
ConsumedBefore(id) ==
  <<submissions[id].previousDepositHashChain, submissions[id].previousChannelRegHashChain>>
InBlock(i) == <<blockHashChain[i].deposits, blockHashChain[i].registrations>>

LiveInv ==
  /\ pendingDepositHashChain = [i \in 1 .. depositCount |-> i]
  /\ \A pin \in Pins : Extends(Live, pin)

\* What a removal restores is a recorded pair and grows along the submissions.
ConsumedInv ==
  /\ Consumed \in Pins /\ processedDepositCount = Len(depositHashChain)
  /\ \A id \in Ids :
       /\ ConsumedBefore(id) \in Pins
       /\ submissions[id].processedDepositCountBefore = Len(ConsumedBefore(id)[1])
       /\ Extends(Consumed, ConsumedBefore(id))
       /\ \A j \in Ids : id <= j => Extends(ConsumedBefore(j), ConsumedBefore(id))

\* A block has consumed no more than the head, or the head a removal goes back to.
BlocksInv ==
  /\ \A i \in DOMAIN blockHashChain : Extends(Consumed, InBlock(i))
  /\ \A id \in Ids, i \in DOMAIN blockHashChain :
       i < submissions[id].startBlockNumber => Extends(ConsumedBefore(id), InBlock(i))
  /\ \A i, j \in DOMAIN blockHashChain : i < j => Extends(InBlock(j), InBlock(i))

DepositInv == LiveInv /\ ConsumedInv /\ BlocksInv
-----------------------------------------------------------------------------
LEMMA PrefixReflexive ==
  ASSUME NEW S, NEW s \in Seq(S)
  PROVE  IsPrefixOf(s, s)
BY FullPrefix, LenProperties DEF IsPrefixOf

LEMMA PrefixTransitive ==
  ASSUME NEW S, NEW s \in Seq(S), NEW t \in Seq(S), NEW u \in Seq(S),
         IsPrefixOf(s, t), IsPrefixOf(t, u)
  PROVE  IsPrefixOf(s, u)
<1>1. /\ Len(s) \in Nat /\ Len(t) \in Nat /\ Len(u) \in Nat
      /\ Len(s) <= Len(t) /\ Len(t) <= Len(u)
      /\ s = Prefix(t, Len(s)) /\ t = Prefix(u, Len(t))
  BY LenProperties DEF IsPrefixOf
<1>2. Len(t) \in 0 .. Len(u) /\ Len(s) \in 0 .. Len(t)
  BY <1>1
<1>3. Prefix(Prefix(u, Len(t)), Len(s)) = Prefix(u, Len(s))
  BY <1>2, PrefixOfPrefix
<1> QED BY <1>1, <1>3 DEF IsPrefixOf

LEMMA PrefixComparable ==
  ASSUME NEW S, NEW s \in Seq(S), NEW t \in Seq(S), NEW u \in Seq(S),
         IsPrefixOf(s, u), IsPrefixOf(t, u), Len(s) <= Len(t)
  PROVE  IsPrefixOf(s, t)
<1>1. /\ Len(s) \in Nat /\ Len(t) \in Nat /\ Len(u) \in Nat /\ Len(t) <= Len(u)
      /\ s = Prefix(u, Len(s)) /\ t = Prefix(u, Len(t))
  BY LenProperties DEF IsPrefixOf
<1>2. Len(t) \in 0 .. Len(u) /\ Len(s) \in 0 .. Len(t)
  BY <1>1
<1>3. Prefix(Prefix(u, Len(t)), Len(s)) = Prefix(u, Len(s))
  BY <1>2, PrefixOfPrefix
<1> QED BY <1>1, <1>3 DEF IsPrefixOf

LEMMA PrefixOfAppend ==
  ASSUME NEW S, NEW s \in Seq(S), NEW t \in Seq(S), NEW e \in S, IsPrefixOf(s, t)
  PROVE  IsPrefixOf(s, Append(t, e))
<1>1. Append(t, e) = t \o <<e>> /\ <<e>> \in Seq(S) /\ Append(t, e) \in Seq(S)
      /\ Len(Append(t, e)) = Len(t) + 1
  BY AppendIsConcat, AppendProperties
<1>2. Len(s) \in Nat /\ Len(t) \in Nat /\ Len(s) <= Len(t) /\ s = Prefix(t, Len(s))
  BY LenProperties DEF IsPrefixOf
<1>3. Len(s) \in 0 .. Len(t)
  BY <1>2
<1>4. Prefix(t \o <<e>>, Len(s)) = Prefix(t, Len(s))
  BY Zenon, <1>1, <1>3, PrefixOfConcat
<1> QED BY <1>1, <1>2, <1>4 DEF IsPrefixOf

Pair == Seq(Nat) \X Seq(Channels)

LEMMA ExtendsReflexive ==
  ASSUME NEW a \in Pair
  PROVE  Extends(a, a)
BY PrefixReflexive DEF Pair, Extends

LEMMA ExtendsTransitive ==
  ASSUME NEW a \in Pair, NEW b \in Pair, NEW c \in Pair, Extends(c, b), Extends(b, a)
  PROVE  Extends(c, a)
<1>1. /\ a[1] \in Seq(Nat) /\ b[1] \in Seq(Nat) /\ c[1] \in Seq(Nat)
      /\ a[2] \in Seq(Channels) /\ b[2] \in Seq(Channels) /\ c[2] \in Seq(Channels)
  BY DEF Pair
<1> QED BY Zenon, <1>1, PrefixTransitive DEF Extends

LEMMA PairTypes ==
  ASSUME ChainInv
  PROVE  /\ Live \in Pair /\ Consumed \in Pair /\ Pins \subseteq Pair
         /\ \A id \in Ids : ConsumedBefore(id) \in Pair
         /\ \A i \in DOMAIN blockHashChain : InBlock(i) \in Pair
<1>1. Live \in Pair /\ Consumed \in Pair /\ Pins \subseteq Pair
  BY Zenon DEF ChainInv, TypeInv, HeadType, PendingType, Live, Consumed, Pair
<1>2. ASSUME NEW id \in Ids PROVE ConsumedBefore(id) \in Pair
  <2>1. submissions[id] \in Submission
    BY BatchFacts
  <2> QED BY Zenon, <2>1 DEF Submission, ConsumedBefore, Pair
<1>3. ASSUME NEW i \in DOMAIN blockHashChain PROVE InBlock(i) \in Pair
  <2>1. blockHashChain \in Seq(Block) /\ i \in 1 .. Len(blockHashChain)
    BY LenProperties DEF ChainInv, TypeInv, HeadType
  <2>2. blockHashChain[i] \in Block
    BY <2>1, ElementOfSeq
  <2> QED BY <2>2 DEF Block, InBlock, Pair
<1> QED BY <1>1, <1>2, <1>3

-----------------------------------------------------------------------------
(* Steps that post and remove nothing.                                      *)

LEMMA ConsumptionKept ==
  ASSUME DepositInv, UNCHANGED headVars, Pins \subseteq Pins', SubmissionsKept
  PROVE  ConsumedInv' /\ BlocksInv'
<1>1. UNCHANGED <<blockHashChain, depositHashChain, channelRegHashChain, processedDepositCount>>
  BY DEF headVars
<1>2. Ids' = Ids /\ Consumed' = Consumed
  BY <1>1 DEF SubmissionsKept, Ids, Consumed
<1>3. \A id \in Ids : ConsumedBefore(id)' = ConsumedBefore(id)
  BY DEF SubmissionsKept, ConsumedBefore
<1>4. \A i \in DOMAIN blockHashChain : InBlock(i)' = InBlock(i)
  BY <1>1 DEF InBlock
<1>5. \A a, b : Extends(a, b)' = Extends(a, b)
  BY DEF Extends, IsPrefixOf, Prefix
<1>6. ConsumedInv'
  BY <1>1, <1>2, <1>3, <1>5 DEF DepositInv, ConsumedInv, SubmissionsKept
<1>7. BlocksInv'
  BY <1>1, <1>2, <1>3, <1>4, <1>5 DEF DepositInv, BlocksInv, SubmissionsKept
<1> QED BY <1>6, <1>7

LEMMA LiveKept ==
  ASSUME DepositInv, UNCHANGED pendingVars
  PROVE  LiveInv' /\ Pins' = Pins
BY DEF DepositInv, LiveInv, pendingVars, Live, Pins, Extends

LEMMA RecordKept ==
  ASSUME ChainInv, DepositInv, UNCHANGED <<headVars, submissions>>,
         \/ Deposit
         \/ \E c \in Channels : RegisterChannel(c)
  PROVE  DepositInv'
<1>1. Pins' = Pins \cup {Live'}
  BY Zenon DEF Deposit, RegisterChannel, RecordCheckpoint, Put, Pins, Live
<1>2. /\ Live' \in Pair /\ Extends(Live', Live)
      /\ pendingDepositHashChain' = [i \in 1 .. depositCount' |-> i]
  <2>1. /\ pendingDepositHashChain \in Seq(Nat) /\ pendingChannelRegHashChain \in Seq(Channels)
        /\ depositCount \in Nat /\ Len(pendingDepositHashChain) = depositCount
        /\ pendingDepositHashChain = [i \in 1 .. depositCount |-> i]
    BY DEF ChainInv, TypeInv, PendingType, DepositInv, LiveInv
  <2>2. /\ IsPrefixOf(pendingDepositHashChain, pendingDepositHashChain)
        /\ IsPrefixOf(pendingChannelRegHashChain, pendingChannelRegHashChain)
    BY Zenon, <2>1, PrefixReflexive
  <2>3. CASE Deposit
    <3>1. /\ depositCount' = depositCount + 1
          /\ pendingDepositHashChain' = Append(pendingDepositHashChain, depositCount')
          /\ pendingChannelRegHashChain' = pendingChannelRegHashChain
      BY <2>3 DEF Deposit
    <3>2. depositCount' \in Nat
      BY <2>1, <3>1
    <3>3. /\ pendingDepositHashChain' \in Seq(Nat)
          /\ IsPrefixOf(pendingDepositHashChain, pendingDepositHashChain')
      BY Zenon, <2>1, <2>2, <3>1, <3>2, AppendProperties, PrefixOfAppend
    <3>4. pendingDepositHashChain' = [i \in 1 .. depositCount' |-> i]
      BY <2>1, <3>1, <3>2
    <3> QED BY Zenon, <2>1, <2>2, <3>1, <3>3, <3>4 DEF Live, Pair, Extends
  <2>4. ASSUME NEW c \in Channels, RegisterChannel(c)
        PROVE  /\ Live' \in Pair /\ Extends(Live', Live)
               /\ pendingDepositHashChain' = [i \in 1 .. depositCount' |-> i]
    <3>1. /\ UNCHANGED <<depositCount, pendingDepositHashChain>>
          /\ pendingChannelRegHashChain' = Append(pendingChannelRegHashChain, c)
      BY <2>4 DEF RegisterChannel
    <3>2. /\ pendingChannelRegHashChain' \in Seq(Channels)
          /\ IsPrefixOf(pendingChannelRegHashChain, pendingChannelRegHashChain')
      BY <2>1, <2>2, <3>1, AppendProperties, PrefixOfAppend
    <3> QED BY Zenon, <2>1, <2>2, <3>1, <3>2 DEF Live, Pair, Extends
  <2> QED BY <2>3, <2>4
<1>3. ASSUME NEW pin \in Pins' PROVE Extends(Live', pin)
  <2>1. CASE pin = Live'
    BY <1>2, <2>1, ExtendsReflexive
  <2>2. CASE pin \in Pins
    BY <1>2, <2>2, PairTypes, ExtendsTransitive DEF DepositInv, LiveInv
  <2> QED BY <1>1, <2>1, <2>2
<1>4. LiveInv'
  <2>1. \A a, b : Extends(a, b)' = Extends(a, b)
    BY DEF Extends, IsPrefixOf, Prefix
  <2> QED BY <1>2, <1>3, <2>1 DEF LiveInv
<1>5. ConsumedInv' /\ BlocksInv'
  <2>1. SubmissionsKept
    BY DEF SubmissionsKept
  <2> QED BY <1>1, <2>1, ConsumptionKept
<1> QED BY <1>4, <1>5 DEF DepositInv

-----------------------------------------------------------------------------
(* Posting: an admitted pin extends what was consumed.                      *)

LEMMA Admission ==
  ASSUME ChainInv, DepositInv, NEW pin \in Pins
  PROVE  /\ CheckpointCounts(pin).deposits = Len(pin[1])
         /\ PinAdmitted(pin) <=> Len(pin[1]) >= Len(depositHashChain)
                                  /\ Len(pin[2]) >= Len(channelRegHashChain)
<1>1. \A q \in Pins : /\ CheckpointCounts(q).deposits = Len(q[1])
                      /\ CheckpointCounts(q).registrations = Len(q[2])
  BY DEF CheckpointCounts, Pins, ChainInv, TypeInv, PendingType
<1>2. Consumed \in Pins /\ Consumed[1] = depositHashChain /\ Consumed[2] = channelRegHashChain
  BY DEF DepositInv, ConsumedInv, Consumed
<1> QED BY <1>1, <1>2 DEF PinAdmitted, Consumed, Pins

LEMMA AdmittedExtends ==
  ASSUME ChainInv, DepositInv, NEW pin \in Pins, PinAdmitted(pin)
  PROVE  Extends(pin, Consumed)
<1>1. Len(pin[1]) >= Len(Consumed[1]) /\ Len(pin[2]) >= Len(Consumed[2])
  BY Admission DEF Consumed
<1>2. /\ pin \in Pair /\ Live \in Pair /\ Consumed \in Pair
      /\ Extends(Live, pin) /\ Extends(Live, Consumed)
  BY PairTypes DEF DepositInv, LiveInv, ConsumedInv
<1>3. /\ pin[1] \in Seq(Nat) /\ Consumed[1] \in Seq(Nat) /\ Live[1] \in Seq(Nat)
      /\ pin[2] \in Seq(Channels) /\ Consumed[2] \in Seq(Channels) /\ Live[2] \in Seq(Channels)
  BY <1>2 DEF Pair
<1>4. /\ Len(pin[1]) \in Nat /\ Len(Consumed[1]) \in Nat
      /\ Len(pin[2]) \in Nat /\ Len(Consumed[2]) \in Nat
  BY <1>3, LenProperties
<1>5. IsPrefixOf(Consumed[1], pin[1])
  BY Zenon, <1>1, <1>2, <1>3, <1>4, PrefixComparable DEF Extends
<1>6. IsPrefixOf(Consumed[2], pin[2])
  BY <1>1, <1>2, <1>3, <1>4, PrefixComparable DEF Extends
<1> QED BY <1>5, <1>6 DEF Extends

LEMMA PostDeposits ==
  ASSUME ChainInv, DepositInv, NEW p \in Producers, NEW batch \in Batches, NEW pin \in Pins,
         NEW value, NEW blob, NEW stateRoot, Post(p, batch, pin, blob, stateRoot, value)
  PROVE  DepositInv'
<1> DEFINE blocks == BlocksOf(batch, pin)
           n == Len(submissions)
           h == Len(blockHashChain)
           k == Len(batch)
<1>1. LiveInv' /\ Pins' = Pins
  BY Zenon, LiveKept DEF Post
<1>2. /\ Extends(pin, Consumed) /\ pin \in Pair /\ Consumed \in Pair
      /\ \A id \in Ids : ConsumedBefore(id) \in Pair
      /\ \A i \in DOMAIN blockHashChain : InBlock(i) \in Pair
  BY Zenon, AdmittedExtends, PairTypes DEF Post
<1>3. /\ n \in Nat /\ h \in Nat /\ k \in Nat /\ k > 0 /\ Ids = 1 .. n
      /\ blockHashChain \in Seq(Block) /\ DOMAIN blockHashChain = 1 .. h
      /\ blocks \in Seq(Block) /\ Len(blocks) = k /\ blockNumber = h
      /\ submissions \in Seq(Submission)
  BY Zenon, Heights, BlocksType, LenProperties DEF Ids, ChainInv, SubmissionsTileChain, TypeInv
<1>4. /\ Len(submissions') = n + 1
      /\ \A id \in 1 .. n : submissions'[id] = submissions[id]
      /\ submissions'[n + 1].startBlockNumber = h + 1
      /\ submissions'[n + 1].previousDepositHashChain = depositHashChain
      /\ submissions'[n + 1].previousChannelRegHashChain = channelRegHashChain
      /\ submissions'[n + 1].processedDepositCountBefore = processedDepositCount
  BY <1>3 DEF Post
<1>5. /\ blockHashChain' = blockHashChain \o blocks /\ depositHashChain' = pin[1]
      /\ channelRegHashChain' = pin[2] /\ processedDepositCount' = CheckpointCounts(pin).deposits
  BY Zenon DEF Post
<1>6. Consumed' = pin /\ processedDepositCount' = Len(depositHashChain')
  BY <1>2, <1>5, Admission DEF Consumed, Pair
<1>7. /\ \A i \in 1 .. h : blockHashChain'[i] = blockHashChain[i]
      /\ \A i \in 1 .. k : blockHashChain'[h + i] = blocks[i]
      /\ DOMAIN blockHashChain' = 1 .. h + k
  <2> HIDE DEF blocks
  <2>1. Len(blockHashChain \o blocks) = h + k /\ blockHashChain \o blocks \in Seq(Block)
    <3>1. /\ blockHashChain \in Seq(Block) /\ Len(blockHashChain) = h
          /\ blocks \in Seq(Block) /\ Len(blocks) = k
      BY <1>3
    <3> HIDE DEF h, k
    <3>2. blockHashChain \o blocks \in Seq(Block)
      BY <3>1, ConcatProperties
    <3>3. Len(blockHashChain \o blocks) = Len(blockHashChain) + Len(blocks)
      BY Zenon, <3>1, ConcatProperties
    <3> QED BY <3>1, <3>2, <3>3
  <2> QED BY <1>3, <1>5, <2>1, ConcatProperties, LenProperties
<1>8. \A i \in 1 .. h : InBlock(i)' = InBlock(i)
  BY <1>7 DEF InBlock
<1>9. ASSUME NEW i \in h + 1 .. h + k
      PROVE  InBlock(i)' = IF i = h + k THEN pin ELSE Consumed
  <2>1. /\ i - h \in 1 .. k /\ h + (i - h) = i /\ (i - h = k) = (i = h + k)
        /\ DOMAIN batch = 1 .. k
    <3>1. batch \in Seq(Range(batch))
      BY BatchesAssumption
    <3> QED BY <1>3, <3>1, LenProperties
  <2>2. blockHashChain'[i] = blocks[i - h]
    BY Zenon, <1>7, <2>1
  <2>3. /\ blocks[i - h].deposits = IF i = h + k THEN pin[1] ELSE depositHashChain
        /\ blocks[i - h].registrations = IF i = h + k THEN pin[2] ELSE channelRegHashChain
    BY Zenon, <2>1 DEF BlocksOf
  <2>4. pin = <<pin[1], pin[2]>>
    BY <1>2 DEF Pair
  <2> QED BY <2>2, <2>3, <2>4 DEF InBlock, Consumed
<1>10. /\ \A id \in 1 .. n : ConsumedBefore(id)' = ConsumedBefore(id)
       /\ \A id : id = n + 1 => ConsumedBefore(id)' = Consumed
       /\ Ids' = 1 .. n + 1
  BY Zenon, <1>3, <1>4 DEF ConsumedBefore, Consumed, Ids
<1>11. \A a, b : Extends(a, b)' = Extends(a, b)
  BY DEF Extends, IsPrefixOf, Prefix
<1> HIDE DEF blocks, n, h, k
<1>12. \A a \in Pair : Extends(Consumed, a) => Extends(pin, a)
  BY <1>2, ExtendsTransitive
<1>13. Extends(Consumed, Consumed) /\ Extends(pin, pin)
  BY <1>2, ExtendsReflexive
<1>14. ConsumedInv'
  <2>1. Consumed' \in Pins'
    BY <1>1, <1>6
  <2>2. ASSUME NEW id \in Ids'
        PROVE  /\ ConsumedBefore(id)' \in Pins'
               /\ submissions'[id].processedDepositCountBefore = Len(ConsumedBefore(id)'[1])
               /\ Extends(Consumed', ConsumedBefore(id)')
               /\ Extends(Consumed, ConsumedBefore(id)')
    <3>1. CASE id = n + 1
      <4>1. submissions'[id].processedDepositCountBefore = processedDepositCount
        BY <1>4, <3>1 DEF n
      <4>2. ConsumedBefore(id)' = Consumed /\ Consumed[1] = depositHashChain
        BY Zenon, <1>10, <3>1 DEF Consumed
      <4> QED BY <1>1, <1>6, <1>2, <1>13, <4>1, <4>2 DEF DepositInv, ConsumedInv
    <3>2. CASE id \in 1 .. n
      <4>1. id \in Ids /\ ConsumedBefore(id)' = ConsumedBefore(id)
            /\ submissions'[id] = submissions[id]
        BY Zenon, <1>3, <1>4, <1>10, <3>2
      <4> QED BY Zenon, <1>1, <1>2, <1>6, <1>12, <4>1 DEF DepositInv, ConsumedInv
    <3> QED BY SMT, Z3, <1>3, <1>10, <3>1, <3>2
  <2>3. ASSUME NEW id \in Ids', NEW j \in Ids', id <= j
        PROVE  Extends(ConsumedBefore(j)', ConsumedBefore(id)')
    <3>1. CASE j = n + 1
      BY <1>10, <2>2, <3>1
    <3>2. CASE j \in 1 .. n
      <4>1. id \in Ids /\ j \in Ids /\ id \in 1 .. n
        BY SMT, Z3, <1>3, <1>10, <2>3, <3>2
      <4> QED BY Zenon, <1>10, <2>3, <3>2, <4>1 DEF DepositInv, ConsumedInv
    <3> QED BY <1>3, <1>10, <3>1, <3>2
  <2> QED BY <1>6, <1>11, <2>1, <2>2, <2>3 DEF ConsumedInv
<1>15. BlocksInv'
  <2>1. ASSUME NEW i \in 1 .. h + k
        PROVE  /\ InBlock(i)' \in Pair /\ Extends(pin, InBlock(i)')
               /\ i # h + k => Extends(Consumed, InBlock(i)')
    <3>1. CASE i \in 1 .. h
      BY Zenon, <1>2, <1>3, <1>8, <1>12, <3>1 DEF DepositInv, BlocksInv
    <3>2. CASE i \in h + 1 .. h + k
      BY Zenon, <1>2, <1>9, <1>13, <3>2
    <3> QED BY <1>3, <3>1, <3>2
  <2>2. ASSUME NEW id \in Ids', NEW i \in 1 .. h + k, i < submissions'[id].startBlockNumber
        PROVE  Extends(ConsumedBefore(id)', InBlock(i)')
    <3>1. CASE id = n + 1
      <4>1. submissions'[id].startBlockNumber = h + 1
        BY Zenon, <1>4, <3>1 DEF n, h
      <4>2. i # h + k
        BY SMT, Z3, <1>3, <2>2, <4>1
      <4> QED BY Zenon, <1>10, <2>1, <3>1, <4>2
    <3>2. CASE id \in 1 .. n
      <4>1. /\ id \in Ids /\ submissions'[id] = submissions[id]
            /\ submissions[id].startBlockNumber \in Nat
            /\ submissions[id].startBlockNumber <= submissions[id].endBlockNumber
            /\ submissions[id].endBlockNumber \in 0 .. h
        BY Zenon, <1>3, <1>4, <3>2, BatchFacts, Heights DEF h
      <4>2. i \in 1 .. h
        BY <1>3, <2>2, <4>1
      <4> QED BY Zenon, <1>3, <1>8, <1>10, <2>2, <3>2, <4>1, <4>2 DEF DepositInv, BlocksInv
    <3> QED BY <1>3, <1>10, <3>1, <3>2
  <2>3. ASSUME NEW i \in 1 .. h + k, NEW j \in 1 .. h + k, i < j
        PROVE  Extends(InBlock(j)', InBlock(i)')
    <3>1. CASE j \in 1 .. h
      <4>1. i \in 1 .. h
        BY <1>3, <2>3, <3>1
      <4> QED BY Zenon, <1>3, <1>8, <2>3, <3>1, <4>1 DEF DepositInv, BlocksInv
    <3>2. CASE j \in h + 1 .. h + k
      <4>1. i # h + k
        BY <1>3, <2>3
      <4> QED BY Zenon, <1>9, <2>1, <3>2, <4>1
    <3> QED BY <1>3, <3>1, <3>2
  <2> QED BY SMT, Z3, <1>6, <1>7, <1>11, <2>1, <2>2, <2>3 DEF BlocksInv
<1> QED BY <1>1, <1>14, <1>15 DEF DepositInv

-----------------------------------------------------------------------------
(* Removal: the target's predecessor pair is consumed again.                *)

LEMMA TruncateDeposits ==
  ASSUME ChainInv, DepositInv, NEW id \in Ids, NEW r, NEW forfeit \in BOOLEAN,
         Removable(submissions[id]), Truncate(id, r, forfeit)
  PROVE  /\ DepositInv' /\ Pins' = Pins
         /\ Consumed' = ConsumedBefore(id)
<1>1. LiveInv' /\ Pins' = Pins
  <2>1. UNCHANGED pendingVars
    BY Zenon DEF Truncate, PendingAfterRollback, pendingVars
  <2> QED BY <2>1, LiveKept
<1>2. Consumed' = ConsumedBefore(id)
      /\ processedDepositCount' = submissions[id].processedDepositCountBefore
  BY Zenon DEF Truncate, Consumed, ConsumedBefore
<1>3. Consumed'[1] = depositHashChain'
  BY DEF Consumed
<1>4. /\ Len(submissions') = id - 1 /\ \A i \in 1 .. id - 1 : submissions'[i] = submissions[i]
      /\ id \in Nat /\ id >= 1 /\ Ids = 1 .. Len(submissions) /\ Len(submissions) \in Nat
      /\ id <= Len(submissions) /\ Ids' = 1 .. id - 1
  BY TruncateType, BatchFacts, Heights DEF Ids
<1>5. \A i \in Ids' : i \in Ids /\ i <= id /\ ConsumedBefore(i)' = ConsumedBefore(i)
  BY <1>4 DEF ConsumedBefore
<1>6. \A i \in DOMAIN blockHashChain' :
        /\ i \in DOMAIN blockHashChain /\ blockHashChain'[i] = blockHashChain[i]
        /\ i < submissions[id].startBlockNumber
  <2> DEFINE before == IF id = 1 THEN 0 ELSE submissions[id - 1].endBlockNumber
  <2>1. /\ submissions[id].startBlockNumber = before + 1
        /\ blockHashChain' = Prefix(blockHashChain, before)
    BY Zenon DEF Truncate, ChainInv, SubmissionsTileChain
  <2>2. before \in DOMAIN blockHashChainAt
    <3>1. id # 1 => id - 1 \in Ids
      BY <1>4
    <3> QED BY Zenon, <3>1, BatchFacts DEF ChainInv, SubmissionsTileChain
  <2> HIDE DEF before
  <2>3. before \in 0 .. Len(blockHashChain) /\ blockHashChain \in Seq(Block)
        /\ Len(blockHashChain) \in Nat
    BY <2>2, Heights
  <2> QED BY <2>1, <2>3, PrefixProperties, LenProperties, SubSeqProperties DEF Prefix
<1>7. \A i \in DOMAIN blockHashChain' : InBlock(i)' = InBlock(i)
  BY Zenon, <1>6 DEF InBlock
<1>8. \A a, b : Extends(a, b)' = Extends(a, b)
  BY DEF Extends, IsPrefixOf, Prefix
<1>9. ConsumedInv'
  <2>1. Consumed' \in Pins' /\ processedDepositCount' = Len(depositHashChain')
    BY Zenon, <1>1, <1>2, <1>3 DEF DepositInv, ConsumedInv
  <2>2. ASSUME NEW i \in Ids'
        PROVE  /\ ConsumedBefore(i)' \in Pins'
               /\ submissions'[i].processedDepositCountBefore = Len(ConsumedBefore(i)'[1])
               /\ Extends(Consumed', ConsumedBefore(i)')
               /\ \A j \in Ids' : i <= j => Extends(ConsumedBefore(j)', ConsumedBefore(i)')
    BY <1>1, <1>2, <1>4, <1>5 DEF DepositInv, ConsumedInv
  <2> QED BY Zenon, <1>8, <2>1, <2>2 DEF ConsumedInv
<1>10. BlocksInv'
  <2>1. \A i \in DOMAIN blockHashChain' : Extends(Consumed', InBlock(i)')
    BY Zenon, <1>2, <1>6, <1>7 DEF DepositInv, BlocksInv
  <2>2. \A j \in Ids', i \in DOMAIN blockHashChain' :
          i < submissions'[j].startBlockNumber => Extends(ConsumedBefore(j)', InBlock(i)')
    BY Zenon, <1>4, <1>5, <1>6, <1>7 DEF DepositInv, BlocksInv
  <2>3. \A i, j \in DOMAIN blockHashChain' : i < j => Extends(InBlock(j)', InBlock(i)')
    BY Zenon, <1>6, <1>7 DEF DepositInv, BlocksInv
  <2> QED BY Zenon, <1>8, <2>1, <2>2, <2>3 DEF BlocksInv
<1> QED BY <1>1, <1>2, <1>9, <1>10 DEF DepositInv

-----------------------------------------------------------------------------
LEMMA DepositStep ==
  ASSUME ChainInv, DepositInv, [Next]_vars
  PROVE  DepositInv'
<1>1. ASSUME Deposit \/ \E c \in Channels : RegisterChannel(c) PROVE DepositInv'
  <2>1. UNCHANGED <<headVars, submissions>>
    BY <1>1 DEF Deposit, RegisterChannel
  <2> QED BY <1>1, <2>1, RecordKept
<1>2. CASE PostAny
  <2>1. PICK p \in Producers, batch \in Batches, pin \in Pins, value \in Values \cup {0} :
          \E blob, stateRoot : Post(p, batch, pin, blob, stateRoot, value)
    BY <1>2 DEF PostAny, Pins
  <2> QED BY <2>1, PostDeposits
<1>3. ASSUME \/ \E id \in Ids : AttestProofData(id) \/ Finalize(id)
             \/ EthBlock
      PROVE  DepositInv'
  <2>1. SubmissionsKept /\ UNCHANGED headVars /\ UNCHANGED pendingVars
    BY <1>3, MarksKeep
  <2>2. LiveInv' /\ Pins' = Pins
    BY <2>1, LiveKept
  <2> QED BY <2>1, <2>2, ConsumptionKept DEF DepositInv
<1>4. ASSUME NEW id \in Ids, NEW r, FraudProof(id, r) \/ TimeoutRemoval(id) PROVE DepositInv'
  BY Zenon, <1>4, TruncateDeposits DEF FraudProof, TimeoutRemoval
<1>5. ASSUME \/ \E id \in Ids : ReleaseBond(id)
             \/ \E p \in Producers, v \in Values : DepositBond(p, v) \/ WithdrawBond(p, v)
             \/ UNCHANGED vars
      PROVE  DepositInv'
  <2>1. UNCHANGED headVars /\ UNCHANGED pendingVars /\ UNCHANGED submissions
    BY <1>5 DEF ReleaseBond, DepositBond, WithdrawBond, vars
  <2>2. SubmissionsKept
    BY <2>1 DEF SubmissionsKept
  <2>3. LiveInv' /\ Pins' = Pins
    BY <2>1, LiveKept
  <2> QED BY <2>1, <2>2, <2>3, ConsumptionKept DEF DepositInv
<1> QED BY Zenon, <1>1, <1>2, <1>3, <1>4, <1>5 DEF Next

LEMMA DepositInit == Init => DepositInv
<1> SUFFICES ASSUME Init PROVE DepositInv
  OBVIOUS
<1>1. /\ depositCount = 0 /\ pendingDepositHashChain = <<>> /\ pendingChannelRegHashChain = <<>>
      /\ depositHashChain = <<>> /\ channelRegHashChain = <<>> /\ processedDepositCount = 0
      /\ submissions = <<>> /\ blockHashChain = <<>> /\ Pins = {<<<<>>, <<>>>>}
  BY Zenon DEF Init, Pins
<1>2. Ids = {} /\ DOMAIN blockHashChain = {}
  BY <1>1 DEF Ids
<1>3. Live = <<<<>>, <<>>>> /\ Consumed = <<<<>>, <<>>>>
  BY <1>1 DEF Live, Consumed
<1>4. Extends(<<<<>>, <<>>>>, <<<<>>, <<>>>>)
  <2>1. <<>> \in Seq(Nat) /\ <<>> \in Seq(Channels)
    BY EmptySeq
  <2>2. <<<<>>, <<>>>> \in Pair
    BY <2>1, Zenon DEF Pair
  <2> QED BY <2>2, ExtendsReflexive
<1>5. pendingDepositHashChain = [i \in 1 .. depositCount |-> i]
  BY <1>1
<1> QED BY Zenon, <1>1, <1>2, <1>3, <1>4, <1>5 DEF DepositInv, LiveInv, ConsumedInv, BlocksInv

LEMMA PinStep ==
  ASSUME ChainInv, DepositInv, [Next]_vars, postingRound' <= postingRound,
         NEW pin \in Pins, PinAdmitted(pin)
  PROVE  PinAdmitted(pin)'
<1>1. ChainInv' /\ DepositInv'
  BY ChainStep, DepositStep
<1>2. Len(pin[1]) >= Len(depositHashChain) /\ Len(pin[2]) >= Len(channelRegHashChain)
  BY Admission
<1>3. ASSUME pin \in Pins', Len(pin[1]) >= Len(depositHashChain'),
             Len(pin[2]) >= Len(channelRegHashChain')
      PROVE  PinAdmitted(pin)'
  <2>1. \A q \in Pins' : /\ CheckpointCounts(q)'.deposits = Len(q[1])
                         /\ CheckpointCounts(q)'.registrations = Len(q[2])
    BY SMT, Z3, <1>1 DEF CheckpointCounts, Pins, ChainInv, TypeInv, PendingType
  <2>2. PICK q \in Pins' : q = Consumed'
    BY Zenon, <1>1 DEF DepositInv, ConsumedInv
  <2>3. q = <<depositHashChain', channelRegHashChain'>>
    BY <2>2 DEF Consumed
  <2>4. q[1] = depositHashChain' /\ q[2] = channelRegHashChain'
    BY <2>3
  <2>5. PinAdmitted(pin)' <=> /\ pin \in Pins'
                              /\ CheckpointCounts(pin)'.deposits >= CheckpointCounts(q)'.deposits
                              /\ CheckpointCounts(pin)'.registrations
                                   >= CheckpointCounts(q)'.registrations
    BY Zenon, <2>3 DEF PinAdmitted, Pins, CheckpointCounts
  <2> QED BY Zenon, <1>3, <2>1, <2>4, <2>5
<1>4. /\ Len(pin[1]) \in Nat /\ Len(pin[2]) \in Nat
      /\ Len(depositHashChain) \in Nat /\ Len(channelRegHashChain) \in Nat
  <2>1. pin[1] \in Seq(Nat) /\ pin[2] \in Seq(Channels)
    BY PairTypes DEF Pair
  <2> QED BY Zenon, <2>1, LenProperties DEF ChainInv, TypeInv, HeadType
<1>5. CASE Deposit \/ \E c \in Channels : RegisterChannel(c)
  <2>1. Pins \subseteq Pins' /\ UNCHANGED <<depositHashChain, channelRegHashChain>>
    BY Zenon, <1>5 DEF Deposit, RegisterChannel, RecordCheckpoint, Put, Pins, headVars
  <2> QED BY <1>2, <1>3, <2>1
<1>6. ASSUME UNCHANGED headVars, UNCHANGED pendingVars PROVE PinAdmitted(pin)'
  <2>1. Pins' = Pins /\ UNCHANGED <<depositHashChain, channelRegHashChain>>
    BY <1>6 DEF headVars, pendingVars, Pins
  <2> QED BY Zenon, <1>2, <1>3, <2>1
<1>7. CASE PostAny
  <2>1. postingRound' = postingRound + 1 /\ postingRound \in Nat
    BY <1>7 DEF PostAny, Post, ChainInv, TypeInv, HeadType
  <2> QED BY <2>1
<1>8. CASE \/ \E id \in Ids : AttestProofData(id) \/ Finalize(id)
           \/ EthBlock
  BY <1>6, <1>8, MarksKeep
<1>9. ASSUME NEW id \in Ids, NEW r, FraudProof(id, r) \/ TimeoutRemoval(id)
      PROVE  PinAdmitted(pin)'
  <2>1. Pins' = Pins /\ Consumed' = ConsumedBefore(id)
    BY Zenon, <1>9, TruncateDeposits DEF FraudProof, TimeoutRemoval
  <2>2. Extends(Consumed, ConsumedBefore(id))
    BY Zenon DEF DepositInv, ConsumedInv
  <2>3. /\ Len(ConsumedBefore(id)[1]) <= Len(depositHashChain)
        /\ Len(ConsumedBefore(id)[2]) <= Len(channelRegHashChain)
    BY Zenon, <2>2 DEF Extends, IsPrefixOf, Consumed
  <2>4. /\ depositHashChain' = ConsumedBefore(id)[1]
        /\ channelRegHashChain' = ConsumedBefore(id)[2]
    BY <2>1 DEF Consumed
  <2>5. Len(ConsumedBefore(id)[1]) \in Nat /\ Len(ConsumedBefore(id)[2]) \in Nat
    BY Zenon, PairTypes, LenProperties DEF Pair
  <2>6. Len(pin[1]) >= Len(depositHashChain') /\ Len(pin[2]) >= Len(channelRegHashChain')
    BY <1>2, <1>4, <2>3, <2>4, <2>5
  <2> QED BY <1>3, <2>1, <2>6
<1>10. CASE \/ \E id \in Ids : ReleaseBond(id)
            \/ \E p \in Producers, v \in Values : DepositBond(p, v) \/ WithdrawBond(p, v)
            \/ UNCHANGED vars
  <2>1. UNCHANGED headVars /\ UNCHANGED pendingVars
    BY Zenon, <1>10 DEF ReleaseBond, DepositBond, WithdrawBond, vars
  <2> QED BY Zenon, <1>6, <2>1
<1> QED BY Zenon, <1>5, <1>7, <1>8, <1>9, <1>10 DEF Next

-----------------------------------------------------------------------------
\* The inductive invariant about deposits: recorded pins are prefixes of the live
\* pair, and along the submissions what a removal restores only grows (deposit,
\* registerChannel, _postBlockAndSubmitPinned, _rollbackBatch).
THEOREM DepositInvariance == Spec => [](ChainInv /\ DepositInv)
<1>1. Init => ChainInv /\ DepositInv
  BY ChainInit, DepositInit
<1>2. ChainInv /\ DepositInv /\ [Next]_vars => (ChainInv /\ DepositInv)'
  BY Zenon, ChainStep, DepositStep
<1> QED BY <1>1, <1>2, PTL DEF Spec

\* No deposit and no registration is dropped or consumed out of order, through
\* any number of posts and removals (_rollbackBatch, finding H-1).
THEOREM DepositsKept == Spec => []DepositsNeverLost
<1>1. ChainInv /\ DepositInv => DepositsNeverLost
  <2> SUFFICES ASSUME ChainInv, DepositInv PROVE DepositsNeverLost
    OBVIOUS
  <2>1. Consumed \in Pins /\ Extends(Live, Consumed)
    BY Zenon DEF DepositInv, LiveInv, ConsumedInv
  <2>2. /\ IsPrefixOf(depositHashChain, pendingDepositHashChain)
        /\ IsPrefixOf(channelRegHashChain, pendingChannelRegHashChain)
    BY <2>1 DEF Extends, Live, Consumed
  <2>3. ASSUME NEW i \in DOMAIN blockHashChain, NEW j \in DOMAIN blockHashChain, i < j
        PROVE  /\ IsPrefixOf(blockHashChain[i].deposits, blockHashChain[j].deposits)
               /\ IsPrefixOf(blockHashChain[i].registrations, blockHashChain[j].registrations)
    <3>1. Extends(InBlock(j), InBlock(i))
      BY Zenon, <2>3 DEF DepositInv, BlocksInv
    <3> QED BY Zenon, <3>1 DEF Extends, InBlock
  <2> QED BY <2>1, <2>2, <2>3 DEF DepositInv, LiveInv, ConsumedInv, DepositsNeverLost, Consumed
<1> QED BY <1>1, DepositInvariance, PTL

\* A pin that can be posted stays postable until somebody posts: deposits,
\* registrations, finalizations and removals never outdate the proof built on it
\* (_postBlockAndSubmitPinned).
THEOREM PinsStayUsable == Spec => PinStaysUsable
<1>1. ChainInv /\ DepositInv /\ [Next]_vars =>
        [\A pin \in Pins : PinAdmitted(pin) /\ postingRound' <= postingRound
                             => PinAdmitted(pin)']_vars
  BY PinStep
<1> QED BY <1>1, DepositInvariance, PTL DEF Spec, PinStaysUsable
==============================================================================
