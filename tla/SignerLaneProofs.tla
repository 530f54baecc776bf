--------------------------- MODULE SignerLaneProofs ---------------------------
(***************************************************************************)
(* Proofs about SignerLane, for every number of publications and steps and *)
(* every bound on crashes, on what happens to the L1, and on the bond.     *)
(*                                                                         *)
(* The three invariants rest on one fact, LaneHeld: a journaled            *)
(* transaction of unknown fate owns the lane.  So there is at most one     *)
(* such transaction; everything else the account ever sent is final, and a *)
(* new transaction takes the first nonce after the finalized ones.         *)
(***************************************************************************)
EXTENDS SignerLane, TLAPS

Places == {"idle", "step", "claimed", "replay", "sent", "settled"}

\* Where a run can be: in a step of a publication, or past its last one.
RunTyped ==
  /\ pc \in Places
  /\ pc # "idle" => step \in Journals \X (1 .. Steps + 1)
  /\ pc \notin {"idle", "step"} => step \in Keys

\* The record in the lane is for step x.
Holds(x) == lane # None /\ lane.step = x

\* A transaction of unknown fate owns the lane.
LaneHeld == \A x \in Keys : Signed(x) /\ outcome[x] = "open" => Holds(x)

\* A journaled fate is final, and only a signed transaction has one.
FateFinal == \A x \in Keys : outcome[x] # "open" => Signed(x) /\ x \in finals

\* What the run may rely on at its place.
PlaceInv ==
  /\ pc = "claimed" => Holds(step) /\ ~Signed(step) /\ outcome[step] = "open"
  /\ pc \in {"replay", "sent"} => Signed(step) /\ outcome[step] = "open"
  /\ pc = "settled" => outcome[step] # "open"

\* Nonces and blocks: the finalized chain is a prefix of the latest one, which is
\* at most one transaction of the signer ahead.
ChainInv ==
  /\ finals \subseteq mined /\ finalNext <= next
  /\ mempool \cup mined \subseteq {x \in Keys : Signed(x)}
  /\ \A x \in finals : raw[x] < finalNext
  /\ mined = finals => next = finalNext
  /\ \A x \in Keys : Signed(x) /\ x \notin finals =>
       raw[x] = finalNext /\ next = (IF x \in mined THEN finalNext + 1 ELSE finalNext)
  /\ \A x \in Keys : finalEffect[x] # None => effect[x] = finalEffect[x]

\* Step x is carried out for good and leaves no transaction behind.
Walked(x) == CarriedOut(finalEffect[x]) /\ (Signed(x) => x \in finals)

WalkInv ==
  /\ \A x \in Keys : pc # "idle" /\ x[1] = step[1] /\ x[2] < step[2] => Walked(x)
  /\ \A x \in Keys : x[1] \in done => Walked(x)
  /\ pc # "idle" => step[1] \notin done
  /\ \A x \in Keys : x \in adopted \/ outcome[x] # "open" => CarriedOut(finalEffect[x])

IInv ==
  /\ TypeOK /\ RunTyped /\ LaneHeld /\ FateFinal /\ PlaceInv
  /\ ChainInv /\ WalkInv /\ NonceExclusive

\* The steps of a publication up to one of them are that one and the ones before it.
LEMMA Preceding ==
  ASSUME NEW x \in Keys, NEW y \in Keys, x[1] = y[1], x[2] < y[2] + 1
  PROVE  x = y \/ x[2] < y[2]
<1>1. x = <<x[1], x[2]>> /\ y = <<y[1], y[2]>>
  BY DEF Keys
<1>2. x[2] \in Nat /\ y[2] \in Nat
  BY LaneAssumption DEF Keys
<1>3. x[2] = y[2] \/ x[2] < y[2]
  BY <1>2
<1>. QED
  BY <1>1, <1>3

\* A reservation names its step.
LEMMA ReservationNames ==
  ASSUME TypeOK, NEW x \in Keys
  PROVE  /\ Reservation(x) \in [step : Keys, value : Nat]
         /\ Reservation(x) # None /\ Reservation(x).step = x
<1>1. Reservation(x) \in [step : Keys, value : Nat]
  BY DEF Reservation, TypeOK, Keys
<1>. QED
  BY <1>1, LaneAssumption DEF Reservation

\* The variables keep their types.
LEMMA TypeOKStep ==
  ASSUME IInv, [Next]_vars
  PROVE  TypeOK'
<1> USE LaneAssumption DEF IInv, vars, run, journal, chain, faults,
      Goto, Exit, Following, Keys, TypeOK, RunTyped, Places, Signed,
      LaneWithout, Owned, Succeeds, Reached
<1>0. \A x \in Keys : /\ Reservation(x) \in [step : Keys, value : Nat]
                     /\ Reservation(x) # None /\ Reservation(x).step = x
  BY ReservationNames
<1>1. CASE \E j \in Journals : Start(j)  BY <1>1 DEF Start
<1>2. CASE SkipJournaled  BY <1>0, <1>2 DEF SkipJournaled
<1>3. CASE Adopt  BY <1>3 DEF Adopt
<1>4. CASE Claim  BY <1>0, <1>4 DEF Claim
<1>5. CASE Reclaim  BY <1>0, <1>5 DEF Reclaim
<1>6. CASE Sign  BY <1>6 DEF Sign
<1>7. CASE SignFails  BY <1>0, <1>7 DEF SignFails
<1>8. CASE Publish  BY <1>8 DEF Publish
<1>9. CASE Confirm  BY <1>9 DEF Confirm
<1>10. CASE Supersede  BY <1>10 DEF Supersede
<1>11. CASE Release  BY <1>0, <1>11 DEF Release
<1>12. CASE Finish  BY <1>12 DEF Finish
<1>13. CASE GiveUp  BY <1>13 DEF GiveUp
<1>14. CASE Crash  BY <1>14 DEF Crash
<1>15. CASE \E x \in Keys : Mine(x)  BY <1>15 DEF Mine
<1>16. CASE \E x \in Keys : Rival(x)  BY <1>16 DEF Rival
<1>17. CASE \E x \in Keys : Drop(x)  BY <1>17 DEF Drop
<1>18. CASE Finalize  BY <1>18 DEF Finalize
<1>19. CASE Reorg  BY <1>19 DEF Reorg
<1>20. CASE \E x \in Keys : Obstruct(x)  BY <1>20 DEF Obstruct
<1>21. CASE BondMoves  BY <1>21 DEF BondMoves
<1>22. CASE UNCHANGED vars  BY <1>22
<1> QED
  BY Zenon, <1>1, <1>2, <1>3, <1>4, <1>5, <1>6, <1>7, <1>8, <1>9, <1>10,
     <1>11, <1>12, <1>13, <1>14, <1>15, <1>16, <1>17, <1>18, <1>19, <1>20, <1>21, <1>22 DEF Next

\* A run stays within its publication.
LEMMA RunTypedStep ==
  ASSUME IInv, [Next]_vars
  PROVE  RunTyped'
<1> USE LaneAssumption DEF IInv, vars, run, journal, chain, faults,
      Goto, Exit, Following, Keys, TypeOK, RunTyped, Places, Signed
<1>1. CASE \E j \in Journals : Start(j)  BY <1>1 DEF Start
<1>2. CASE SkipJournaled  BY <1>2 DEF SkipJournaled
<1>3. CASE Adopt  BY <1>3 DEF Adopt
<1>4. CASE Claim  BY <1>4 DEF Claim
<1>5. CASE Reclaim  BY <1>5 DEF Reclaim
<1>6. CASE Sign  BY <1>6 DEF Sign
<1>7. CASE SignFails  BY <1>7 DEF SignFails
<1>8. CASE Publish  BY <1>8 DEF Publish
<1>9. CASE Confirm  BY <1>9 DEF Confirm
<1>10. CASE Supersede  BY <1>10 DEF Supersede
<1>11. CASE Release  BY <1>11 DEF Release
<1>12. CASE Finish  BY <1>12 DEF Finish
<1>13. CASE GiveUp  BY <1>13 DEF GiveUp
<1>14. CASE Crash  BY <1>14 DEF Crash
<1>15. CASE \E x \in Keys : Mine(x)  BY <1>15 DEF Mine
<1>16. CASE \E x \in Keys : Rival(x)  BY <1>16 DEF Rival
<1>17. CASE \E x \in Keys : Drop(x)  BY <1>17 DEF Drop
<1>18. CASE Finalize  BY <1>18 DEF Finalize
<1>19. CASE Reorg  BY <1>19 DEF Reorg
<1>20. CASE \E x \in Keys : Obstruct(x)  BY <1>20 DEF Obstruct
<1>21. CASE BondMoves  BY <1>21 DEF BondMoves
<1>22. CASE UNCHANGED vars  BY <1>22
<1> QED
  BY Zenon, <1>1, <1>2, <1>3, <1>4, <1>5, <1>6, <1>7, <1>8, <1>9, <1>10,
     <1>11, <1>12, <1>13, <1>14, <1>15, <1>16, <1>17, <1>18, <1>19, <1>20, <1>21, <1>22 DEF Next

\* A transaction of unknown fate keeps the lane: claim refuses a foreign record, and
\* release and release_if_exact drop only the record of a step whose fate is journaled
\* or which was never signed.
LEMMA LaneHeldStep ==
  ASSUME IInv, [Next]_vars
  PROVE  LaneHeld'
<1> USE LaneAssumption DEF IInv, vars, run, journal, chain, faults,
      Goto, Exit, Following, Keys, TypeOK, RunTyped, Places, Signed,
      LaneHeld, PlaceInv, FateFinal, LaneWithout, Owned, Holds, Claimable, Journaled
<1>0. \A x \in Keys : /\ Reservation(x) \in [step : Keys, value : Nat]
                     /\ Reservation(x) # None /\ Reservation(x).step = x
  BY ReservationNames
<1>1. CASE \E j \in Journals : Start(j)  BY <1>1 DEF Start
<1>2. CASE SkipJournaled  BY <1>0, <1>2 DEF SkipJournaled
<1>3. CASE Adopt  BY <1>3 DEF Adopt
<1>4. CASE Claim  BY <1>0, <1>4 DEF Claim
<1>5. CASE Reclaim  BY <1>0, <1>5 DEF Reclaim
<1>6. CASE Sign  BY <1>6 DEF Sign
<1>7. CASE SignFails  BY <1>0, <1>7 DEF SignFails
<1>8. CASE Publish  BY <1>8 DEF Publish
<1>9. CASE Confirm  BY <1>9 DEF Confirm
<1>10. CASE Supersede  BY <1>10 DEF Supersede
<1>11. CASE Release  BY <1>0, <1>11 DEF Release
<1>12. CASE Finish  BY <1>12 DEF Finish
<1>13. CASE GiveUp  BY <1>13 DEF GiveUp
<1>14. CASE Crash  BY <1>14 DEF Crash
<1>15. CASE \E x \in Keys : Mine(x)  BY <1>15 DEF Mine
<1>16. CASE \E x \in Keys : Rival(x)  BY <1>16 DEF Rival
<1>17. CASE \E x \in Keys : Drop(x)  BY <1>17 DEF Drop
<1>18. CASE Finalize  BY <1>18 DEF Finalize
<1>19. CASE Reorg  BY <1>19 DEF Reorg
<1>20. CASE \E x \in Keys : Obstruct(x)  BY <1>20 DEF Obstruct
<1>21. CASE BondMoves  BY <1>21 DEF BondMoves
<1>22. CASE UNCHANGED vars  BY <1>22
<1> QED
  BY Zenon, <1>1, <1>2, <1>3, <1>4, <1>5, <1>6, <1>7, <1>8, <1>9, <1>10,
     <1>11, <1>12, <1>13, <1>14, <1>15, <1>16, <1>17, <1>18, <1>19, <1>20, <1>21, <1>22 DEF Next

\* A fate is journaled from a finalized receipt only.
LEMMA FateFinalStep ==
  ASSUME IInv, [Next]_vars
  PROVE  FateFinal'
<1> USE LaneAssumption DEF IInv, vars, run, journal, chain, faults,
      Goto, Exit, Following, Keys, TypeOK, RunTyped, Places, Signed,
      FateFinal, PlaceInv, ChainInv, FinalReceipt
<1>1. CASE \E j \in Journals : Start(j)  BY <1>1 DEF Start
<1>2. CASE SkipJournaled  BY <1>2 DEF SkipJournaled
<1>3. CASE Adopt  BY <1>3 DEF Adopt
<1>4. CASE Claim  BY <1>4 DEF Claim
<1>5. CASE Reclaim  BY <1>5 DEF Reclaim
<1>6. CASE Sign  BY <1>6 DEF Sign
<1>7. CASE SignFails  BY <1>7 DEF SignFails
<1>8. CASE Publish  BY <1>8 DEF Publish
<1>9. CASE Confirm  BY <1>9 DEF Confirm
<1>10. CASE Supersede  BY <1>10 DEF Supersede
<1>11. CASE Release  BY <1>11 DEF Release
<1>12. CASE Finish  BY <1>12 DEF Finish
<1>13. CASE GiveUp  BY <1>13 DEF GiveUp
<1>14. CASE Crash  BY <1>14 DEF Crash
<1>15. CASE \E x \in Keys : Mine(x)  BY <1>15 DEF Mine
<1>16. CASE \E x \in Keys : Rival(x)  BY <1>16 DEF Rival
<1>17. CASE \E x \in Keys : Drop(x)  BY <1>17 DEF Drop
<1>18. CASE Finalize  BY <1>18 DEF Finalize
<1>19. CASE Reorg  BY <1>19 DEF Reorg
<1>20. CASE \E x \in Keys : Obstruct(x)  BY <1>20 DEF Obstruct
<1>21. CASE BondMoves  BY <1>21 DEF BondMoves
<1>22. CASE UNCHANGED vars  BY <1>22
<1> QED
  BY Zenon, <1>1, <1>2, <1>3, <1>4, <1>5, <1>6, <1>7, <1>8, <1>9, <1>10,
     <1>11, <1>12, <1>13, <1>14, <1>15, <1>16, <1>17, <1>18, <1>19, <1>20, <1>21, <1>22 DEF Next

\* What a run relies on between two of its steps is durable, and its own.
LEMMA PlaceInvStep ==
  ASSUME IInv, [Next]_vars
  PROVE  PlaceInv'
<1> USE LaneAssumption DEF IInv, vars, run, journal, chain, faults,
      Goto, Exit, Following, Keys, TypeOK, RunTyped, Places, Signed,
      PlaceInv, LaneHeld, FateFinal, LaneWithout, Owned, Holds, Claimable, Journaled, NothingToAdopt
<1>0. \A x \in Keys : /\ Reservation(x) \in [step : Keys, value : Nat]
                     /\ Reservation(x) # None /\ Reservation(x).step = x
  BY ReservationNames
<1>1. CASE \E j \in Journals : Start(j)  BY <1>1 DEF Start
<1>2. CASE SkipJournaled  BY <1>0, <1>2 DEF SkipJournaled
<1>3. CASE Adopt  BY <1>3 DEF Adopt
<1>4. CASE Claim  BY <1>0, <1>4 DEF Claim
<1>5. CASE Reclaim  BY <1>0, <1>5 DEF Reclaim
<1>6. CASE Sign  BY <1>6 DEF Sign
<1>7. CASE SignFails  BY <1>0, <1>7 DEF SignFails
<1>8. CASE Publish  BY <1>8 DEF Publish
<1>9. CASE Confirm  BY <1>9 DEF Confirm
<1>10. CASE Supersede  BY <1>10 DEF Supersede
<1>11. CASE Release  BY <1>0, <1>11 DEF Release
<1>12. CASE Finish  BY <1>12 DEF Finish
<1>13. CASE GiveUp  BY <1>13 DEF GiveUp
<1>14. CASE Crash  BY <1>14 DEF Crash
<1>15. CASE \E x \in Keys : Mine(x)  BY <1>15 DEF Mine
<1>16. CASE \E x \in Keys : Rival(x)  BY <1>16 DEF Rival
<1>17. CASE \E x \in Keys : Drop(x)  BY <1>17 DEF Drop
<1>18. CASE Finalize  BY <1>18 DEF Finalize
<1>19. CASE Reorg  BY <1>19 DEF Reorg
<1>20. CASE \E x \in Keys : Obstruct(x)  BY <1>20 DEF Obstruct
<1>21. CASE BondMoves  BY <1>21 DEF BondMoves
<1>22. CASE UNCHANGED vars  BY <1>22
<1> QED
  BY Zenon, <1>1, <1>2, <1>3, <1>4, <1>5, <1>6, <1>7, <1>8, <1>9, <1>10,
     <1>11, <1>12, <1>13, <1>14, <1>15, <1>16, <1>17, <1>18, <1>19, <1>20, <1>21, <1>22 DEF Next

\* Whoever holds the lane before signing finds no transaction of unknown fate.
LEMMA NothingOpen ==
  ASSUME IInv, pc = "claimed"
  PROVE  /\ \A x \in Keys : Signed(x) => x \in finals
         /\ mined = finals /\ next = finalNext
<1>1. step \in Keys /\ Holds(step) /\ ~Signed(step)
  BY DEF IInv, RunTyped, PlaceInv
<1>2. \A x \in Keys : Signed(x) => x \in finals
  BY <1>1 DEF IInv, LaneHeld, FateFinal, Holds
<1>3. mined = finals
  BY Zenon, <1>2 DEF IInv, ChainInv, TypeOK
<1>. QED
  BY <1>2, <1>3 DEF IInv, ChainInv

\* The signer is never more than one transaction ahead of the finalized chain, and
\* that transaction has the first nonce after it.
LEMMA ChainInvStep ==
  ASSUME IInv, [Next]_vars
  PROVE  ChainInv'
<1> USE LaneAssumption DEF ChainInv, Signed
<1>1. TypeOK /\ ChainInv
  BY DEF IInv
<1>2. CASE Sign
  <2>1. (\A x \in Keys : Signed(x) => x \in finals) /\ mined = finals /\ next = finalNext
    BY <1>2, NothingOpen DEF Sign
  <2>2. step \in Keys /\ raw' = [raw EXCEPT ![step] = next] /\ ~Signed(step)
    BY <1>2 DEF Sign, IInv, PlaceInv, RunTyped
  <2>3. UNCHANGED <<mempool, mined, finals, next, finalNext, effect, finalEffect>>
    BY <1>2 DEF Sign, chain
  <2>. QED
    BY <1>1, <2>1, <2>2, <2>3 DEF TypeOK
<1>3. CASE Publish
  <2>1. step \in Keys /\ Signed(step)
    BY <1>3 DEF Publish, IInv, PlaceInv, RunTyped
  <2>2. mempool' \subseteq mempool \cup {step}
        /\ UNCHANGED <<raw, mined, finals, next, finalNext, effect, finalEffect>>
    BY <1>3 DEF Publish, journal
  <2>. QED
    BY <1>1, <2>1, <2>2
<1>4. CASE \E x \in Keys : Mine(x)
  <2>1. PICK x \in Keys : Mine(x)
    BY <1>4
  <2>2. Signed(x) /\ x \notin finals /\ x \notin mined /\ next = finalNext /\ raw[x] = finalNext
    BY <1>1, <2>1 DEF Mine, TypeOK
  <2>3. \A y \in Keys : Signed(y) /\ y \notin finals => y = x
    BY <1>1, <2>2 DEF IInv, NonceExclusive
  <2>4. finalEffect' = finalEffect /\ \A y \in Keys : effect[y] # None => effect'[y] = effect[y]
    BY <1>1, <2>1 DEF Mine, TypeOK, Succeeds
  <2>5. mined' = mined \cup {x} /\ next' = next + 1 /\ mempool' = mempool \ {x}
        /\ finals' = finals /\ finalNext' = finalNext /\ raw' = raw
    BY <2>1 DEF Mine, journal
  <2>. QED
    BY <1>1, <2>2, <2>3, <2>4, <2>5 DEF TypeOK
<1>5. CASE \E x \in Keys : Rival(x) \/ Obstruct(x) \/ Drop(x)
  <2>1. PICK x \in Keys : Rival(x) \/ Obstruct(x) \/ Drop(x)
    BY <1>5
  <2>2. mempool' \subseteq mempool /\ UNCHANGED <<raw, mined, finals, next, finalNext, finalEffect>>
    BY <2>1 DEF Rival, Obstruct, Drop, journal
  <2>3. effect[x] = None \/ effect' = effect
    BY Zenon, <2>1 DEF Rival, Obstruct, Drop
  <2>4. effect' = effect \/ effect' = [effect EXCEPT ![x] = "rival"]
                         \/ effect' = [effect EXCEPT ![x] = "foreign"]
    BY <2>1 DEF Rival, Obstruct, Drop
  <2>5. \A y \in Keys : effect[y] # None => effect'[y] = effect[y]
    BY <1>1, <2>3, <2>4 DEF TypeOK
  <2>. QED
    BY <1>1, <2>2, <2>5
<1>6. CASE Finalize
  <2>1. /\ finals' = mined /\ finalNext' = next /\ finalEffect' = effect
        /\ UNCHANGED <<raw, mempool, mined, next, effect>>
    BY Zenon, <1>6 DEF Finalize, journal
  <2>2. \A x \in mined : raw[x] \in Nat /\ raw[x] < next
    BY <1>1 DEF TypeOK
  <2>3. \A x \in Keys : Signed(x) /\ x \notin mined => raw[x] = next
    BY <1>1 DEF TypeOK
  <2>. QED
    BY <1>1, <2>1, <2>2, <2>3 DEF TypeOK
<1>7. CASE Reorg
  <2>1. /\ mempool' = mempool \cup (mined \ finals) /\ mined' = finals /\ next' = finalNext
        /\ effect' = finalEffect /\ UNCHANGED <<raw, finals, finalNext, finalEffect>>
    BY Zenon, <1>7 DEF Reorg, journal
  <2>. QED
    BY <1>1, <2>1 DEF TypeOK
<1>8. CASE UNCHANGED <<raw, mempool, mined, finals, next, finalNext, effect, finalEffect>>
  BY Zenon, <1>1, <1>8
<1>. QED
  BY Zenon, <1>2, <1>3, <1>4, <1>5, <1>6, <1>7, <1>8 DEF Next, vars, journal, chain, Start, SkipJournaled,
     Adopt, Claim, Reclaim, SignFails, Confirm, Supersede, Release, Finish, GiveUp, Crash, BondMoves

\* A run passes a step only when it is carried out for good.
LEMMA WalkInvStep ==
  ASSUME IInv, [Next]_vars
  PROVE  WalkInv'
<1> USE LaneAssumption DEF WalkInv, Walked, Signed
<1>1. TypeOK /\ RunTyped /\ PlaceInv /\ ChainInv /\ FateFinal /\ WalkInv
  BY DEF IInv
<1>2. CASE \E j \in Journals : Start(j)
  <2>1. PICK j \in Journals : Start(j)
    BY <1>2
  <2>2. step' = <<j, 1>> /\ j \notin done
        /\ UNCHANGED <<raw, outcome, adopted, done, finals, finalEffect>>
    BY <2>1 DEF Start, Goto, chain
  <2>3. \A x \in Keys : ~(x[2] < step'[2])
    BY <2>2 DEF Keys
  <2>. QED
    BY <1>1, <2>2, <2>3
<1>3. CASE SkipJournaled \/ Release
  <2>1. /\ pc # "idle" /\ step \in Keys /\ step' = Following(step)
        /\ UNCHANGED <<raw, outcome, adopted, done, finals, finalEffect>>
    BY <1>1, <1>3 DEF SkipJournaled, Release, Goto, journal, chain, RunTyped
  <2>2. Walked(step)
    BY Zenon, <1>1, <1>3, <2>1 DEF SkipJournaled, Release, Journaled, PlaceInv, FateFinal
  <2>3. \A x \in Keys : x[1] = step[1] /\ x[2] < step[2] + 1 => x = step \/ x[2] < step[2]
    BY <2>1, Preceding
  <2>4. step'[1] = step[1] /\ step'[2] = step[2] + 1
    BY <2>1 DEF Following
  <2>. QED
    BY <1>1, <2>1, <2>2, <2>3, <2>4
<1>4. CASE Adopt
  BY Zenon, <1>1, <1>4 DEF Adopt, FinalWinner, CarriedOut, run, chain
<1>5. CASE Sign
  <2>1. step \in Keys /\ pc # "idle" /\ step' = step /\ ~Signed(step) /\ raw' = [raw EXCEPT ![step] = next]
        /\ UNCHANGED <<outcome, adopted, done, finals, finalEffect>>
    BY <1>1, <1>5 DEF Sign, Goto, chain, RunTyped, PlaceInv
  <2>2. \A x \in Keys : x # step => raw'[x] = raw[x]
    BY <1>1, <2>1 DEF TypeOK
  <2>3. \A x \in Keys : x[1] \in done \/ (x[1] = step[1] /\ x[2] < step[2]) => x # step
    BY <1>1, <2>1 DEF Keys
  <2>. QED
    BY <1>1, <2>1, <2>2, <2>3
<1>6. CASE Confirm \/ Supersede
  <2>1. /\ step \in Keys /\ CarriedOut(finalEffect[step])
        /\ \A x \in Keys : x # step => outcome'[x] = outcome[x]
        /\ pc # "idle" /\ step' = step /\ UNCHANGED <<raw, adopted, done, finals, finalEffect>>
    BY <1>1, <1>6 DEF Confirm, Supersede, Goto, chain, RunTyped, TypeOK, CarriedOut
  <2>. QED
    BY <1>1, <2>1
<1>7. CASE Finish
  <2>1. /\ pc = "step" /\ step[2] = Steps + 1 /\ done' = done \cup {step[1]} /\ pc' = "idle"
        /\ UNCHANGED <<raw, outcome, adopted, finals, finalEffect>>
    BY Zenon, <1>7 DEF Finish, Exit, chain
  <2>2. \A x \in Keys : x[2] < Steps + 1
    BY DEF Keys
  <2>. QED
    BY Zenon, <1>1, <2>1, <2>2
<1>8. CASE Finalize
  <2>1. finals' = mined /\ finalEffect' = effect /\ UNCHANGED <<raw, outcome, adopted, done, pc, step>>
    BY Zenon, <1>8 DEF Finalize, journal, run
  <2>2. finals \subseteq mined /\ \A x \in Keys : finalEffect[x] # None => effect[x] = finalEffect[x]
    BY Zenon, <1>1 DEF ChainInv
  <2>3. ~CarriedOut(None)
    BY DEF CarriedOut
  <2>4. \A x \in Keys : CarriedOut(finalEffect[x]) => finalEffect[x] # None
    BY Zenon, <2>3
  <2>5. \A x \in Keys : CarriedOut(finalEffect[x]) => CarriedOut(finalEffect'[x])
    BY Zenon, <2>1, <2>2, <2>4
  <2>6. \A x \in Keys : Walked(x) => Walked(x)'
    BY Zenon, <2>1, <2>2, <2>5
  <2>7. WalkInv
    BY Zenon, <1>1
  <2> HIDE DEF Walked
  <2>. QED
    BY Zenon, <2>1, <2>5, <2>6, <2>7
<1>9. CASE pc' = "idle" /\ UNCHANGED <<raw, outcome, adopted, done, finals, finalEffect>>
  BY <1>1, <1>9
<1>10. CASE pc # "idle" /\ step' = step /\ UNCHANGED <<raw, outcome, adopted, done, finals, finalEffect>>
  BY <1>1, <1>10
<1>11. CASE UNCHANGED <<raw, outcome, adopted, done, finals, finalEffect, pc, step>>
  BY <1>1, <1>11
<1>. QED
  BY Zenon, <1>2, <1>3, <1>4, <1>5, <1>6, <1>7, <1>8, <1>9, <1>10, <1>11 DEF Next, vars, journal, chain, run,
     Goto, Exit, Claim, Reclaim, SignFails, Publish, GiveUp, Crash, Mine, Rival, Obstruct, Drop,
     Reorg, BondMoves

\* A new transaction takes a nonce no journaled one has.
LEMMA NonceExclusiveStep ==
  ASSUME IInv, [Next]_vars
  PROVE  NonceExclusive'
<1>1. CASE Sign
  <2>1. \A x \in Keys : Signed(x) => x \in finals /\ raw[x] # next
    <3>1. \A x \in finals : raw[x] < finalNext
      BY DEF IInv, ChainInv
    <3>2. next = finalNext /\ next \in Nat /\ \A x \in Keys : Signed(x) => x \in finals
      BY Zenon, <1>1, NothingOpen DEF Sign, IInv, TypeOK
    <3>. QED
      BY <3>1, <3>2
  <2>2. step \in Keys /\ ~Signed(step) /\ raw' = [raw EXCEPT ![step] = next] /\ next \in Nat
    BY <1>1 DEF Sign, IInv, RunTyped, PlaceInv, TypeOK
  <2>3. \A x \in Keys : raw'[x] = IF x = step THEN next ELSE raw[x]
    BY <2>2 DEF IInv, TypeOK
  <2>. QED
    BY <2>1, <2>2, <2>3, LaneAssumption DEF NonceExclusive, IInv, Signed
<1>2. CASE raw' = raw
  BY <1>2 DEF NonceExclusive, IInv, Signed
<1>. QED
  BY Zenon, <1>1, <1>2 DEF Next, vars, journal, Start, SkipJournaled, Adopt, Claim, Reclaim, SignFails,
     Publish, Confirm, Supersede, Release, Finish, GiveUp, Crash, Mine, Rival, Obstruct, Drop,
     Finalize, Reorg, BondMoves

-----------------------------------------------------------------------------
\* The inductive invariant holds in every state of the publishers.
THEOREM LaneInvariance == Spec => []IInv
<1>1. Init => IInv
  <2> SUFFICES ASSUME Init PROVE IInv
    OBVIOUS
  <2>1. TypeOK /\ RunTyped
    BY LaneAssumption DEF Init, TypeOK, RunTyped, Places, Keys
  <2>2. \A x \in Keys : ~Signed(x) /\ outcome[x] = "open" /\ finalEffect[x] = None
    BY DEF Init, Signed
  <2>3. pc = "idle" /\ finals = {} /\ mined = {} /\ mempool = {} /\ done = {} /\ adopted = {}
        /\ next = 0 /\ finalNext = 0
    BY DEF Init
  <2>4. LaneHeld /\ FateFinal /\ NonceExclusive
    BY <2>2 DEF LaneHeld, FateFinal, NonceExclusive
  <2>5. PlaceInv
    BY <2>3 DEF PlaceInv
  <2>6. ChainInv
    BY <2>2, <2>3 DEF ChainInv
  <2>7. WalkInv
    BY <2>2, <2>3 DEF WalkInv
  <2>. QED
    BY <2>1, <2>4, <2>5, <2>6, <2>7 DEF IInv
<1>2. IInv /\ [Next]_vars => IInv'
  <2> SUFFICES ASSUME IInv, [Next]_vars PROVE IInv'
    OBVIOUS
  <2>. QED
    BY TypeOKStep, RunTypedStep, LaneHeldStep, FateFinalStep, PlaceInvStep, ChainInvStep,
       WalkInvStep, NonceExclusiveStep DEF IInv
<1>. QED
  BY <1>1, <1>2, PTL DEF Spec

\* No two journaled transactions share a nonce, for any number of publications,
\* crashes, reorganisations and drops (sign_after_reservation, claim, release).
THEOREM NoncesExclusive == Spec => []NonceExclusive
<1>1. IInv => NonceExclusive
  BY DEF IInv
<1>. QED
  BY LaneInvariance, <1>1, PTL

\* publish_exact_raw never finds the nonce of a journaled transaction of unknown fate
\* taken by another one or still ahead of the account.
THEOREM ReplayAlwaysPossible == Spec => []ReplayPossible
<1>1. IInv => ReplayPossible
  BY LaneAssumption DEF IInv, ReplayPossible, ChainInv, TypeOK, Signed
<1>. QED
  BY LaneInvariance, <1>1, PTL

\* A publisher that has returned its result leaves only finalized evidence and spent
\* nonces behind.
THEOREM CompletionIsFinal == Spec => []CompletedIsFinal
<1>1. IInv => CompletedIsFinal
  BY Zenon DEF IInv, CompletedIsFinal, WalkInv, Walked
<1>. QED
  BY LaneInvariance, <1>1, PTL
===============================================================================
