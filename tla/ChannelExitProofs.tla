-------------------------- MODULE ChannelExitProofs --------------------------
(***************************************************************************)
(* The exit of a channel (module ChannelExit), for every set of channels,  *)
(* batches, members and signed states: the journal tracks the chain and    *)
(* can always be walked back, an admitted close stays fundable and settles *)
(* exactly the posted sends, and Manager, materializer and rollup together *)
(* implement the close game.                                               *)
(*                                                                         *)
(* The invariant says of every pointer of the journal, current or saved,   *)
(* what JournalTracksChain says of the current ones: with only the blocks  *)
(* below it in sight, it is where lastPostedBlock would stand (PointsAt).  *)
(* A rollback to height k then leaves pointers that can be written down at *)
(* once (LastAt), and the walk of the contract computes just these.        *)
(***************************************************************************)
EXTENDS ChannelExit, WellFoundedInduction, TLAPS

Block == Channels \cup {Unsigned}

TypeInv ==
  /\ blocks \in Seq(Block)
  /\ finalizedHeight \in 0 .. Len(blocks)
  /\ boundaries \subseteq 0 .. Len(blocks)
  /\ managerOfChannel \subseteq Channels
  /\ lastPostedBlock \in [Channels -> Nat]
  /\ DOMAIN postedChannel \subseteq 1 .. Len(blocks)
  /\ DOMAIN previousChannelBlock = DOMAIN postedChannel
  /\ backingProcessedSend \in [0 .. MaxSettled -> Nat]
  /\ closeRequestGeneration \in Nat

\* p is a right pointer of channel c for whoever sees only the blocks below k.
PointsAt(chain, final, c, p, k) ==
  /\ p \in Nat /\ p < k
  /\ \A h \in 1 .. Len(chain) : h < k /\ chain[h] = c => h <= p
  /\ \/ p <= final
     \/ chain[p] = c

\* The journal holds signed blocks of bound channels with right pointers, and
\* every such block above the finalized height is in it.
JournalInv ==
  /\ \A h \in DOMAIN postedChannel :
       /\ postedChannel[h] = blocks[h] /\ blocks[h] \in managerOfChannel
       /\ PointsAt(blocks, finalizedHeight, blocks[h], previousChannelBlock[h], h)
  /\ \A h \in 1 .. Len(blocks) :
       blocks[h] \in managerOfChannel /\ h > finalizedHeight => h \in DOMAIN postedChannel
  /\ \A c \in managerOfChannel :
       PointsAt(blocks, finalizedHeight, c, lastPostedBlock[c], Len(blocks) + 1)

\* A receipt has processed the finalized own sends it is keyed on.
ReceiptsInv ==
  \A n \in 0 .. MaxSettled : backingProcessedSend[n] # 0 =>
    /\ backingProcessedSend[n] - 1 <= finalizedHeight
    /\ SendsIn(blocks, backingProcessedSend[n] - 1) = n

\* The Manager closes only a bound channel that it has frozen.
ManagerInv ==
  /\ channelStatus \in {"Active", "ClosePending", "Closed"}
  /\ channelStatus # "Active" => Channel \in managerOfChannel /\ frozenGeneration # 0
  /\ pendingClose.active => channelStatus = "ClosePending" /\ pendingClose.state \in SignedStates
  /\ finalized.done => channelStatus = "Closed" /\ finalized.state \in SignedStates
  /\ channelStatus = "Closed" => finalized.done

IInv == TypeInv /\ JournalInv /\ ReceiptsInv /\ ManagerInv /\ AdmittedCloseStaysFundable

------------------------------------------------------------------------------
(* Least and greatest heights.                                               *)

LEMMA Least ==
  ASSUME NEW S, S \subseteq Nat, S # {}
  PROVE  Min(S) \in S /\ \A y \in S : Min(S) <= y
<1> DEFINE R == {ss \in Nat \X Nat : ss[1] < ss[2]}
<1>1. IsWellFoundedOn(R, Nat)
  BY NatLessThanWellFounded DEF OpToRel
<1>2. PICK x \in S : \A y \in S : ~ (<<y, x>> \in R)
  BY Zenon, <1>1, WFMin
<1>3. ASSUME NEW y \in S PROVE x <= y
  <2>1. <<y, x>> \in Nat \X Nat /\ <<y, x>>[1] = y /\ <<y, x>>[2] = x
    OBVIOUS
  <2>2. ~ (y < x)
    BY Zenon, <1>2, <2>1
  <2> QED BY <2>2
<1> QED BY Zenon, <1>3 DEF Min

LEMMA Greatest ==
  ASSUME NEW n \in Nat, NEW S, S \subseteq 0 .. n, S # {}
  PROVE  Max(S) \in S /\ \A y \in S : y <= Max(S)
<1> DEFINE T == {n - x : x \in S}
<1>1. T \subseteq Nat /\ T # {}
  <2>1. \A x \in S : n - x \in Nat
    OBVIOUS
  <2> QED BY Zenon, <2>1
<1>2. PICK m \in T : \A y \in T : m <= y
  <2> HIDE DEF T
  <2> QED BY Zenon, <1>1, Least
<1>3. PICK x \in S : m = n - x
  BY <1>2
<1>4. \A y \in S : y <= x
  BY <1>2, <1>3
<1> QED BY Zenon, <1>4 DEF Max

LEMMA SettledType ==
  MaxSettled \in Nat /\ \A s \in SignedStates : SettledBy[s] \in 0 .. MaxSettled
<1>1. PICK s \in SignedStates : \A t \in SignedStates : SettledBy[t] <= SettledBy[s]
  BY SettledByAssumption
<1>2. /\ MaxSettled \in {SettledBy[t] : t \in SignedStates}
      /\ \A t \in SignedStates : SettledBy[t] <= MaxSettled
  BY <1>1 DEF MaxSettled
<1> QED BY <1>2, SettledByAssumption

------------------------------------------------------------------------------
(* Walking the journal back.                                                 *)

\* The journaled heights of c above k, and the pointers once they are gone.
Above(c, k) == {j \in DOMAIN postedChannel : j > k /\ postedChannel[j] = c}
LastAt(k) ==
  [c \in Channels |-> IF Above(c, k) = {} THEN lastPostedBlock[c]
                     ELSE previousChannelBlock[Min(Above(c, k))]]

LEMMA AboveLeast ==
  ASSUME TypeInv, NEW c, NEW k, Above(c, k) # {}
  PROVE  /\ Min(Above(c, k)) \in DOMAIN postedChannel /\ Min(Above(c, k)) > k
         /\ postedChannel[Min(Above(c, k))] = c
         /\ \A j \in Above(c, k) : Min(Above(c, k)) <= j
<1>1. Above(c, k) \subseteq Nat
  BY DEF Above, TypeInv
<1>2. Min(Above(c, k)) \in Above(c, k) /\ \A j \in Above(c, k) : Min(Above(c, k)) <= j
  BY Zenon, <1>1, Least
<1> QED BY Zenon, <1>2 DEF Above

\* Above the finalized height these pointers are right for the shorter chain.
LEMMA LastAtPoints ==
  ASSUME TypeInv, JournalInv, NEW k \in finalizedHeight .. Len(blocks),
         NEW c \in managerOfChannel
  PROVE  PointsAt(blocks, finalizedHeight, c, LastAt(k)[c], k + 1)
<1>1. PICK p : p = LastAt(k)[c]
  OBVIOUS
<1>2. /\ Len(blocks) \in Nat /\ k \in Nat /\ finalizedHeight \in Nat
      /\ finalizedHeight <= k /\ k <= Len(blocks) /\ c \in Channels
  BY DEF TypeInv
<1>3. PICK top \in Nat : /\ PointsAt(blocks, finalizedHeight, c, p, top)
                         /\ k < top /\ top <= Len(blocks) + 1
                         /\ \A j \in Above(c, k) : top <= j
  <2>1. CASE Above(c, k) = {}
    <3>1. p = lastPostedBlock[c]
      BY Zenon, <1>1, <1>2, <2>1 DEF LastAt
    <3>2. PointsAt(blocks, finalizedHeight, c, p, Len(blocks) + 1)
      BY Zenon, <3>1 DEF JournalInv
    <3> QED BY <1>2, <2>1, <3>2
  <2>2. CASE Above(c, k) # {}
    <3>1. PICK m : m = Min(Above(c, k))
      OBVIOUS
    <3>2. /\ m \in DOMAIN postedChannel /\ m > k /\ postedChannel[m] = c
          /\ \A j \in Above(c, k) : m <= j
      BY Zenon, <2>2, <3>1, AboveLeast
    <3>3. p = previousChannelBlock[m]
      BY Zenon, <1>1, <1>2, <2>2, <3>1 DEF LastAt
    <3>4. PointsAt(blocks, finalizedHeight, c, p, m)
      BY Zenon, <3>2, <3>3 DEF JournalInv
    <3>5. m \in 1 .. Len(blocks)
      BY Zenon, <3>2 DEF TypeInv
    <3>6. m \in Nat /\ m <= Len(blocks) + 1
      BY <1>2, <3>5
    <3> QED BY Zenon, <1>2, <3>2, <3>4, <3>6
  <2> QED BY Zenon, <2>1, <2>2
<1>4. /\ p \in Nat /\ p < top
      /\ \A h \in 1 .. Len(blocks) : h < top /\ blocks[h] = c => h <= p
      /\ p > finalizedHeight => blocks[p] = c
  BY <1>2, <1>3 DEF PointsAt
<1>5. ASSUME p > k PROVE FALSE
  <2>1. p \in 1 .. Len(blocks) /\ p > finalizedHeight
    BY <1>2, <1>3, <1>4, <1>5
  <2>2. blocks[p] = c
    BY Zenon, <1>4, <2>1
  <2>3. p \in DOMAIN postedChannel /\ postedChannel[p] = c
    BY Zenon, <2>1, <2>2 DEF JournalInv
  <2>4. p \in Above(c, k)
    BY Zenon, <1>5, <2>3 DEF Above
  <2>5. top <= p
    BY Zenon, <1>3, <2>4
  <2> QED BY <1>4, <2>5
<1>6. p < k + 1 /\ (p <= finalizedHeight \/ blocks[p] = c)
  BY <1>2, <1>4, <1>5
<1>7. \A h \in 1 .. Len(blocks) : h < k + 1 /\ blocks[h] = c => h <= p
  BY <1>2, <1>3, <1>4
<1>8. PointsAt(blocks, finalizedHeight, c, p, k + 1)
  BY Zenon, <1>4, <1>6, <1>7 DEF PointsAt
<1> QED BY Zenon, <1>1, <1>8

\* One step of the walk: rollbackPost of the height above k finds the pointer it
\* expects and leaves the pointers of height k.
LEMMA RollbackStep ==
  ASSUME TypeInv, JournalInv, NEW k \in finalizedHeight .. Len(blocks), k # Len(blocks)
  PROVE  RollbackPost([ok |-> TRUE, last |-> LastAt(k + 1)], k + 1)
           = [ok |-> TRUE, last |-> LastAt(k)]
<1>1. /\ k \in Nat /\ Len(blocks) \in Nat /\ k + 1 \in finalizedHeight .. Len(blocks)
      /\ k + 1 \in 1 .. Len(blocks) /\ k + 1 > finalizedHeight /\ k < k + 1
      /\ k + 1 < k + 1 + 1
  BY DEF TypeInv
<1>2. \A j \in DOMAIN postedChannel : j # k + 1 => (j > k <=> j > k + 1)
  BY <1>1 DEF TypeInv
<1>3. CASE k + 1 \notin DOMAIN postedChannel
  <2>1. \A c \in Channels : Above(c, k) = Above(c, k + 1)
    BY Zenon, <1>2, <1>3 DEF Above
  <2>2. LastAt(k) = LastAt(k + 1)
    BY Zenon, <2>1 DEF LastAt
  <2> QED BY Zenon, <1>3, <2>2 DEF RollbackPost
<1>4. CASE k + 1 \in DOMAIN postedChannel
  <2>1. PICK d : d = postedChannel[k + 1]
    OBVIOUS
  <2>2. /\ d = blocks[k + 1] /\ d \in managerOfChannel
    BY Zenon, <1>4, <2>1 DEF JournalInv
  <2>3. d \in Channels
    BY Zenon, <2>2 DEF TypeInv
  <2>4. PointsAt(blocks, finalizedHeight, d, LastAt(k + 1)[d], k + 1 + 1)
    BY Zenon, <1>1, <2>2, LastAtPoints
  <2>5. LastAt(k + 1)[d] = k + 1
    <3>1. PICK p : p = LastAt(k + 1)[d]
      OBVIOUS
    <3>2. p \in Nat /\ p < k + 1 + 1
      BY Zenon, <2>4, <3>1 DEF PointsAt
    <3>3. k + 1 <= p
      BY Zenon, <1>1, <2>2, <2>4, <3>1 DEF PointsAt
    <3>4. p = k + 1
      BY <1>1, <3>2, <3>3
    <3> QED BY Zenon, <3>1, <3>4
  <2>6. \A c \in Channels : c # d => Above(c, k) = Above(c, k + 1)
    BY Zenon, <1>2, <2>1 DEF Above
  <2>7. Above(d, k) # {} /\ Min(Above(d, k)) = k + 1
    <3>1. k + 1 \in Above(d, k)
      BY Zenon, <1>1, <1>4, <2>1 DEF Above
    <3>2. PICK m : m = Min(Above(d, k))
      OBVIOUS
    <3>3. m \in DOMAIN postedChannel /\ m > k /\ m <= k + 1
      BY Zenon, <3>1, <3>2, AboveLeast
    <3>4. m \in Nat
      BY <3>3 DEF TypeInv
    <3>5. m = k + 1
      BY <1>1, <3>3, <3>4
    <3> QED BY Zenon, <3>1, <3>2, <3>5
  <2>8. LastAt(k) = [LastAt(k + 1) EXCEPT ![d] = previousChannelBlock[k + 1]]
    BY Zenon, <2>3, <2>6, <2>7 DEF LastAt
  <2>9. (TRUE /\ LastAt(k + 1)[d] = k + 1) = TRUE
    BY Zenon, <2>5
  <2> QED BY Zenon, <1>4, <2>1, <2>8, <2>9 DEF RollbackPost
<1> QED BY Zenon, <1>3, <1>4

\* Two walks down from height n that make the same steps end at the same journal.
LEMMA WalkUnique ==
  ASSUME NEW n \in Nat, NEW h \in 0 .. n, NEW f, NEW g, f[n] = g[n],
         \A k \in h .. n : k # n => /\ f[k] = RollbackPost(f[k + 1], k + 1)
                                  /\ g[k] = RollbackPost(g[k + 1], k + 1)
  PROVE  f[h] = g[h]
<1> DEFINE bad == {k \in h .. n : f[k] # g[k]}
<1>1. SUFFICES ASSUME bad # {} PROVE FALSE
  <2>1. h \in h .. n
    OBVIOUS
  <2> QED BY Zenon, <2>1
<1>2. PICK m \in bad : \A y \in bad : y <= m
  <2>1. bad \subseteq 0 .. n
    OBVIOUS
  <2> HIDE DEF bad
  <2> QED BY Zenon, <1>1, <2>1, Greatest
<1>3. m \in h .. n /\ m # n /\ f[m] # g[m]
  BY Zenon, <1>2
<1>4. m + 1 \in h .. n /\ ~ (m + 1 <= m)
  BY <1>3
<1>5. f[m + 1] = g[m + 1]
  BY Zenon, <1>2, <1>4
<1> QED BY Zenon, <1>3, <1>5

\* The journal after a rollback, in closed form: no check of the walk fails.
LEMMA JournalAfterIs ==
  ASSUME TypeInv, JournalInv, NEW h \in finalizedHeight .. Len(blocks)
  PROVE  JournalAfter(h) = [ok |-> TRUE, last |-> LastAt(h)]
<1>1. PICK n : n = Len(blocks)
  OBVIOUS
<1>2. n \in Nat /\ h \in 0 .. n /\ n \in h .. n /\ h \in h .. n
      /\ (\A k \in h .. n : k # n => k + 1 \in h .. n)
      /\ (\A k \in h .. n : k \in finalizedHeight .. Len(blocks))
  BY <1>1 DEF TypeInv
<1> DEFINE base == [ok |-> TRUE, last |-> lastPostedBlock]
           IsWalk(w) == w = [k \in h .. n |-> IF k = n THEN base ELSE RollbackPost(w[k + 1], k + 1)]
           W == CHOOSE w : IsWalk(w)
           G == [k \in h .. n |-> [ok |-> TRUE, last |-> LastAt(k)]]
<1>3. JournalAfter(h) = W[h]
  BY Zenon, <1>1 DEF JournalAfter
<1>4. LastAt(n) = lastPostedBlock
  <2>1. \A c : Above(c, n) = {}
    BY <1>1 DEF Above, TypeInv
  <2>2. lastPostedBlock = [c \in Channels |-> lastPostedBlock[c]]
    BY Zenon DEF TypeInv
  <2> QED BY Zenon, <2>1, <2>2 DEF LastAt
<1>5. \A k \in h .. n : k # n => G[k] = RollbackPost(G[k + 1], k + 1)
  BY Zenon, <1>1, <1>2, RollbackStep
<1>6. IsWalk(G)
  BY Zenon, <1>2, <1>4, <1>5
<1>7. IsWalk(W)
  BY Zenon, <1>6
<1> HIDE DEF W
<1>8. W[n] = G[n] /\ \A k \in h .. n : k # n => W[k] = RollbackPost(W[k + 1], k + 1)
  BY Zenon, <1>2, <1>4, <1>7
<1>9. W[h] = G[h]
  <2> HIDE DEF G
  <2>1. \A k \in h .. n : k # n => /\ W[k] = RollbackPost(W[k + 1], k + 1)
                                  /\ G[k] = RollbackPost(G[k + 1], k + 1)
    BY Zenon, <1>5, <1>8
  <2> QED BY <1>2, <1>8, <2>1, WalkUnique
<1> QED BY Zenon, <1>2, <1>3, <1>9

------------------------------------------------------------------------------
(* The steps of the Manager.                                                 *)

Request ==
  /\ channelStatus = "Active" /\ channelStatus' = "ClosePending"
  /\ closeRequestGeneration' = closeRequestGeneration + 1
  /\ frozenGeneration' = closeRequestGeneration'
  /\ UNCHANGED <<pendingClose, finalized>>
Admit(s) ==
  /\ s \in Backed /\ channelStatus # "Closed"
  /\ pendingClose.active \/ channelStatus = "ClosePending"
  /\ pendingClose'.active /\ pendingClose'.state = s
  /\ UNCHANGED <<channelStatus, closeRequestGeneration, finalized, frozenGeneration>>
Revive ==
  /\ pendingClose.active /\ ~ pendingClose'.active /\ channelStatus' = "Active"
  /\ UNCHANGED <<closeRequestGeneration, finalized>>
Settle ==
  /\ pendingClose.active /\ ~ pendingClose'.active /\ channelStatus' = "Closed"
  /\ finalized'.done /\ finalized'.state = pendingClose.state
  /\ UNCHANGED <<closeRequestGeneration, frozenGeneration>>
Idle ==
  UNCHANGED <<channelStatus, closeRequestGeneration, pendingClose, finalized, frozenGeneration>>

LEMMA RequestMoves ==
  ASSUME NEW m \in Members, Game!MineRequest(m)
  PROVE  Idle \/ Request
BY Zenon DEF Game!MineRequest, Game!RequestClose, Game!RequestAdmitted, Game!lifecycleVars,
             Idle, Request

LEMMA FinalizeMoves ==
  ASSUME NEW m \in Members, Game!MineFinalize(m)
  PROVE  Idle \/ Settle
<1>1. CASE Game!FinalizeClose(finalizeTx[m])
  BY Zenon, <1>1 DEF Game!FinalizeClose, Game!FinalizeAdmitted, Game!NoPendingClose, Settle
<1>2. CASE UNCHANGED Game!lifecycleVars
  BY Zenon, <1>2 DEF Game!lifecycleVars, Idle
<1> QED BY Zenon, <1>1, <1>2 DEF Game!MineFinalize

LEMMA SubmitMoves ==
  ASSUME NEW s \in SignedStates, Game!Submit(s)
  PROVE  Admit(s)
BY Zenon DEF Game!Submit, Game!SubmitCloseIntent, Game!ReplacementAdmitted,
             Game!FirstIntentAdmitted, Admit

LEMMA CancelMoves ==
  ASSUME NEW s \in SignedStates, Game!Cancel(s)
  PROVE  Revive
BY Zenon DEF Game!Cancel, Game!CancelClose, Game!CancelAdmitted, Game!NoPendingClose, Revive

LEMMA ManagerMoves ==
  ASSUME ManagerStep
  PROVE  Idle \/ Request \/ (\E s \in SignedStates : Admit(s)) \/ Revive \/ Settle
<1>1. Game!Tick => Idle
  BY Zenon DEF Game!Tick, Game!lifecycleVars, Idle
<1>2. \A m \in Members : Game!SignRequest(m) \/ Game!SignFinalize(m) => Idle
  BY Zenon DEF Game!SignRequest, Game!SignFinalize, Game!lifecycleVars, Idle
<1> QED BY Zenon, <1>1, <1>2, RequestMoves, FinalizeMoves, SubmitMoves, CancelMoves
       DEF ManagerStep

LEMMA ManagerStepInv ==
  ASSUME IInv, ManagerStep
  PROVE  IInv'
<1>1. /\ Channel \in managerOfChannel
      /\ UNCHANGED <<blocks, boundaries, finalizedHeight, managerOfChannel, lastPostedBlock,
                     postedChannel, previousChannelBlock, backingProcessedSend>>
  BY Zenon DEF ManagerStep, exitVars, rollupVars, journalVars
<1>2. JournalInv' /\ ReceiptsInv'
  BY Zenon, <1>1 DEF IInv, JournalInv, ReceiptsInv, PointsAt, SendsIn
<1>3. \A n : AttestedAndCurrent(n)' <=> AttestedAndCurrent(n)
  BY Zenon, <1>1 DEF AttestedAndCurrent
<1>4. TypeInv /\ ManagerInv /\ AdmittedCloseStaysFundable
  BY Zenon DEF IInv
<1>5. closeRequestGeneration' \in Nat /\ (Request => frozenGeneration' # 0)
  <2>1. closeRequestGeneration \in Nat
    BY Zenon, <1>4 DEF TypeInv
  <2>2. closeRequestGeneration + 1 \in Nat /\ closeRequestGeneration + 1 # 0
    BY <2>1
  <2> QED BY Zenon, <2>1, <2>2, ManagerMoves DEF Idle, Request, Admit, Revive, Settle
<1>6. TypeInv'
  BY Zenon, <1>1, <1>4, <1>5 DEF TypeInv
<1>7. ManagerInv'
  <2>1. CASE Idle
    BY Zenon, <1>1, <1>4, <2>1 DEF ManagerInv, Idle
  <2>2. CASE Request
    BY Zenon, <1>1, <1>4, <1>5, <2>2 DEF ManagerInv, Request
  <2>3. CASE \E s \in SignedStates : Admit(s)
    BY Zenon, <1>1, <1>4, <2>3 DEF ManagerInv, Admit
  <2>4. CASE Revive
    BY Zenon, <1>1, <1>4, <2>4 DEF ManagerInv, Revive
  <2>5. CASE Settle
    BY Zenon, <1>1, <1>4, <2>5 DEF ManagerInv, Settle
  <2> QED BY Zenon, <2>1, <2>2, <2>3, <2>4, <2>5, ManagerMoves
<1>8. AdmittedCloseStaysFundable'
  <2>1. CASE Idle
    BY Zenon, <1>3, <1>4, <2>1 DEF AdmittedCloseStaysFundable, Idle
  <2>2. CASE Request
    BY Zenon, <1>4, <2>2 DEF AdmittedCloseStaysFundable, ManagerInv, Request
  <2>3. CASE \E s \in SignedStates : Admit(s)
    BY Zenon, <1>3, <1>4, <2>3 DEF AdmittedCloseStaysFundable, ManagerInv, Admit, Backed
  <2>4. CASE Revive
    BY Zenon, <1>4, <2>4 DEF AdmittedCloseStaysFundable, ManagerInv, Revive
  <2>5. CASE Settle
    BY Zenon, <1>3, <1>4, <2>5 DEF AdmittedCloseStaysFundable, ManagerInv, Settle
  <2> QED BY Zenon, <2>1, <2>2, <2>3, <2>4, <2>5, ManagerMoves
<1> QED BY Zenon, <1>2, <1>6, <1>7, <1>8 DEF IInv

------------------------------------------------------------------------------
(* The steps of the materializer and of the rollup.                          *)

LEMMA SendsAgree ==
  ASSUME NEW p, NEW chain, NEW other, \A h \in 1 .. p : chain[h] = other[h]
  PROVE  SendsIn(chain, p) = SendsIn(other, p)
<1>1. {h \in 1 .. p : chain[h] = Channel} = {h \in 1 .. p : other[h] = Channel}
  BY Zenon
<1> QED BY Zenon, <1>1 DEF SendsIn

\* No such step touches the Manager, which keeps its close funded as long as no
\* receipt is lost.
LEMMA ManagerKept ==
  ASSUME IInv, UNCHANGED gameVars, managerOfChannel \subseteq managerOfChannel',
         channelStatus # "Active" =>
           \A n \in 0 .. MaxSettled : AttestedAndCurrent(n) => AttestedAndCurrent(n)'
  PROVE  ManagerInv' /\ AdmittedCloseStaysFundable'
<1>1. UNCHANGED <<channelStatus, pendingClose, finalized, frozenGeneration>>
  BY Zenon DEF gameVars
<1>2. ManagerInv /\ AdmittedCloseStaysFundable
  BY Zenon DEF IInv
<1>3. ManagerInv'
  BY Zenon, <1>1, <1>2 DEF ManagerInv
<1>4. ASSUME pendingClose.active \/ finalized.done
      PROVE  /\ channelStatus # "Active"
             /\ (IF finalized.done THEN finalized.state ELSE pendingClose.state) \in SignedStates
  BY Zenon, <1>2, <1>4 DEF ManagerInv
<1>5. PICK s : s = IF finalized.done THEN finalized.state ELSE pendingClose.state
  OBVIOUS
<1>6. ASSUME pendingClose.active \/ finalized.done
      PROVE  AttestedAndCurrent(SettledBy[s])'
  <2>1. AttestedAndCurrent(SettledBy[s]) /\ SettledBy[s] \in 0 .. MaxSettled
    BY Zenon, <1>2, <1>4, <1>5, <1>6, SettledType DEF AdmittedCloseStaysFundable
  <2> QED BY Zenon, <1>4, <1>6, <2>1
<1>7. AdmittedCloseStaysFundable'
  BY Zenon, <1>1, <1>5, <1>6 DEF AdmittedCloseStaysFundable
<1> QED BY Zenon, <1>3, <1>7

\* Pointers, journal and receipts do not depend on what happens above them.
LEMMA PointsKept ==
  ASSUME NEW chain, Len(chain) \in Nat, NEW final \in Nat, NEW other, Len(other) \in Nat,
         NEW later \in Nat, final <= later,
         NEW c, NEW p, NEW k \in Nat, k <= Len(chain) + 1, PointsAt(chain, final, c, p, k),
         \A h \in 1 .. k - 1 : other[h] = chain[h]
  PROVE  PointsAt(other, later, c, p, k)
<1>1. p \in Nat /\ p < k
  BY Zenon DEF PointsAt
<1>2. ASSUME NEW h \in 1 .. Len(other), h < k, other[h] = c PROVE h <= p
  <2>1. h \in 1 .. k - 1 /\ h \in 1 .. Len(chain)
    BY <1>2
  <2> QED BY Zenon, <1>2, <2>1 DEF PointsAt
<1>3. ASSUME ~ (p <= later) PROVE other[p] = c
  <2>1. ~ (p <= final) /\ p \in 1 .. k - 1
    BY <1>1, <1>3
  <2> QED BY Zenon, <2>1 DEF PointsAt
<1> QED BY Zenon, <1>1, <1>2, <1>3 DEF PointsAt

LEMMA ReceiptsKept ==
  ASSUME TypeInv, ReceiptsInv, UNCHANGED backingProcessedSend, finalizedHeight' \in Nat,
         finalizedHeight <= finalizedHeight',
         \A h \in 1 .. finalizedHeight : blocks'[h] = blocks[h]
  PROVE  ReceiptsInv'
<1> SUFFICES ASSUME NEW n \in 0 .. MaxSettled, backingProcessedSend[n] # 0
             PROVE  /\ backingProcessedSend[n] - 1 <= finalizedHeight'
                    /\ SendsIn(blocks', backingProcessedSend[n] - 1) = n
  BY Zenon DEF ReceiptsInv, SendsIn
<1>1. PICK p : p = backingProcessedSend[n] - 1
  OBVIOUS
<1>2. p <= finalizedHeight /\ SendsIn(blocks, p) = n
  BY Zenon, <1>1 DEF ReceiptsInv
<1>3. backingProcessedSend[n] \in Nat
  BY Zenon DEF TypeInv
<1>4. p \in Nat /\ p <= finalizedHeight'
  BY <1>1, <1>2, <1>3 DEF TypeInv
<1>5. \A h \in 1 .. p : h \in 1 .. finalizedHeight
  BY <1>2, <1>4 DEF TypeInv
<1>6. SendsIn(blocks', p) = SendsIn(blocks, p)
  BY Zenon, <1>5, SendsAgree
<1> QED BY Zenon, <1>1, <1>2, <1>4, <1>6

LEMMA BindManagerInv ==
  ASSUME IInv, NEW c \in Channels, BindManager(c)
  PROVE  IInv'
<1>1. /\ c \notin managerOfChannel /\ Len(blocks) = finalizedHeight
      /\ managerOfChannel' = managerOfChannel \cup {c}
      /\ lastPostedBlock' = [lastPostedBlock EXCEPT ![c] = Len(blocks)]
      /\ UNCHANGED <<gameVars, blocks, boundaries, finalizedHeight, postedChannel,
                     previousChannelBlock, backingProcessedSend, closeRequestGeneration>>
  BY Zenon DEF BindManager, BindFloor, rollupVars, gameVars
<1>2. TypeInv /\ JournalInv /\ ReceiptsInv /\ ManagerInv
  BY Zenon DEF IInv
<1>3. Len(blocks) \in Nat /\ finalizedHeight \in Nat
  BY <1>2 DEF TypeInv
<1>4. /\ lastPostedBlock' \in [Channels -> Nat] /\ lastPostedBlock'[c] = Len(blocks)
      /\ \A d \in Channels : d # c => lastPostedBlock'[d] = lastPostedBlock[d]
  BY Zenon, <1>1, <1>2, <1>3 DEF TypeInv
<1>5. TypeInv'
  BY Zenon, <1>1, <1>2, <1>4 DEF TypeInv
<1>6. JournalInv'
  <2>1. ASSUME NEW h \in DOMAIN postedChannel
        PROVE  /\ postedChannel[h] = blocks[h] /\ blocks[h] \in managerOfChannel'
               /\ PointsAt(blocks, finalizedHeight, blocks[h], previousChannelBlock[h], h)
    BY Zenon, <1>1, <1>2 DEF JournalInv
  <2>2. \A h \in 1 .. Len(blocks) : ~ (h > finalizedHeight)
    BY <1>1, <1>3
  <2>3. PointsAt(blocks, finalizedHeight, c, Len(blocks), Len(blocks) + 1)
    <3>1. Len(blocks) <= finalizedHeight /\ Len(blocks) < Len(blocks) + 1
      BY <1>1, <1>3
    <3>2. \A h \in 1 .. Len(blocks) : h <= Len(blocks)
      BY <1>3
    <3> QED BY Zenon, <1>3, <3>1, <3>2 DEF PointsAt
  <2>4. ASSUME NEW d \in managerOfChannel
        PROVE  PointsAt(blocks, finalizedHeight, d, lastPostedBlock'[d], Len(blocks) + 1)
    BY Zenon, <1>1, <1>2, <1>4 DEF JournalInv, TypeInv
  <2> QED BY Zenon, <1>1, <1>4, <2>1, <2>2, <2>3, <2>4 DEF JournalInv
<1>7. ReceiptsInv'
  BY Zenon, <1>1, <1>2 DEF ReceiptsInv
<1>8. ManagerInv' /\ AdmittedCloseStaysFundable'
  <2>1. ASSUME channelStatus # "Active" PROVE lastPostedBlock'[Channel] = lastPostedBlock[Channel]
    BY Zenon, <1>1, <1>2, <1>4, <2>1 DEF ManagerInv, Channels
  <2> QED BY Zenon, <1>1, <2>1, ManagerKept DEF AttestedAndCurrent
<1> QED BY Zenon, <1>5, <1>6, <1>7, <1>8 DEF IInv

\* The chain after a post.
LEMMA PostedChain ==
  ASSUME NEW S, NEW s \in Seq(S), NEW t \in Seq(S)
  PROVE  /\ s \o t \in Seq(S) /\ Len(s) \in Nat /\ Len(t) \in Nat
         /\ DOMAIN t = 1 .. Len(t)
         /\ Len(s \o t) = Len(s) + Len(t)
         /\ \A h \in 1 .. Len(s) : (s \o t)[h] = s[h]
         /\ \A i \in 1 .. Len(t) : (s \o t)[Len(s) + i] = t[i]
OBVIOUS

\* The pointer of c once the first i - 1 sub-blocks of a batch are recorded.
Earlier(batch, i, c) == {j \in 1 .. i - 1 : batch[j] = c}
PointerAfter(batch, i, c) ==
  IF Earlier(batch, i, c) = {} THEN lastPostedBlock[c]
  ELSE Len(blocks) + Max(Earlier(batch, i, c))

LEMMA PointerAfterPoints ==
  ASSUME TypeInv, JournalInv, NEW batch \in Seq(Block), NEW i \in 1 .. Len(batch) + 1,
         NEW c \in managerOfChannel
  PROVE  PointsAt(blocks \o batch, finalizedHeight, c, PointerAfter(batch, i, c), Len(blocks) + i)
<1>1. PICK n : n = Len(blocks)
  OBVIOUS
<1>2. PICK chain : chain = blocks \o batch
  BY Zenon
<1>3. /\ n \in Nat /\ Len(batch) \in Nat /\ Len(chain) = n + Len(batch)
      /\ \A h \in 1 .. n : chain[h] = blocks[h]
      /\ \A j \in 1 .. Len(batch) : chain[n + j] = batch[j]
  <2>1. blocks \in Seq(Block)
    BY Zenon DEF TypeInv
  <2> QED BY <1>1, <1>2, <2>1
<1>4. i \in Nat /\ i >= 1 /\ i <= Len(batch) + 1
  BY <1>3
<1>5. /\ lastPostedBlock[c] \in Nat /\ lastPostedBlock[c] < n + 1
      /\ \A h \in 1 .. n : h < n + 1 /\ blocks[h] = c => h <= lastPostedBlock[c]
      /\ \/ lastPostedBlock[c] <= finalizedHeight
         \/ blocks[lastPostedBlock[c]] = c
  BY Zenon, <1>1 DEF JournalInv, PointsAt
<1>6. \A h \in 1 .. Len(chain) : h \in 1 .. n \/ \E j \in 1 .. Len(batch) : h = n + j
  <2> SUFFICES ASSUME NEW h \in 1 .. Len(chain), h \notin 1 .. n
               PROVE  \E j \in 1 .. Len(batch) : h = n + j
    BY Zenon
  <2>1. h - n \in 1 .. Len(batch) /\ h = n + (h - n)
    BY <1>3
  <2> QED BY Zenon, <2>1
<1>7. CASE Earlier(batch, i, c) = {}
  <2>1. PICK p : p = lastPostedBlock[c]
    OBVIOUS
  <2>2. PointerAfter(batch, i, c) = p
    BY Zenon, <1>7, <2>1 DEF PointerAfter
  <2>3. p \in Nat /\ p < n + i
    BY <1>3, <1>4, <1>5, <2>1
  <2>4. ASSUME NEW h \in 1 .. Len(chain), h < n + i, chain[h] = c PROVE h <= p
    <3>1. CASE h \in 1 .. n
      <4>1. h < n + 1
        BY <1>3, <3>1
      <4> QED BY Zenon, <1>3, <1>5, <2>1, <2>4, <3>1, <4>1
    <3>2. ASSUME NEW j \in 1 .. Len(batch), h = n + j PROVE FALSE
      <4>1. j \in 1 .. i - 1
        BY <1>3, <1>4, <2>4, <3>2
      <4>2. batch[j] = c
        BY Zenon, <1>3, <2>4, <3>2
      <4> QED BY Zenon, <1>7, <4>1, <4>2 DEF Earlier
    <3> QED BY Zenon, <1>6, <3>1, <3>2
  <2>5. ASSUME ~ (p <= finalizedHeight) PROVE chain[p] = c
    <3>1. p \in 1 .. n
      BY <1>3, <1>5, <2>1, <2>5 DEF TypeInv
    <3> QED BY Zenon, <1>3, <1>5, <2>1, <2>5, <3>1
  <2>6. PointsAt(chain, finalizedHeight, c, p, n + i)
    BY Zenon, <2>3, <2>4, <2>5 DEF PointsAt
  <2> QED BY Zenon, <1>1, <1>2, <2>2, <2>6
<1>8. CASE Earlier(batch, i, c) # {}
  <2>1. PICK m : m = Max(Earlier(batch, i, c))
    OBVIOUS
  <2>2. Earlier(batch, i, c) \subseteq 0 .. Len(batch)
    BY <1>3, <1>4 DEF Earlier
  <2>3. m \in Earlier(batch, i, c) /\ \A j \in Earlier(batch, i, c) : j <= m
    BY Zenon, <1>3, <1>8, <2>1, <2>2, Greatest
  <2>4. m \in 1 .. i - 1 /\ batch[m] = c
    BY Zenon, <2>3 DEF Earlier
  <2>5. m \in 1 .. Len(batch) /\ m \in Nat /\ n + m \in Nat /\ n + m < n + i
    BY <1>3, <1>4, <2>4
  <2>6. PointerAfter(batch, i, c) = n + m
    BY Zenon, <1>1, <1>8, <2>1 DEF PointerAfter
  <2>7. chain[n + m] = c
    BY Zenon, <1>3, <2>4, <2>5
  <2>8. ASSUME NEW h \in 1 .. Len(chain), h < n + i, chain[h] = c PROVE h <= n + m
    <3>1. CASE h \in 1 .. n
      BY <1>3, <2>5, <3>1
    <3>2. ASSUME NEW j \in 1 .. Len(batch), h = n + j PROVE h <= n + m
      <4>1. j \in 1 .. i - 1
        BY <1>3, <1>4, <2>8, <3>2
      <4>2. j <= m
        BY Zenon, <1>3, <2>3, <2>8, <3>2, <4>1 DEF Earlier
      <4> QED BY <1>3, <2>5, <3>2, <4>2
    <3> QED BY Zenon, <1>6, <3>1, <3>2
  <2>9. PointsAt(chain, finalizedHeight, c, n + m, n + i)
    BY Zenon, <2>5, <2>7, <2>8 DEF PointsAt
  <2> QED BY Zenon, <1>1, <1>2, <2>6, <2>9
<1> QED BY Zenon, <1>7, <1>8

\* What a post records, height by height.
LEMMA PostRecords ==
  ASSUME TypeInv, NEW batch \in Seq(Block), Post(batch)
  PROVE  /\ DOMAIN postedChannel' = DOMAIN previousChannelBlock'
         /\ \A h \in DOMAIN postedChannel :
              /\ h \in DOMAIN postedChannel' /\ postedChannel'[h] = postedChannel[h]
              /\ previousChannelBlock'[h] = previousChannelBlock[h]
         /\ \A i \in 1 .. Len(batch) : batch[i] \in managerOfChannel =>
              /\ Len(blocks) + i \in DOMAIN postedChannel'
              /\ postedChannel'[Len(blocks) + i] = batch[i]
              /\ previousChannelBlock'[Len(blocks) + i] = PointerAfter(batch, i, batch[i])
         /\ \A h \in DOMAIN postedChannel' : h \in DOMAIN postedChannel \/
              \E i \in 1 .. Len(batch) : h = Len(blocks) + i /\ batch[i] \in managerOfChannel
<1>1. PICK n : n = Len(blocks)
  OBVIOUS
<1> DEFINE recorded == {i \in DOMAIN batch : batch[i] \in managerOfChannel}
           heights == {n + i : i \in recorded}
<1>2. /\ postedChannel' = [h \in heights \cup DOMAIN postedChannel |->
                             IF h \in heights THEN batch[h - n] ELSE postedChannel[h]]
      /\ previousChannelBlock' = [h \in heights \cup DOMAIN previousChannelBlock |->
                                    IF h \in heights THEN PointerBefore(batch, h - n)
                                    ELSE previousChannelBlock[h]]
  BY Zenon, <1>1 DEF Post
<1>3. n \in Nat /\ DOMAIN batch = 1 .. Len(batch) /\ Len(batch) \in Nat
  BY <1>1 DEF TypeInv
<1>4. \A i \in 1 .. Len(batch) : (n + i) - n = i /\ n + i \notin 1 .. n
  BY <1>3
<1>5. \A h \in heights : \E i \in 1 .. Len(batch) : h = n + i /\ batch[i] \in managerOfChannel
  BY Zenon, <1>3
<1>6. \A i \in 1 .. Len(batch) : batch[i] \in managerOfChannel => n + i \in heights
  BY Zenon, <1>3
<1> HIDE DEF heights
<1>7. \A h \in DOMAIN postedChannel : h \notin heights
  <2>1. DOMAIN postedChannel \subseteq 1 .. n
    BY Zenon, <1>1 DEF TypeInv
  <2>2. \A h \in heights : h \notin 1 .. n
    BY <1>3, <1>5
  <2> QED BY Zenon, <2>1, <2>2
<1>8. /\ DOMAIN postedChannel' = heights \cup DOMAIN postedChannel
      /\ DOMAIN previousChannelBlock' = heights \cup DOMAIN postedChannel
      /\ \A h \in heights : /\ postedChannel'[h] = batch[h - n]
                             /\ previousChannelBlock'[h] = PointerBefore(batch, h - n)
      /\ \A h \in DOMAIN postedChannel : h \notin heights =>
           /\ postedChannel'[h] = postedChannel[h]
           /\ previousChannelBlock'[h] = previousChannelBlock[h]
  BY Zenon, <1>2 DEF TypeInv
<1>9. \A i : PointerBefore(batch, i) = PointerAfter(batch, i, batch[i])
  BY Zenon DEF PointerBefore, PointerAfter, Earlier
<1>10. ASSUME NEW i \in 1 .. Len(batch), batch[i] \in managerOfChannel
       PROVE  /\ n + i \in DOMAIN postedChannel'
              /\ postedChannel'[n + i] = batch[i]
              /\ previousChannelBlock'[n + i] = PointerAfter(batch, i, batch[i])
  BY Zenon, <1>4, <1>6, <1>8, <1>9, <1>10
<1>11. ASSUME NEW h \in DOMAIN postedChannel', h \notin DOMAIN postedChannel
       PROVE  \E i \in 1 .. Len(batch) : h = n + i /\ batch[i] \in managerOfChannel
  BY Zenon, <1>5, <1>8, <1>11
<1> QED BY Zenon, <1>1, <1>7, <1>8, <1>10, <1>11

\* Where the pointers of bound channels stand after a post.
LEMMA PostPointers ==
  ASSUME TypeInv, NEW batch \in Seq(Block), Post(batch)
  PROVE  /\ lastPostedBlock' \in [Channels -> Nat]
         /\ \A c \in managerOfChannel :
              lastPostedBlock'[c] = PointerAfter(batch, Len(batch) + 1, c)
<1> DEFINE of(c) == {i \in DOMAIN batch : batch[i] \in managerOfChannel /\ batch[i] = c}
<1>1. lastPostedBlock' =
        [c \in Channels |-> IF of(c) = {} THEN lastPostedBlock[c] ELSE Len(blocks) + Max(of(c))]
  <2>1. \A c : of(c) = {i \in {j \in DOMAIN batch : batch[j] \in managerOfChannel} : batch[i] = c}
    BY Zenon
  <2> QED BY Zenon, <2>1 DEF Post
<1>2. /\ Len(blocks) \in Nat /\ Len(batch) \in Nat /\ DOMAIN batch = 1 .. Len(batch)
      /\ Len(batch) + 1 - 1 = Len(batch)
  BY DEF TypeInv
<1>3. ASSUME NEW c \in Channels, of(c) # {} PROVE Len(blocks) + Max(of(c)) \in Nat
  <2>1. of(c) \subseteq 0 .. Len(batch)
    BY <1>2
  <2> HIDE DEF of
  <2>2. Max(of(c)) \in 0 .. Len(batch)
    BY Zenon, <1>2, <1>3, <2>1, Greatest
  <2> QED BY <1>2, <2>2
<1>4. \A c \in Channels : lastPostedBlock[c] \in Nat
  BY Zenon DEF TypeInv
<1>5. lastPostedBlock' \in [Channels -> Nat]
  <2> HIDE DEF of
  <2> QED BY Zenon, <1>1, <1>3, <1>4
<1>6. ASSUME NEW c \in managerOfChannel PROVE of(c) = Earlier(batch, Len(batch) + 1, c)
  <2>1. Earlier(batch, Len(batch) + 1, c) = {j \in DOMAIN batch : batch[j] = c}
    BY <1>2 DEF Earlier
  <2> QED BY Zenon, <1>6, <2>1
<1>7. managerOfChannel \subseteq Channels
  BY Zenon DEF TypeInv
<1> HIDE DEF of
<1> QED BY Zenon, <1>1, <1>5, <1>6, <1>7 DEF PointerAfter

LEMMA PostInv ==
  ASSUME IInv, NEW batch \in Batches, Post(batch)
  PROVE  IInv'
<1>1. TypeInv /\ JournalInv /\ ReceiptsInv /\ ManagerInv
  BY Zenon DEF IInv
<1>2. batch \in Seq(Block)
  BY Zenon, BatchesAssumption DEF Block
<1>3. PICK n : n = Len(blocks)
  BY Zenon
<1>4. /\ blocks' = blocks \o batch /\ boundaries' = boundaries \cup {Len(blocks')}
      /\ UNCHANGED <<finalizedHeight, gameVars, managerOfChannel, backingProcessedSend>>
      /\ \A i \in DOMAIN batch : PostAdmitted(batch[i])
  BY Zenon DEF Post, Rollup!AppendBatch
<1>5. /\ n \in Nat /\ Len(batch) \in Nat /\ blocks' \in Seq(Block)
      /\ DOMAIN batch = 1 .. Len(batch) /\ Len(blocks') = n + Len(batch)
      /\ \A h \in 1 .. n : blocks'[h] = blocks[h]
      /\ \A i \in 1 .. Len(batch) : blocks'[n + i] = batch[i]
  <2>1. blocks \in Seq(Block)
    BY Zenon, <1>1 DEF TypeInv
  <2> QED BY <1>2, <1>3, <1>4, <2>1
<1>6. finalizedHeight \in Nat /\ finalizedHeight <= n
  BY <1>1, <1>3, <1>5 DEF TypeInv
<1>7. /\ DOMAIN postedChannel' = DOMAIN previousChannelBlock'
      /\ \A h \in DOMAIN postedChannel :
           /\ h \in DOMAIN postedChannel' /\ postedChannel'[h] = postedChannel[h]
           /\ previousChannelBlock'[h] = previousChannelBlock[h]
      /\ \A i \in 1 .. Len(batch) : batch[i] \in managerOfChannel =>
           /\ n + i \in DOMAIN postedChannel' /\ postedChannel'[n + i] = batch[i]
           /\ previousChannelBlock'[n + i] = PointerAfter(batch, i, batch[i])
      /\ \A h \in DOMAIN postedChannel' : h \in DOMAIN postedChannel \/
           \E i \in 1 .. Len(batch) : h = n + i /\ batch[i] \in managerOfChannel
  BY Zenon, <1>1, <1>2, <1>3, PostRecords
<1>8. /\ lastPostedBlock' \in [Channels -> Nat]
      /\ \A c \in managerOfChannel :
           lastPostedBlock'[c] = PointerAfter(batch, Len(batch) + 1, c)
  BY Zenon, <1>1, <1>2, PostPointers
<1>9. TypeInv'
  <2>1. finalizedHeight \in 0 .. Len(blocks') /\ boundaries' \subseteq 0 .. Len(blocks')
    <3>1. boundaries \subseteq 0 .. n
      BY Zenon, <1>1, <1>3 DEF TypeInv
    <3>2. 0 .. n \subseteq 0 .. Len(blocks') /\ Len(blocks') \in 0 .. Len(blocks')
      BY <1>5
    <3>3. finalizedHeight \in 0 .. Len(blocks')
      BY <1>5, <1>6
    <3> QED BY Zenon, <1>4, <3>1, <3>2, <3>3
  <2>2. ASSUME NEW h \in DOMAIN postedChannel' PROVE h \in 1 .. Len(blocks')
    <3>1. DOMAIN postedChannel \subseteq 1 .. n
      BY Zenon, <1>1, <1>3 DEF TypeInv
    <3>2. CASE h \in DOMAIN postedChannel
      BY <1>5, <3>1, <3>2
    <3>3. CASE \E i \in 1 .. Len(batch) : h = n + i
      BY <1>5, <3>3
    <3> QED BY Zenon, <1>7, <3>2, <3>3
  <2>3. closeRequestGeneration' = closeRequestGeneration
    BY Zenon, <1>4 DEF gameVars
  <2> QED BY Zenon, <1>1, <1>4, <1>5, <1>7, <1>8, <2>1, <2>2, <2>3 DEF TypeInv
<1>10. JournalInv'
  <2>1. ASSUME NEW h \in DOMAIN postedChannel'
        PROVE  /\ postedChannel'[h] = blocks'[h] /\ blocks'[h] \in managerOfChannel
               /\ PointsAt(blocks', finalizedHeight, blocks'[h], previousChannelBlock'[h], h)
    <3>1. CASE h \in DOMAIN postedChannel
      <4>1. h \in 1 .. n
        BY Zenon, <1>1, <1>3, <3>1 DEF TypeInv
      <4>2. /\ postedChannel[h] = blocks[h] /\ blocks[h] \in managerOfChannel
            /\ PointsAt(blocks, finalizedHeight, blocks[h], previousChannelBlock[h], h)
        BY Zenon, <1>1, <3>1 DEF JournalInv
      <4>3. /\ h \in Nat /\ h <= Len(blocks) + 1 /\ Len(blocks) \in Nat /\ Len(blocks') \in Nat
            /\ finalizedHeight <= finalizedHeight /\ \A k \in 1 .. h - 1 : k \in 1 .. n
        BY <1>3, <1>5, <1>6, <4>1
      <4>4. PointsAt(blocks', finalizedHeight, blocks[h], previousChannelBlock[h], h)
        BY Zenon, <1>5, <1>6, <4>2, <4>3, PointsKept
      <4> QED BY Zenon, <1>5, <1>7, <3>1, <4>1, <4>2, <4>4
    <3>2. ASSUME NEW i \in 1 .. Len(batch), h = n + i, batch[i] \in managerOfChannel
          PROVE  /\ postedChannel'[h] = blocks'[h] /\ blocks'[h] \in managerOfChannel
                 /\ PointsAt(blocks', finalizedHeight, blocks'[h], previousChannelBlock'[h], h)
      <4>1. i \in 1 .. Len(batch) + 1
        BY <1>5
      <4>2. PointsAt(blocks', finalizedHeight, batch[i], PointerAfter(batch, i, batch[i]), n + i)
        BY Zenon, <1>1, <1>2, <1>3, <1>4, <3>2, <4>1, PointerAfterPoints
      <4> QED BY Zenon, <1>5, <1>7, <3>2, <4>2
    <3> QED BY Zenon, <1>7, <3>1, <3>2
  <2>2. ASSUME NEW h \in 1 .. Len(blocks'), blocks'[h] \in managerOfChannel, h > finalizedHeight
        PROVE  h \in DOMAIN postedChannel'
    <3>1. CASE h \in 1 .. n
      BY Zenon, <1>1, <1>3, <1>5, <1>7, <2>2, <3>1 DEF JournalInv
    <3>2. CASE h \notin 1 .. n
      <4>1. h - n \in 1 .. Len(batch) /\ n + (h - n) = h
        BY <1>5, <3>2
      <4> QED BY Zenon, <1>5, <1>7, <2>2, <4>1
    <3> QED BY Zenon, <3>1, <3>2
  <2>3. ASSUME NEW c \in managerOfChannel
        PROVE  PointsAt(blocks', finalizedHeight, c, lastPostedBlock'[c], Len(blocks') + 1)
    <3>1. Len(batch) + 1 \in 1 .. Len(batch) + 1 /\ Len(blocks') + 1 = n + (Len(batch) + 1)
      BY <1>5
    <3>2. PointsAt(blocks', finalizedHeight, c, PointerAfter(batch, Len(batch) + 1, c),
                   n + (Len(batch) + 1))
      BY Zenon, <1>1, <1>2, <1>3, <1>4, <3>1, PointerAfterPoints
    <3> QED BY Zenon, <1>8, <3>1, <3>2
  <2> QED BY Zenon, <1>4, <2>1, <2>2, <2>3 DEF JournalInv
<1>11. ReceiptsInv'
  <2>1. finalizedHeight <= finalizedHeight /\ \A h \in 1 .. finalizedHeight : h \in 1 .. n
    BY <1>5, <1>6
  <2> QED BY Zenon, <1>1, <1>4, <1>5, <1>6, <2>1, ReceiptsKept
<1>12. ManagerInv' /\ AdmittedCloseStaysFundable'
  <2>1. ASSUME channelStatus # "Active" PROVE lastPostedBlock'[Channel] = lastPostedBlock[Channel]
    <3>1. Channel \in managerOfChannel /\ \A i \in DOMAIN batch : batch[i] # Channel
      BY Zenon, <1>1, <1>4, <2>1 DEF ManagerInv, PostAdmitted
    <3>2. Earlier(batch, Len(batch) + 1, Channel) = {}
      BY <1>5, <3>1 DEF Earlier
    <3> QED BY Zenon, <1>8, <3>1, <3>2 DEF PointerAfter
  <2> QED BY Zenon, <1>4, <2>1, ManagerKept DEF AttestedAndCurrent
<1> QED BY Zenon, <1>9, <1>10, <1>11, <1>12 DEF IInv

LEMMA FinalizeBlocksInv ==
  ASSUME IInv, NEW h \in boundaries, FinalizeBlocks(h)
  PROVE  IInv'
<1>1. TypeInv /\ JournalInv /\ ReceiptsInv
  BY Zenon DEF IInv
<1>2. /\ h > finalizedHeight /\ finalizedHeight' = h
      /\ UNCHANGED <<blocks, boundaries, gameVars, managerOfChannel, lastPostedBlock, postedChannel,
                     previousChannelBlock, backingProcessedSend>>
  BY Zenon DEF FinalizeBlocks, Rollup!FinalizeTo, journalVars
<1>3. /\ h \in 0 .. Len(blocks) /\ Len(blocks) \in Nat /\ finalizedHeight \in Nat /\ h \in Nat
      /\ finalizedHeight <= h /\ \A k \in 1 .. Len(blocks) : k > h => k > finalizedHeight
  BY <1>1, <1>2 DEF TypeInv
<1>4. TypeInv'
  <2>1. closeRequestGeneration' = closeRequestGeneration
    BY Zenon, <1>2 DEF gameVars
  <2> QED BY Zenon, <1>1, <1>2, <1>3, <2>1 DEF TypeInv
<1>5. \A c, p : \A k \in Nat : k <= Len(blocks) + 1 /\ PointsAt(blocks, finalizedHeight, c, p, k)
        => PointsAt(blocks, h, c, p, k)
  BY Zenon, <1>3, PointsKept
<1>6. JournalInv'
  <2>1. ASSUME NEW k \in DOMAIN postedChannel
        PROVE  /\ postedChannel[k] = blocks[k] /\ blocks[k] \in managerOfChannel
               /\ PointsAt(blocks, h, blocks[k], previousChannelBlock[k], k)
    <3>1. k \in 1 .. Len(blocks)
      BY Zenon, <1>1 DEF TypeInv
    <3>2. k \in Nat /\ k <= Len(blocks) + 1
      BY <1>3, <3>1
    <3> QED BY Zenon, <1>1, <1>5, <3>2 DEF JournalInv
  <2>2. Len(blocks) + 1 \in Nat /\ Len(blocks) + 1 <= Len(blocks) + 1
    BY <1>3
  <2>3. \A c \in managerOfChannel : PointsAt(blocks, h, c, lastPostedBlock[c], Len(blocks) + 1)
    BY Zenon, <1>1, <1>5, <2>2 DEF JournalInv
  <2> QED BY Zenon, <1>1, <1>2, <1>3, <2>1, <2>3 DEF JournalInv
<1>7. ReceiptsInv'
  BY Zenon, <1>1, <1>2, <1>3, ReceiptsKept
<1>8. ManagerInv' /\ AdmittedCloseStaysFundable'
  BY Zenon, <1>2, ManagerKept DEF AttestedAndCurrent
<1> QED BY Zenon, <1>4, <1>6, <1>7, <1>8 DEF IInv

\* Every height a truncation may go to.
LEMMA Truncations ==
  ASSUME TypeInv, NEW h \in boundaries \cup {0}, finalizedHeight <= h
  PROVE  h \in finalizedHeight .. Len(blocks)
BY DEF TypeInv

\* A rollback moves the pointer of a bound channel down, never up.
LEMMA LastAtBelow ==
  ASSUME TypeInv, JournalInv, NEW k, NEW c \in managerOfChannel
  PROVE  LastAt(k)[c] <= lastPostedBlock[c]
<1>1. c \in Channels /\ lastPostedBlock[c] \in Nat /\ Len(blocks) \in Nat
  BY DEF TypeInv
<1>2. CASE Above(c, k) = {}
  <2>1. LastAt(k)[c] = lastPostedBlock[c]
    BY Zenon, <1>1, <1>2 DEF LastAt
  <2> QED BY <1>1, <2>1
<1>3. CASE Above(c, k) # {}
  <2>1. PICK m : m = Min(Above(c, k))
    OBVIOUS
  <2>2. m \in DOMAIN postedChannel /\ postedChannel[m] = c
    BY Zenon, <1>3, <2>1, AboveLeast
  <2>3. m \in 1 .. Len(blocks) /\ blocks[m] = c
    BY Zenon, <2>2 DEF JournalInv, TypeInv
  <2>4. m < Len(blocks) + 1
    BY <1>1, <2>3
  <2>5. m <= lastPostedBlock[c]
    BY Zenon, <2>3, <2>4 DEF JournalInv, PointsAt
  <2>6. previousChannelBlock[m] \in Nat /\ previousChannelBlock[m] < m
    BY Zenon, <2>2 DEF JournalInv, PointsAt
  <2>7. LastAt(k)[c] = previousChannelBlock[m]
    BY Zenon, <1>1, <1>3, <2>1 DEF LastAt
  <2>8. previousChannelBlock[m] <= lastPostedBlock[c]
    BY <1>1, <2>3, <2>5, <2>6
  <2> QED BY Zenon, <2>7, <2>8
<1> QED BY Zenon, <1>2, <1>3

LEMMA LastAtType ==
  ASSUME TypeInv, JournalInv, NEW k \in finalizedHeight .. Len(blocks)
  PROVE  LastAt(k) \in [Channels -> Nat]
<1> SUFFICES ASSUME NEW c \in Channels PROVE LastAt(k)[c] \in Nat
  BY Zenon DEF LastAt
<1>1. CASE c \in managerOfChannel
  BY Zenon, <1>1, LastAtPoints DEF PointsAt
<1>2. CASE c \notin managerOfChannel
  <2>1. Above(c, k) = {}
    BY Zenon, <1>2 DEF Above, JournalInv
  <2>2. LastAt(k)[c] = lastPostedBlock[c]
    BY Zenon, <2>1 DEF LastAt
  <2> QED BY Zenon, <2>2 DEF TypeInv
<1> QED BY Zenon, <1>1, <1>2

\* A rollback takes no receipt away ...
LEMMA TruncateKeeps ==
  ASSUME IInv, NEW h \in boundaries \cup {0}, TruncateBlocks(h), Channel \in managerOfChannel,
         NEW n \in 0 .. MaxSettled, AttestedAndCurrent(n)
  PROVE  AttestedAndCurrent(n)'
<1>1. TypeInv /\ JournalInv
  BY Zenon DEF IInv
<1>2. finalizedHeight <= h /\ UNCHANGED backingProcessedSend
  BY Zenon DEF TruncateBlocks, Rollup!TruncateTo
<1>3. h \in finalizedHeight .. Len(blocks)
  BY Zenon, <1>1, <1>2, Truncations
<1>4. lastPostedBlock' = LastAt(h)
  <2>1. lastPostedBlock' = JournalAfter(h).last
    BY Zenon DEF TruncateBlocks
  <2>2. JournalAfter(h) = [ok |-> TRUE, last |-> LastAt(h)]
    BY Zenon, <1>1, <1>3, JournalAfterIs
  <2> QED BY <2>1, <2>2
<1>5. LastAt(h)[Channel] <= lastPostedBlock[Channel]
  BY Zenon, <1>1, LastAtBelow
<1>6. LastAt(h)[Channel] \in Nat /\ lastPostedBlock[Channel] \in Nat
  BY Zenon, <1>1, <1>3, LastAtType DEF TypeInv, Channels
<1>7. backingProcessedSend[n] \in Nat
  BY Zenon, <1>1 DEF TypeInv
<1>8. backingProcessedSend[n] - 1 >= LastAt(h)[Channel]
  BY <1>5, <1>6, <1>7 DEF AttestedAndCurrent
<1> QED BY Zenon, <1>2, <1>4, <1>8 DEF AttestedAndCurrent

LEMMA TruncateBlocksInv ==
  ASSUME IInv, NEW h \in boundaries \cup {0}, TruncateBlocks(h)
  PROVE  IInv'
<1>1. TypeInv /\ JournalInv /\ ReceiptsInv /\ ManagerInv
  BY Zenon DEF IInv
<1>2. /\ finalizedHeight <= h /\ h < Len(blocks) /\ blocks' = SubSeq(blocks, 1, h)
      /\ boundaries' = {b \in boundaries : b <= h}
      /\ UNCHANGED <<finalizedHeight, gameVars, managerOfChannel, backingProcessedSend>>
  BY Zenon DEF TruncateBlocks, Rollup!TruncateTo
<1>3. /\ Len(blocks) \in Nat /\ finalizedHeight \in Nat /\ h \in Nat
      /\ h \in finalizedHeight .. Len(blocks) /\ finalizedHeight <= finalizedHeight
  BY <1>1, <1>2 DEF TypeInv
<1>4. /\ blocks' \in Seq(Block) /\ Len(blocks') = h
      /\ \A k \in 1 .. h : blocks'[k] = blocks[k]
  <2>1. blocks \in Seq(Block)
    BY Zenon, <1>1 DEF TypeInv
  <2> QED BY <1>2, <1>3, <2>1
<1>5. JournalAfter(h) = [ok |-> TRUE, last |-> LastAt(h)]
  BY Zenon, <1>1, <1>3, JournalAfterIs
<1>6. lastPostedBlock' = LastAt(h)
  <2>1. lastPostedBlock' = JournalAfter(h).last
    BY Zenon DEF TruncateBlocks
  <2> QED BY <1>5, <2>1
<1>7. /\ DOMAIN postedChannel' = {k \in DOMAIN postedChannel : k <= h}
      /\ DOMAIN previousChannelBlock' = {k \in DOMAIN postedChannel : k <= h}
      /\ \A k \in DOMAIN postedChannel' : /\ postedChannel'[k] = postedChannel[k]
                                           /\ previousChannelBlock'[k] = previousChannelBlock[k]
  BY Zenon, <1>1 DEF TruncateBlocks, Restrict, TypeInv
<1>8. \A k \in DOMAIN postedChannel' : k \in 1 .. h /\ k \in DOMAIN postedChannel
  <2>1. \A k \in 1 .. Len(blocks) : k <= h => k \in 1 .. h
    BY <1>3
  <2> QED BY Zenon, <1>1, <1>7, <2>1 DEF TypeInv
<1>9. TypeInv'
  <2>1. finalizedHeight \in 0 .. h
    BY <1>2, <1>3
  <2>2. \A b \in 0 .. Len(blocks) : b <= h => b \in 0 .. h
    BY <1>3
  <2>3. boundaries' \subseteq 0 .. h
    BY Zenon, <1>1, <1>2, <2>2 DEF TypeInv
  <2>4. LastAt(h) \in [Channels -> Nat]
    BY Zenon, <1>1, <1>3, LastAtType
  <2>5. closeRequestGeneration' = closeRequestGeneration
    BY Zenon, <1>2 DEF gameVars
  <2> QED BY Zenon, <1>1, <1>2, <1>4, <1>6, <1>7, <1>8, <2>1, <2>3, <2>4, <2>5 DEF TypeInv
<1>10. JournalInv'
  <2>1. ASSUME NEW c, NEW p, NEW k \in Nat, k <= h + 1, PointsAt(blocks, finalizedHeight, c, p, k)
        PROVE  PointsAt(blocks', finalizedHeight, c, p, k)
    <3>1. /\ k <= Len(blocks) + 1 /\ Len(blocks') \in Nat
          /\ \A j \in 1 .. k - 1 : j \in 1 .. h
      BY <1>2, <1>3, <1>4, <2>1
    <3>2. \A j \in 1 .. k - 1 : blocks'[j] = blocks[j]
      BY Zenon, <1>4, <3>1
    <3> QED BY Zenon, <1>3, <2>1, <3>1, <3>2, PointsKept
  <2>2. ASSUME NEW k \in DOMAIN postedChannel'
        PROVE  /\ postedChannel'[k] = blocks'[k] /\ blocks'[k] \in managerOfChannel
               /\ PointsAt(blocks', finalizedHeight, blocks'[k], previousChannelBlock'[k], k)
    <3>1. k \in Nat /\ k <= h + 1
      BY <1>3, <1>8
    <3>2. /\ postedChannel[k] = blocks[k] /\ blocks[k] \in managerOfChannel
          /\ PointsAt(blocks, finalizedHeight, blocks[k], previousChannelBlock[k], k)
      BY Zenon, <1>1, <1>8 DEF JournalInv
    <3>3. PointsAt(blocks', finalizedHeight, blocks[k], previousChannelBlock[k], k)
      BY Zenon, <2>1, <3>1, <3>2
    <3> QED BY Zenon, <1>4, <1>7, <1>8, <3>2, <3>3
  <2>3. ASSUME NEW k \in 1 .. h, blocks'[k] \in managerOfChannel, k > finalizedHeight
        PROVE  k \in DOMAIN postedChannel'
    <3>1. k \in 1 .. Len(blocks) /\ k <= h
      BY <1>2, <1>3
    <3> QED BY Zenon, <1>1, <1>4, <1>7, <2>3, <3>1 DEF JournalInv
  <2>4. ASSUME NEW c \in managerOfChannel
        PROVE  PointsAt(blocks', finalizedHeight, c, lastPostedBlock'[c], h + 1)
    <3>1. h + 1 \in Nat /\ h + 1 <= h + 1
      BY <1>3
    <3>2. PointsAt(blocks, finalizedHeight, c, LastAt(h)[c], h + 1)
      BY Zenon, <1>1, <1>3, LastAtPoints
    <3> QED BY Zenon, <1>6, <2>1, <3>1, <3>2
  <2> QED BY Zenon, <1>2, <1>4, <2>2, <2>3, <2>4 DEF JournalInv
<1>11. ReceiptsInv'
  <2>1. \A k \in 1 .. finalizedHeight : k \in 1 .. h
    BY <1>2, <1>3
  <2> QED BY Zenon, <1>1, <1>2, <1>3, <1>4, <2>1, ReceiptsKept
<1>12. ManagerInv' /\ AdmittedCloseStaysFundable'
  <2>1. channelStatus # "Active" => Channel \in managerOfChannel
    BY Zenon, <1>1 DEF ManagerInv
  <2> QED BY Zenon, <1>2, <2>1, TruncateKeeps, ManagerKept
<1> QED BY Zenon, <1>9, <1>10, <1>11, <1>12 DEF IInv

\* A new receipt replaces one that had processed less.
LEMMA Receipt ==
  ASSUME TypeInv, NEW p \in 0 .. finalizedHeight, AttestBacking(p)
  PROVE  /\ backingProcessedSend' \in [0 .. MaxSettled -> Nat]
         /\ \A n \in 0 .. MaxSettled :
              \/ backingProcessedSend'[n] = backingProcessedSend[n]
              \/ /\ n = SendsIn(blocks, p) /\ backingProcessedSend'[n] = p + 1
                 /\ p + 1 > backingProcessedSend[n]
<1>1. p + 1 \in Nat
  BY DEF TypeInv
<1>2. PICK settled : settled = SendsIn(blocks, p)
  OBVIOUS
<1>3. /\ backingProcessedSend' = [backingProcessedSend EXCEPT ![settled] = p + 1]
      /\ p + 1 > backingProcessedSend[settled]
  BY Zenon, <1>2 DEF AttestBacking
<1>4. backingProcessedSend \in [0 .. MaxSettled -> Nat]
  BY Zenon DEF TypeInv
<1>5. backingProcessedSend' \in [0 .. MaxSettled -> Nat]
  BY Zenon, <1>1, <1>3, <1>4
<1>6. \A n \in 0 .. MaxSettled :
        backingProcessedSend'[n] = IF n = settled THEN p + 1 ELSE backingProcessedSend[n]
  BY Zenon, <1>3, <1>4
<1> QED BY Zenon, <1>2, <1>3, <1>5, <1>6

\* ... and neither does another receipt.
LEMMA AttestKeeps ==
  ASSUME IInv, NEW p \in 0 .. finalizedHeight, AttestBacking(p),
         NEW n \in 0 .. MaxSettled, AttestedAndCurrent(n)
  PROVE  AttestedAndCurrent(n)'
<1>1. TypeInv /\ UNCHANGED lastPostedBlock
  BY Zenon DEF IInv, AttestBacking, journalVars
<1>2. backingProcessedSend[n] # 0 /\ backingProcessedSend[n] - 1 >= lastPostedBlock[Channel]
  BY Zenon DEF AttestedAndCurrent
<1>3. /\ backingProcessedSend' \in [0 .. MaxSettled -> Nat]
      /\ \/ backingProcessedSend'[n] = backingProcessedSend[n]
         \/ backingProcessedSend'[n] = p + 1 /\ p + 1 > backingProcessedSend[n]
  BY Zenon, <1>1, Receipt
<1>4. backingProcessedSend[n] \in Nat /\ backingProcessedSend'[n] \in Nat
      /\ lastPostedBlock[Channel] \in Nat
  BY Zenon, <1>1, <1>3 DEF TypeInv, Channels
<1>5. backingProcessedSend'[n] # 0 /\ backingProcessedSend'[n] - 1 >= lastPostedBlock[Channel]
  BY <1>2, <1>3, <1>4
<1> QED BY Zenon, <1>1, <1>5 DEF AttestedAndCurrent

LEMMA AttestBackingInv ==
  ASSUME IInv, NEW p \in 0 .. finalizedHeight, AttestBacking(p)
  PROVE  IInv'
<1>1. TypeInv /\ JournalInv /\ ReceiptsInv /\ ManagerInv
  BY Zenon DEF IInv
<1>2. UNCHANGED <<gameVars, blocks, boundaries, finalizedHeight, managerOfChannel, lastPostedBlock,
                  postedChannel, previousChannelBlock, closeRequestGeneration>>
  BY Zenon DEF AttestBacking, rollupVars, journalVars, gameVars
<1>3. p \in Nat /\ p <= finalizedHeight /\ p + 1 \in Nat /\ p + 1 # 0 /\ p + 1 - 1 = p
  BY <1>1 DEF TypeInv
<1>4. /\ backingProcessedSend' \in [0 .. MaxSettled -> Nat]
      /\ \A n \in 0 .. MaxSettled :
           \/ backingProcessedSend'[n] = backingProcessedSend[n]
           \/ /\ n = SendsIn(blocks, p) /\ backingProcessedSend'[n] = p + 1
              /\ p + 1 > backingProcessedSend[n]
  BY Zenon, <1>1, Receipt
<1>5. TypeInv' /\ JournalInv'
  BY Zenon, <1>1, <1>2, <1>4 DEF TypeInv, JournalInv
<1>6. ReceiptsInv'
  <2> SUFFICES ASSUME NEW n \in 0 .. MaxSettled, backingProcessedSend'[n] # 0
               PROVE  /\ backingProcessedSend'[n] - 1 <= finalizedHeight
                      /\ SendsIn(blocks, backingProcessedSend'[n] - 1) = n
    BY Zenon, <1>2 DEF ReceiptsInv
  <2>1. CASE backingProcessedSend'[n] = backingProcessedSend[n]
    BY Zenon, <1>1, <2>1 DEF ReceiptsInv
  <2>2. CASE n = SendsIn(blocks, p) /\ backingProcessedSend'[n] = p + 1
    <3>1. backingProcessedSend'[n] - 1 = p
      BY <1>3, <2>2
    <3> QED BY Zenon, <1>3, <2>2, <3>1
  <2> QED BY Zenon, <1>4, <2>1, <2>2
<1>7. ManagerInv' /\ AdmittedCloseStaysFundable'
  BY Zenon, <1>2, AttestKeeps, ManagerKept
<1> QED BY Zenon, <1>5, <1>6, <1>7 DEF IInv

LEMMA MaterializeInv ==
  ASSUME IInv, Materialize
  PROVE  IInv'
<1>1. UNCHANGED <<gameVars, blocks, boundaries, finalizedHeight, managerOfChannel, lastPostedBlock,
                  postedChannel, previousChannelBlock, backingProcessedSend, closeRequestGeneration>>
  BY Zenon DEF Materialize, rollupVars, journalVars, gameVars
<1>2. ManagerInv' /\ AdmittedCloseStaysFundable'
  BY Zenon, <1>1, ManagerKept DEF AttestedAndCurrent
<1> QED BY Zenon, <1>1, <1>2 DEF IInv, TypeInv, JournalInv, ReceiptsInv

------------------------------------------------------------------------------
(* The invariant.                                                            *)

LEMMA InitInv ==
  ASSUME Init
  PROVE  IInv
<1>1. /\ blocks = <<>> /\ boundaries = {} /\ finalizedHeight = 0 /\ managerOfChannel = {}
      /\ lastPostedBlock = [c \in Channels |-> 0] /\ postedChannel = <<>>
      /\ previousChannelBlock = <<>> /\ backingProcessedSend = [n \in 0 .. MaxSettled |-> 0]
      /\ channelStatus = "Active" /\ closeRequestGeneration = 0
      /\ pendingClose = Game!NoPendingClose /\ finalized = Game!NotFinalized
  BY Zenon DEF Init, Rollup!LedgerInit, Game!Init
<1>2. ~ pendingClose.active /\ ~ finalized.done
  BY Zenon, <1>1 DEF Game!NoPendingClose, Game!NotFinalized
<1>3. <<>> \in Seq(Block) /\ Len(<<>>) = 0 /\ DOMAIN <<>> = {} /\ 0 \in Nat /\ 0 \in 0 .. 0
      /\ 1 .. 0 = {}
  OBVIOUS
<1>4. TypeInv
  BY Zenon, <1>1, <1>3 DEF TypeInv
<1>5. JournalInv
  BY Zenon, <1>1, <1>3 DEF JournalInv
<1>6. ReceiptsInv
  BY Zenon, <1>1 DEF ReceiptsInv
<1>7. ManagerInv /\ AdmittedCloseStaysFundable
  BY Zenon, <1>1, <1>2 DEF ManagerInv, AdmittedCloseStaysFundable
<1> QED BY Zenon, <1>4, <1>5, <1>6, <1>7 DEF IInv

LEMMA NextInv == IInv /\ [Next]_vars => IInv'
<1> SUFFICES ASSUME IInv, [Next]_vars PROVE IInv'
  OBVIOUS
<1>1. CASE UNCHANGED vars
  <2>1. UNCHANGED <<gameVars, blocks, boundaries, finalizedHeight, managerOfChannel,
                    lastPostedBlock, postedChannel, previousChannelBlock, backingProcessedSend,
                    closeRequestGeneration>>
    BY Zenon, <1>1 DEF vars, exitVars, rollupVars, journalVars, gameVars
  <2>2. ManagerInv' /\ AdmittedCloseStaysFundable'
    BY Zenon, <2>1, ManagerKept DEF AttestedAndCurrent
  <2> QED BY Zenon, <2>1, <2>2 DEF IInv, TypeInv, JournalInv, ReceiptsInv
<1> QED BY Zenon, <1>1, ManagerStepInv, BindManagerInv, PostInv, FinalizeBlocksInv,
           TruncateBlocksInv, AttestBackingInv, MaterializeInv DEF Next

\* Every operation of the rollup, the materializer and the manager keeps the journal,
\* the receipts and the manager's phase in step, from construction on.
THEOREM Invariance == Spec => []IInv
BY InitInv, NextInv, PTL DEF Spec

------------------------------------------------------------------------------
(* What the invariant says.                                                  *)

LEMMA InvTracks ==
  ASSUME IInv
  PROVE  JournalTracksChain
<1>1. TypeInv /\ JournalInv
  BY Zenon DEF IInv
<1>2. DOMAIN blocks = 1 .. Len(blocks) /\ \A h \in 1 .. Len(blocks) : h < Len(blocks) + 1
  BY <1>1 DEF TypeInv
<1> QED BY Zenon, <1>1, <1>2 DEF JournalTracksChain, JournalInv, PointsAt

LEMMA InvRollback ==
  ASSUME IInv
  PROVE  RollbackNeverReverts
<1>1. ASSUME NEW h \in boundaries \cup {0}, finalizedHeight <= h PROVE JournalAfter(h).ok
  <2>1. JournalAfter(h) = [ok |-> TRUE, last |-> LastAt(h)]
    BY Zenon, <1>1, Truncations, JournalAfterIs DEF IInv
  <2> QED BY <2>1
<1> QED BY Zenon, <1>1 DEF RollbackNeverReverts

\* A receipt that covers every posted send has processed all of them.
LEMMA InvSettles ==
  ASSUME IInv
  PROVE  SettlesExactlyPostedSends
<1>1. TypeInv /\ JournalInv /\ ReceiptsInv /\ ManagerInv /\ AdmittedCloseStaysFundable
  BY Zenon DEF IInv
<1>2. PICK s : s = IF finalized.done THEN finalized.state ELSE pendingClose.state
  OBVIOUS
<1>3. ASSUME pendingClose.active \/ finalized.done
      PROVE  /\ SendsIn(blocks, Len(blocks)) = SettledBy[s]
             /\ \A h \in DOMAIN blocks : blocks[h] = Channel => h <= finalizedHeight
  <2>1. s \in SignedStates /\ Channel \in managerOfChannel /\ AttestedAndCurrent(SettledBy[s])
    BY Zenon, <1>1, <1>2, <1>3 DEF ManagerInv, AdmittedCloseStaysFundable
  <2>2. PICK n \in 0 .. MaxSettled : n = SettledBy[s]
    BY Zenon, <2>1, SettledType
  <2>3. PICK p : p = backingProcessedSend[n] - 1
    OBVIOUS
  <2>4. p >= lastPostedBlock[Channel] /\ p <= finalizedHeight /\ SendsIn(blocks, p) = n
    BY Zenon, <1>1, <2>1, <2>2, <2>3 DEF AttestedAndCurrent, ReceiptsInv
  <2>5. /\ Len(blocks) \in Nat /\ finalizedHeight \in Nat /\ finalizedHeight <= Len(blocks)
        /\ lastPostedBlock[Channel] \in Nat /\ DOMAIN blocks = 1 .. Len(blocks)
    BY <1>1, <2>1 DEF TypeInv
  <2>6. p \in Int
    BY <1>1, <2>3 DEF TypeInv
  <2>7. ASSUME NEW h \in 1 .. Len(blocks), blocks[h] = Channel PROVE h <= p /\ h <= finalizedHeight
    <3>1. h < Len(blocks) + 1
      BY <2>5
    <3>2. h <= lastPostedBlock[Channel]
      BY Zenon, <1>1, <2>1, <2>7, <3>1 DEF JournalInv, PointsAt
    <3> QED BY <2>4, <2>5, <2>6, <3>2
  <2>8. {h \in 1 .. Len(blocks) : blocks[h] = Channel} = {h \in 1 .. p : blocks[h] = Channel}
    <3>1. \A h \in 1 .. p : h \in 1 .. Len(blocks)
      BY <2>4, <2>5, <2>6
    <3>2. \A h \in 1 .. Len(blocks) : h <= p => h \in 1 .. p
      BY <2>5, <2>6
    <3> QED BY Zenon, <2>7, <3>1, <3>2
  <2>9. SendsIn(blocks, Len(blocks)) = n
    BY Zenon, <2>4, <2>8 DEF SendsIn
  <2> QED BY Zenon, <2>2, <2>5, <2>7, <2>9
<1> QED BY Zenon, <1>2, <1>3 DEF SettlesExactlyPostedSends

------------------------------------------------------------------------------
(* The close game.                                                           *)

\* Receipts that are gained at any time, or lost while Active, are steps of the
\* game.
LEMMA BackingMoves ==
  ASSUME UNCHANGED gameVars,
         \/ Backed \subseteq Backed'
         \/ channelStatus = "Active" /\ Backed' \subseteq Backed
  PROVE  [Game!Next]_(Game!vars)
<1>1. UNCHANGED <<now, Game!lifecycleVars, requestTx, finalizeTx>>
  BY Zenon DEF gameVars, Game!lifecycleVars
<1>2. CASE Backed' = Backed
  BY Zenon, <1>1, <1>2 DEF Game!vars
<1>3. CASE Backed \subseteq Backed' /\ Backed' # Backed
  <2>1. PICK S : S = Backed' \ Backed
    BY Zenon
  <2>2. /\ S \in SUBSET SignedStates /\ S # {} /\ S \cap Backed = {}
        /\ Backed' = Backed \cup S
    BY Zenon, <1>3, <2>1 DEF Backed
  <2>3. Game!Attest(S)
    BY Zenon, <1>1, <2>2 DEF Game!Attest
  <2> QED BY Zenon, <2>2, <2>3 DEF Game!Next
<1>4. CASE channelStatus = "Active" /\ Backed' \subseteq Backed /\ Backed' # Backed
  <2>1. PICK S : S = Backed \ Backed'
    BY Zenon
  <2>2. /\ S \in SUBSET SignedStates /\ S # {} /\ S \subseteq Backed
        /\ Backed' = Backed \ S
    BY Zenon, <1>4, <2>1 DEF Backed
  <2>3. Game!LoseBacking(S)
    BY Zenon, <1>1, <1>4, <2>2 DEF Game!LoseBacking
  <2> QED BY Zenon, <2>2, <2>3 DEF Game!Next
<1> QED BY Zenon, <1>2, <1>3, <1>4

LEMMA BackedGrows ==
  ASSUME managerOfChannel \subseteq managerOfChannel',
         \A n \in 0 .. MaxSettled :
           Channel \in managerOfChannel /\ AttestedAndCurrent(n) => AttestedAndCurrent(n)'
  PROVE  Backed \subseteq Backed'
BY Zenon, SettledType DEF Backed

LEMMA BindMoves ==
  ASSUME IInv, NEW c \in Channels, BindManager(c)
  PROVE  [Game!Next]_(Game!vars)
<1>1. /\ c \notin managerOfChannel /\ managerOfChannel' = managerOfChannel \cup {c}
      /\ lastPostedBlock' = [lastPostedBlock EXCEPT ![c] = BindFloor]
      /\ UNCHANGED <<gameVars, backingProcessedSend>>
  BY Zenon DEF BindManager
<1>2. Channel \in managerOfChannel => lastPostedBlock'[Channel] = lastPostedBlock[Channel]
  BY Zenon, <1>1 DEF IInv, TypeInv, Channels
<1>3. Backed \subseteq Backed'
  BY Zenon, <1>1, <1>2, BackedGrows DEF AttestedAndCurrent
<1> QED BY Zenon, <1>1, <1>3, BackingMoves

\* A post takes receipts away only from an Active channel.
LEMMA PostMoves ==
  ASSUME IInv, NEW batch \in Batches, Post(batch)
  PROVE  [Game!Next]_(Game!vars)
<1>1. TypeInv /\ JournalInv /\ ManagerInv
  BY Zenon DEF IInv
<1>2. batch \in Seq(Block)
  BY Zenon, BatchesAssumption DEF Block
<1>3. /\ UNCHANGED <<gameVars, managerOfChannel, backingProcessedSend>>
      /\ \A i \in DOMAIN batch : PostAdmitted(batch[i])
  BY Zenon DEF Post
<1>4. CASE Channel \notin managerOfChannel
  <2>1. Backed \subseteq Backed'
    BY Zenon, <1>4 DEF Backed
  <2> QED BY Zenon, <1>3, <2>1, BackingMoves
<1>5. CASE Channel \in managerOfChannel
  <2>1. PICK E : E = Earlier(batch, Len(batch) + 1, Channel)
    OBVIOUS
  <2>2. lastPostedBlock'[Channel] = IF E = {} THEN lastPostedBlock[Channel] ELSE Len(blocks) + Max(E)
    BY Zenon, <1>1, <1>2, <1>5, <2>1, PostPointers DEF PointerAfter
  <2>3. CASE E = {}
    <3>1. Backed \subseteq Backed'
      BY Zenon, <1>3, <2>2, <2>3 DEF Backed, AttestedAndCurrent
    <3> QED BY Zenon, <1>3, <3>1, BackingMoves
  <2>4. CASE E # {}
    <3>1. /\ Len(batch) \in Nat /\ DOMAIN batch = 1 .. Len(batch) /\ Len(blocks) \in Nat
          /\ E \subseteq 0 .. Len(batch) /\ E \subseteq 1 .. Len(batch)
      BY <1>1, <1>2, <2>1 DEF TypeInv, Earlier
    <3>2. \E i \in DOMAIN batch : batch[i] = Channel
      BY Zenon, <2>1, <2>4, <3>1 DEF Earlier
    <3>3. channelStatus = "Active"
      BY Zenon, <1>1, <1>3, <1>5, <3>2 DEF PostAdmitted, ManagerInv
    <3>4. Max(E) \in 1 .. Len(batch)
      BY Zenon, <2>4, <3>1, Greatest
    <3>5. lastPostedBlock[Channel] \in Nat /\ lastPostedBlock[Channel] < Len(blocks) + 1
      BY Zenon, <1>1, <1>5 DEF JournalInv, PointsAt
    <3>6. PICK q : q = lastPostedBlock'[Channel]
      OBVIOUS
    <3>7. q \in Nat /\ q >= lastPostedBlock[Channel]
      BY <2>2, <2>4, <3>1, <3>4, <3>5, <3>6
    <3>8. ASSUME NEW n \in 0 .. MaxSettled, backingProcessedSend[n] - 1 >= q
          PROVE  backingProcessedSend[n] - 1 >= lastPostedBlock[Channel]
      <4>1. backingProcessedSend[n] \in Nat
        BY Zenon, <1>1 DEF TypeInv
      <4> QED BY <3>5, <3>7, <3>8, <4>1
    <3>9. Backed' \subseteq Backed
      BY Zenon, <1>3, <3>6, <3>8, SettledType DEF Backed, AttestedAndCurrent
    <3> QED BY Zenon, <1>3, <3>3, <3>9, BackingMoves
  <2> QED BY Zenon, <2>3, <2>4
<1> QED BY Zenon, <1>4, <1>5

LEMMA GameStep == IInv /\ [Next]_vars => [Game!Next]_(Game!vars)
<1> SUFFICES ASSUME IInv, [Next]_vars PROVE [Game!Next]_(Game!vars)
  OBVIOUS
<1>1. CASE ManagerStep
  BY Zenon, <1>1 DEF ManagerStep, Game!Next
<1>2. CASE \E h \in boundaries : FinalizeBlocks(h)
  <2>1. UNCHANGED <<gameVars, managerOfChannel, backingProcessedSend, lastPostedBlock>>
    BY Zenon, <1>2 DEF FinalizeBlocks, journalVars
  <2> QED BY Zenon, <2>1, BackedGrows, BackingMoves DEF AttestedAndCurrent
<1>3. ASSUME NEW h \in boundaries \cup {0}, TruncateBlocks(h) PROVE [Game!Next]_(Game!vars)
  <2>1. UNCHANGED <<gameVars, managerOfChannel>>
    BY Zenon, <1>3 DEF TruncateBlocks
  <2>2. \A n \in 0 .. MaxSettled :
          Channel \in managerOfChannel /\ AttestedAndCurrent(n) => AttestedAndCurrent(n)'
    BY Zenon, <1>3, TruncateKeeps
  <2> QED BY Zenon, <2>1, <2>2, BackedGrows, BackingMoves
<1>4. ASSUME NEW p \in 0 .. finalizedHeight, AttestBacking(p) PROVE [Game!Next]_(Game!vars)
  <2>1. UNCHANGED <<gameVars, managerOfChannel>>
    BY Zenon, <1>4 DEF AttestBacking
  <2>2. \A n \in 0 .. MaxSettled : AttestedAndCurrent(n) => AttestedAndCurrent(n)'
    BY Zenon, <1>4, AttestKeeps
  <2> QED BY Zenon, <2>1, <2>2, BackedGrows, BackingMoves
<1>5. CASE Materialize \/ UNCHANGED vars
  <2>1. UNCHANGED <<gameVars, managerOfChannel, backingProcessedSend, lastPostedBlock>>
    BY Zenon, <1>5 DEF Materialize, vars, exitVars, journalVars
  <2> QED BY Zenon, <2>1, BackedGrows, BackingMoves DEF AttestedAndCurrent
<1> QED BY Zenon, <1>1, <1>2, <1>3, <1>4, <1>5, BindMoves, PostMoves DEF Next

------------------------------------------------------------------------------
(* The theorems.                                                             *)

\* The journal tracks the chain after any posts, bindings and partial rollbacks:
\* recordPost, rollbackPost and bindManager leave each bound channel's
\* lastPostedBlock at or above its every signed block, on one of them or at a
\* finalized height.
THEOREM JournalTracksChainHolds == Spec => []JournalTracksChain
BY Invariance, InvTracks, PTL

\* rollbackPost never meets a pointer it does not expect: no truncation that the
\* rollup decides on reverts in the materializer.
THEOREM RollbackNeverRevertsHolds == Spec => []RollbackNeverReverts
BY Invariance, InvRollback, PTL

\* A state admitted as the close (submitCloseIntent) stays fundable until the exit,
\* so _materialize does not refuse a close that was finalized.
THEOREM AdmittedCloseStaysFundableHolds == Spec => []AdmittedCloseStaysFundable
<1>1. IInv => AdmittedCloseStaysFundable
  BY DEF IInv
<1> QED BY Invariance, <1>1, PTL

\* The close settles exactly the own sends that the live chain holds, and all of
\* them are finalized (requireSignedHeadBacking, _materialize): no posted burn is
\* paid twice and no send that was rolled back is deducted.
THEOREM SettlesExactlyPostedSendsHolds == Spec => []SettlesExactlyPostedSends
BY Invariance, InvSettles, PTL

\* Manager, materializer and rollup together implement the close game, whose
\* assumption on the backing (lost only while Active) they discharge.
THEOREM ImplementsGameHolds == Spec => ImplementsGame
<1>1. Init => Game!Init
  BY DEF Init
<1> QED BY <1>1, Invariance, GameStep, PTL DEF Spec, ImplementsGame, Game!Spec

==============================================================================
