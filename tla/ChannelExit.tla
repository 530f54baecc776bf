----------------------------- MODULE ChannelExit -----------------------------
(***************************************************************************)
(* How a channel leaves: the close game of its Manager (CloseGame), the    *)
(* rollup chain with its rollbacks (RollupLedger) and, between the two,    *)
(* CloseFundingMaterializer: the per-channel journal of posted blocks, the *)
(* freeze, the attested backing proofs and the one-time exit.              *)
(*                                                                         *)
(* Channel is the channel that closes; the blocks of the Others interleave *)
(* with its own.  A signed sub-block of Channel carries its next own send  *)
(* (a burn or a transfer); an Unsigned one carries no send.  SettledBy     *)
(* gives for each signed state the number of own sends its settled-tx      *)
(* chain holds; with the fund vector that number is the composition a      *)
(* backing statement is keyed on.                                          *)
(***************************************************************************)
EXTENDS Integers, Sequences, FiniteSetsExt

CONSTANTS
  SignedStates, Members, ChallengePeriod, GraceBeforeProcessSecs, MinCloseResponseSecs,
  Channel, Others, Unsigned,
  SettledBy,               \* signed state -> number of own sends it settles
  Batches,                 \* the batches that may be posted: sequences of channels or Unsigned
  MaxHeight                \* bound: blocks on the live chain

\* Every state is counted, the first one settles nothing, a channel signs the state
\* of a send before the send is posted, one send at a time, and has signed finitely
\* many: one of its states settles the most.
ASSUME SettledByAssumption ==
  /\ SettledBy \in [SignedStates -> Nat]
  /\ \E s \in SignedStates : \A t \in SignedStates : SettledBy[t] <= SettledBy[s]
  /\ \A s \in SignedStates : \A n \in 0 .. SettledBy[s] : \E t \in SignedStates : SettledBy[t] = n

VARIABLES
  now, channelStatus, currentCloseFreezeNonce, closeRequestGeneration, closeRequestedAt,
  closeChallengeHorizon, highestCancelledRevivedStateVersion, pendingClose, finalized,
  frozenGeneration, requestTx, finalizeTx,      \* the Manager, see CloseGame
  blocks, boundaries, finalizedHeight,          \* the rollup, see RollupLedger
  managerOfChannel,        \* channels with a bound Manager
  lastPostedBlock,         \* per channel
  postedChannel,           \* _postedChannel: height -> channel
  previousChannelBlock,    \* _previousChannelBlock: height -> height
  backingProcessedSend,    \* signedHeadBackingProcessedSendPlusOne: settled sends -> height + 1
  materializedChannelExit

gameVars == <<now, channelStatus, currentCloseFreezeNonce, closeRequestGeneration, closeRequestedAt,
              closeChallengeHorizon, highestCancelledRevivedStateVersion, pendingClose, finalized,
              frozenGeneration, requestTx, finalizeTx>>
rollupVars == <<blocks, boundaries, finalizedHeight>>
journalVars == <<lastPostedBlock, postedChannel, previousChannelBlock>>
exitVars == <<rollupVars, managerOfChannel, journalVars, backingProcessedSend,
              materializedChannelExit>>
vars == <<gameVars, exitVars>>

Channels == {Channel} \cup Others

\* A batch is a sequence of sub-blocks, each with one signing channel or with none.
ASSUME BatchesAssumption == Batches \subseteq Seq(Channels \cup {Unsigned})

MaxSettled == CHOOSE n \in {SettledBy[s] : s \in SignedStates} :
                \A s \in SignedStates : SettledBy[s] <= n

\* Own sends of Channel among the first p blocks of a chain.
SendsIn(chain, p) == Cardinality({h \in 1 .. p : chain[h] = Channel})

------------------------------------------------------------------------------
\* A backing receipt counts whatever block it has processed the sends up to.
AttestedAtAnyHeight(settled) == backingProcessedSend[settled] # 0

\* _hasSignedHeadBacking with requireCurrent: every posted own send is processed.
\* (While Active the receipt may be older, but submitCloseIntent reverts then.)
AttestedAndCurrent(settled) ==
  /\ backingProcessedSend[settled] # 0
  /\ backingProcessedSend[settled] - 1 >= lastPostedBlock[Channel]

Backed ==
  {s \in SignedStates : Channel \in managerOfChannel /\ AttestedAndCurrent(SettledBy[s])}

Game == INSTANCE CloseGame WITH backed <- Backed
Rollup == INSTANCE RollupLedger

Init ==
  /\ Rollup!LedgerInit
  /\ managerOfChannel = {}
  /\ lastPostedBlock = [c \in Channels |-> 0]
  /\ postedChannel = <<>> /\ previousChannelBlock = <<>>
  /\ backingProcessedSend = [n \in 0 .. MaxSettled |-> 0]
  /\ materializedChannelExit = FALSE
  /\ Game!Init

\* The Manager's transactions; before the binding every request reverts.
ManagerStep ==
  /\ Channel \in managerOfChannel
  /\ UNCHANGED exitVars
  /\ \/ Game!Tick
     \/ \E m \in Members : Game!SignRequest(m) \/ Game!MineRequest(m)
     \/ \E m \in Members : Game!SignFinalize(m) \/ Game!MineFinalize(m)
     \/ \E s \in SignedStates : Game!Submit(s) \/ Game!Cancel(s)

\* A floor that forgets the blocks posted before the binding.
NoFloor == 0

BindFloor == Len(blocks)

\* bindManager: only at a finalized head; earlier posts are covered by the floor.
BindManager(c) ==
  /\ c \notin managerOfChannel
  /\ Len(blocks) = finalizedHeight
  /\ managerOfChannel' = managerOfChannel \cup {c}
  /\ lastPostedBlock' = [lastPostedBlock EXCEPT ![c] = BindFloor]
  /\ UNCHANGED <<gameVars, rollupVars, postedChannel, previousChannelBlock, backingProcessedSend,
                 materializedChannelExit>>

------------------------------------------------------------------------------
\* Posts are accepted whatever the Manager does.
PostIgnoresFreeze(c) == c = c

\* recordPost refuses a post of a bound channel that is frozen or has exited.
PostAdmitted(c) ==
  c = Channel /\ c \in managerOfChannel => frozenGeneration = 0 /\ ~materializedChannelExit

\* The pointer a sub-block saves is the one from before its batch.
PointerBeforeBatch(batch, i) == lastPostedBlock[batch[i]]

\* recordPost runs per sub-block: an earlier one of the same batch counts.
PointerBefore(batch, i) ==
  LET earlier == {j \in 1 .. i - 1 : batch[j] = batch[i]}
  IN  IF earlier = {} THEN lastPostedBlock[batch[i]] ELSE Len(blocks) + Max(earlier)

Post(batch) ==
  LET recorded == {i \in DOMAIN batch : batch[i] \in managerOfChannel}
      heights == {Len(blocks) + i : i \in recorded}
      of(c) == {i \in recorded : batch[i] = c}
  IN  /\ Len(blocks) + Len(batch) <= MaxHeight
      /\ SendsIn(blocks \o batch, Len(blocks) + Len(batch)) <= MaxSettled
      /\ \A i \in DOMAIN batch : PostAdmitted(batch[i])
      /\ Rollup!AppendBatch(batch)
      /\ postedChannel' = [h \in heights \cup DOMAIN postedChannel |->
                             IF h \in heights THEN batch[h - Len(blocks)] ELSE postedChannel[h]]
      /\ previousChannelBlock' = [h \in heights \cup DOMAIN previousChannelBlock |->
                                    IF h \in heights THEN PointerBefore(batch, h - Len(blocks))
                                    ELSE previousChannelBlock[h]]
      /\ lastPostedBlock' =
           [c \in Channels |-> IF of(c) = {} THEN lastPostedBlock[c] ELSE Len(blocks) + Max(of(c))]
      /\ UNCHANGED <<gameVars, managerOfChannel, backingProcessedSend, materializedChannelExit>>

FinalizeBlocks(h) ==
  /\ Rollup!FinalizeTo(h)
  /\ UNCHANGED <<gameVars, managerOfChannel, journalVars, backingProcessedSend,
                 materializedChannelExit>>

\* rollbackPost of one height; "ok" turns FALSE where the contract reverts.
RollbackPost(journal, h) ==
  IF h \notin DOMAIN postedChannel THEN journal
  ELSE [ok   |-> journal.ok /\ journal.last[postedChannel[h]] = h,
        last |-> [journal.last EXCEPT ![postedChannel[h]] = previousChannelBlock[h]]]

\* The journal as it was before the rollback.
JournalKept(h) == [ok |-> TRUE, last |-> lastPostedBlock]

\* The journal after the heights above h are rolled back, highest first.
JournalAfter(h) ==
  LET above[k \in h .. Len(blocks)] ==
        IF k = Len(blocks) THEN [ok |-> TRUE, last |-> lastPostedBlock]
        ELSE RollbackPost(above[k + 1], k + 1)
  IN  above[h]

TruncateBlocks(h) ==
  /\ Rollup!TruncateTo(h)
  /\ JournalAfter(h).ok
  /\ lastPostedBlock' = JournalAfter(h).last
  /\ postedChannel' = Restrict(postedChannel, {k \in DOMAIN postedChannel : k <= h})
  /\ previousChannelBlock' =
       Restrict(previousChannelBlock, {k \in DOMAIN previousChannelBlock : k <= h})
  /\ UNCHANGED <<gameVars, managerOfChannel, backingProcessedSend, materializedChannelExit>>

------------------------------------------------------------------------------
\* attestSignedHeadBacking with a Balance proof that has processed the own sends
\* of the finalized blocks up to p and none above; the greatest p is kept.
AttestBacking(p) ==
  LET settled == SendsIn(blocks, p)
  IN  /\ Channel \in managerOfChannel
      /\ p <= finalizedHeight
      /\ p + 1 > backingProcessedSend[settled]
      /\ backingProcessedSend' = [backingProcessedSend EXCEPT ![settled] = p + 1]
      /\ UNCHANGED <<gameVars, rollupVars, managerOfChannel, journalVars, materializedChannelExit>>

\* materializeSignedHead / _materialize for the state the Manager settled.
Materialize ==
  /\ Channel \in managerOfChannel
  /\ frozenGeneration # 0
  /\ ~materializedChannelExit
  /\ channelStatus = "Closed"
  /\ closeRequestGeneration = frozenGeneration
  /\ AttestedAndCurrent(SettledBy[finalized.state])
  /\ materializedChannelExit' = TRUE
  /\ UNCHANGED <<gameVars, rollupVars, managerOfChannel, journalVars, backingProcessedSend>>

Next ==
  \/ ManagerStep
  \/ \E c \in Channels : BindManager(c)
  \/ \E batch \in Batches : Post(batch)
  \/ \E h \in boundaries : FinalizeBlocks(h)
  \/ \E h \in boundaries \cup {0} : TruncateBlocks(h)
  \/ \E p \in 0 .. finalizedHeight : AttestBacking(p)
  \/ Materialize

Spec == Init /\ [][Next]_vars

\* Every posted batch is resolved (module Rollup, EverySubmissionResolves), and
\* anyone may attest the newest provable backing.
ResolveOldest ==
  (\E h \in boundaries : FinalizeBlocks(h)) \/ TruncateBlocks(finalizedHeight)

LiveSpec ==
  /\ Spec
  /\ WF_vars(ResolveOldest)
  /\ WF_vars(AttestBacking(finalizedHeight))

------------------------------------------------------------------------------
(* Properties *)

\* After any interleaving of batches of several channels, bindings and partial
\* rollbacks, a bound channel's lastPostedBlock is at or above its every signed
\* block on the live chain, and is one of them or a finalized height: it neither
\* misses a posted send nor demands one that was rolled back (recordPost,
\* rollbackPost, bindManager).
JournalTracksChain ==
  \A c \in managerOfChannel :
    /\ \A h \in DOMAIN blocks : blocks[h] = c => h <= lastPostedBlock[c]
    /\ \/ lastPostedBlock[c] <= finalizedHeight
       \/ blocks[lastPostedBlock[c]] = c

\* Walking any truncation back through the journal never meets a pointer it does
\* not expect: rollbackPost cannot make a fraud proof or a timeout removal revert.
RollbackNeverReverts ==
  \A h \in boundaries \cup {0} : finalizedHeight <= h => JournalAfter(h).ok

\* From the moment a state is admitted as the close, its settled sends are exactly
\* the own sends on the live chain, all of them finalized: a posted burn is never
\* paid by the rollup and returned by the close as well, and a send that was
\* rolled back is never deducted (requireSignedHeadBacking, _materialize).
SettlesExactlyPostedSends ==
  LET settling == IF finalized.done THEN finalized.state ELSE pendingClose.state
  IN  pendingClose.active \/ finalized.done =>
        /\ SendsIn(blocks, Len(blocks)) = SettledBy[settling]
        /\ \A h \in DOMAIN blocks : blocks[h] = Channel => h <= finalizedHeight

\* A state that was admitted as the close stays fundable until the exit is
\* materialized, whatever is posted, finalized or rolled back meanwhile: no close
\* is finalized that the materializer then refuses to fund.
AdmittedCloseStaysFundable ==
  LET settling == IF finalized.done THEN finalized.state ELSE pendingClose.state
  IN  pendingClose.active \/ finalized.done => AttestedAndCurrent(SettledBy[settling])

\* The Manager, the materializer and the rollup together implement the close game:
\* the backing it assumes can be lost only while the channel is Active.
ImplementsGame == Game!Spec

\* A frozen channel always gets a state it can close with: once the blocks posted
\* before the freeze are finalized or removed, the matching signed state can be
\* backed, unless the close is cancelled first.
FrozenChannelIsClosable ==
  channelStatus = "ClosePending" ~> (Backed # {} \/ channelStatus = "Active")
==============================================================================
