------------------------------- MODULE Rollup -------------------------------
(***************************************************************************)
(* IntmaxRollup: optimistic posting of block batches, finalization by      *)
(* validity proof, fraud proofs and timeout removal with rollback, and the *)
(* producers' posting bonds.                                               *)
(*                                                                         *)
(* A hash chain is injective, so its value is the sequence it folds: the   *)
(* block hash chain is the sequence of blocks, the deposit and             *)
(* registration chains are the sequences of deposits and channels.  The    *)
(* state root commits to the block hash chain, so the correct root of a    *)
(* chain is the chain itself.  Submission id k is element k + 1 of         *)
(* "submissions"; nextSubmissionId is its length.  A block number fixes    *)
(* nothing but age: "age" is block.number - submittedAtBlock, counted up   *)
(* to the first value past the deadline.                                   *)
(*                                                                         *)
(* What a producer posts is arbitrary: the proof in the blobs may be valid *)
(* for another span, invalid or not evaluable, and the declared root may   *)
(* be anything.  The escrow side of deposit() is in module Payout.         *)
(***************************************************************************)
EXTENDS Integers, Sequences, FiniteSets, Functions

CONSTANTS
  Producers,                \* authorized block producers
  Outsider,                 \* a fraud reporter that posts nothing
  Treasury,                 \* fraudTreasury
  BaseStake, PostStake,     \* wei
  FinalizeDeadlineBlocks,   \* FINALIZE_DEADLINE_BLOCKS
  Batches,                  \* the batches a producer may post: sequences of block contents
  Channels,                 \* channel ids the deployer may register
  MaxPosts,                 \* bound: posts ever made
  MaxDeposits,              \* bound: deposits ever made
  Wealth,                   \* bound: ETH each producer starts with
  Values                    \* ETH amounts sent with a post, added to or taken from a bond

ASSUME StakesAssumption == BaseStake \in Nat \ {0} /\ PostStake \in Nat \ {0}
ASSUME RolesAssumption == Outsider \notin Producers /\ Treasury \notin Producers \cup {Outsider}
\* EmptyBatch() rejects a batch without blocks.
ASSUME BatchesAssumption == \A b \in Batches : b \in Seq(Range(b)) /\ Len(b) > 0
ASSUME ValuesAssumption == Values \subseteq Nat /\ Wealth \in Nat

VARIABLES
  blockNumber, blockHashChain, blockHashChainAt, postingRound,
  depositCount,
  pendingDepositHashChain, pendingChannelRegHashChain,   \* live, owned by deposit/registerChannel
  pendingChainsCheckpoints,                              \* pin -> counts
  depositHashChain, channelRegHashChain, processedDepositCount,  \* consumed by posts
  submissions,
  latestFinalizedStateRoot, isFinalizedStateRoot, latestFinalizedBlockNumber,
  bonds, pendingWithdrawals,
  wallet,                   \* ETH the producers hold outside the contract
  posts,                    \* posts ever made
  convicted                 \* producers a proven fraud named as offender

headVars == <<blockNumber, blockHashChain, blockHashChainAt, postingRound, depositHashChain,
              channelRegHashChain, processedDepositCount>>
pendingVars == <<depositCount, pendingDepositHashChain, pendingChannelRegHashChain,
                 pendingChainsCheckpoints>>
finalityVars == <<latestFinalizedStateRoot, isFinalizedStateRoot, latestFinalizedBlockNumber>>
moneyVars == <<bonds, pendingWithdrawals, wallet, convicted>>
vars == <<headVars, pendingVars, submissions, finalityVars, moneyVars, posts>>

Addresses == Producers \cup {Outsider, Treasury}
Ids == 1 .. Len(submissions)
\* A mapping after a write.
Put(f, key, value) == [x \in DOMAIN f \cup {key} |-> IF x = key THEN value ELSE f[x]]
JunkRoot == <<[content |-> "junk", deposits |-> <<>>, registrations |-> <<>>]>>

Init ==
  /\ blockNumber = 0 /\ blockHashChain = <<>> /\ blockHashChainAt = [n \in {0} |-> <<>>]
  /\ postingRound = 0
  /\ depositCount = 0 /\ pendingDepositHashChain = <<>> /\ pendingChannelRegHashChain = <<>>
  /\ pendingChainsCheckpoints = [pin \in {<<<<>>, <<>>>>} |-> [deposits |-> 0, registrations |-> 0]]
  /\ depositHashChain = <<>> /\ channelRegHashChain = <<>> /\ processedDepositCount = 0
  /\ submissions = <<>>
  /\ latestFinalizedStateRoot = <<>> /\ isFinalizedStateRoot = {<<>>}
  /\ latestFinalizedBlockNumber = 0
  /\ bonds = [p \in Producers |-> [balance |-> 0, posted |-> 0, released |-> 0]]
  /\ pendingWithdrawals = [a \in Addresses |-> 0]
  /\ wallet = [p \in Producers |-> Wealth]
  /\ posts = 0
  /\ convicted = {}

------------------------------------------------------------------------------
\* _recordPendingChainsCheckpoint: every live pair stays a usable checkpoint.
RecordCheckpoint(deposits, regs, count) ==
  pendingChainsCheckpoints' =
    Put(pendingChainsCheckpoints, <<deposits, regs>>,
        [deposits |-> count, registrations |-> Len(regs)])

Deposit ==
  /\ depositCount < MaxDeposits
  /\ depositCount' = depositCount + 1
  /\ pendingDepositHashChain' = Append(pendingDepositHashChain, depositCount')
  /\ RecordCheckpoint(pendingDepositHashChain', pendingChannelRegHashChain, depositCount')
  /\ UNCHANGED <<headVars, pendingChannelRegHashChain, submissions, finalityVars, moneyVars,
                 posts>>

\* registerChannel: one time per channel id.
RegisterChannel(c) ==
  /\ c \notin Range(pendingChannelRegHashChain)
  /\ pendingChannelRegHashChain' = Append(pendingChannelRegHashChain, c)
  /\ RecordCheckpoint(pendingDepositHashChain, pendingChannelRegHashChain', depositCount)
  /\ UNCHANGED <<headVars, depositCount, pendingDepositHashChain, submissions, finalityVars,
                 moneyVars, posts>>

------------------------------------------------------------------------------
\* The counts stored with a pin; an unknown pin reads as zero.
CheckpointCounts(pin) ==
  IF pin \in DOMAIN pendingChainsCheckpoints
  THEN pendingChainsCheckpoints[pin] ELSE [deposits |-> 0, registrations |-> 0]

\* Only the live pair is accepted.
OnlyLivePin(pin) == pin = <<pendingDepositHashChain, pendingChannelRegHashChain>>

\* _postBlockAndSubmitPinned: a recorded pin, not older than the consumed pair.
PinAdmitted(pin) ==
  LET processed == CheckpointCounts(<<depositHashChain, channelRegHashChain>>)
  IN  /\ pin \in DOMAIN pendingChainsCheckpoints
      /\ CheckpointCounts(pin).deposits >= processed.deposits
      /\ CheckpointCounts(pin).registrations >= processed.registrations

\* Only the last sub-block of a batch advances the two chains.
BlocksOf(batch, pin) ==
  [i \in DOMAIN batch |->
     [content       |-> batch[i],
      deposits      |-> IF i = Len(batch) THEN pin[1] ELSE depositHashChain,
      registrations |-> IF i = Len(batch) THEN pin[2] ELSE channelRegHashChain]]

\* What the blobs of a post over "chain" may hold: a statement about two batch
\* ends of that chain with its verdict, or bytes no verifier can evaluate.
Statement(chain, verdict, i, f) ==
  [verdict |-> verdict, initial |-> SubSeq(chain, 1, i), final |-> SubSeq(chain, 1, f)]
BlobsOver(chain) ==
  LET ends == DOMAIN blockHashChainAt \cup {Len(chain)}
      spans == {s \in ends \X ends : s[1] < s[2]}
  IN  {Statement(chain, "valid", s[1], s[2]) : s \in spans}
        \cup {Statement(chain, "invalid", i, Len(chain)) : i \in DOMAIN blockHashChainAt}
        \cup {[verdict |-> "unevaluable", initial |-> <<>>, final |-> <<>>]}

\* _chargeBond: base plus one stake per unfinalized post, this one included.
BondSuffices(bond, value) ==
  bond.balance + value >= BaseStake + (bond.posted + 1 - bond.released) * PostStake

\* postBlockAndSubmitGuarded: the predecessor it expects is the current head.
Post(p, batch, pin, blob, stateRoot, value) ==
  /\ posts < MaxPosts
  /\ PinAdmitted(pin)
  /\ value <= wallet[p]
  /\ BondSuffices(bonds[p], value)
  /\ posts' = posts + 1
  /\ blockHashChain' = blockHashChain \o BlocksOf(batch, pin)
  /\ blockNumber' = blockNumber + Len(batch)
  /\ blockHashChainAt' = Put(blockHashChainAt, blockNumber', blockHashChain')
  /\ postingRound' = postingRound + 1
  /\ depositHashChain' = pin[1]
  /\ channelRegHashChain' = pin[2]
  /\ processedDepositCount' = CheckpointCounts(pin).deposits
  /\ bonds' = [bonds EXCEPT ![p].balance = @ + value, ![p].posted = @ + 1]
  /\ wallet' = [wallet EXCEPT ![p] = @ - value]
  /\ submissions' = Append(submissions,
       [submitter |-> p, finalized |-> FALSE, age |-> 0, attested |-> FALSE,
        stateRoot |-> stateRoot, blob |-> blob, postIndex |-> bonds[p].posted + 1,
        startBlockNumber |-> blockNumber + 1, endBlockNumber |-> blockNumber',
        previousBlockHash |-> blockHashChain, previousDepositHashChain |-> depositHashChain,
        previousChannelRegHashChain |-> channelRegHashChain,
        postingRoundBefore |-> postingRound,
        processedDepositCountBefore |-> processedDepositCount])
  /\ UNCHANGED <<pendingVars, finalityVars, pendingWithdrawals, convicted>>

PostAny ==
  \E p \in Producers, batch \in Batches, pin \in DOMAIN pendingChainsCheckpoints,
     value \in Values \cup {0} :
    \E blob \in BlobsOver(blockHashChain \o BlocksOf(batch, pin)) :
      \E stateRoot \in {blob.final} \cup (IF blob.verdict = "valid" THEN {JunkRoot} ELSE {}) :
        Post(p, batch, pin, blob, stateRoot, value)

\* attestProofData: the journal is keyed by the submission's own commitment.
AttestProofData(id) ==
  /\ ~submissions[id].finalized /\ ~submissions[id].attested
  /\ submissions' = [submissions EXCEPT ![id].attested = TRUE]
  /\ UNCHANGED <<headVars, pendingVars, finalityVars, moneyVars, posts>>

------------------------------------------------------------------------------
\* blockHashChainAt of a height that is no batch end reads as zero, the genesis chain.
ChainAt(n) == IF n \in DOMAIN blockHashChainAt THEN blockHashChainAt[n] ELSE <<>>

\* The public inputs of a blob match the on-chain state (fullVerify, _verifyFraud).
BoundToChain(blob, stateRoot) ==
  /\ blob.initial = latestFinalizedStateRoot
  /\ blob.initial = ChainAt(Len(blob.initial))
  /\ blob.final = ChainAt(Len(blob.final))
  /\ blob.final = stateRoot

\* A finalize() that does not look at the height the batch ends at.
FinalizableByRoot(sub) ==
  /\ ~sub.finalized /\ sub.attested
  /\ BoundToChain(sub.blob, sub.stateRoot)
  /\ sub.blob.verdict = "valid"

\* A finalize() that does not chain the proof to the last finalized root.
FinalizableFromAnywhere(sub) ==
  /\ ~sub.finalized /\ sub.attested
  /\ Len(sub.blob.final) = sub.endBlockNumber
  /\ sub.blob.final = ChainAt(Len(sub.blob.final)) /\ sub.blob.final = sub.stateRoot
  /\ sub.blob.verdict = "valid"

\* finalize and fullVerify, every rejecting exit.
Finalizable(sub) ==
  /\ ~sub.finalized
  /\ Len(sub.blob.final) = sub.endBlockNumber
  /\ sub.attested
  /\ sub.endBlockNumber >= latestFinalizedBlockNumber
  /\ BoundToChain(sub.blob, sub.stateRoot)
  /\ sub.blob.verdict = "valid"

\* The submitter's posts are counted as released, whatever was released before.
ReleaseAllPosts(bond, postIndex) == [bond EXCEPT !.released = bond.posted]

\* _releaseBond
ReleaseBondTo(bond, postIndex) ==
  [bond EXCEPT !.released = IF postIndex > @ THEN postIndex ELSE @]

Finalize(id) ==
  LET sub == submissions[id]
  IN  /\ Finalizable(sub)
      /\ submissions' = [submissions EXCEPT ![id].finalized = TRUE]
      /\ latestFinalizedStateRoot' = sub.stateRoot
      /\ isFinalizedStateRoot' = isFinalizedStateRoot \cup {sub.stateRoot}
      /\ latestFinalizedBlockNumber' = Len(sub.blob.final)
      /\ bonds' = [bonds EXCEPT ![sub.submitter] = ReleaseBondTo(@, sub.postIndex)]
      /\ UNCHANGED <<headVars, pendingVars, pendingWithdrawals, wallet, convicted, posts>>

------------------------------------------------------------------------------
Removed(id) == id .. Len(submissions)
PostsRemoved(p, id) == Cardinality({j \in Removed(id) : submissions[j].submitter = p})
Least(a, b) == IF a < b THEN a ELSE b

\* What a proven fraud of submission id takes from p: a stake per removed post,
\* and the base from the offender, never more than the bond holds.
Forfeited(p, id) ==
  Least(bonds[p].balance,
        PostsRemoved(p, id) * PostStake
          + (IF submissions[id].submitter = p THEN BaseStake ELSE 0))

ForfeitedByOthers(id) ==
  SumFunction([p \in Producers \ {submissions[id].submitter} |-> Forfeited(p, id)])

\* The reporter's share is taken from everything that is forfeited.
RewardFromEverything(id) ==
  ((Forfeited(submissions[id].submitter, id) + ForfeitedByOthers(id)) * 90) \div 100

\* FRAUD_REWARD_PERCENT of what the offender itself forfeits.
Reward(id) == (Forfeited(submissions[id].submitter, id) * 90) \div 100

TreasuryShare(id) ==
  Forfeited(submissions[id].submitter, id) - Reward(id) + ForfeitedByOthers(id)

\* The pending deposit chain goes back to what the batch had consumed.
PendingRestored(id) == submissions[id].previousDepositHashChain

\* _rollbackBatch leaves the live accumulators alone.
PendingAfterRollback(id) == pendingDepositHashChain

\* Only the target's own heights are cleared.
ClearedTargetOnly(id) == submissions[id].startBlockNumber .. submissions[id].endBlockNumber

\* The heights whose blockHashChainAt the rollbacks delete.
ClearedHeights(id) ==
  UNION {submissions[j].startBlockNumber .. submissions[j].endBlockNumber : j \in Removed(id)}

\* _truncateSubmissions, with _rollbackBatch of every removed batch, last first:
\* what remains is the metadata of the target.
Truncate(id, reporter, forfeit) ==
  LET target == submissions[id]
  IN  /\ \A j \in Removed(id) : ~submissions[j].finalized
      /\ submissions' = SubSeq(submissions, 1, id - 1)
      /\ blockNumber' = target.startBlockNumber - 1
      /\ blockHashChain' = target.previousBlockHash
      /\ blockHashChainAt' = Restrict(blockHashChainAt, DOMAIN blockHashChainAt \ ClearedHeights(id))
      /\ depositHashChain' = target.previousDepositHashChain
      /\ channelRegHashChain' = target.previousChannelRegHashChain
      /\ postingRound' = target.postingRoundBefore
      /\ processedDepositCount' = target.processedDepositCountBefore
      /\ pendingDepositHashChain' = PendingAfterRollback(id)
      /\ bonds' = [p \in Producers |->
                     [bonds[p] EXCEPT !.posted = @ - PostsRemoved(p, id),
                                      !.balance = @ - (IF forfeit THEN Forfeited(p, id) ELSE 0)]]
      /\ IF forfeit
         THEN /\ pendingWithdrawals' =
                   [pendingWithdrawals EXCEPT ![reporter] = @ + Reward(id),
                                              ![Treasury] = @ + TreasuryShare(id)]
              /\ convicted' = convicted \cup {target.submitter}
         ELSE UNCHANGED <<pendingWithdrawals, convicted>>
      /\ UNCHANGED <<depositCount, pendingChannelRegHashChain, pendingChainsCheckpoints,
                     finalityVars, wallet, posts>>

\* A submission whose proof cannot be evaluated is not removable.
RemovableIfEvaluable(sub) ==
  /\ ~sub.finalized /\ sub.startBlockNumber > latestFinalizedBlockNumber
  /\ sub.blob.verdict # "unevaluable"

\* The guards fraudProof applies to both of its branches.
Removable(sub) == ~sub.finalized /\ sub.startBlockNumber > latestFinalizedBlockNumber

\* fraudProof with evidence: the only verdict that convicts is INVALID.
FraudProof(id, reporter) ==
  /\ Removable(submissions[id])
  /\ submissions[id].attested
  /\ BoundToChain(submissions[id].blob, submissions[id].blob.final)
  /\ submissions[id].blob.verdict = "invalid"
  /\ Truncate(id, reporter, TRUE)

TimedOut(sub) == sub.age > FinalizeDeadlineBlocks

\* fraudProof past the deadline, without a proof or with one that does not convict.
TimeoutRemoval(id) ==
  /\ Removable(submissions[id])
  /\ TimedOut(submissions[id])
  /\ Truncate(id, Outsider, FALSE)

EthBlock ==
  /\ \E id \in Ids : ~TimedOut(submissions[id])
  /\ submissions' = [id \in Ids |->
       [submissions[id] EXCEPT !.age = IF TimedOut(submissions[id]) THEN @ ELSE @ + 1]]
  /\ UNCHANGED <<headVars, pendingVars, finalityVars, moneyVars, posts>>

------------------------------------------------------------------------------
DepositBond(p, value) ==
  /\ value <= wallet[p]
  /\ bonds' = [bonds EXCEPT ![p].balance = @ + value]
  /\ wallet' = [wallet EXCEPT ![p] = @ - value]
  /\ UNCHANGED <<headVars, pendingVars, submissions, finalityVars, pendingWithdrawals,
                 convicted, posts>>

\* The base is locked only while more than one post is.
LockedOneShort(bond) ==
  LET unfinalized == bond.posted - bond.released
  IN  IF unfinalized <= 1 THEN unfinalized * PostStake ELSE BaseStake + unfinalized * PostStake

Locked(bond) ==
  LET unfinalized == bond.posted - bond.released
  IN  IF unfinalized = 0 THEN 0 ELSE BaseStake + unfinalized * PostStake

WithdrawBond(p, amount) ==
  /\ amount <= bonds[p].balance
  /\ bonds[p].balance - amount >= Locked(bonds[p])
  /\ bonds' = [bonds EXCEPT ![p].balance = @ - amount]
  /\ wallet' = [wallet EXCEPT ![p] = @ + amount]
  /\ UNCHANGED <<headVars, pendingVars, submissions, finalityVars, pendingWithdrawals,
                 convicted, posts>>

\* releaseBond: a post that another producer's batch finalized.
ReleaseBond(id) ==
  /\ submissions[id].endBlockNumber <= latestFinalizedBlockNumber
  /\ bonds' = [bonds EXCEPT ![submissions[id].submitter] =
                 ReleaseBondTo(@, submissions[id].postIndex)]
  /\ UNCHANGED <<headVars, pendingVars, submissions, finalityVars, pendingWithdrawals, wallet,
                 convicted, posts>>

Next ==
  \/ Deposit
  \/ \E c \in Channels : RegisterChannel(c)
  \/ PostAny
  \/ \E id \in Ids : AttestProofData(id)
  \/ \E id \in Ids : Finalize(id)
  \/ \E id \in Ids, r \in Producers \cup {Outsider} : FraudProof(id, r)
  \/ \E id \in Ids : TimeoutRemoval(id)
  \/ \E id \in Ids : ReleaseBond(id)
  \/ \E p \in Producers, v \in Values : DepositBond(p, v)
  \/ \E p \in Producers, v \in Values : WithdrawBond(p, v)
  \/ EthBlock

Spec == Init /\ [][Next]_vars

\* Ethereum keeps producing blocks, and someone sends the permissionless,
\* proof-free removal of a submission that stays timed out.
LiveSpec ==
  /\ Spec
  /\ WF_vars(EthBlock)
  /\ WF_vars(\E id \in Ids : TimeoutRemoval(id))

------------------------------------------------------------------------------
(* Properties *)

Pins == DOMAIN pendingChainsCheckpoints
Prefix(chain, n) == SubSeq(chain, 1, n)
IsPrefixOf(s, t) == Len(s) <= Len(t) /\ s = Prefix(t, Len(s))

\* Through any posts, partial removals and reposts the live submissions tile the
\* chain: each starts where its predecessor ends and restores exactly the head it
\* was posted on, and blockHashChainAt holds the chain at every batch end of a
\* live batch and nothing at any other height, so no proof can bind to a block
\* that was rolled back (_postBlock, _rollbackBatch).
SubmissionsTileChain ==
  /\ blockNumber = Len(blockHashChain)
  /\ postingRound = Len(submissions)
  /\ DOMAIN blockHashChainAt = {0} \cup {submissions[id].endBlockNumber : id \in Ids}
  /\ \A n \in DOMAIN blockHashChainAt : blockHashChainAt[n] = Prefix(blockHashChain, n)
  /\ blockNumber = IF submissions = <<>> THEN 0 ELSE submissions[Len(submissions)].endBlockNumber
  /\ \A id \in Ids :
       LET sub == submissions[id]
           before == IF id = 1 THEN 0 ELSE submissions[id - 1].endBlockNumber
       IN  /\ sub.startBlockNumber = before + 1 /\ sub.endBlockNumber > before
           /\ sub.previousBlockHash = Prefix(blockHashChain, before)
           /\ sub.postingRoundBefore = id - 1

\* The finalized root is the correct root of the chain as posted at the finalized
\* height, and every root ever accepted for withdrawals is the root of an earlier
\* height of that same chain: no root of an abandoned branch, no declared root
\* without a proof, is ever finalized, and none is invalidated by a rollback
\* (finalize, fullVerify, fraudProof).
FinalizedRootsOnChain ==
  /\ latestFinalizedStateRoot = Prefix(blockHashChain, latestFinalizedBlockNumber)
  /\ latestFinalizedBlockNumber \in DOMAIN blockHashChainAt
  /\ \A root \in isFinalizedStateRoot : IsPrefixOf(root, latestFinalizedStateRoot)

\* A batch above the finalized height can always be removed: no finalized
\* submission sits in the suffix that _truncateSubmissions would delete, so its
\* AlreadyFinalized revert never shields a batch from fraudProof.
RemovalNeverBlocked ==
  \A id \in Ids : submissions[id].startBlockNumber > latestFinalizedBlockNumber =>
    \A j \in Removed(id) : ~submissions[j].finalized

\* A producer's live posts are numbered 1 .. posted in the order of their ids
\* although removals decrement the counter and ids and indices are reused, and
\* "released" never counts a post that can still be removed: a bond is unlocked
\* only by finalized history (_chargeBond, _releaseBond, _truncateSubmissions).
ReleasedPostsAreFinal ==
  \A p \in Producers :
    LET mine == {id \in Ids : submissions[id].submitter = p}
    IN  /\ bonds[p].posted = Cardinality(mine)
        /\ \A id \in mine :
             /\ submissions[id].postIndex = Cardinality({j \in mine : j <= id})
             /\ submissions[id].postIndex <= bonds[p].released =>
                  submissions[id].endBlockNumber <= latestFinalizedBlockNumber

\* While a producer that was never convicted has a post that can still be removed,
\* its bond holds the base and a stake for each such post, whatever it withdrew,
\* was released from, or lost to a fraud below its posts: a conviction is always
\* paid in full (withdrawBond, _chargeBond, _forfeitBond).
BondCoversExposure ==
  \A p \in Producers \ convicted :
    LET exposed == {id \in Ids : /\ submissions[id].submitter = p
                                 /\ submissions[id].endBlockNumber > latestFinalizedBlockNumber}
    IN  exposed # {} => bonds[p].balance >= BaseStake + Cardinality(exposed) * PostStake

\* Reporting one's own fraud never pays: whichever address other than the
\* treasury collects the reward, the offender's bond plus that address's credit
\* shrinks by a conviction that takes anything, and never grows, also when other
\* producers' posts fall with it (_truncateSubmissions, finding C3).
SelfReportNeverProfits ==
  [][Len(submissions') < Len(submissions) =>
       LET offender == submissions[Len(submissions') + 1].submitter
           Lost == bonds[offender].balance - bonds'[offender].balance
           Gained(r) == pendingWithdrawals'[r] - pendingWithdrawals[r]
       IN  \A r \in Addresses \ {Treasury} : Gained(r) < Lost \/ (Gained(r) = 0 /\ Lost = 0)]_vars

\* A deposit or registration, once made, is never dropped and never consumed out
\* of order: the live chain always holds every deposit, the consumed pair is a
\* recorded checkpoint whose counts are the lengths consumed, and along the posted
\* chain each block's deposits and registrations extend its predecessor's,
\* whatever was rolled back in between (finding H-1).
DepositsNeverLost ==
  /\ pendingDepositHashChain = [i \in 1 .. depositCount |-> i]
  /\ <<depositHashChain, channelRegHashChain>> \in Pins
  /\ processedDepositCount = Len(depositHashChain)
  /\ IsPrefixOf(depositHashChain, pendingDepositHashChain)
  /\ IsPrefixOf(channelRegHashChain, pendingChannelRegHashChain)
  /\ \A i, j \in DOMAIN blockHashChain : i < j =>
       /\ IsPrefixOf(blockHashChain[i].deposits, blockHashChain[j].deposits)
       /\ IsPrefixOf(blockHashChain[i].registrations, blockHashChain[j].registrations)

\* A proof built on a checkpoint stays postable: deposits, registrations,
\* finalizations and removals never make an admitted pin inadmissible, only a
\* further post can (_postBlockAndSubmitPinned, the liveness trap its comment
\* describes).
PinStaysUsable ==
  [][\A pin \in Pins : PinAdmitted(pin) /\ postingRound' <= postingRound => PinAdmitted(pin)']_vars

\* Every posted batch ends up in finalized history or is removed, at the latest
\* by the timeout removal that its passed deadline allows, even one whose proof
\* nobody can evaluate: the chain never stalls behind a submission that can be
\* neither finalized nor convicted.
EverySubmissionResolves ==
  \A id \in 1 .. MaxPosts :
    (Len(submissions) >= id) ~>
      \/ Len(submissions) < id
      \/ submissions[id].endBlockNumber <= latestFinalizedBlockNumber

\* The rollup as the rest of the system sees it.
Ledger == INSTANCE RollupLedger WITH
  blocks <- blockHashChain,
  boundaries <- DOMAIN blockHashChainAt \ {0},
  finalizedHeight <- latestFinalizedBlockNumber

\* The contract implements the ledger: it only ever appends whole batches,
\* truncates to a batch end at or above the finalized height, and finalizes a
\* strictly higher batch end.
ImplementsLedger == Ledger!LedgerSpec
=============================================================================
