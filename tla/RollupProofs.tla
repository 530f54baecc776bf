---------------------------- MODULE RollupProofs ----------------------------
(***************************************************************************)
(* The chain of IntmaxRollup, for any number of producers, batches,        *)
(* deposits and posts: the live submissions tile it, only its own roots    *)
(* are finalized, and the contract implements RollupLedger.                *)
(*                                                                         *)
(* SubmissionsTileChain speaks of consecutive batches; BatchesOrdered      *)
(* states what follows for any two, which a removal of several batches     *)
(* needs.  FinalizedBelow ties the "finalized" marks to the finalized      *)
(* height: the guard of fraudProof compares heights, the revert of         *)
(* _truncateSubmissions looks at the marks.                                *)
(***************************************************************************)
EXTENDS Rollup, SequenceTheorems, FiniteSetTheorems, TLAPS

Contents == UNION {Range(b) : b \in Batches}
Block == [content : Contents, deposits : Seq(Nat), registrations : Seq(Channels)]
Blob == [verdict : {"valid", "invalid", "unevaluable"}, initial : Seq(Block), final : Seq(Block)]
Submission ==
  [submitter : Producers, finalized : BOOLEAN, age : Nat, attested : BOOLEAN,
   stateRoot : Seq(Block) \cup {JunkRoot}, blob : Blob, postIndex : Int,
   startBlockNumber : Nat, endBlockNumber : Nat,
   previousBlockHash : Seq(Block), previousDepositHashChain : Seq(Nat),
   previousChannelRegHashChain : Seq(Channels),
   postingRoundBefore : Nat, processedDepositCountBefore : Nat]

HeadType ==
  /\ blockNumber \in Nat /\ blockHashChain \in Seq(Block) /\ postingRound \in Nat
  /\ depositHashChain \in Seq(Nat) /\ channelRegHashChain \in Seq(Channels)
  /\ processedDepositCount \in Nat
PendingType ==
  /\ depositCount \in Nat /\ Len(pendingDepositHashChain) = depositCount
  /\ pendingDepositHashChain \in Seq(Nat) /\ pendingChannelRegHashChain \in Seq(Channels)
  /\ \A pin \in Pins : /\ pin \in Seq(Nat) \X Seq(Channels)
                       /\ pendingChainsCheckpoints[pin]
                            = [deposits |-> Len(pin[1]), registrations |-> Len(pin[2])]
Bond == [balance : Int, posted : Int, released : Int]
BondType ==
  /\ bonds \in [Producers -> Bond]
  /\ wallet \in [Producers -> Int]
TypeInv ==
  /\ HeadType /\ PendingType /\ BondType
  /\ submissions \in Seq(Submission) /\ latestFinalizedBlockNumber \in Nat

\* Batches follow each other: what consecutive starts and ends say of any two.
BatchesOrdered ==
  \A i, j \in Ids : i < j => submissions[i].endBlockNumber < submissions[j].startBlockNumber

\* A finalized batch lies at or below the finalized height.
FinalizedBelow ==
  \A id \in Ids : submissions[id].finalized =>
    submissions[id].endBlockNumber <= latestFinalizedBlockNumber

RootsInv == FinalizedRootsOnChain /\ isFinalizedStateRoot \subseteq Seq(Block)

ChainInv ==
  /\ TypeInv /\ SubmissionsTileChain /\ BatchesOrdered
  /\ FinalizedBelow /\ RootsInv

-----------------------------------------------------------------------------
LEMMA PrefixProperties ==
  ASSUME NEW S, NEW s \in Seq(S), NEW n \in 0 .. Len(s)
  PROVE  /\ Prefix(s, n) \in Seq(S)
         /\ Len(Prefix(s, n)) = n
         /\ \A i \in 1 .. n : Prefix(s, n)[i] = s[i]
<1>1. \A i \in 1 .. n : s[i] \in S
  BY ElementOfSeq
<1> QED BY <1>1, SubSeqProperties DEF Prefix

LEMMA PrefixOfPrefix ==
  ASSUME NEW S, NEW s \in Seq(S), NEW n \in 0 .. Len(s), NEW m \in 0 .. n
  PROVE  Prefix(Prefix(s, n), m) = Prefix(s, m)
<1>1. /\ Prefix(s, n) \in Seq(S) /\ Len(Prefix(s, n)) = n
      /\ \A i \in 1 .. n : Prefix(s, n)[i] = s[i]
  BY PrefixProperties
<1>2. /\ Prefix(s, m) \in Seq(S) /\ Len(Prefix(s, m)) = m
      /\ \A i \in 1 .. m : Prefix(s, m)[i] = s[i]
  BY PrefixProperties
<1>3. /\ Prefix(Prefix(s, n), m) \in Seq(S) /\ Len(Prefix(Prefix(s, n), m)) = m
      /\ \A i \in 1 .. m : Prefix(Prefix(s, n), m)[i] = Prefix(s, n)[i]
  BY <1>1, PrefixProperties
<1>4. \A i \in 1 .. m : Prefix(Prefix(s, n), m)[i] = Prefix(s, m)[i]
  BY <1>1, <1>2, <1>3
<1> HIDE DEF Prefix
<1> QED BY <1>2, <1>3, <1>4, SeqEqual

LEMMA PrefixOfConcat ==
  ASSUME NEW S, NEW s \in Seq(S), NEW t \in Seq(S), NEW n \in 0 .. Len(s)
  PROVE  Prefix(s \o t, n) = Prefix(s, n)
<1>1. /\ s \o t \in Seq(S) /\ Len(s \o t) = Len(s) + Len(t)
      /\ \A i \in 1 .. Len(s) : (s \o t)[i] = s[i]
  BY ConcatProperties
<1>2. /\ Prefix(s, n) \in Seq(S) /\ Len(Prefix(s, n)) = n
      /\ \A i \in 1 .. n : Prefix(s, n)[i] = s[i]
  BY PrefixProperties
<1>3. n \in 0 .. Len(s \o t)
  BY <1>1
<1>4. /\ Prefix(s \o t, n) \in Seq(S) /\ Len(Prefix(s \o t, n)) = n
      /\ \A i \in 1 .. n : Prefix(s \o t, n)[i] = (s \o t)[i]
  BY Zenon, <1>1, <1>3, PrefixProperties
<1>5. \A i \in 1 .. n : Prefix(s \o t, n)[i] = Prefix(s, n)[i]
  BY <1>1, <1>2, <1>4
<1> QED BY <1>2, <1>4, <1>5, SeqEqual

LEMMA SuffixOfConcat ==
  ASSUME NEW S, NEW s \in Seq(S), NEW t \in Seq(S), Len(t) > 0
  PROVE  /\ Len(s \o t) = Len(s) + Len(t)
         /\ SubSeq(s \o t, Len(s) + 1, Len(s \o t)) = t
<1>1. Len(s \o t) = Len(s) + Len(t) /\ Len(s) \in Nat /\ Len(t) \in Nat
  BY ConcatProperties
<1>2. /\ Len(s) + 1 \in Len(s) + 1 .. Len(s) + Len(t)
      /\ Len(s) + Len(t) \in Len(s) + 1 .. Len(s) + Len(t)
      /\ Len(s) + 1 - Len(s) = 1 /\ Len(s) + Len(t) - Len(s) = Len(t)
  BY <1>1
<1>3. SubSeq(s \o t, Len(s) + 1, Len(s) + Len(t))
        = SubSeq(t, Len(s) + 1 - Len(s), Len(s) + Len(t) - Len(s))
  BY <1>2, SubSeqOfConcat2
<1> QED BY <1>1, <1>2, <1>3, SubSeqFull

LEMMA FullPrefix ==
  ASSUME NEW S, NEW s \in Seq(S)
  PROVE  Prefix(s, Len(s)) = s /\ Prefix(s, 0) = <<>>
BY SubSeqFull, SubSeqEmpty DEF Prefix

-----------------------------------------------------------------------------
(* What the invariant says of one batch.                                    *)

LEMMA BatchFacts ==
  ASSUME ChainInv, NEW id \in Ids
  PROVE  /\ id \in Nat /\ id >= 1 /\ submissions[id] \in Submission
         /\ submissions[id].startBlockNumber \in Nat /\ submissions[id].endBlockNumber \in Nat
         /\ submissions[id].startBlockNumber >= 1
         /\ submissions[id].startBlockNumber <= submissions[id].endBlockNumber
         /\ submissions[id].endBlockNumber \in DOMAIN blockHashChainAt
<1>1. submissions[id] \in Submission /\ Len(submissions) \in Nat
  BY ElementOfSeq DEF ChainInv, TypeInv, Ids
<1>2. /\ submissions[id].startBlockNumber \in Nat /\ submissions[id].endBlockNumber \in Nat
  BY Zenon, <1>1 DEF Submission
<1>3. id # 1 => submissions[id - 1].endBlockNumber \in Nat
  <2> SUFFICES ASSUME id # 1 PROVE submissions[id - 1].endBlockNumber \in Nat
    OBVIOUS
  <2>1. id - 1 \in 1 .. Len(submissions)
    BY <1>1 DEF Ids
  <2>2. submissions[id - 1] \in Submission
    BY <2>1, ElementOfSeq DEF ChainInv, TypeInv
  <2> QED BY <2>2 DEF Submission
<1>4. submissions[id].startBlockNumber >= 1
      /\ submissions[id].startBlockNumber <= submissions[id].endBlockNumber
  BY <1>2, <1>3 DEF ChainInv, SubmissionsTileChain
<1>5. submissions[id].endBlockNumber \in DOMAIN blockHashChainAt
  BY DEF ChainInv, SubmissionsTileChain
<1> QED BY <1>1, <1>2, <1>4, <1>5 DEF Ids

\* Every batch end, and the finalized height, is a height of the chain.
LEMMA Heights ==
  ASSUME ChainInv
  PROVE  /\ blockHashChain \in Seq(Block) /\ Len(blockHashChain) \in Nat
         /\ Len(submissions) \in Nat
         /\ DOMAIN blockHashChainAt \subseteq 0 .. Len(blockHashChain)
         /\ latestFinalizedBlockNumber \in 0 .. Len(blockHashChain)
<1>1. blockHashChain \in Seq(Block) /\ Len(blockHashChain) \in Nat /\ Len(submissions) \in Nat
  BY LenProperties DEF ChainInv, TypeInv, HeadType
<1>2. \A id \in Ids : submissions[id].endBlockNumber \in 0 .. Len(blockHashChain)
  <2> SUFFICES ASSUME NEW id \in Ids
               PROVE  submissions[id].endBlockNumber \in 0 .. Len(blockHashChain)
    OBVIOUS
  <2> DEFINE last == Len(submissions)
  <2>1. last \in Ids /\ submissions # <<>>
    BY <1>1, EmptySeq DEF Ids
  <2>2. Len(blockHashChain) = submissions[last].endBlockNumber
    BY <2>1 DEF ChainInv, SubmissionsTileChain
  <2>3. /\ submissions[id].endBlockNumber \in Nat /\ submissions[last].endBlockNumber \in Nat
        /\ submissions[last].startBlockNumber \in Nat
        /\ submissions[last].startBlockNumber <= submissions[last].endBlockNumber
    BY <2>1, BatchFacts
  <2>4. id = last \/ id < last
    BY <1>1 DEF Ids
  <2>5. CASE id < last
    BY <1>1, <2>1, <2>2, <2>3, <2>5 DEF ChainInv, BatchesOrdered
  <2> QED BY <2>2, <2>3, <2>4, <2>5
<1>3. DOMAIN blockHashChainAt \subseteq 0 .. Len(blockHashChain)
  BY <1>1, <1>2 DEF ChainInv, SubmissionsTileChain
<1> QED BY <1>1, <1>3 DEF ChainInv, RootsInv, FinalizedRootsOnChain

-----------------------------------------------------------------------------
(* A step that leaves the chain alone and posts or removes nothing.         *)
LEMMA TileKept ==
  ASSUME ChainInv, TypeInv',
         UNCHANGED <<blockNumber, blockHashChain, blockHashChainAt, postingRound>>,
         Len(submissions') = Len(submissions),
         \A id \in Ids : /\ submissions'[id].startBlockNumber = submissions[id].startBlockNumber
                        /\ submissions'[id].endBlockNumber = submissions[id].endBlockNumber
                        /\ submissions'[id].previousBlockHash = submissions[id].previousBlockHash
                        /\ submissions'[id].postingRoundBefore = submissions[id].postingRoundBefore
  PROVE  SubmissionsTileChain' /\ BatchesOrdered'
<1>1. Ids' = Ids /\ Len(submissions) \in Nat
  BY Heights DEF Ids
<1>2. ASSUME NEW id \in Ids, id # 1 PROVE id - 1 \in Ids
  BY <1>1, <1>2 DEF Ids
<1>3. (submissions' = <<>>) <=> (submissions = <<>>)
  BY EmptySeq DEF ChainInv, TypeInv
<1>4. submissions # <<>> => Len(submissions) \in Ids
  BY <1>1, EmptySeq DEF Ids, ChainInv, TypeInv
<1>5. /\ blockNumber' = Len(blockHashChain') /\ postingRound' = Len(submissions')
      /\ \A n \in DOMAIN blockHashChainAt' : blockHashChainAt'[n] = Prefix(blockHashChain', n)
  BY Zenon DEF ChainInv, SubmissionsTileChain
<1>6. DOMAIN blockHashChainAt' = {0} \cup {submissions'[id].endBlockNumber : id \in Ids'}
  <2>1. {submissions'[id].endBlockNumber : id \in Ids} = {submissions[id].endBlockNumber : id \in Ids}
    OBVIOUS
  <2> QED BY Zenon, <1>1, <2>1 DEF ChainInv, SubmissionsTileChain
<1>7. blockNumber' = IF submissions' = <<>> THEN 0
                     ELSE submissions'[Len(submissions')].endBlockNumber
  BY <1>3, <1>4 DEF ChainInv, SubmissionsTileChain
<1>8. ASSUME NEW id \in Ids'
      PROVE  LET sub == submissions'[id]
                 before == IF id = 1 THEN 0 ELSE submissions'[id - 1].endBlockNumber
             IN  /\ sub.startBlockNumber = before + 1 /\ sub.endBlockNumber > before
                 /\ sub.previousBlockHash = Prefix(blockHashChain', before)
                 /\ sub.postingRoundBefore = id - 1
  <2>1. (IF id = 1 THEN 0 ELSE submissions'[id - 1].endBlockNumber)
          = IF id = 1 THEN 0 ELSE submissions[id - 1].endBlockNumber
    BY <1>1, <1>2
  <2> QED BY <1>1, <2>1 DEF ChainInv, SubmissionsTileChain
<1>9. BatchesOrdered'
  BY <1>1 DEF ChainInv, BatchesOrdered
<1> QED BY <1>5, <1>6, <1>7, <1>8, <1>9 DEF SubmissionsTileChain

(* The same, if the step finalizes nothing either.                          *)
LEMMA ChainFrame ==
  ASSUME ChainInv, TypeInv', UNCHANGED <<headVars, finalityVars>>,
         Len(submissions') = Len(submissions),
         \A id \in Ids : /\ submissions'[id].startBlockNumber = submissions[id].startBlockNumber
                        /\ submissions'[id].endBlockNumber = submissions[id].endBlockNumber
                        /\ submissions'[id].previousBlockHash = submissions[id].previousBlockHash
                        /\ submissions'[id].postingRoundBefore = submissions[id].postingRoundBefore
                        /\ submissions'[id].finalized = submissions[id].finalized
  PROVE  ChainInv'
<1>1. Ids' = Ids
  BY DEF Ids
<1>2. UNCHANGED <<blockNumber, blockHashChain, blockHashChainAt, postingRound,
                  latestFinalizedStateRoot, isFinalizedStateRoot, latestFinalizedBlockNumber>>
  BY DEF headVars, finalityVars
<1>3. SubmissionsTileChain' /\ BatchesOrdered'
  BY Zenon, <1>2, TileKept
<1>4. FinalizedBelow'
  BY Zenon, <1>1, <1>2 DEF ChainInv, FinalizedBelow
<1>5. RootsInv'
  BY <1>2 DEF ChainInv, RootsInv, FinalizedRootsOnChain
<1> QED BY <1>3, <1>4, <1>5 DEF ChainInv

-----------------------------------------------------------------------------
(* Deposits, registrations and bonds.                                       *)

LEMMA UnchangedType ==
  ASSUME TypeInv
  PROVE  /\ UNCHANGED headVars => HeadType'
         /\ UNCHANGED pendingVars => PendingType'
         /\ UNCHANGED <<bonds, wallet>> => BondType'
BY Zenon DEF TypeInv, HeadType, PendingType, BondType, headVars, pendingVars, Pins

LEMMA CheckpointType ==
  ASSUME PendingType, depositCount' \in Nat, Len(pendingDepositHashChain') = depositCount',
         pendingDepositHashChain' \in Seq(Nat), pendingChannelRegHashChain' \in Seq(Channels),
         RecordCheckpoint(pendingDepositHashChain', pendingChannelRegHashChain', depositCount')
  PROVE  PendingType'
<1> DEFINE live == <<pendingDepositHashChain', pendingChannelRegHashChain'>>
<1>1. Pins' = Pins \cup {live}
  BY DEF Pins, RecordCheckpoint, Put
<1>2. ASSUME NEW pin \in Pins'
      PROVE  /\ pin \in Seq(Nat) \X Seq(Channels)
             /\ pendingChainsCheckpoints'[pin]
                  = [deposits |-> Len(pin[1]), registrations |-> Len(pin[2])]
  <2>1. pendingChainsCheckpoints'[pin] =
          IF pin = live THEN [deposits |-> depositCount',
                              registrations |-> Len(pendingChannelRegHashChain')]
          ELSE pendingChainsCheckpoints[pin]
    BY <1>1 DEF RecordCheckpoint, Put, Pins
  <2> QED BY <1>1, <2>1 DEF PendingType
<1> QED BY <1>2 DEF PendingType

LEMMA DepositType ==
  ASSUME TypeInv, Deposit
  PROVE  PendingType'
<1>1. depositCount' \in Nat /\ depositCount' = depositCount + 1 /\ PendingType
  BY DEF Deposit, TypeInv, PendingType
<1>2. /\ pendingDepositHashChain' \in Seq(Nat)
      /\ Len(pendingDepositHashChain') = Len(pendingDepositHashChain) + 1
  BY <1>1, AppendProperties DEF Deposit, PendingType
<1>3. pendingChannelRegHashChain' = pendingChannelRegHashChain
  BY DEF Deposit
<1> QED BY Zenon, <1>1, <1>2, <1>3, CheckpointType DEF Deposit, PendingType

LEMMA RegisterType ==
  ASSUME TypeInv, NEW c \in Channels, RegisterChannel(c)
  PROVE  PendingType'
<1>1. PendingType /\ UNCHANGED <<depositCount, pendingDepositHashChain>>
  BY DEF RegisterChannel, TypeInv
<1>2. pendingChannelRegHashChain' \in Seq(Channels)
  BY <1>1, AppendProperties DEF RegisterChannel, PendingType
<1> QED BY Zenon, <1>1, <1>2, CheckpointType DEF RegisterChannel, PendingType

LEMMA BondStepType ==
  ASSUME TypeInv, NEW p \in Producers, NEW v \in Values,
         DepositBond(p, v) \/ WithdrawBond(p, v)
  PROVE  BondType'
<1>1. v \in Int /\ bonds \in [Producers -> Bond] /\ wallet \in [Producers -> Int]
      /\ bonds[p] \in Bond /\ bonds[p].balance \in Int
  BY ValuesAssumption DEF TypeInv, BondType, Bond
<1>2. \A b \in Int : [bonds[p] EXCEPT !.balance = b] \in Bond
  BY <1>1 DEF Bond
<1>3. CASE DepositBond(p, v)
  <2>1. /\ bonds' = [bonds EXCEPT ![p] = [bonds[p] EXCEPT !.balance = bonds[p].balance + v]]
        /\ wallet' = [wallet EXCEPT ![p] = wallet[p] - v]
    BY <1>1, <1>3 DEF DepositBond
  <2> QED BY <1>1, <1>2, <2>1 DEF BondType
<1>4. CASE WithdrawBond(p, v)
  <2>1. /\ bonds' = [bonds EXCEPT ![p] = [bonds[p] EXCEPT !.balance = bonds[p].balance - v]]
        /\ wallet' = [wallet EXCEPT ![p] = wallet[p] + v]
    BY <1>1, <1>4 DEF WithdrawBond
  <2> QED BY <1>1, <1>2, <2>1 DEF BondType
<1> QED BY <1>3, <1>4

LEMMA ReleaseType ==
  ASSUME NEW bond \in Bond, NEW i \in Int
  PROVE  ReleaseBondTo(bond, i) \in Bond
BY DEF ReleaseBondTo, Bond

-----------------------------------------------------------------------------
(* Posts.                                                                   *)

LEMMA BlocksType ==
  ASSUME TypeInv, NEW batch \in Batches, NEW pin \in Pins
  PROVE  /\ pin[1] \in Seq(Nat) /\ pin[2] \in Seq(Channels)
         /\ BlocksOf(batch, pin) \in Seq(Block)
         /\ Len(BlocksOf(batch, pin)) = Len(batch) /\ Len(batch) \in Nat /\ Len(batch) > 0
<1>1. batch \in Seq(Range(batch)) /\ Len(batch) > 0
  BY BatchesAssumption
<1>2. Len(batch) \in Nat /\ DOMAIN batch = 1 .. Len(batch)
      /\ \A i \in DOMAIN batch : batch[i] \in Contents
  BY <1>1, LenProperties DEF Contents, Range
<1>3. pin[1] \in Seq(Nat) /\ pin[2] \in Seq(Channels)
  BY Zenon DEF TypeInv, PendingType
<1>4. BlocksOf(batch, pin) \in [1 .. Len(batch) -> Block]
  BY <1>2, <1>3 DEF BlocksOf, Block, TypeInv, HeadType
<1>5. BlocksOf(batch, pin) \in Seq(Block) /\ DOMAIN BlocksOf(batch, pin) = 1 .. Len(batch)
  BY <1>2, <1>4, SeqDef
<1>6. Len(BlocksOf(batch, pin)) = Len(batch)
  BY <1>2, <1>5, LenProperties
<1> QED BY <1>1, <1>2, <1>3, <1>5, <1>6

LEMMA BlobsType ==
  ASSUME NEW chain \in Seq(Block), DOMAIN blockHashChainAt \subseteq 0 .. Len(chain),
         NEW blob \in BlobsOver(chain)
  PROVE  blob \in Blob
<1>1. Len(chain) \in Nat
  OBVIOUS
<1>2. \A i \in 0 .. Len(chain) : SubSeq(chain, 1, i) \in Seq(Block)
  BY PrefixProperties DEF Prefix
<1>3. <<>> \in Seq(Block)
  OBVIOUS
<1>4. \A i, f \in 0 .. Len(chain) :
        Statement(chain, "valid", i, f) \in Blob /\ Statement(chain, "invalid", i, f) \in Blob
  BY Zenon, <1>2 DEF Statement, Blob
<1>5. [verdict |-> "unevaluable", initial |-> <<>>, final |-> <<>>] \in Blob
  BY <1>3 DEF Blob
<1>6. DOMAIN blockHashChainAt \cup {Len(chain)} \subseteq 0 .. Len(chain)
  BY <1>1
<1> QED BY <1>4, <1>5, <1>6 DEF BlobsOver

LEMMA PostType ==
  ASSUME ChainInv, NEW p \in Producers, NEW batch \in Batches, NEW pin \in Pins,
         NEW value \in Values \cup {0},
         NEW blob \in BlobsOver(blockHashChain \o BlocksOf(batch, pin)),
         NEW stateRoot \in {blob.final, JunkRoot},
         Post(p, batch, pin, blob, stateRoot, value)
  PROVE  TypeInv'
<1> DEFINE blocks == BlocksOf(batch, pin)
           count == CheckpointCounts(pin).deposits
<1>1. /\ pin[1] \in Seq(Nat) /\ pin[2] \in Seq(Channels) /\ blocks \in Seq(Block)
      /\ Len(batch) \in Nat
  BY BlocksType DEF ChainInv
<1>2. blockHashChain \o blocks \in Seq(Block)
      /\ Len(blockHashChain \o blocks) = Len(blockHashChain) + Len(blocks)
      /\ Len(blocks) \in Nat /\ Len(blockHashChain) \in Nat
  BY <1>1, Heights, ConcatProperties
<1>3. count \in Nat
  BY <1>1 DEF CheckpointCounts, ChainInv, TypeInv, PendingType, Pins
<1>4. DOMAIN blockHashChainAt \subseteq 0 .. Len(blockHashChain \o blocks)
  BY <1>2, Heights
<1>5. blob \in Blob
  BY Zenon, <1>2, <1>4, BlobsType
<1>6. stateRoot \in Seq(Block) \cup {JunkRoot}
  BY <1>5 DEF Blob
<1>7. HeadType'
  <2>1. /\ blockHashChain' = blockHashChain \o blocks /\ blockNumber' = blockNumber + Len(batch)
        /\ postingRound' = postingRound + 1 /\ depositHashChain' = pin[1]
        /\ channelRegHashChain' = pin[2] /\ processedDepositCount' = count
    BY DEF Post
  <2>2. blockNumber \in Nat /\ postingRound \in Nat
    BY DEF ChainInv, TypeInv, HeadType
  <2> HIDE DEF blocks, count
  <2>3. blockNumber' \in Nat /\ postingRound' \in Nat
    BY <1>1, <2>1, <2>2
  <2> QED BY <1>1, <1>2, <1>3, <2>1, <2>3 DEF HeadType
<1>8. PendingType'
  BY Zenon, UnchangedType DEF Post, ChainInv
<1>9. /\ value \in Int /\ bonds \in [Producers -> Bond] /\ wallet \in [Producers -> Int]
      /\ bonds[p] \in Bond /\ bonds[p].balance \in Int /\ bonds[p].posted \in Int
  BY ValuesAssumption DEF ChainInv, TypeInv, BondType, Bond
<1>10. BondType'
  <2>1. \A b, c \in Int : [bonds[p] EXCEPT !.balance = b, !.posted = c] \in Bond
    BY Zenon, <1>9 DEF Bond
  <2>2. /\ bonds' = [bonds EXCEPT ![p] = [bonds[p] EXCEPT !.balance = bonds[p].balance + value,
                                                         !.posted = bonds[p].posted + 1]]
        /\ wallet' = [wallet EXCEPT ![p] = wallet[p] - value]
    BY Zenon, <1>9 DEF Post, Bond
  <2>3. /\ bonds[p].balance + value \in Int /\ bonds[p].posted + 1 \in Int
        /\ wallet[p] - value \in Int
    BY <1>9
  <2>4. [bonds[p] EXCEPT !.balance = bonds[p].balance + value,
                         !.posted = bonds[p].posted + 1] \in Bond
    BY <2>1, <2>3, Zenon
  <2> QED BY <1>9, <2>2, <2>3, <2>4 DEF BondType
<1> DEFINE sub ==
      [submitter |-> p, finalized |-> FALSE, age |-> 0, attested |-> FALSE,
        stateRoot |-> stateRoot, blob |-> blob, postIndex |-> bonds[p].posted + 1,
        startBlockNumber |-> blockNumber + 1, endBlockNumber |-> blockNumber',
        previousBlockHash |-> blockHashChain, previousDepositHashChain |-> depositHashChain,
        previousChannelRegHashChain |-> channelRegHashChain,
        postingRoundBefore |-> postingRound,
        processedDepositCountBefore |-> processedDepositCount]
<1>11. sub \in Submission
  BY <1>5, <1>6, <1>7, <1>9 DEF Submission, ChainInv, TypeInv, HeadType
<1>12. submissions' = Append(submissions, sub)
  BY DEF Post
<1> HIDE DEF sub
<1>13. submissions' \in Seq(Submission)
  BY <1>11, <1>12, AppendProperties DEF ChainInv, TypeInv
<1>14. latestFinalizedBlockNumber' \in Nat
  BY Zenon DEF Post, finalityVars, ChainInv, TypeInv
<1> QED BY <1>7, <1>8, <1>10, <1>13, <1>14 DEF TypeInv

LEMMA PostInv ==
  ASSUME ChainInv, NEW p \in Producers, NEW batch \in Batches, NEW pin \in Pins,
         NEW value \in Values \cup {0},
         NEW blob \in BlobsOver(blockHashChain \o BlocksOf(batch, pin)),
         NEW stateRoot \in {blob.final, JunkRoot},
         Post(p, batch, pin, blob, stateRoot, value)
  PROVE  ChainInv'
<1> DEFINE blocks == BlocksOf(batch, pin)
           n == Len(submissions)
           sub == submissions'[n + 1]
<1>1. TypeInv' /\ submissions \in Seq(Submission)
  BY Zenon, PostType DEF ChainInv, TypeInv
<1>2. /\ blocks \in Seq(Block) /\ Len(blocks) = Len(batch) /\ Len(batch) \in Nat
      /\ Len(batch) > 0
  BY BlocksType DEF ChainInv
<1>3. /\ blockHashChain \in Seq(Block) /\ Len(blockHashChain) \in Nat /\ n \in Nat
      /\ DOMAIN blockHashChainAt \subseteq 0 .. Len(blockHashChain)
      /\ latestFinalizedBlockNumber \in 0 .. Len(blockHashChain)
      /\ blockNumber = Len(blockHashChain) /\ postingRound = n
  BY Zenon, Heights DEF ChainInv, SubmissionsTileChain
<1>4. /\ blockHashChain' = blockHashChain \o blocks /\ blockHashChain' \in Seq(Block)
      /\ Len(blockHashChain') = Len(blockHashChain) + Len(batch)
      /\ blockNumber' = blockNumber + Len(batch) /\ postingRound' = postingRound + 1
  <2>1. /\ blockHashChain' = blockHashChain \o blocks
        /\ blockNumber' = blockNumber + Len(batch) /\ postingRound' = postingRound + 1
    BY Zenon DEF Post
  <2> HIDE DEF blocks
  <2> QED BY <1>2, <1>3, <2>1, ConcatProperties
<1>5. \A m \in 0 .. Len(blockHashChain) : Prefix(blockHashChain', m) = Prefix(blockHashChain, m)
  BY Zenon, <1>2, <1>3, <1>4, PrefixOfConcat
<1>6. /\ Len(submissions') = n + 1
      /\ \A id \in 1 .. n : submissions'[id] = submissions[id]
      /\ sub.startBlockNumber = blockNumber + 1 /\ sub.endBlockNumber = blockNumber'
      /\ sub.previousBlockHash = blockHashChain /\ sub.postingRoundBefore = postingRound
      /\ sub.finalized = FALSE
  BY <1>1, <1>3 DEF Post
<1> HIDE DEF sub, n, blocks
<1>7. Ids = 1 .. n /\ Ids' = 1 .. n + 1
  BY Zenon, <1>6 DEF Ids, n
<1>8. \A id \in 1 .. n :
         /\ submissions[id].startBlockNumber \in Nat /\ submissions[id].endBlockNumber \in Nat
         /\ submissions[id].endBlockNumber \in 0 .. Len(blockHashChain)
  BY Zenon, <1>3, <1>7, BatchFacts
<1>9. SubmissionsTileChain'
  <2>1. DOMAIN blockHashChainAt' = DOMAIN blockHashChainAt \cup {blockNumber'}
        /\ \A m \in DOMAIN blockHashChainAt' : blockHashChainAt'[m] =
              IF m = blockNumber' THEN blockHashChain' ELSE blockHashChainAt[m]
    BY Zenon DEF Post, Put
  <2>2. \A m \in DOMAIN blockHashChainAt' : blockHashChainAt'[m] = Prefix(blockHashChain', m)
    <3> SUFFICES ASSUME NEW m \in DOMAIN blockHashChainAt'
                 PROVE  blockHashChainAt'[m] = Prefix(blockHashChain', m)
      OBVIOUS
    <3>1. CASE m = blockNumber'
      BY Zenon, <1>3, <1>4, <2>1, <3>1, FullPrefix
    <3>2. CASE m # blockNumber'
      <4>1. m \in DOMAIN blockHashChainAt /\ blockHashChainAt'[m] = blockHashChainAt[m]
        BY Zenon, <2>1, <3>2
      <4>2. blockHashChainAt[m] = Prefix(blockHashChain, m) /\ m \in 0 .. Len(blockHashChain)
        BY Zenon, <1>3, <4>1 DEF ChainInv, SubmissionsTileChain
      <4> QED BY Zenon, <1>5, <4>1, <4>2
    <3> QED BY <3>1, <3>2
  <2>3. DOMAIN blockHashChainAt' = {0} \cup {submissions'[id].endBlockNumber : id \in Ids'}
    <3>1. DOMAIN blockHashChainAt = {0} \cup {submissions[id].endBlockNumber : id \in 1 .. n}
      BY Zenon, <1>7 DEF ChainInv, SubmissionsTileChain
    <3>2. {submissions'[id].endBlockNumber : id \in 1 .. n + 1}
            = {submissions[id].endBlockNumber : id \in 1 .. n} \cup {blockNumber'}
      <4>1. submissions'[n + 1].endBlockNumber = blockNumber'
        BY Zenon, <1>6 DEF sub
      <4>2. 1 .. n + 1 = (1 .. n) \cup {n + 1}
        BY <1>3
      <4> QED BY <1>6, <4>1, <4>2
    <3> QED BY Zenon, <1>7, <2>1, <3>1, <3>2
  <2>4. blockNumber' = submissions'[Len(submissions')].endBlockNumber /\ submissions' # <<>>
    BY <1>1, <1>3, <1>6, EmptySeq DEF sub
  <2>5. ASSUME NEW id \in Ids'
        PROVE  LET s == submissions'[id]
                   before == IF id = 1 THEN 0 ELSE submissions'[id - 1].endBlockNumber
               IN  /\ s.startBlockNumber = before + 1 /\ s.endBlockNumber > before
                   /\ s.previousBlockHash = Prefix(blockHashChain', before)
                   /\ s.postingRoundBefore = id - 1
    <3>1. CASE id = n + 1
      <4> DEFINE before == IF id = 1 THEN 0 ELSE submissions'[id - 1].endBlockNumber
      <4>1. before = blockNumber
        <5>1. CASE n = 0
          <6>1. submissions = <<>>
            BY <1>1, <5>1, EmptySeq DEF n
          <6> QED BY <3>1, <5>1, <6>1 DEF ChainInv, SubmissionsTileChain
        <5>2. CASE n # 0
          <6>1. submissions # <<>> /\ blockNumber = submissions[n].endBlockNumber
            BY Zenon, <5>2, EmptySeq DEF ChainInv, SubmissionsTileChain, n
          <6>2. id - 1 = n /\ n \in 1 .. n /\ id # 1
            BY <1>3, <3>1, <5>2
          <6> QED BY Zenon, <1>6, <6>1, <6>2
        <5> QED BY <5>1, <5>2
      <4>2. Prefix(blockHashChain', before) = blockHashChain
        BY <1>3, <1>5, <4>1, FullPrefix
      <4> HIDE DEF before
      <4>3. submissions'[id] = sub
        BY <3>1 DEF sub
      <4>4. /\ sub.startBlockNumber = before + 1 /\ sub.endBlockNumber > before
            /\ sub.postingRoundBefore = id - 1
        BY <1>2, <1>3, <1>4, <1>6, <3>1, <4>1
      <4> QED BY Zenon, <1>6, <4>2, <4>3, <4>4 DEF before
    <3>2. CASE id # n + 1
      <4> DEFINE before == IF id = 1 THEN 0 ELSE submissions[id - 1].endBlockNumber
      <4>1. id \in 1 .. n /\ (id # 1 => id - 1 \in 1 .. n)
        BY <1>3, <1>7, <3>2
      <4>2. /\ submissions'[id] = submissions[id]
            /\ before = IF id = 1 THEN 0 ELSE submissions'[id - 1].endBlockNumber
            /\ before \in 0 .. Len(blockHashChain)
        BY <1>3, <1>6, <1>8, <4>1
      <4>3. /\ submissions[id].startBlockNumber = before + 1
            /\ submissions[id].endBlockNumber > before
            /\ submissions[id].previousBlockHash = Prefix(blockHashChain, before)
            /\ submissions[id].postingRoundBefore = id - 1
        BY Zenon, <1>7, <4>1 DEF ChainInv, SubmissionsTileChain
      <4> HIDE DEF before
      <4> QED BY Zenon, <1>5, <4>2, <4>3
    <3> QED BY Zenon, <3>1, <3>2
  <2> QED BY Zenon, <1>3, <1>4, <1>6, <2>2, <2>3, <2>4, <2>5 DEF SubmissionsTileChain
<1>10. BatchesOrdered'
  <2> SUFFICES ASSUME NEW i \in 1 .. n + 1, NEW j \in 1 .. n + 1, i < j
               PROVE  submissions'[i].endBlockNumber < submissions'[j].startBlockNumber
    BY <1>7 DEF BatchesOrdered
  <2>1. i \in 1 .. n
    BY <1>3
  <2>2. CASE j = n + 1
    BY SMT, Z3, <1>3, <1>6, <1>8, <2>1, <2>2 DEF sub
  <2>3. CASE j # n + 1
    <3>1. j \in 1 .. n
      BY <1>3, <2>3
    <3> QED BY Zenon, <1>6, <1>7, <2>1, <3>1 DEF ChainInv, BatchesOrdered
  <2> QED BY Zenon, <2>2, <2>3
<1>11. FinalizedBelow'
  <2>1. latestFinalizedBlockNumber' = latestFinalizedBlockNumber
    BY DEF Post, finalityVars
  <2> SUFFICES ASSUME NEW id \in 1 .. n + 1, submissions'[id].finalized
               PROVE  submissions'[id].endBlockNumber <= latestFinalizedBlockNumber
    BY Zenon, <1>7, <2>1 DEF FinalizedBelow
  <2>2. id # n + 1
    BY Zenon, <1>6 DEF sub
  <2>3. id \in 1 .. n
    BY <1>3, <2>2
  <2> QED BY Zenon, <1>6, <1>7, <2>3 DEF ChainInv, FinalizedBelow
<1>12. RootsInv'
  <2>1. UNCHANGED finalityVars /\ DOMAIN blockHashChainAt' = DOMAIN blockHashChainAt \cup {blockNumber'}
    BY Zenon DEF Post, Put
  <2>2. Prefix(blockHashChain', latestFinalizedBlockNumber)
          = Prefix(blockHashChain, latestFinalizedBlockNumber)
    BY <1>3, <1>5
  <2> QED BY Zenon, <2>1, <2>2 DEF finalityVars, ChainInv, RootsInv, FinalizedRootsOnChain
<1> QED BY <1>1, <1>9, <1>10, <1>11, <1>12 DEF ChainInv

-----------------------------------------------------------------------------
(* Removals.                                                                *)

LEMMA RemovalPossible == ChainInv => RemovalNeverBlocked
<1> SUFFICES ASSUME ChainInv, NEW id \in Ids, NEW j \in Removed(id),
                    submissions[id].startBlockNumber > latestFinalizedBlockNumber,
                    submissions[j].finalized
             PROVE  FALSE
  BY DEF RemovalNeverBlocked
<1>1. j \in Ids /\ id <= j /\ id \in Nat /\ j \in Nat
  BY Heights DEF Ids, Removed
<1>2. /\ submissions[id].startBlockNumber \in Nat /\ submissions[id].endBlockNumber \in Nat
      /\ submissions[j].startBlockNumber \in Nat /\ submissions[j].endBlockNumber \in Nat
      /\ submissions[id].startBlockNumber <= submissions[id].endBlockNumber
      /\ submissions[j].startBlockNumber <= submissions[j].endBlockNumber
  BY Zenon, <1>1, BatchFacts
<1>3. id < j => submissions[id].endBlockNumber < submissions[j].startBlockNumber
  BY <1>1 DEF ChainInv, BatchesOrdered
<1>4. submissions[j].endBlockNumber <= latestFinalizedBlockNumber
  BY <1>1 DEF ChainInv, FinalizedBelow
<1>5. latestFinalizedBlockNumber \in Nat
  BY DEF ChainInv, TypeInv
<1> QED BY <1>1, <1>2, <1>3, <1>4, <1>5

LEMMA PostsRemovedType ==
  ASSUME NEW p, NEW id \in Nat, Len(submissions) \in Nat
  PROVE  PostsRemoved(p, id) \in Nat
<1>1. IsFiniteSet(Removed(id))
  BY FS_Interval DEF Removed
<1>2. IsFiniteSet({j \in Removed(id) : submissions[j].submitter = p})
  BY <1>1, FS_Subset
<1> QED BY <1>2, FS_CardinalityType DEF PostsRemoved

LEMMA TruncateType ==
  ASSUME ChainInv, NEW id \in Ids, NEW r, NEW forfeit \in BOOLEAN, Truncate(id, r, forfeit)
  PROVE  TypeInv' /\ submissions' = SubSeq(submissions, 1, id - 1)
         /\ Len(submissions') = id - 1
         /\ \A i \in 1 .. id - 1 : submissions'[i] = submissions[i]
<1>1. submissions \in Seq(Submission) /\ submissions[id] \in Submission
      /\ id \in 1 .. Len(submissions) /\ Len(submissions) \in Nat /\ id \in Nat
  BY Zenon, BatchFacts, Heights DEF ChainInv, TypeInv, Ids
<1>2. submissions' = SubSeq(submissions, 1, id - 1)
  BY Zenon DEF Truncate
<1>3. /\ submissions' \in Seq(Submission) /\ Len(submissions') = id - 1
      /\ \A i \in 1 .. id - 1 : submissions'[i] = submissions[i]
  <2>1. id - 1 \in 0 .. Len(submissions)
    BY <1>1
  <2> QED BY Zenon, <1>1, <1>2, <2>1, PrefixProperties DEF Prefix
<1>4. HeadType'
  <2>1. /\ blockNumber' = submissions[id].startBlockNumber - 1
        /\ blockHashChain' = submissions[id].previousBlockHash
        /\ depositHashChain' = submissions[id].previousDepositHashChain
        /\ channelRegHashChain' = submissions[id].previousChannelRegHashChain
        /\ postingRound' = submissions[id].postingRoundBefore
        /\ processedDepositCount' = submissions[id].processedDepositCountBefore
    BY Zenon DEF Truncate
  <2>2. submissions[id].startBlockNumber >= 1
    BY Zenon, BatchFacts
  <2>3. /\ submissions[id].startBlockNumber \in Nat
        /\ submissions[id].previousBlockHash \in Seq(Block)
        /\ submissions[id].previousDepositHashChain \in Seq(Nat)
        /\ submissions[id].previousChannelRegHashChain \in Seq(Channels)
        /\ submissions[id].postingRoundBefore \in Nat
        /\ submissions[id].processedDepositCountBefore \in Nat
    BY Zenon, <1>1 DEF Submission
  <2>4. submissions[id].startBlockNumber - 1 \in Nat
    BY <2>2, <2>3
  <2> QED BY Zenon, <2>1, <2>3, <2>4 DEF HeadType
<1>5. PendingType'
  <2>1. UNCHANGED pendingVars
    BY Zenon DEF Truncate, PendingAfterRollback, pendingVars
  <2> QED BY <2>1, UnchangedType DEF ChainInv
<1>6. BondType'
  <2> DEFINE taken(p) == IF forfeit THEN Forfeited(p, id) ELSE 0
  <2>1. bonds \in [Producers -> Bond] /\ wallet' = wallet /\ wallet \in [Producers -> Int]
    BY Zenon DEF ChainInv, TypeInv, BondType, Truncate
  <2>2. ASSUME NEW p \in Producers
        PROVE  [bonds[p] EXCEPT !.posted = @ - PostsRemoved(p, id),
                                !.balance = @ - taken(p)] \in Bond
    <3>1. bonds[p] \in Bond /\ bonds[p].balance \in Int /\ bonds[p].posted \in Int
      BY <2>1 DEF Bond
    <3>2. PostsRemoved(p, id) \in Nat
      BY <1>1, PostsRemovedType
    <3>3. Forfeited(p, id) \in Int
      <4>1. PostsRemoved(p, id) * PostStake
              + (IF submissions[id].submitter = p THEN BaseStake ELSE 0) \in Int
        BY <3>2, StakesAssumption
      <4> QED BY Zenon, <3>1, <4>1 DEF Forfeited, Least
    <3>4. bonds[p].posted - PostsRemoved(p, id) \in Int /\ bonds[p].balance - taken(p) \in Int
      BY <3>1, <3>2, <3>3
    <3> HIDE DEF taken
    <3> QED BY Zenon, <3>1, <3>4 DEF Bond
  <2>3. bonds' = [p \in Producers |->
                    [bonds[p] EXCEPT !.posted = @ - PostsRemoved(p, id),
                                     !.balance = @ - taken(p)]]
    BY Zenon DEF Truncate
  <2> HIDE DEF taken
  <2> QED BY Zenon, <2>1, <2>2, <2>3 DEF BondType
<1>7. latestFinalizedBlockNumber' \in Nat
  BY Zenon DEF Truncate, finalityVars, ChainInv, TypeInv
<1> QED BY <1>2, <1>3, <1>4, <1>5, <1>6, <1>7 DEF TypeInv

\* The heights that remain are those of the batches before the target.
LEMMA HeightsKept ==
  ASSUME ChainInv, NEW id \in Ids
  PROVE  DOMAIN blockHashChainAt \ ClearedHeights(id)
           = {0} \cup {submissions[i].endBlockNumber : i \in 1 .. id - 1}
<1>1. id \in Nat /\ id >= 1 /\ Len(submissions) \in Nat /\ Ids = 1 .. Len(submissions)
      /\ id <= Len(submissions)
  BY Heights, BatchFacts DEF Ids
<1>2. DOMAIN blockHashChainAt = {0} \cup {submissions[i].endBlockNumber : i \in Ids}
  BY Zenon DEF ChainInv, SubmissionsTileChain
<1>3. \A j \in Ids : /\ submissions[j].startBlockNumber \in Nat
                     /\ submissions[j].endBlockNumber \in Nat
                     /\ submissions[j].startBlockNumber >= 1
                     /\ submissions[j].startBlockNumber <= submissions[j].endBlockNumber
  BY Zenon, BatchFacts
<1>4. Removed(id) \subseteq Ids
  BY <1>1 DEF Removed
<1>5. 0 \notin ClearedHeights(id)
  BY <1>3, <1>4 DEF ClearedHeights
<1>6. ASSUME NEW j \in Removed(id) PROVE submissions[j].endBlockNumber \in ClearedHeights(id)
  <2>1. submissions[j].endBlockNumber \in
          submissions[j].startBlockNumber .. submissions[j].endBlockNumber
    BY <1>3, <1>4
  <2> QED BY <2>1 DEF ClearedHeights
<1>7. ASSUME NEW i \in 1 .. id - 1 PROVE submissions[i].endBlockNumber \notin ClearedHeights(id)
  <2> SUFFICES ASSUME NEW j \in Removed(id),
                      submissions[i].endBlockNumber \in
                        submissions[j].startBlockNumber .. submissions[j].endBlockNumber
               PROVE  FALSE
    BY Zenon DEF ClearedHeights
  <2>1. i \in Ids /\ j \in Ids /\ i < j
    BY <1>1, <1>4 DEF Removed
  <2>2. submissions[i].endBlockNumber < submissions[j].startBlockNumber
    BY Zenon, <2>1 DEF ChainInv, BatchesOrdered
  <2> QED BY <1>3, <2>1, <2>2
<1>8. Ids = (1 .. id - 1) \cup Removed(id)
  BY <1>1 DEF Removed
<1> QED BY <1>2, <1>5, <1>6, <1>7, <1>8

LEMMA TruncateInv ==
  ASSUME ChainInv, NEW id \in Ids, NEW r, NEW forfeit \in BOOLEAN,
         Removable(submissions[id]), Truncate(id, r, forfeit)
  PROVE  ChainInv'
<1> DEFINE before == IF id = 1 THEN 0 ELSE submissions[id - 1].endBlockNumber
<1>1. /\ TypeInv' /\ Len(submissions') = id - 1
      /\ \A i \in 1 .. id - 1 : submissions'[i] = submissions[i]
  BY TruncateType
<1>2. /\ id \in Nat /\ id >= 1 /\ id <= Len(submissions) /\ Len(submissions) \in Nat
      /\ Ids = 1 .. Len(submissions) /\ Ids' = 1 .. id - 1
      /\ blockHashChain \in Seq(Block) /\ Len(blockHashChain) \in Nat
      /\ DOMAIN blockHashChainAt \subseteq 0 .. Len(blockHashChain)
      /\ latestFinalizedBlockNumber \in 0 .. Len(blockHashChain)
  BY <1>1, BatchFacts, Heights DEF Ids
<1>3. \A i \in 1 .. id - 1 : i \in Ids /\ submissions[i].endBlockNumber \in Nat
  BY <1>2, BatchFacts
<1>4. /\ before \in DOMAIN blockHashChainAt
      /\ submissions[id].startBlockNumber = before + 1
      /\ submissions[id].previousBlockHash = Prefix(blockHashChain, before)
      /\ submissions[id].postingRoundBefore = id - 1
  <2>1. id # 1 => id - 1 \in Ids
    BY <1>2
  <2>2. before \in DOMAIN blockHashChainAt
    BY Zenon, <2>1, BatchFacts DEF ChainInv, SubmissionsTileChain
  <2> QED BY Zenon, <2>2 DEF ChainInv, SubmissionsTileChain
<1>5. before \in 0 .. Len(blockHashChain) /\ latestFinalizedBlockNumber <= before
  BY <1>2, <1>4 DEF Removable
<1>6. \A i \in 1 .. id - 1 : submissions[i].endBlockNumber <= before
  <2> SUFFICES ASSUME NEW i \in 1 .. id - 1 PROVE submissions[i].endBlockNumber <= before
    BY Zenon
  <2>1. id - 1 \in 1 .. id - 1 /\ id # 1
    BY <1>2
  <2>2. i < id - 1 => submissions[i].endBlockNumber < submissions[id - 1].startBlockNumber
    BY Zenon, <1>2, <1>3, <2>1 DEF ChainInv, BatchesOrdered
  <2>3. submissions[id - 1].startBlockNumber \in Nat
        /\ submissions[id - 1].startBlockNumber <= submissions[id - 1].endBlockNumber
    BY Zenon, <1>3, <2>1, BatchFacts
  <2> QED BY <1>2, <1>3, <2>1, <2>2, <2>3
<1>7. /\ blockNumber' = before /\ blockHashChain' = Prefix(blockHashChain, before)
      /\ postingRound' = id - 1 /\ UNCHANGED finalityVars
      /\ DOMAIN blockHashChainAt' = {0} \cup {submissions[i].endBlockNumber : i \in 1 .. id - 1}
      /\ \A m \in DOMAIN blockHashChainAt' :
            m \in DOMAIN blockHashChainAt /\ blockHashChainAt'[m] = blockHashChainAt[m]
  <2>1. /\ blockNumber' = submissions[id].startBlockNumber - 1
        /\ blockHashChain' = submissions[id].previousBlockHash
        /\ postingRound' = submissions[id].postingRoundBefore
        /\ blockHashChainAt' = [m \in DOMAIN blockHashChainAt \ ClearedHeights(id) |->
                                  blockHashChainAt[m]]
        /\ UNCHANGED finalityVars
    BY Zenon DEF Truncate, Restrict
  <2>2. blockNumber' = before
    BY <1>4, <1>5, <2>1
  <2> QED BY Zenon, <1>4, <2>1, <2>2, HeightsKept
<1> HIDE DEF before
<1>8. Len(blockHashChain') = before
      /\ \A m \in 0 .. before : Prefix(blockHashChain', m) = Prefix(blockHashChain, m)
  BY <1>2, <1>5, <1>7, PrefixProperties, PrefixOfPrefix
<1>9. SubmissionsTileChain'
  <2>1. \A m \in DOMAIN blockHashChainAt' : m \in 0 .. before
    BY <1>3, <1>5, <1>6, <1>7
  <2>2. \A m \in DOMAIN blockHashChainAt' : blockHashChainAt'[m] = Prefix(blockHashChain', m)
    BY Zenon, <1>7, <1>8, <2>1 DEF ChainInv, SubmissionsTileChain
  <2>3. DOMAIN blockHashChainAt' = {0} \cup {submissions'[i].endBlockNumber : i \in Ids'}
    BY <1>1, <1>2, <1>7
  <2>4. blockNumber' = IF submissions' = <<>> THEN 0
                       ELSE submissions'[Len(submissions')].endBlockNumber
    <3>1. submissions' = <<>> <=> id = 1
      BY <1>1, <1>2, EmptySeq DEF TypeInv
    <3>2. id # 1 => id - 1 \in 1 .. id - 1
      BY <1>2
    <3> QED BY Zenon, <1>1, <1>7, <3>1, <3>2 DEF before
  <2>5. ASSUME NEW i \in Ids'
        PROVE  LET s == submissions'[i]
                   b == IF i = 1 THEN 0 ELSE submissions'[i - 1].endBlockNumber
               IN  /\ s.startBlockNumber = b + 1 /\ s.endBlockNumber > b
                   /\ s.previousBlockHash = Prefix(blockHashChain', b)
                   /\ s.postingRoundBefore = i - 1
    <3> DEFINE b == IF i = 1 THEN 0 ELSE submissions[i - 1].endBlockNumber
    <3>1. i \in 1 .. id - 1 /\ i \in Ids /\ (i # 1 => i - 1 \in 1 .. id - 1)
      BY <1>2
    <3>2. /\ b = IF i = 1 THEN 0 ELSE submissions'[i - 1].endBlockNumber
          /\ b \in 0 .. before
      BY <1>1, <1>3, <1>5, <1>6, <3>1
    <3>3. /\ submissions[i].startBlockNumber = b + 1 /\ submissions[i].endBlockNumber > b
          /\ submissions[i].previousBlockHash = Prefix(blockHashChain, b)
          /\ submissions[i].postingRoundBefore = i - 1
      BY Zenon, <3>1 DEF ChainInv, SubmissionsTileChain
    <3> HIDE DEF b
    <3> QED BY Zenon, <1>1, <1>8, <3>1, <3>2, <3>3
  <2> QED BY Zenon, <1>1, <1>7, <1>8, <2>2, <2>3, <2>4, <2>5 DEF SubmissionsTileChain
<1>10. BatchesOrdered' /\ FinalizedBelow'
  BY Zenon, <1>1, <1>2, <1>3, <1>7 DEF ChainInv, BatchesOrdered, FinalizedBelow, finalityVars
<1>11. RootsInv'
  <2>1. Prefix(blockHashChain', latestFinalizedBlockNumber)
          = Prefix(blockHashChain, latestFinalizedBlockNumber)
    BY <1>2, <1>5, <1>8
  <2>2. latestFinalizedBlockNumber \in DOMAIN blockHashChainAt'
    <3>1. latestFinalizedBlockNumber \in DOMAIN blockHashChainAt
      BY DEF ChainInv, RootsInv, FinalizedRootsOnChain
    <3>2. CASE latestFinalizedBlockNumber = 0
      BY Zenon, <1>7, <3>2
    <3>3. ASSUME NEW j \in Ids, latestFinalizedBlockNumber = submissions[j].endBlockNumber
          PROVE  latestFinalizedBlockNumber \in DOMAIN blockHashChainAt'
      <4>1. j < id
        <5> SUFFICES ASSUME id <= j PROVE FALSE
          BY <1>2
        <5>1. /\ submissions[id].startBlockNumber \in Nat /\ submissions[id].endBlockNumber \in Nat
              /\ submissions[j].startBlockNumber \in Nat /\ submissions[j].endBlockNumber \in Nat
              /\ submissions[id].startBlockNumber <= submissions[id].endBlockNumber
              /\ submissions[j].startBlockNumber <= submissions[j].endBlockNumber
          BY Zenon, BatchFacts
        <5>2. id < j => submissions[id].endBlockNumber < submissions[j].startBlockNumber
          BY Zenon DEF ChainInv, BatchesOrdered
        <5> QED BY <1>2, <1>4, <1>5, <3>3, <5>1, <5>2
      <4> QED BY SMT, Z3, <1>2, <1>7, <3>3, <4>1
    <3> QED BY <3>1, <3>2, <3>3 DEF ChainInv, SubmissionsTileChain
  <2> QED BY Zenon, <1>7, <2>1, <2>2 DEF finalityVars, ChainInv, RootsInv, FinalizedRootsOnChain
<1> QED BY Zenon, <1>1, <1>9, <1>10, <1>11 DEF ChainInv

-----------------------------------------------------------------------------
(* Finalization.                                                            *)

LEMMA FinalizeType ==
  ASSUME ChainInv, NEW id \in Ids, Finalize(id)
  PROVE  /\ TypeInv'
         /\ Len(submissions') = Len(submissions)
         /\ \A i \in Ids : submissions'[i] =
              IF i = id THEN [submissions[id] EXCEPT !.finalized = TRUE] ELSE submissions[i]
<1> DEFINE s == [submissions[id] EXCEPT !.finalized = TRUE]
<1>1. submissions[id] \in Submission /\ submissions \in Seq(Submission)
      /\ id \in 1 .. Len(submissions) /\ Ids = 1 .. Len(submissions)
  BY BatchFacts DEF ChainInv, TypeInv, Ids
<1>2. s \in Submission
  BY Zenon, <1>1 DEF Submission
<1>3. submissions' = [submissions EXCEPT ![id] = s]
  BY <1>1 DEF Finalize
<1> HIDE DEF s
<1>4. /\ submissions' \in Seq(Submission) /\ Len(submissions') = Len(submissions)
      /\ \A i \in Ids : submissions'[i] = IF i = id THEN s ELSE submissions[i]
  BY <1>1, <1>2, <1>3, ExceptSeq
<1>5. HeadType' /\ PendingType'
  BY UnchangedType DEF Finalize, ChainInv
<1>6. BondType'
  <2>1. /\ bonds \in [Producers -> Bond] /\ submissions[id].submitter \in Producers
        /\ submissions[id].postIndex \in Int /\ wallet \in [Producers -> Int] /\ wallet' = wallet
    BY Zenon, <1>1 DEF ChainInv, TypeInv, BondType, Submission, Finalize
  <2>2. ReleaseBondTo(bonds[submissions[id].submitter], submissions[id].postIndex) \in Bond
    BY Zenon, <2>1, ReleaseType
  <2>3. bonds' = [bonds EXCEPT ![submissions[id].submitter] =
                    ReleaseBondTo(bonds[submissions[id].submitter], submissions[id].postIndex)]
    BY DEF Finalize
  <2> QED BY Zenon, <2>1, <2>2, <2>3 DEF BondType
<1>7. latestFinalizedBlockNumber' \in Nat
  BY <1>1, BatchFacts DEF Finalize, Finalizable
<1> QED BY Zenon, <1>4, <1>5, <1>6, <1>7 DEF TypeInv, s

LEMMA FinalizeInv ==
  ASSUME ChainInv, NEW id \in Ids, Finalize(id)
  PROVE  /\ ChainInv' /\ UNCHANGED headVars
         /\ latestFinalizedBlockNumber' \in DOMAIN blockHashChainAt
         /\ latestFinalizedBlockNumber' >= latestFinalizedBlockNumber
<1> DEFINE end == submissions[id].endBlockNumber
<1>1. /\ TypeInv' /\ Len(submissions') = Len(submissions)
      /\ \A i \in Ids : submissions'[i] =
            IF i = id THEN [submissions[id] EXCEPT !.finalized = TRUE] ELSE submissions[i]
  BY FinalizeType
<1>2. UNCHANGED headVars /\ UNCHANGED <<blockNumber, blockHashChain, blockHashChainAt, postingRound>>
  BY DEF Finalize, headVars
<1>3. /\ end \in DOMAIN blockHashChainAt /\ end \in Nat
      /\ latestFinalizedBlockNumber \in Nat /\ latestFinalizedBlockNumber <= end
      /\ submissions[id] \in Submission
  BY Zenon, BatchFacts DEF Finalize, Finalizable, ChainInv, TypeInv
<1>4. /\ latestFinalizedBlockNumber' = end
      /\ latestFinalizedStateRoot' = Prefix(blockHashChain, end)
      /\ isFinalizedStateRoot' = isFinalizedStateRoot \cup {Prefix(blockHashChain, end)}
  <2>1. /\ Len(submissions[id].blob.final) = end
        /\ submissions[id].blob.final = ChainAt(Len(submissions[id].blob.final))
        /\ submissions[id].stateRoot = submissions[id].blob.final
    BY DEF Finalize, Finalizable, BoundToChain
  <2>2. ChainAt(end) = Prefix(blockHashChain, end)
    BY Zenon, <1>3 DEF ChainAt, ChainInv, SubmissionsTileChain
  <2> QED BY <2>1, <2>2 DEF Finalize
<1>5. Ids' = Ids /\ \A i \in Ids :
        /\ submissions'[i].startBlockNumber = submissions[i].startBlockNumber
        /\ submissions'[i].endBlockNumber = submissions[i].endBlockNumber
        /\ submissions'[i].previousBlockHash = submissions[i].previousBlockHash
        /\ submissions'[i].postingRoundBefore = submissions[i].postingRoundBefore
        /\ submissions'[i].finalized => submissions[i].finalized \/ i = id
  <2>1. LET s == [submissions[id] EXCEPT !.finalized = TRUE]
        IN  /\ s.startBlockNumber = submissions[id].startBlockNumber
            /\ s.endBlockNumber = submissions[id].endBlockNumber
            /\ s.previousBlockHash = submissions[id].previousBlockHash
            /\ s.postingRoundBefore = submissions[id].postingRoundBefore
    BY <1>3 DEF Submission
  <2> QED BY Zenon, <1>1, <2>1 DEF Ids
<1> HIDE DEF end
<1>6. SubmissionsTileChain' /\ BatchesOrdered'
  BY <1>1, <1>2, <1>5, TileKept
<1>7. FinalizedBelow'
  <2> SUFFICES ASSUME NEW i \in Ids, submissions'[i].finalized
               PROVE  submissions'[i].endBlockNumber <= end
    BY Zenon, <1>4, <1>5 DEF FinalizedBelow
  <2>1. submissions[i].endBlockNumber \in Nat
    BY Zenon, BatchFacts
  <2>2. CASE i = id
    BY <1>3, <1>5, <2>2 DEF end
  <2>3. CASE i # id
    <3>1. submissions[i].endBlockNumber <= latestFinalizedBlockNumber
      BY Zenon, <1>5, <2>3 DEF ChainInv, FinalizedBelow
    <3> QED BY <1>3, <1>5, <2>1, <3>1
  <2> QED BY Zenon, <2>2, <2>3
<1>8. RootsInv'
  <2>1. blockHashChain \in Seq(Block) /\ end \in 0 .. Len(blockHashChain)
        /\ latestFinalizedBlockNumber \in 0 .. end /\ Len(blockHashChain) \in Nat
    BY <1>3, Heights
  <2>2. /\ Prefix(blockHashChain, end) \in Seq(Block) /\ Len(Prefix(blockHashChain, end)) = end
        /\ \A m \in 0 .. end : Prefix(Prefix(blockHashChain, end), m) = Prefix(blockHashChain, m)
    BY <2>1, PrefixProperties, PrefixOfPrefix
  <2>3. ASSUME NEW root \in isFinalizedStateRoot'
        PROVE  IsPrefixOf(root, Prefix(blockHashChain, end))
    <3>1. CASE root = Prefix(blockHashChain, end)
      BY <2>2, <3>1, <1>3, FullPrefix DEF IsPrefixOf
    <3>2. CASE root \in isFinalizedStateRoot
      <4> DEFINE l == latestFinalizedBlockNumber
      <4>1. latestFinalizedStateRoot = Prefix(blockHashChain, l)
            /\ IsPrefixOf(root, latestFinalizedStateRoot)
        BY Zenon, <3>2 DEF ChainInv, RootsInv, FinalizedRootsOnChain
      <4>2. l \in 0 .. Len(blockHashChain) /\ Len(Prefix(blockHashChain, l)) = l
            /\ Prefix(blockHashChain, l) \in Seq(Block)
        BY <2>1, PrefixProperties
      <4>3. Len(root) <= l /\ root = Prefix(Prefix(blockHashChain, l), Len(root))
        BY <4>1, <4>2 DEF IsPrefixOf
      <4>4. Len(root) \in 0 .. l
        BY <3>2, <4>2, <4>3, LenProperties DEF ChainInv, RootsInv
      <4>5. root = Prefix(blockHashChain, Len(root))
        BY Zenon, <2>1, <4>2, <4>3, <4>4, PrefixOfPrefix
      <4>6. Len(root) \in 0 .. end
        BY <2>1, <4>4
      <4> QED BY <2>2, <4>5, <4>6 DEF IsPrefixOf
    <3> QED BY Zenon, <1>4, <3>1, <3>2
  <2>4. isFinalizedStateRoot' \subseteq Seq(Block)
    BY Zenon, <1>4, <2>2 DEF ChainInv, RootsInv
  <2>5. FinalizedRootsOnChain'
    BY Zenon, <1>2, <1>3, <1>4, <2>3 DEF FinalizedRootsOnChain
  <2> QED BY <2>4, <2>5 DEF RootsInv
<1> QED BY <1>1, <1>2, <1>3, <1>4, <1>6, <1>7, <1>8 DEF ChainInv

-----------------------------------------------------------------------------
(* Everything else.                                                         *)

LEMMA AttestInv ==
  ASSUME ChainInv, NEW id \in Ids, AttestProofData(id)
  PROVE  ChainInv'
<1> DEFINE s == [submissions[id] EXCEPT !.attested = TRUE]
<1>1. submissions[id] \in Submission /\ submissions \in Seq(Submission)
      /\ id \in 1 .. Len(submissions) /\ Ids = 1 .. Len(submissions)
  BY BatchFacts DEF ChainInv, TypeInv, Ids
<1>2. /\ s \in Submission
      /\ s.startBlockNumber = submissions[id].startBlockNumber
      /\ s.endBlockNumber = submissions[id].endBlockNumber
      /\ s.previousBlockHash = submissions[id].previousBlockHash
      /\ s.postingRoundBefore = submissions[id].postingRoundBefore
      /\ s.finalized = submissions[id].finalized
  BY Zenon, <1>1 DEF Submission
<1>3. submissions' = [submissions EXCEPT ![id] = s]
      /\ UNCHANGED <<headVars, pendingVars, finalityVars, moneyVars>>
  BY <1>1 DEF AttestProofData
<1> HIDE DEF s
<1>4. /\ submissions' \in Seq(Submission) /\ Len(submissions') = Len(submissions)
      /\ \A i \in Ids : submissions'[i] = IF i = id THEN s ELSE submissions[i]
  BY <1>1, <1>2, <1>3, ExceptSeq
<1>5. TypeInv'
  BY Zenon, <1>3, <1>4, UnchangedType DEF TypeInv, ChainInv, moneyVars, finalityVars
<1>6. \A i \in Ids : /\ submissions'[i].startBlockNumber = submissions[i].startBlockNumber
                     /\ submissions'[i].endBlockNumber = submissions[i].endBlockNumber
                     /\ submissions'[i].previousBlockHash = submissions[i].previousBlockHash
                     /\ submissions'[i].postingRoundBefore = submissions[i].postingRoundBefore
                     /\ submissions'[i].finalized = submissions[i].finalized
  BY Zenon, <1>2, <1>4
<1> QED BY Zenon, <1>3, <1>4, <1>5, <1>6, ChainFrame

LEMMA EthBlockInv ==
  ASSUME ChainInv, EthBlock
  PROVE  ChainInv'
<1> DEFINE s(id) == [submissions[id] EXCEPT !.age = IF TimedOut(submissions[id]) THEN @ ELSE @ + 1]
<1>1. Len(submissions) \in Nat /\ Ids = 1 .. Len(submissions)
  BY Heights DEF Ids
<1>2. ASSUME NEW id \in Ids
      PROVE  /\ s(id) \in Submission
             /\ s(id).startBlockNumber = submissions[id].startBlockNumber
             /\ s(id).endBlockNumber = submissions[id].endBlockNumber
             /\ s(id).previousBlockHash = submissions[id].previousBlockHash
             /\ s(id).postingRoundBefore = submissions[id].postingRoundBefore
             /\ s(id).finalized = submissions[id].finalized
  <2>1. submissions[id] \in Submission
    BY Zenon, BatchFacts
  <2> DEFINE a == IF TimedOut(submissions[id]) THEN submissions[id].age ELSE submissions[id].age + 1
  <2>2. submissions[id].age \in Nat
    BY Zenon, <2>1 DEF Submission
  <2>3. a \in Nat
    BY <2>2
  <2>4. s(id) = [submissions[id] EXCEPT !.age = a]
    OBVIOUS
  <2> HIDE DEF a, s
  <2> QED BY Zenon, <2>1, <2>3, <2>4 DEF Submission
<1>3. submissions' = [id \in 1 .. Len(submissions) |-> s(id)]
      /\ UNCHANGED <<headVars, pendingVars, finalityVars, moneyVars>>
  BY <1>1 DEF EthBlock
<1> HIDE DEF s
<1>4. submissions' \in [1 .. Len(submissions) -> Submission]
  BY Zenon, <1>1, <1>2, <1>3
<1>5. /\ submissions' \in Seq(Submission) /\ Len(submissions') = Len(submissions)
  <2>1. submissions' \in Seq(Submission) /\ DOMAIN submissions' = 1 .. Len(submissions)
    BY <1>1, <1>4, SeqDef
  <2> QED BY <1>1, <2>1, LenProperties
<1>6. TypeInv'
  BY Zenon, <1>3, <1>5, UnchangedType DEF TypeInv, ChainInv, moneyVars, finalityVars
<1>7. \A i \in Ids : submissions'[i] = s(i)
  BY <1>1, <1>3
<1> QED BY <1>2, <1>3, <1>5, <1>6, <1>7, ChainFrame

LEMMA ReleaseBondInv ==
  ASSUME ChainInv, NEW id \in Ids, ReleaseBond(id)
  PROVE  ChainInv'
<1>1. /\ bonds \in [Producers -> Bond] /\ submissions[id].submitter \in Producers
      /\ submissions[id].postIndex \in Int /\ wallet \in [Producers -> Int] /\ wallet' = wallet
  BY Zenon, BatchFacts DEF ChainInv, TypeInv, BondType, Submission, ReleaseBond
<1>2. ReleaseBondTo(bonds[submissions[id].submitter], submissions[id].postIndex) \in Bond
  BY <1>1, ReleaseType
<1>3. bonds' = [bonds EXCEPT ![submissions[id].submitter] =
                  ReleaseBondTo(bonds[submissions[id].submitter], submissions[id].postIndex)]
      /\ UNCHANGED <<headVars, pendingVars, submissions, finalityVars>>
  BY Zenon DEF ReleaseBond
<1>4. BondType'
  BY Zenon, <1>1, <1>2, <1>3 DEF BondType
<1>5. TypeInv'
  BY Zenon, <1>3, <1>4, UnchangedType DEF TypeInv, ChainInv, finalityVars
<1> QED BY Zenon, <1>3, <1>5, ChainFrame

LEMMA MoneyInv ==
  ASSUME ChainInv, UNCHANGED <<headVars, submissions, finalityVars>>, PendingType', BondType'
  PROVE  ChainInv'
<1>1. TypeInv'
  BY UnchangedType DEF TypeInv, ChainInv, finalityVars
<1> QED BY Zenon, <1>1, ChainFrame

LEMMA ChainInit == Init => ChainInv
<1> SUFFICES ASSUME Init PROVE ChainInv
  OBVIOUS
<1>1. /\ <<>> \in Seq(Block) /\ <<>> \in Seq(Nat) /\ <<>> \in Seq(Channels)
      /\ <<>> \in Seq(Submission) /\ Len(<<>>) = 0
  OBVIOUS
<1>2. HeadType /\ BondType /\ submissions \in Seq(Submission)
      /\ latestFinalizedBlockNumber \in Nat
  BY <1>1, ValuesAssumption DEF Init, HeadType, BondType, Bond
<1>3. PendingType
  <2>1. Pins = {<<<<>>, <<>>>>}
        /\ pendingChainsCheckpoints[<<<<>>, <<>>>>] = [deposits |-> 0, registrations |-> 0]
    BY Zenon DEF Init, Pins
  <2>2. depositCount = 0 /\ pendingDepositHashChain = <<>> /\ pendingChannelRegHashChain = <<>>
    BY Zenon DEF Init
  <2>3. <<<<>>, <<>>>>[1] = <<>> /\ <<<<>>, <<>>>>[2] = <<>>
        /\ <<<<>>, <<>>>> \in Seq(Nat) \X Seq(Channels)
    BY Zenon, <1>1
  <2> QED BY Zenon, <1>1, <2>1, <2>2, <2>3 DEF PendingType
<1>4. Ids = {}
  BY <1>1 DEF Init, Ids
<1>5. Prefix(<<>>, 0) = <<>>
  BY Zenon, <1>1, FullPrefix
<1>6. SubmissionsTileChain
  BY <1>1, <1>4, <1>5 DEF Init, SubmissionsTileChain
<1>7. BatchesOrdered /\ FinalizedBelow
  BY Zenon, <1>4 DEF BatchesOrdered, FinalizedBelow
<1>8. RootsInv
  BY <1>1, <1>5 DEF Init, RootsInv, FinalizedRootsOnChain, IsPrefixOf
<1> QED BY <1>2, <1>3, <1>6, <1>7, <1>8 DEF ChainInv, TypeInv

\* What a step does to the chain, seen from outside.
LEMMA ChainStep ==
  ASSUME ChainInv, [Next]_vars
  PROVE  ChainInv'
<1>1. CASE Deposit
  BY Zenon, <1>1, DepositType, UnchangedType, MoneyInv DEF Deposit, ChainInv, moneyVars
<1>2. ASSUME NEW c \in Channels, RegisterChannel(c) PROVE ChainInv'
  BY Zenon, <1>2, RegisterType, UnchangedType, MoneyInv DEF RegisterChannel, ChainInv, moneyVars
<1>3. CASE PostAny
  <2>1. PICK p \in Producers, batch \in Batches, pin \in Pins, value \in Values \cup {0} :
          \E blob \in BlobsOver(blockHashChain \o BlocksOf(batch, pin)) :
            \E stateRoot \in {blob.final} \cup (IF blob.verdict = "valid" THEN {JunkRoot} ELSE {}) :
              Post(p, batch, pin, blob, stateRoot, value)
    BY Zenon, <1>3 DEF PostAny, Pins
  <2>2. PICK blob \in BlobsOver(blockHashChain \o BlocksOf(batch, pin)) :
          \E stateRoot \in {blob.final, JunkRoot} : Post(p, batch, pin, blob, stateRoot, value)
    BY Zenon, <2>1
  <2>3. PICK stateRoot \in {blob.final, JunkRoot} : Post(p, batch, pin, blob, stateRoot, value)
    BY Zenon, <2>2
  <2> QED BY Zenon, <2>3, PostInv
<1>4. ASSUME NEW id \in Ids, AttestProofData(id) PROVE ChainInv'
  BY <1>4, AttestInv
<1>5. ASSUME NEW id \in Ids, Finalize(id) PROVE ChainInv'
  BY <1>5, FinalizeInv
<1>6. ASSUME NEW id \in Ids, NEW r, FraudProof(id, r) \/ TimeoutRemoval(id) PROVE ChainInv'
  BY Zenon, <1>6, TruncateInv DEF FraudProof, TimeoutRemoval
<1>7. ASSUME NEW id \in Ids, ReleaseBond(id) PROVE ChainInv'
  BY <1>7, ReleaseBondInv
<1>8. ASSUME NEW p \in Producers, NEW v \in Values, DepositBond(p, v) \/ WithdrawBond(p, v)
      PROVE  ChainInv'
  <2>1. UNCHANGED <<headVars, pendingVars, submissions, finalityVars>>
    BY <1>8 DEF DepositBond, WithdrawBond
  <2> QED BY Zenon, <1>8, <2>1, BondStepType, UnchangedType, MoneyInv DEF ChainInv
<1>9. CASE EthBlock
  BY <1>9, EthBlockInv
<1>10. CASE UNCHANGED vars
  BY Zenon, <1>10, UnchangedType, MoneyInv DEF vars, ChainInv, moneyVars
<1> QED BY <1>1, <1>2, <1>3, <1>4, <1>5, <1>6, <1>7, <1>8, <1>9, <1>10 DEF Next

-----------------------------------------------------------------------------
(* What a step that posts and removes nothing keeps of every submission.    *)

SubmissionsKept ==
  /\ Len(submissions') = Len(submissions)
  /\ \A id \in Ids :
       /\ submissions'[id].submitter = submissions[id].submitter
       /\ submissions'[id].postIndex = submissions[id].postIndex
       /\ submissions'[id].startBlockNumber = submissions[id].startBlockNumber
       /\ submissions'[id].endBlockNumber = submissions[id].endBlockNumber
       /\ submissions'[id].previousDepositHashChain = submissions[id].previousDepositHashChain
       /\ submissions'[id].previousChannelRegHashChain = submissions[id].previousChannelRegHashChain
       /\ submissions'[id].processedDepositCountBefore = submissions[id].processedDepositCountBefore

\* Attestation, finalization and age change no other part of a submission.
LEMMA MarksKeep ==
  ASSUME ChainInv,
         \/ \E id \in Ids : AttestProofData(id) \/ Finalize(id)
         \/ EthBlock
  PROVE  SubmissionsKept /\ UNCHANGED <<headVars, pendingVars>>
<1>1. Len(submissions) \in Nat /\ Ids = 1 .. Len(submissions) /\ submissions \in Seq(Submission)
  BY Heights DEF Ids, ChainInv, TypeInv
<1>2. \A id \in Ids : submissions[id] \in Submission
  BY Zenon, BatchFacts
<1>3. ASSUME NEW id \in Ids, AttestProofData(id) \/ Finalize(id)
      PROVE  SubmissionsKept /\ UNCHANGED <<headVars, pendingVars>>
  <2>1. PICK f \in {"attested", "finalized"} :
          submissions' = [submissions EXCEPT ![id] = [submissions[id] EXCEPT ![f] = TRUE]]
    BY Zenon, <1>1, <1>2, <1>3 DEF AttestProofData, Finalize, Submission
  <2> DEFINE s == [submissions[id] EXCEPT ![f] = TRUE]
  <2>2. /\ s.submitter = submissions[id].submitter /\ s.postIndex = submissions[id].postIndex
        /\ s.startBlockNumber = submissions[id].startBlockNumber
        /\ s.endBlockNumber = submissions[id].endBlockNumber
        /\ s.previousDepositHashChain = submissions[id].previousDepositHashChain
        /\ s.previousChannelRegHashChain = submissions[id].previousChannelRegHashChain
        /\ s.processedDepositCountBefore = submissions[id].processedDepositCountBefore
    BY Zenon, <1>2 DEF Submission
  <2>3. Len(submissions') = Len(submissions)
        /\ \A i \in Ids : submissions'[i] = IF i = id THEN s ELSE submissions[i]
    BY <1>1, <2>1
  <2> HIDE DEF s
  <2>4. SubmissionsKept
    BY Zenon, <2>2, <2>3 DEF SubmissionsKept
  <2> QED BY Zenon, <1>3, <2>4 DEF AttestProofData, Finalize
<1>4. CASE EthBlock
  <2> DEFINE s(id) == [submissions[id] EXCEPT !.age = IF TimedOut(submissions[id]) THEN @ ELSE @ + 1]
  <2>1. submissions' = [id \in 1 .. Len(submissions) |-> s(id)]
    BY <1>1, <1>4 DEF EthBlock
  <2>2. \A id \in Ids :
          /\ s(id).submitter = submissions[id].submitter
          /\ s(id).postIndex = submissions[id].postIndex
          /\ s(id).startBlockNumber = submissions[id].startBlockNumber
          /\ s(id).endBlockNumber = submissions[id].endBlockNumber
          /\ s(id).previousDepositHashChain = submissions[id].previousDepositHashChain
          /\ s(id).previousChannelRegHashChain = submissions[id].previousChannelRegHashChain
          /\ s(id).processedDepositCountBefore = submissions[id].processedDepositCountBefore
    BY <1>2 DEF Submission
  <2> HIDE DEF s
  <2>3. Len(submissions') = Len(submissions)
    <3>1. DOMAIN submissions' = 1 .. Len(submissions) /\ submissions' \in Seq(Submission)
      BY <2>1, EthBlockInv, <1>4 DEF ChainInv, TypeInv
    <3> QED BY <1>1, <3>1, LenProperties
  <2>4. SubmissionsKept
    BY Zenon, <1>1, <2>1, <2>2, <2>3 DEF SubmissionsKept
  <2> QED BY <1>4, <2>4 DEF EthBlock
<1> QED BY <1>3, <1>4

-----------------------------------------------------------------------------
(* Refinement of the ledger.                                                *)

LEMMA PostAppends ==
  ASSUME ChainInv, NEW batch \in Batches, NEW pin \in Pins,
         blockHashChain' = blockHashChain \o BlocksOf(batch, pin),
         blockHashChainAt' = Put(blockHashChainAt, blockNumber', blockHashChain'),
         blockNumber' = blockNumber + Len(batch),
         UNCHANGED finalityVars
  PROVE  Ledger!LedgerNext
<1> DEFINE blocks == BlocksOf(batch, pin)
           old == Len(blockHashChain)
<1>1. /\ blocks \in Seq(Block) /\ Len(blocks) = Len(batch) /\ Len(batch) \in Nat
      /\ Len(batch) > 0
  BY BlocksType DEF ChainInv
<1>2. blockHashChain \in Seq(Block) /\ old \in Nat /\ blockNumber = old
  BY Zenon, Heights DEF ChainInv, SubmissionsTileChain
<1>3. Len(blockHashChain') = old + Len(batch)
      /\ SubSeq(blockHashChain', old + 1, Len(blockHashChain')) = blocks
  <2>1. blockHashChain' = blockHashChain \o blocks
    OBVIOUS
  <2> HIDE DEF blocks
  <2> QED BY Zenon, <1>1, <1>2, <2>1, SuffixOfConcat
<1>4. /\ Len(blockHashChain') > old
      /\ (DOMAIN blockHashChainAt \ {0})' = (DOMAIN blockHashChainAt \ {0}) \cup {Len(blockHashChain')}
  BY <1>1, <1>2, <1>3 DEF Put
<1>5. blockHashChain' = blockHashChain \o SubSeq(blockHashChain', old + 1, Len(blockHashChain'))
      /\ latestFinalizedBlockNumber' = latestFinalizedBlockNumber
  BY Zenon, <1>3 DEF finalityVars
<1> QED BY <1>4, <1>5 DEF Ledger!LedgerNext, Ledger!AppendBatch

LEMMA FinalizeRaises ==
  ASSUME ChainInv, NEW id \in Ids, Finalize(id)
  PROVE  [Ledger!LedgerNext]_(Ledger!ledgerVars)
<1>1. /\ UNCHANGED <<blockHashChain, blockHashChainAt>>
      /\ latestFinalizedBlockNumber' \in DOMAIN blockHashChainAt
      /\ latestFinalizedBlockNumber' >= latestFinalizedBlockNumber
  BY FinalizeInv DEF headVars
<1>2. latestFinalizedBlockNumber \in Nat /\ latestFinalizedBlockNumber' \in Nat
  BY <1>1, Heights
<1>3. CASE latestFinalizedBlockNumber' = latestFinalizedBlockNumber
  BY <1>1, <1>3 DEF Ledger!ledgerVars
<1>4. CASE latestFinalizedBlockNumber' # latestFinalizedBlockNumber
  <2>1. /\ latestFinalizedBlockNumber' \in DOMAIN blockHashChainAt \ {0}
        /\ latestFinalizedBlockNumber' > latestFinalizedBlockNumber
    BY <1>1, <1>2, <1>4
  <2> QED BY Zenon, <1>1, <2>1 DEF Ledger!LedgerNext, Ledger!FinalizeTo
<1> QED BY <1>3, <1>4

LEMMA RemovalTruncates ==
  ASSUME ChainInv, NEW id \in Ids, NEW r, NEW forfeit \in BOOLEAN,
         Removable(submissions[id]), Truncate(id, r, forfeit)
  PROVE  Ledger!LedgerNext
<1> DEFINE before == submissions[id].startBlockNumber - 1
           boundaries == DOMAIN blockHashChainAt \ {0}
<1>1. /\ id \in Nat /\ id >= 1 /\ id <= Len(submissions) /\ Len(submissions) \in Nat
      /\ Ids = 1 .. Len(submissions)
      /\ blockHashChain \in Seq(Block) /\ Len(blockHashChain) \in Nat
      /\ DOMAIN blockHashChainAt \subseteq 0 .. Len(blockHashChain)
      /\ latestFinalizedBlockNumber \in Nat
  BY BatchFacts, Heights DEF Ids
<1>2. /\ submissions[id].startBlockNumber \in Nat /\ submissions[id].endBlockNumber \in Nat
      /\ submissions[id].startBlockNumber >= 1
      /\ submissions[id].startBlockNumber <= submissions[id].endBlockNumber
      /\ submissions[id].endBlockNumber \in DOMAIN blockHashChainAt
  BY Zenon, BatchFacts
<1>3. latestFinalizedBlockNumber <= before /\ before < Len(blockHashChain) /\ before \in Nat
  BY <1>1, <1>2 DEF Removable
<1>4. /\ before = IF id = 1 THEN 0 ELSE submissions[id - 1].endBlockNumber
      /\ submissions[id].previousBlockHash = Prefix(blockHashChain, before)
  <2>1. id # 1 => id - 1 \in Ids
    BY <1>1
  <2>2. id # 1 => submissions[id - 1].endBlockNumber \in Nat
    BY Zenon, <2>1, BatchFacts
  <2>3. LET b == IF id = 1 THEN 0 ELSE submissions[id - 1].endBlockNumber
        IN  /\ submissions[id].startBlockNumber = b + 1
            /\ submissions[id].previousBlockHash = Prefix(blockHashChain, b)
    BY Zenon DEF ChainInv, SubmissionsTileChain
  <2>4. before = IF id = 1 THEN 0 ELSE submissions[id - 1].endBlockNumber
    BY <1>2, <2>2, <2>3
  <2> HIDE DEF before
  <2> QED BY <2>3, <2>4
<1>5. before \in boundaries \cup {0}
  <2>1. id # 1 => id - 1 \in Ids
    BY <1>1
  <2> HIDE DEF before
  <2> QED BY <1>4, <2>1, BatchFacts
<1>6. \A i \in Ids : /\ submissions[i].startBlockNumber \in Nat
                     /\ submissions[i].endBlockNumber \in Nat
                     /\ submissions[i].startBlockNumber <= submissions[i].endBlockNumber
  BY Zenon, BatchFacts
<1>7. ASSUME NEW i \in Ids PROVE (submissions[i].endBlockNumber <= before) <=> i \in 1 .. id - 1
  <2>1. i < id => submissions[i].endBlockNumber < submissions[id].startBlockNumber
    BY Zenon DEF ChainInv, BatchesOrdered
  <2>2. id < i => submissions[id].endBlockNumber < submissions[i].startBlockNumber
    BY Zenon DEF ChainInv, BatchesOrdered
  <2>3. i = id \/ i < id \/ id < i
    BY <1>1
  <2> QED BY <1>1, <1>2, <1>6, <2>1, <2>2, <2>3
<1>8. DOMAIN blockHashChainAt = {0} \cup {submissions[i].endBlockNumber : i \in Ids}
  BY Zenon DEF ChainInv, SubmissionsTileChain
<1>9. DOMAIN blockHashChainAt' = {0} \cup {submissions[i].endBlockNumber : i \in 1 .. id - 1}
  BY Zenon, HeightsKept DEF Truncate, Restrict
<1>10. 1 .. id - 1 \subseteq Ids
  BY <1>1
<1>11. (DOMAIN blockHashChainAt \ {0})' = {b \in boundaries : b <= before}
  <2> HIDE DEF before
  <2> QED BY <1>7, <1>8, <1>9, <1>10
<1>12. /\ blockHashChain' = SubSeq(blockHashChain, 1, before)
       /\ latestFinalizedBlockNumber' = latestFinalizedBlockNumber
  BY Zenon, <1>4 DEF Truncate, finalityVars, Prefix
<1> HIDE DEF before
<1> QED BY Zenon, <1>3, <1>5, <1>11, <1>12 DEF Ledger!LedgerNext, Ledger!TruncateTo

LEMMA LedgerStep ==
  ASSUME ChainInv, [Next]_vars
  PROVE  [Ledger!LedgerNext]_(Ledger!ledgerVars)
<1>1. CASE PostAny
  <2>1. PICK p \in Producers, batch \in Batches, pin \in Pins, value \in Values \cup {0} :
          \E blob \in BlobsOver(blockHashChain \o BlocksOf(batch, pin)) :
            \E stateRoot \in {blob.final} \cup (IF blob.verdict = "valid" THEN {JunkRoot} ELSE {}) :
              Post(p, batch, pin, blob, stateRoot, value)
    BY <1>1 DEF PostAny, Pins
  <2>2. /\ blockHashChain' = blockHashChain \o BlocksOf(batch, pin)
        /\ blockHashChainAt' = Put(blockHashChainAt, blockNumber', blockHashChain')
        /\ blockNumber' = blockNumber + Len(batch)
        /\ UNCHANGED finalityVars
    BY <2>1 DEF Post
  <2> QED BY Zenon, <2>2, PostAppends
<1>2. ASSUME NEW id \in Ids, Finalize(id) PROVE [Ledger!LedgerNext]_(Ledger!ledgerVars)
  BY <1>2, FinalizeRaises
<1>3. ASSUME NEW id \in Ids, NEW r, FraudProof(id, r) \/ TimeoutRemoval(id)
      PROVE  [Ledger!LedgerNext]_(Ledger!ledgerVars)
  BY Zenon, <1>3, RemovalTruncates DEF FraudProof, TimeoutRemoval
<1>4. CASE UNCHANGED <<headVars, finalityVars>>
  BY <1>4 DEF headVars, finalityVars, Ledger!ledgerVars
<1>5. \/ PostAny \/ (\E id \in Ids : Finalize(id))
      \/ (\E id \in Ids, r \in Producers \cup {Outsider} : FraudProof(id, r) \/ TimeoutRemoval(id))
      \/ UNCHANGED <<headVars, finalityVars>>
  BY Zenon DEF Next, Deposit, RegisterChannel, AttestProofData, ReleaseBond, DepositBond, WithdrawBond,
         EthBlock, vars
<1> QED BY <1>1, <1>2, <1>3, <1>4, <1>5

LEMMA LedgerStart == Init => Ledger!LedgerInit
BY Zenon DEF Init, Ledger!LedgerInit

-----------------------------------------------------------------------------
\* The inductive invariant of the chain: types, tiling, the order of any two
\* batches, finalized batches below the finalized height, roots on the chain
\* (_postBlock, finalize, _truncateSubmissions).
THEOREM ChainInvariance == Spec => []ChainInv
<1>1. ChainInv /\ [Next]_vars => ChainInv'
  BY ChainStep
<1> QED BY <1>1, ChainInit, PTL DEF Spec

\* After any posts, removals and reposts each live batch starts where its
\* predecessor ends and restores the head it was posted on, and blockHashChainAt
\* knows exactly the ends of live batches (_postBlock, _rollbackBatch).
THEOREM ChainTiled == Spec => []SubmissionsTileChain
<1>1. ChainInv => SubmissionsTileChain
  BY DEF ChainInv
<1> QED BY <1>1, ChainInvariance, PTL

\* Every root ever finalized is the correct root of a height of the chain as it
\* stands, whatever was declared, abandoned or removed (finalize, fullVerify).
THEOREM RootsOnChain == Spec => []FinalizedRootsOnChain
<1>1. ChainInv => FinalizedRootsOnChain
  BY DEF ChainInv, RootsInv
<1> QED BY <1>1, ChainInvariance, PTL

\* The AlreadyFinalized revert of _truncateSubmissions never shields a batch that
\* fraudProof admits.
THEOREM RemovalAlwaysPossible == Spec => []RemovalNeverBlocked
BY RemovalPossible, ChainInvariance, PTL

\* Every step of the contract is a step of the ledger or leaves it alone: whole
\* batches are appended, truncated down to a batch end at or above the finalized
\* height, and finalized upwards (postBlockAndSubmitGuarded, fraudProof, finalize).
THEOREM RefinesLedger == Spec => ImplementsLedger
<1>1. ChainInv /\ [Next]_vars => [Ledger!LedgerNext]_(Ledger!ledgerVars)
  BY LedgerStep
<1> QED BY <1>1, LedgerStart, ChainInvariance, PTL DEF Spec, ImplementsLedger, Ledger!LedgerSpec
=============================================================================
