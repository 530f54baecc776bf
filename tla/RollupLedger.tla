---------------------------- MODULE RollupLedger ----------------------------
(***************************************************************************)
(* What the rollup promises the rest of the system: a chain of blocks that *)
(* grows by whole batches, may lose whole batches from its end, and has a  *)
(* finalized height that moves only up, only to a batch end, and below     *)
(* which nothing is ever lost.  Module Rollup implements it.               *)
(***************************************************************************)
EXTENDS Naturals, Sequences

VARIABLES blocks,                    \* the posted chain
          boundaries,                \* the heights at which a live batch ends
          finalizedHeight

ledgerVars == <<blocks, boundaries, finalizedHeight>>

LedgerInit == blocks = <<>> /\ boundaries = {} /\ finalizedHeight = 0

AppendBatch(batch) ==
  /\ blocks' = blocks \o batch
  /\ boundaries' = boundaries \cup {Len(blocks')}
  /\ UNCHANGED finalizedHeight

FinalizeTo(h) ==
  /\ h \in boundaries /\ h > finalizedHeight
  /\ finalizedHeight' = h
  /\ UNCHANGED <<blocks, boundaries>>

TruncateTo(h) ==
  /\ h \in boundaries \cup {0} /\ finalizedHeight <= h /\ h < Len(blocks)
  /\ blocks' = SubSeq(blocks, 1, h)
  /\ boundaries' = {b \in boundaries : b <= h}
  /\ UNCHANGED finalizedHeight

\* The batch of a step that appends is the part of the new chain past the old one.
LedgerNext ==
  \/ /\ Len(blocks') > Len(blocks)
     /\ AppendBatch(SubSeq(blocks', Len(blocks) + 1, Len(blocks')))
  \/ \E h \in boundaries : FinalizeTo(h)
  \/ \E h \in boundaries \cup {0} : TruncateTo(h)

LedgerSpec == LedgerInit /\ [][LedgerNext]_ledgerVars
=============================================================================
