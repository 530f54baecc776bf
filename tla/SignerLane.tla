------------------------------ MODULE SignerLane ------------------------------
(***************************************************************************)
(* The L1 publishers and the one signer account they share: the publishers *)
(* of validity proofs (public_validity_publisher.rs), of closes            *)
(* (public_close_publisher.rs) and of close funding                        *)
(* (close_funding_publisher.rs), with the durable reservation of           *)
(* l1_signer_reservation.rs between them.                                  *)
(*                                                                         *)
(* A publication is a journal that takes its steps in order, every step    *)
(* one L1 transaction.  A run of a publisher is restart-driven: it takes   *)
(* the signer's flock, walks the steps from the first, replays what the    *)
(* journal holds and signs what it does not.  Journal, reservation and     *)
(* chain survive the end of a run; the run itself does not.  The signer    *)
(* flock is non-blocking and held for the whole run, so at most one run    *)
(* exists at a time.                                                       *)
(*                                                                         *)
(* The L1 is external: an account nonce, a mempool that may forget, blocks *)
(* that may be reorganised down to the finalized head, other senders who   *)
(* may carry out a permissionless step first or take the contract where    *)
(* the step can no longer be carried out, and the signer's posting bond.   *)
(***************************************************************************)
EXTENDS Naturals, FiniteSets

CONSTANTS
  Journals,     \* the publications that share the signer
  Steps,        \* transactions of one publication, in order 1 .. Steps
  Guarded,      \* the validity publications, which check their predecessor on the L1
  Contested,    \* the steps another sender can carry out
  Obstructable, \* the steps another sender can make impossible
  None,
  MaxCrashes, MaxBondMoves,
  MaxUpsets     \* reorganisations, forgotten transactions and obstructed steps

Keys == Journals \X (1 .. Steps)

ASSUME LaneAssumption ==
  /\ Steps \in Nat \ {0}
  /\ Guarded \subseteq Journals
  /\ Contested \subseteq Keys /\ Obstructable \subseteq Keys
  /\ None \notin Nat /\ None \notin {"local", "rival", "foreign"}
  /\ None \notin [step : Keys, value : Nat]
  /\ MaxCrashes \in Nat /\ MaxBondMoves \in Nat /\ MaxUpsets \in Nat

VARIABLES
  raw,          \* raw[x]: nonce of the journaled exact transaction of step x
  outcome,      \* outcome[x]: "open", or the journaled fate of that transaction
  adopted,      \* the steps whose foreign winner is journaled
  done,         \* the publications whose publisher has returned its result
  value,        \* value[j]: the amount in the post of j, journaled with it
  lane,         \* the reservation file: step and amount it is for, or None
  pc, step,     \* the run holding the signer flock: where it is, in which step
  mempool, mined, finals,      \* transactions known, in a block, in a finalized block
  next, finalNext,             \* account nonce at the latest and the finalized block
  effect, finalEffect,         \* the fate of each step on the L1, at the same two blocks
  topUp,        \* what the signer's bond lacks, numbered by the changes of the bond
  crashes, upsets

run == <<pc, step>>
journal == <<raw, outcome, adopted, done, value>>
chain == <<mempool, mined, finals, next, finalNext, effect, finalEffect, topUp>>
faults == <<crashes, upsets>>
vars == <<journal, lane, run, chain, faults>>

Goto(x, p) == step' = x /\ pc' = p
Exit == step' = None /\ pc' = "idle"
Following(x) == <<x[1], x[2] + 1>>

Init ==
  /\ raw = [x \in Keys |-> None]
  /\ outcome = [x \in Keys |-> "open"]
  /\ adopted = {} /\ done = {}
  /\ value = [j \in Journals |-> 0] /\ topUp = 0
  /\ lane = None /\ pc = "idle" /\ step = None
  /\ mempool = {} /\ mined = {} /\ finals = {}
  /\ next = 0 /\ finalNext = 0
  /\ effect = [x \in Keys |-> None] /\ finalEffect = [x \in Keys |-> None]
  /\ crashes = 0 /\ upsets = 0

-----------------------------------------------------------------------------
(* The durable reservation.                                                *)

\* validity_signer_reservation: the record names journal and phase, and its intent
\* hash covers the amount sent.  Only a post of the validity publisher sends any.
Reservation(x) == [step |-> x, value |-> IF x[2] = 1 THEN value[x[1]] ELSE 0]

Owned(x) == lane = Reservation(x)

\* The reservation of another journal is overwritten: a faulty form of Claimable.
ClaimableByAnyone(x) == x \in Keys

\* claim: the file is absent, or equal to the expected record, intent hash included.
Claimable(x) == lane = None \/ Owned(x)

\* The record is left behind: a faulty form of LaneWithout.
LaneKept(x) == lane

\* release_if_exact: an absent or foreign record is left untouched.
LaneWithout(x) == IF Owned(x) THEN None ELSE lane

-----------------------------------------------------------------------------
(* What a publisher reads from the L1.                                     *)

\* validate_deployment_on_l1: the rollup head at the latest block is no longer
\* the predecessor of a validity candidate once some candidate is posted.
PredecessorMoved(j) ==
  j \in Guarded /\ \E i \in Guarded : effect[<<i, 1>>] # None

\* transaction_known or a receipt: publish_exact_raw then sends nothing.
Known(x) == x \in mempool \cup mined

\* A receipt of the latest block is taken: a faulty form of FinalReceipt.
LatestReceipt(x) == x \in mined

\* A receipt is accepted only in a block the finalized head covers.
FinalReceipt(x) == x \in finals

\* A winner of the latest block is taken: a faulty form of FinalWinner.
LatestWinner(x) == effect[x] = "rival"

\* A winner is adopted only from evidence the durable head covers.
FinalWinner(x) == finalEffect[x] = "rival"

\* validate_manager_for_submit, validate_manager_for_finalize and the preflight of the
\* funding publisher: the durable L1 state no longer admits the step.  It is the close
\* publishers that look, before they sign and before they send.
Conflicts(x) == x[1] \notin Guarded /\ finalEffect[x] = "foreign"

\* The journal already holds the fate of step x: nothing is signed or sent for it.
Journaled(x) == outcome[x] # "open" \/ (x \in adopted /\ raw[x] = None)

-----------------------------------------------------------------------------
(* A run of a publisher.                                                   *)

\* A journaled post keeps the value it was signed with; a new one tops up what the
\* bond lacks now (rollup_bond_top_up).
Start(j) ==
  /\ pc = "idle"
  /\ j \notin done
  /\ ~PredecessorMoved(j)
  /\ Goto(<<j, 1>>, "step")
  /\ value' = IF j \in Guarded /\ raw[<<j, 1>>] = None
              THEN [value EXCEPT ![j] = topUp] ELSE value
  /\ UNCHANGED <<raw, outcome, adopted, done, lane, chain, faults>>

\* Replaying a settled step finishes a release that a crash interrupted.
SkipJournaled ==
  /\ pc = "step" /\ step \in Keys
  /\ Journaled(step)
  /\ lane' = LaneWithout(step)
  /\ Goto(Following(step), "step")
  /\ UNCHANGED <<journal, chain, faults>>

\* The winner is durable before a local loser is settled.  The close publishers look
\* for one again before they send, the validity publisher after its own finalize came
\* to nothing.
Adopt ==
  /\ step \in Keys
  /\ \/ pc = "step"
     \/ pc = "replay" /\ step[1] \notin Guarded
     \/ pc = "sent" /\ step[1] \in Guarded /\ FinalReceipt(step)
  /\ outcome[step] = "open" /\ step \notin adopted
  /\ FinalWinner(step)
  /\ adopted' = adopted \cup {step}
  /\ UNCHANGED <<raw, outcome, done, value, lane, run, chain, faults>>

NothingToAdopt(x) == FinalWinner(x) => x \in adopted

\* sign_after_reservation: the lane is claimed before anything is signed.
Claim ==
  /\ pc = "step" /\ step \in Keys
  /\ raw[step] = None /\ ~Journaled(step) /\ NothingToAdopt(step)
  /\ ~Conflicts(step) /\ Claimable(step)
  /\ lane' = Reservation(step)
  /\ Goto(step, "claimed")
  /\ UNCHANGED <<journal, chain, faults>>

\* A journaled transaction of unknown fate: only its exact bytes, under its own lane.
Reclaim ==
  /\ pc = "step" /\ step \in Keys
  /\ raw[step] # None /\ outcome[step] = "open" /\ NothingToAdopt(step)
  /\ Claimable(step)
  /\ lane' = Reservation(step)
  /\ Goto(step, "replay")
  /\ UNCHANGED <<journal, chain, faults>>

\* The nonce is the account's; the raw bytes are durable before any node sees them.
\* A crash between signing and the journal write is a crash before this step.
Sign ==
  /\ pc = "claimed"
  /\ raw' = [raw EXCEPT ![step] = next]
  /\ Goto(step, "replay")
  /\ UNCHANGED <<outcome, adopted, done, value, lane, chain, faults>>

\* A signing error releases the reservation: no raw transaction came out of it.
SignFails ==
  /\ pc = "claimed" /\ crashes < MaxCrashes
  /\ crashes' = crashes + 1
  /\ lane' = LaneWithout(step)
  /\ Exit
  /\ UNCHANGED <<journal, chain, upsets>>

\* publish_exact_raw, after the validity publisher's second look at the predecessor.
Publish ==
  /\ pc = "replay"
  /\ step[2] = 1 => ~PredecessorMoved(step[1])
  /\ ~Conflicts(step)
  /\ Known(step) \/ next = raw[step]
  /\ mempool' = IF Known(step) THEN mempool ELSE mempool \cup {step}
  /\ Goto(step, "sent")
  /\ UNCHANGED <<journal, lane, mined, finals, next, finalNext, effect, finalEffect,
                 topUp, faults>>

Confirm ==
  /\ pc = "sent"
  /\ FinalReceipt(step) /\ finalEffect[step] = "local"
  /\ outcome' = [outcome EXCEPT ![step] = "confirmed"]
  /\ Goto(step, "settled")
  /\ UNCHANGED <<raw, adopted, done, value, lane, chain, faults>>

\* A losing transaction frees the lane only once its nonce is spent for good.
Supersede ==
  /\ pc = "sent"
  /\ step \in adopted /\ FinalReceipt(step)
  /\ outcome' = [outcome EXCEPT ![step] = "superseded"]
  /\ Goto(step, "settled")
  /\ UNCHANGED <<raw, adopted, done, value, lane, chain, faults>>

\* release: the record must still be this one.
Release ==
  /\ pc = "settled"
  /\ Owned(step)
  /\ lane' = None
  /\ Goto(Following(step), "step")
  /\ UNCHANGED <<journal, chain, faults>>

Finish ==
  /\ pc = "step" /\ step[2] = Steps + 1
  /\ done' = done \cup {step[1]}
  /\ Exit
  /\ UNCHANGED <<raw, outcome, adopted, value, lane, chain, faults>>

\* An error ends the run and leaves the lane as it is: another record is in it, the
\* L1 no longer admits the step, the predecessor has moved, the nonce was taken, no
\* final receipt came in time, or the exact transaction reverted without an exact winner.
GiveUp ==
  /\ pc # "idle"
  /\ \/ pc = "step" /\ step \in Keys /\ ~Journaled(step) /\ NothingToAdopt(step)
           /\ (~Claimable(step) \/ (raw[step] = None /\ Conflicts(step)))
     \/ pc = "replay" /\ Conflicts(step)
     \/ pc = "replay" /\ step[2] = 1 /\ PredecessorMoved(step[1])
     \/ pc = "replay" /\ ~Known(step) /\ next # raw[step]
     \/ pc = "sent" /\ ~(FinalReceipt(step)
                             /\ (finalEffect[step] = "local" \/ step \in adopted))
     \/ pc = "settled" /\ ~Owned(step)
  /\ Exit
  /\ UNCHANGED <<journal, lane, chain, faults>>

Crash ==
  /\ pc # "idle" /\ crashes < MaxCrashes
  /\ crashes' = crashes + 1
  /\ Exit
  /\ UNCHANGED <<journal, lane, chain, upsets>>

-----------------------------------------------------------------------------
(* The L1, external to this code.                                          *)

\* The contracts take the steps in order.
CarriedOut(e) == e \in {"local", "rival"}
Reached(x) == x[2] > 1 => CarriedOut(effect[<<x[1], x[2] - 1>>])

\* A step that is already carried out makes the later transaction revert, and so
\* does a post whose predecessor is not the rollup head.
Succeeds(x) == effect[x] = None /\ Reached(x) /\ (x[2] = 1 => ~PredecessorMoved(x[1]))

Mine(x) ==
  /\ x \in mempool /\ raw[x] = next
  /\ mempool' = mempool \ {x}
  /\ mined' = mined \cup {x}
  /\ next' = next + 1
  /\ effect' = IF Succeeds(x) THEN [effect EXCEPT ![x] = "local"] ELSE effect
  /\ UNCHANGED <<journal, lane, run, finals, finalNext, finalEffect, topUp, faults>>

Rival(x) ==
  /\ x \in Contested /\ effect[x] = None
  /\ Reached(x)
  /\ effect' = [effect EXCEPT ![x] = "rival"]
  /\ UNCHANGED <<journal, lane, run, mempool, mined, finals, next, finalNext, finalEffect,
                 topUp, faults>>

\* A different close is pending, finalized or cancelled, a submission is removed, another
\* candidate is posted: step x can no longer be carried out by anyone.
Obstruct(x) ==
  /\ x \in Obstructable /\ effect[x] = None /\ upsets < MaxUpsets
  /\ Reached(x)
  /\ upsets' = upsets + 1
  /\ effect' = [effect EXCEPT ![x] = "foreign"]
  /\ UNCHANGED <<journal, lane, run, mempool, mined, finals, next, finalNext, finalEffect,
                 topUp, crashes>>

\* A post, a release or a withdrawal changes the signer's bond.
BondMoves ==
  /\ topUp < MaxBondMoves
  /\ topUp' = topUp + 1
  /\ UNCHANGED <<journal, lane, run, mempool, mined, finals, next, finalNext, effect,
                 finalEffect, faults>>

Finalize ==
  /\ finals' = mined /\ finalNext' = next /\ finalEffect' = effect
  /\ UNCHANGED <<journal, lane, run, mempool, mined, next, effect, topUp, faults>>

Reorg ==
  /\ upsets < MaxUpsets
  /\ <<mined, effect>> # <<finals, finalEffect>>
  /\ upsets' = upsets + 1
  /\ mempool' = mempool \cup (mined \ finals)
  /\ mined' = finals /\ next' = finalNext /\ effect' = finalEffect
  /\ UNCHANGED <<journal, lane, run, finals, finalNext, finalEffect, topUp, crashes>>

Drop(x) ==
  /\ x \in mempool /\ upsets < MaxUpsets
  /\ upsets' = upsets + 1
  /\ mempool' = mempool \ {x}
  /\ UNCHANGED <<journal, lane, run, mined, finals, next, finalNext, effect, finalEffect,
                 topUp, crashes>>

-----------------------------------------------------------------------------
Walk == \/ SkipJournaled \/ Adopt \/ Claim \/ Reclaim \/ Sign \/ Publish
        \/ Confirm \/ Supersede \/ Release \/ Finish

Next ==
  \/ \E j \in Journals : Start(j)
  \/ SkipJournaled \/ Adopt \/ Claim \/ Reclaim \/ Sign \/ SignFails \/ Publish
  \/ Confirm \/ Supersede \/ Release \/ Finish \/ GiveUp \/ Crash
  \/ \E x \in Keys : Mine(x) \/ Rival(x) \/ Obstruct(x) \/ Drop(x)
  \/ Finalize \/ Reorg \/ BondMoves

Spec == Init /\ [][Next]_vars

\* The operator reruns a publisher until it returns; a run goes on to its end or to
\* an error; the L1 mines what it knows and finalizes what it has mined.
LiveSpec ==
  /\ Spec
  /\ \A j \in Journals : SF_vars(Start(j))
  /\ WF_vars(Walk) /\ WF_vars(GiveUp)
  /\ WF_vars(\E x \in Keys : Mine(x)) /\ WF_vars(Finalize)

-----------------------------------------------------------------------------
(* Properties.                                                             *)

TypeOK ==
  /\ raw \in [Keys -> Nat \cup {None}]
  /\ outcome \in [Keys -> {"open", "confirmed", "superseded"}]
  /\ adopted \subseteq Keys /\ done \subseteq Journals
  /\ value \in [Journals -> Nat] /\ topUp \in Nat
  /\ lane \in [step : Keys, value : Nat] \cup {None}
  /\ mempool \subseteq Keys /\ mined \subseteq Keys /\ finals \subseteq Keys
  /\ next \in Nat /\ finalNext \in Nat
  /\ effect \in [Keys -> {None, "local", "rival", "foreign"}]
  /\ finalEffect \in [Keys -> {None, "local", "rival", "foreign"}]

Signed(x) == raw[x] # None

\* The three publishers never journal two transactions of the signer with one
\* nonce, whatever runs crash and whatever the L1 reorganises: one of the two
\* could never be replayed (sign_after_reservation, claim, release).
NonceExclusive ==
  \A x, y \in Keys : x # y /\ Signed(x) => raw[x] # raw[y]

\* exact_publish_needed never meets its two conflicts ("nonce was consumed", "an
\* earlier operation is missing"): the exact bytes of a journaled transaction of
\* unknown fate are in a block, or the account's nonce is still theirs.
ReplayPossible ==
  \A x \in Keys : Signed(x) /\ outcome[x] = "open" => x \in mined \/ next = raw[x]

\* When a publisher has returned its result, every step of it is carried out in a
\* finalized block, and every transaction it ever signed has spent its nonce there.
CompletedIsFinal ==
  \A x \in Keys : x[1] \in done =>
    CarriedOut(finalEffect[x]) /\ (Signed(x) => x \in finals)

\* Every publication is carried out in the end, although runs crash, transactions
\* are dropped and reorganised, and others carry out its steps: "The exact raw
\* transaction is resent on restart" (doc/docs/public-validity-publisher.md).
EveryPublicationCompletes == <>(done = Journals)

\* What the model has that can strand a publication: its predecessor is no longer the
\* rollup head when the next run looks (validate_deployment_on_l1); its post was
\* reserved with another amount than the bond lacks now and never journaled (claim);
\* the L1 has gone past one of its steps in another way (validate_manager_for_submit).
Stranded(j) ==
  /\ j \notin done
  /\ \/ PredecessorMoved(j) /\ ~(pc # "idle" /\ step[1] = j)
     \/ raw[<<j, 1>>] = None /\ lane # None /\ lane.step = <<j, 1>> /\ lane.value # topUp
     \/ \E s \in 1 .. Steps : finalEffect[<<j, s>>] = "foreign"

\* A publication is carried out in the end unless it is stranded itself, or one that is
\* stranded has the lane ("resume that journal before signing another nonce").  So a
\* publication that is stranded without the lane holds up no other, and every other
\* interrupted run gives the lane back (release, release_if_exact).
StrandedHoldUpByLaneOnly ==
  \A j \in Journals :
    <>(j \in done) \/
    <>[](\E i \in Journals :
            Stranded(i) /\ (i = j \/ (lane # None /\ lane.step[1] = i)))
===============================================================================
