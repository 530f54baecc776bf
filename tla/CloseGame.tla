------------------------------ MODULE CloseGame ------------------------------
(***************************************************************************)
(* The close game of one channel: the lifecycle part of                    *)
(* ChannelSettlementManager (request, grace, close intent, challenge       *)
(* replacement, cancel, finalize) together with the freeze flag that       *)
(* CloseFundingMaterializer keeps for the same channel.                    *)
(*                                                                         *)
(* Callers of requestClose and finalizeCloseGuarded sign a raw transaction *)
(* over values they have read and it is mined later, so both are modelled  *)
(* as a signing step and a mining step that may revert.                    *)
(* submitCloseIntent and cancelClose carry no expected contract values, so *)
(* mining them at an arbitrary later state is the plain action.            *)
(*                                                                         *)
(* A signed state is its (epoch, version) pair: the channel layer signs at *)
(* most one state per version, so the pair stands for the state digest and *)
(* everything the digest commits to.  "backed" is the answer the rollup    *)
(* and the materializer give to the two admission reads of                 *)
(* _checkCloseProof; ChannelExit computes it from their state.             *)
(***************************************************************************)
EXTENDS Integers, FiniteSets

CONSTANTS
  SignedStates,             \* the N-of-N signed states of the channel
  Members,                  \* callers allowed to freeze the channel
  ChallengePeriod,          \* challengePeriod
  GraceBeforeProcessSecs,   \* GRACE_BEFORE_PROCESS_SECS
  MinCloseResponseSecs      \* MIN_CLOSE_RESPONSE_SECS

\* One signed state per version, epoch and version advancing together: every
\* signed successor has epoch + 1 and state_version + 1.
ASSUME SignedStatesAssumption ==
  /\ SignedStates \subseteq [epoch : Nat, version : Nat]
  /\ \A s, t \in SignedStates :
       s # t => \/ s.epoch < t.epoch /\ s.version < t.version
                \/ t.epoch < s.epoch /\ t.version < s.version

ASSUME PeriodsAssumption ==
  /\ ChallengePeriod \in Nat \ {0}
  /\ GraceBeforeProcessSecs \in Nat
  /\ MinCloseResponseSecs \in Nat \ {0}

VARIABLES
  now,                      \* block.timestamp
  channelStatus,
  currentCloseFreezeNonce,
  closeRequestGeneration,
  closeRequestedAt,
  closeChallengeHorizon,
  highestCancelledRevivedStateVersion,
  pendingClose,
  finalized,                \* the finalized* copy of the settled close
  frozenGeneration,         \* the materializer's freeze flag of this channel
  backed,                   \* signed states that pass the admission reads
  requestTx,                \* per member: the raw close request in flight
  finalizeTx                \* per member: the raw finalization in flight

lifecycleVars ==
  <<channelStatus, currentCloseFreezeNonce, closeRequestGeneration, closeRequestedAt,
    closeChallengeHorizon, highestCancelledRevivedStateVersion, pendingClose, finalized,
    frozenGeneration>>
vars == <<now, lifecycleVars, backed, requestTx, finalizeTx>>

------------------------------------------------------------------------------
\* The close_freeze_nonce every signed state carries.  Signers copy it from
\* state to state and refuse a changed one, so it stays at its first value.
SignedFreezeNonce == 0

\* CloseIntent::new derives the intent's nonce from the signed state.
IntentFreezeNonce == SignedFreezeNonce + 1

NoState == [epoch |-> 0, version |-> 0]
NoPendingClose ==
  [active |-> FALSE, state |-> NoState, closeFreezeNonce |-> 0, challengeDeadline |-> 0]
NotFinalized == [done |-> FALSE, state |-> NoState, closeFreezeNonce |-> 0]

\* The identity of a close: hash of channel, state digest and freeze nonce.
CloseIntentDigest(state, nonce) == <<state, nonce>>

\* Raw transactions in flight.  "generation" of a request is not calldata: it
\* records the era the caller read, for the properties.
NoRequest == [sent |-> FALSE, nonce |-> 0, floor |-> 0, generation |-> 0]
NoFinalization == [sent |-> FALSE, digest |-> CloseIntentDigest(NoState, 0), generation |-> 0]

\* The response interval; it degrades to the challenge period when shorter.
MinResponse ==
  IF ChallengePeriod < MinCloseResponseSecs THEN ChallengePeriod ELSE MinCloseResponseSecs

\* _isNewer: lexicographic and strict.
IsNewer(s, t) == s.epoch > t.epoch \/ (s.epoch = t.epoch /\ s.version > t.version)

\* A faulty deadline: a window one second short, without floor and cap.
DeadlineOneSecondShort(t, horizon) ==
  IF t - 1 + ChallengePeriod < horizon THEN t - 1 + ChallengePeriod ELSE horizon

\* _storePendingClose: the natural deadline, clamped to the horizon, floored at
\* the response interval, and capped at the absolute end.
ClampedDeadline(t, horizon) ==
  LET natural == t + ChallengePeriod
      clamped == IF natural < horizon THEN natural ELSE horizon
      floored == IF clamped < t + MinResponse THEN t + MinResponse ELSE clamped
  IN  IF floored > horizon + MinResponse THEN horizon + MinResponse ELSE floored

------------------------------------------------------------------------------
Init ==
  /\ now = 0
  /\ channelStatus = "Active"
  /\ currentCloseFreezeNonce = 0
  /\ closeRequestGeneration = 0
  /\ closeRequestedAt = 0
  /\ closeChallengeHorizon = 0
  /\ highestCancelledRevivedStateVersion = 0
  /\ pendingClose = NoPendingClose
  /\ finalized = NotFinalized
  /\ frozenGeneration = 0
  /\ backed \in SUBSET SignedStates
  /\ requestTx = [m \in Members |-> NoRequest]
  /\ finalizeTx = [m \in Members |-> NoFinalization]

\* Faulty admission of a request: the floor is not compared.
RequestIgnoresFloor(tx) ==
  currentCloseFreezeNonce = tx.nonce /\ channelStatus = "Active" /\ frozenGeneration = 0

\* requestClose / requestCloseAsParticipant: the two expected values and the
\* status decide; the freeze in the materializer is part of the transaction.
RequestAdmitted(tx) ==
  /\ currentCloseFreezeNonce = tx.nonce
  /\ highestCancelledRevivedStateVersion = tx.floor
  /\ channelStatus = "Active"
  /\ frozenGeneration = 0

RequestClose(tx) ==
  /\ RequestAdmitted(tx)
  /\ closeRequestGeneration' = closeRequestGeneration + 1
  /\ currentCloseFreezeNonce' = currentCloseFreezeNonce + 1
  /\ channelStatus' = "ClosePending"
  /\ closeRequestedAt' = now
  /\ frozenGeneration' = closeRequestGeneration'
  /\ UNCHANGED <<closeChallengeHorizon, highestCancelledRevivedStateVersion, pendingClose,
                 finalized>>

\* A replacement: inside the window, in this era, strictly newer.
ReplacementAdmitted(s) ==
  /\ pendingClose.active
  /\ now <= pendingClose.challengeDeadline
  /\ now <= closeChallengeHorizon + MinResponse
  /\ IntentFreezeNonce = currentCloseFreezeNonce
  /\ IsNewer(s, pendingClose.state)

\* The first intent of an era: requested, after the grace period.
FirstIntentAdmitted ==
  /\ ~pendingClose.active
  /\ channelStatus = "ClosePending"
  /\ now >= closeRequestedAt + GraceBeforeProcessSecs
  /\ IntentFreezeNonce = currentCloseFreezeNonce

SubmitCloseIntent(s) ==
  /\ channelStatus # "Closed"
  /\ s \in backed
  /\ \/ /\ ReplacementAdmitted(s)
        /\ UNCHANGED closeChallengeHorizon
     \/ /\ FirstIntentAdmitted
        /\ closeChallengeHorizon' = now + 2 * ChallengePeriod
  /\ pendingClose' = [active |-> TRUE, state |-> s, closeFreezeNonce |-> IntentFreezeNonce,
                      challengeDeadline |-> ClampedDeadline(now, closeChallengeHorizon')]
  /\ UNCHANGED <<channelStatus, currentCloseFreezeNonce, closeRequestGeneration,
                 closeRequestedAt, highestCancelledRevivedStateVersion, finalized,
                 frozenGeneration>>

\* cancelClose with a proof of the signed state "revived".  The proof is bound
\* to the pending close and to the era of the revived state; no deadline.
CancelAdmitted(revived) ==
  /\ pendingClose.active
  /\ revived.version > pendingClose.state.version
  /\ revived.version > highestCancelledRevivedStateVersion
  /\ SignedFreezeNonce + 1 = pendingClose.closeFreezeNonce
  /\ frozenGeneration # 0 /\ frozenGeneration = closeRequestGeneration

\* The nonce is not unwound: a faulty form of NonceAfterCancel.
NonceKept == currentCloseFreezeNonce

NonceAfterCancel == currentCloseFreezeNonce - 1

CancelClose(revived) ==
  /\ CancelAdmitted(revived)
  /\ highestCancelledRevivedStateVersion' = revived.version
  /\ frozenGeneration' = 0
  /\ pendingClose' = NoPendingClose
  /\ channelStatus' = "Active"
  /\ closeRequestedAt' = 0
  /\ closeChallengeHorizon' = 0
  /\ currentCloseFreezeNonce' = NonceAfterCancel
  /\ UNCHANGED <<closeRequestGeneration, finalized>>

\* The generation is not compared: a faulty form of FinalizeAdmitted.
FinalizeIgnoresGeneration(tx) ==
  /\ pendingClose.active
  /\ CloseIntentDigest(pendingClose.state, pendingClose.closeFreezeNonce) = tx.digest
  /\ now > pendingClose.challengeDeadline

\* finalizeCloseGuarded: the journaled digest and generation, after the deadline.
FinalizeAdmitted(tx) ==
  /\ pendingClose.active
  /\ CloseIntentDigest(pendingClose.state, pendingClose.closeFreezeNonce) = tx.digest
  /\ closeRequestGeneration = tx.generation
  /\ now > pendingClose.challengeDeadline

FinalizeClose(tx) ==
  /\ FinalizeAdmitted(tx)
  /\ finalized' = [done |-> TRUE, state |-> pendingClose.state,
                   closeFreezeNonce |-> pendingClose.closeFreezeNonce]
  /\ channelStatus' = "Closed"
  /\ closeRequestedAt' = 0
  /\ closeChallengeHorizon' = 0
  /\ pendingClose' = NoPendingClose
  /\ UNCHANGED <<currentCloseFreezeNonce, closeRequestGeneration,
                 highestCancelledRevivedStateVersion, frozenGeneration>>

------------------------------------------------------------------------------
\* A member reads the contract and signs a close request over what it read.
SignRequest(m) ==
  /\ ~requestTx[m].sent
  /\ channelStatus # "Closed"
  /\ requestTx' = [requestTx EXCEPT ![m] =
                     [sent |-> TRUE, nonce |-> currentCloseFreezeNonce,
                      floor |-> highestCancelledRevivedStateVersion,
                      generation |-> closeRequestGeneration]]
  /\ UNCHANGED <<now, lifecycleVars, backed, finalizeTx>>

\* The request is mined, at whatever state the contract is in by then.
MineRequest(m) ==
  /\ requestTx[m].sent
  /\ \/ RequestClose(requestTx[m])
     \/ ~RequestAdmitted(requestTx[m]) /\ UNCHANGED lifecycleVars
  /\ requestTx' = [requestTx EXCEPT ![m] = NoRequest]
  /\ UNCHANGED <<now, backed, finalizeTx>>

SignFinalize(m) ==
  /\ ~finalizeTx[m].sent
  /\ pendingClose.active
  /\ finalizeTx' = [finalizeTx EXCEPT ![m] =
                      [sent |-> TRUE,
                       digest |-> CloseIntentDigest(pendingClose.state,
                                                    pendingClose.closeFreezeNonce),
                       generation |-> closeRequestGeneration]]
  /\ UNCHANGED <<now, lifecycleVars, backed, requestTx>>

MineFinalize(m) ==
  /\ finalizeTx[m].sent
  /\ \/ FinalizeClose(finalizeTx[m])
     \/ ~FinalizeAdmitted(finalizeTx[m]) /\ UNCHANGED lifecycleVars
  /\ finalizeTx' = [finalizeTx EXCEPT ![m] = NoFinalization]
  /\ UNCHANGED <<now, backed, requestTx>>

Submit(s) == SubmitCloseIntent(s) /\ UNCHANGED <<now, backed, requestTx, finalizeTx>>

Cancel(s) == CancelClose(s) /\ UNCHANGED <<now, backed, requestTx, finalizeTx>>

\* Signed states become backed: a backing proof is attested (permissionless), or
\* a rollback removes a posted block that no backing had processed.
Attest(S) ==
  /\ S # {} /\ S \cap backed = {}
  /\ backed' = backed \cup S
  /\ UNCHANGED <<now, lifecycleVars, requestTx, finalizeTx>>

\* A posted channel block makes older backings stale.  The materializer refuses
\* posts of a frozen channel, so this happens only while Active.
LoseBacking(S) ==
  /\ channelStatus = "Active"
  /\ S # {} /\ S \subseteq backed
  /\ backed' = backed \ S
  /\ UNCHANGED <<now, lifecycleVars, requestTx, finalizeTx>>

\* The last instant at which some guard still depends on the time.  Later ticks
\* change nothing any action can see: every timestamp is stored relative to now.
LastTimedInstant ==
  IF pendingClose.active THEN pendingClose.challengeDeadline + 1
  ELSE IF channelStatus = "ClosePending" THEN closeRequestedAt + GraceBeforeProcessSecs
  ELSE now

Tick ==
  /\ now < LastTimedInstant
  /\ now' = now + 1
  /\ UNCHANGED <<lifecycleVars, backed, requestTx, finalizeTx>>

Next ==
  \/ Tick
  \/ \E m \in Members : SignRequest(m) \/ MineRequest(m) \/ SignFinalize(m) \/ MineFinalize(m)
  \/ \E s \in SignedStates : Submit(s) \/ Cancel(s)
  \/ \E S \in SUBSET SignedStates : Attest(S) \/ LoseBacking(S)

Spec == Init /\ [][Next]_vars
------------------------------------------------------------------------------
\* Types of the stored values.
TypeOK ==
  /\ now \in Nat
  /\ channelStatus \in {"Active", "ClosePending", "Closed"}
  /\ currentCloseFreezeNonce \in Nat
  /\ closeRequestGeneration \in Nat
  /\ closeRequestedAt \in Nat
  /\ closeChallengeHorizon \in Nat
  /\ highestCancelledRevivedStateVersion \in Nat
  /\ pendingClose \in [active : BOOLEAN, state : SignedStates \cup {NoState},
                       closeFreezeNonce : Nat, challengeDeadline : Nat]
  /\ finalized \in [done : BOOLEAN, state : SignedStates \cup {NoState},
                    closeFreezeNonce : Nat]
  /\ frozenGeneration \in Nat
  /\ backed \in SUBSET SignedStates
  /\ requestTx \in [Members -> [sent : BOOLEAN, nonce : Nat, floor : Nat, generation : Nat]]
  /\ finalizeTx \in [Members -> [sent : BOOLEAN,
                                 digest : (SignedStates \cup {NoState}) \X Nat,
                                 generation : Nat]]

\* While the channel is Active every lifecycle value is what it was before the
\* first request, except the two lifetime counters: a request that is cancelled
\* leaves no deadline, horizon, nonce or freeze behind (cancelClose, "the round
\* trip is a NO-OP"), so every signed state stays closable.
ActiveIsPristine ==
  channelStatus = "Active" =>
    /\ pendingClose = NoPendingClose
    /\ closeRequestedAt = 0
    /\ closeChallengeHorizon = 0
    /\ currentCloseFreezeNonce = SignedFreezeNonce
    /\ frozenGeneration = 0

\* While a close is pending or done, the freeze of exactly this era is held and
\* the nonce is the one that intents of the signed states carry.
FrozenWhileClosing ==
  channelStatus # "Active" =>
    /\ frozenGeneration = closeRequestGeneration
    /\ frozenGeneration # 0
    /\ currentCloseFreezeNonce = IntentFreezeNonce

\* The challenge game of one era ends by first intent + 2 periods + one response
\* interval, however many replacements land (_storePendingClose).
ChallengeGameBounded ==
  pendingClose.active =>
    /\ pendingClose.challengeDeadline <= closeChallengeHorizon + MinResponse
    /\ closeRequestedAt + GraceBeforeProcessSecs + 2 * ChallengePeriod <= closeChallengeHorizon

\* From the first intent of an era a full challenge period stays open to every
\* backed state newer than the pending one, whatever replacements land in it
\* (submitCloseIntent: the window an honest member needs to prove and land).
FirstIntentAt == closeChallengeHorizon - 2 * ChallengePeriod
NewerStateStaysAdmissible ==
  pendingClose.active /\ now <= FirstIntentAt + ChallengePeriod =>
    \A s \in backed : IsNewer(s, pendingClose.state) => ReplacementAdmitted(s)

\* cancelClose: censorship is bounded by the signed versions that exist.  Each
\* cancel consumes a version above all consumed before it.
CancelsSoFar == closeRequestGeneration - (IF channelStatus = "Active" THEN 0 ELSE 1)
CensorshipBounded == CancelsSoFar <= highestCancelledRevivedStateVersion

\* A replacement inside an era goes to a strictly newer state and never brings
\* the deadline forward (submitCloseIntent / _storePendingClose).
ReplacementOnlyImproves ==
  [][pendingClose.active /\ pendingClose'.active /\ pendingClose' # pendingClose =>
       /\ closeRequestGeneration' = closeRequestGeneration
       /\ closeChallengeHorizon' = closeChallengeHorizon
       /\ IsNewer(pendingClose'.state, pendingClose.state)
       /\ pendingClose'.challengeDeadline >= pendingClose.challengeDeadline]_vars

\* An intent admitted no later than the horizon leaves at least the response
\* interval to answer it (_storePendingClose, R3-2).
RungBeforeHorizonAnswerable ==
  [][pendingClose' # pendingClose /\ pendingClose'.active /\ now <= closeChallengeHorizon' =>
       pendingClose'.challengeDeadline >= now + MinResponse]_vars

\* A delayed raw request takes effect only if nothing was requested since it was
\* signed, although cancelClose restores the nonce it carries
\* (requestCloseAsParticipant: "one-shot").
DelayedRequestIsFresh ==
  [][closeRequestGeneration' # closeRequestGeneration =>
       \E m \in Members : /\ requestTx[m].sent /\ ~requestTx'[m].sent
                          /\ requestTx[m].generation = closeRequestGeneration]_vars

\* What is settled is the close a caller named, in the era it named, and that
\* close was open to a newer intent through its deadline (finalizeCloseGuarded).
SettlesWhatWasNamed ==
  [][finalized' # finalized =>
       /\ ~finalized.done
       /\ now > pendingClose.challengeDeadline
       /\ \E m \in Members :
            /\ finalizeTx[m].sent /\ ~finalizeTx'[m].sent
            /\ finalizeTx[m].digest = CloseIntentDigest(finalized'.state,
                                                        finalized'.closeFreezeNonce)
            /\ finalizeTx[m].generation = frozenGeneration]_vars

==============================================================================
