--------------------------- MODULE CloseGameProofs ---------------------------
(***************************************************************************)
(* Proofs about CloseGame and CloseGameHonest, for every set of signed     *)
(* states, every set of members and every choice of the periods.           *)
(***************************************************************************)
EXTENDS CloseGameHonest, TLAPS

\* The part of the inductive invariant that ties the lifecycle values together.
\* The pending deadline is the clamp of some instant already passed: that is
\* what makes it monotone under replacement and bounded from both sides.
LifecycleInv ==
  /\ pendingClose.active =>
       /\ channelStatus = "ClosePending"
       /\ pendingClose.state \in SignedStates
       /\ pendingClose.closeFreezeNonce = IntentFreezeNonce
       /\ closeRequestedAt + GraceBeforeProcessSecs + 2 * ChallengePeriod
            <= closeChallengeHorizon
       /\ \E t \in Nat : /\ t <= now
                         /\ closeChallengeHorizon - 2 * ChallengePeriod <= t
                         /\ t <= closeChallengeHorizon + MinResponse
                         /\ pendingClose.challengeDeadline
                              = ClampedDeadline(t, closeChallengeHorizon)
  /\ finalized.done <=> channelStatus = "Closed"

\* Requests in flight: one that still carries the current floor was signed in
\* this era or can no longer match the nonce.
RequestsInv ==
  \A m \in Members :
    requestTx[m].sent =>
      /\ requestTx[m].floor <= highestCancelledRevivedStateVersion
      /\ requestTx[m].floor = highestCancelledRevivedStateVersion =>
           /\ requestTx[m].nonce = currentCloseFreezeNonce =>
                requestTx[m].generation = closeRequestGeneration
           /\ channelStatus = "Active" => requestTx[m].nonce = SignedFreezeNonce

IInv ==
  /\ TypeOK
  /\ ActiveIsPristine
  /\ FrozenWhileClosing
  /\ CensorshipBounded
  /\ LifecycleInv
  /\ RequestsInv

------------------------------------------------------------------------------
\* The response interval is a positive number of seconds, at most the period.
LEMMA MinResponseType == MinResponse \in Nat \ {0} /\ MinResponse <= ChallengePeriod
BY PeriodsAssumption DEF MinResponse

\* The deadline lies between the horizon less one period and the absolute end,
\* for every instant of the challenge game.
LEMMA DeadlineBounds ==
  ASSUME NEW t \in Nat, NEW h \in Nat, h - 2 * ChallengePeriod <= t, t <= h + MinResponse
  PROVE  /\ ClampedDeadline(t, h) \in Nat
         /\ ClampedDeadline(t, h) <= h + MinResponse
         /\ ClampedDeadline(t, h) >= h - ChallengePeriod
         /\ ClampedDeadline(t, h) >= t
BY MinResponseType, PeriodsAssumption DEF ClampedDeadline

\* Up to the horizon the deadline leaves the response interval.
LEMMA DeadlineAnswerable ==
  ASSUME NEW t \in Nat, NEW h \in Nat, t <= h
  PROVE  ClampedDeadline(t, h) >= t + MinResponse
BY MinResponseType, PeriodsAssumption DEF ClampedDeadline

\* Replacing later never brings the deadline forward.
LEMMA DeadlineMonotone ==
  ASSUME NEW t \in Nat, NEW u \in Nat, NEW h \in Nat, t <= u
  PROVE  ClampedDeadline(t, h) <= ClampedDeadline(u, h)
BY MinResponseType, PeriodsAssumption DEF ClampedDeadline

------------------------------------------------------------------------------
LEMMA InitInv == Init => IInv
BY PeriodsAssumption
   DEF Init, IInv, TypeOK, ActiveIsPristine, FrozenWhileClosing, CensorshipBounded, CancelsSoFar,
       LifecycleInv, RequestsInv, NoPendingClose, NotFinalized, NoState, NoRequest,
       NoFinalization, CloseIntentDigest, SignedFreezeNonce, IntentFreezeNonce

\* Steps that leave the lifecycle alone keep its invariants.
LEMMA LifecycleUnchanged ==
  ASSUME IInv, UNCHANGED lifecycleVars, now' \in Nat, now <= now'
  PROVE  ActiveIsPristine' /\ FrozenWhileClosing' /\ CensorshipBounded' /\ LifecycleInv'
<1>1. UNCHANGED <<channelStatus, currentCloseFreezeNonce, closeRequestGeneration,
                  closeRequestedAt, closeChallengeHorizon, pendingClose, finalized,
                  highestCancelledRevivedStateVersion, frozenGeneration>>
  BY DEF lifecycleVars
<1>2. ActiveIsPristine' /\ FrozenWhileClosing' /\ CensorshipBounded'
  BY <1>1 DEF IInv, ActiveIsPristine, FrozenWhileClosing, CensorshipBounded, CancelsSoFar
<1>3. ASSUME pendingClose.active
      PROVE  \E t \in Nat : /\ t <= now'
                             /\ closeChallengeHorizon - 2 * ChallengePeriod <= t
                             /\ t <= closeChallengeHorizon + MinResponse
                             /\ pendingClose.challengeDeadline
                                  = ClampedDeadline(t, closeChallengeHorizon)
  BY <1>3 DEF IInv, LifecycleInv, TypeOK
<1>4. LifecycleInv'
  BY <1>1, <1>3 DEF IInv, LifecycleInv, ClampedDeadline
<1> QED
  BY <1>2, <1>4

LEMMA TickInv == IInv /\ Tick => IInv'
<1> SUFFICES ASSUME IInv, Tick PROVE IInv'
  OBVIOUS
<1>1. now' \in Nat /\ now <= now' /\ UNCHANGED <<lifecycleVars, backed, requestTx, finalizeTx>>
  BY DEF Tick, IInv, TypeOK
<1>2. TypeOK'
  BY <1>1 DEF IInv, TypeOK, lifecycleVars
<1>3. RequestsInv'
  BY <1>1 DEF IInv, RequestsInv, lifecycleVars
<1> QED
  BY <1>1, <1>2, <1>3, LifecycleUnchanged DEF IInv

LEMMA SignRequestInv == ASSUME IInv, NEW m \in Members, SignRequest(m) PROVE IInv'
<1>1. UNCHANGED <<now, lifecycleVars, backed, finalizeTx>>
  BY DEF SignRequest
<1>2. /\ requestTx' \in [Members -> [sent : BOOLEAN, nonce : Nat, floor : Nat, generation : Nat]]
      /\ \A n \in Members : n # m => requestTx'[n] = requestTx[n]
      /\ requestTx'[m] = [sent |-> TRUE, nonce |-> currentCloseFreezeNonce,
                          floor |-> highestCancelledRevivedStateVersion,
                          generation |-> closeRequestGeneration]
  BY DEF SignRequest, IInv, TypeOK
<1>3. TypeOK'
  BY <1>1, <1>2 DEF IInv, TypeOK, lifecycleVars
<1>4. RequestsInv'
  BY <1>1, <1>2 DEF IInv, TypeOK, RequestsInv, lifecycleVars, ActiveIsPristine
<1> QED
  BY <1>1, <1>3, <1>4, LifecycleUnchanged DEF IInv, TypeOK

LEMMA SignFinalizeInv == ASSUME IInv, NEW m \in Members, SignFinalize(m) PROVE IInv'
<1>1. UNCHANGED <<now, lifecycleVars, backed, requestTx>>
  BY DEF SignFinalize
<1>2. finalizeTx' \in [Members -> [sent : BOOLEAN, digest : (SignedStates \cup {NoState}) \X Nat,
                                   generation : Nat]]
  BY DEF SignFinalize, IInv, TypeOK, CloseIntentDigest
<1>3. TypeOK'
  BY <1>1, <1>2 DEF IInv, TypeOK, lifecycleVars
<1>4. RequestsInv'
  BY <1>1 DEF IInv, RequestsInv, lifecycleVars
<1> QED
  BY <1>1, <1>3, <1>4, LifecycleUnchanged DEF IInv, TypeOK

LEMMA BackingInv ==
  ASSUME IInv, NEW S \in SUBSET SignedStates, Attest(S) \/ LoseBacking(S)
  PROVE  IInv'
<1>1. UNCHANGED <<now, lifecycleVars, requestTx, finalizeTx>> /\ backed' \in SUBSET SignedStates
  BY DEF Attest, LoseBacking, IInv, TypeOK
<1>2. TypeOK'
  BY <1>1 DEF IInv, TypeOK, lifecycleVars
<1>3. RequestsInv'
  BY <1>1 DEF IInv, RequestsInv, lifecycleVars
<1> QED
  BY <1>1, <1>2, <1>3, LifecycleUnchanged DEF IInv, TypeOK

\* A mined request, taking effect or reverting.
LEMMA MineRequestInv == ASSUME IInv, NEW m \in Members, MineRequest(m) PROVE IInv'
<1>1. /\ UNCHANGED <<now, backed, finalizeTx>>
      /\ requestTx' \in [Members -> [sent : BOOLEAN, nonce : Nat, floor : Nat, generation : Nat]]
      /\ \A n \in Members : requestTx'[n].sent => requestTx'[n] = requestTx[n]
      /\ requestTx[m].sent
  BY DEF MineRequest, IInv, TypeOK, NoRequest
<1>2. CASE UNCHANGED lifecycleVars
  <2>1. TypeOK'
    BY <1>1, <1>2 DEF IInv, TypeOK, lifecycleVars
  <2>2. RequestsInv'
    BY <1>1, <1>2 DEF IInv, RequestsInv, lifecycleVars
  <2> QED
    BY <1>1, <1>2, <2>1, <2>2, LifecycleUnchanged DEF IInv, TypeOK
<1>3. CASE RequestClose(requestTx[m])
  <2>1. TypeOK'
    BY <1>1, <1>3 DEF IInv, TypeOK, RequestClose
  <2>2. ActiveIsPristine' /\ FrozenWhileClosing' /\ CensorshipBounded'
    BY <1>1, <1>3
       DEF IInv, TypeOK, RequestClose, RequestAdmitted, ActiveIsPristine, FrozenWhileClosing,
           CensorshipBounded, CancelsSoFar, SignedFreezeNonce, IntentFreezeNonce
  <2>3. LifecycleInv'
    BY <1>1, <1>3
       DEF IInv, RequestClose, RequestAdmitted, LifecycleInv, ActiveIsPristine, NoPendingClose
  <2>4. RequestsInv'
    BY <1>1, <1>3
       DEF IInv, TypeOK, RequestClose, RequestAdmitted, RequestsInv, ActiveIsPristine,
           SignedFreezeNonce
  <2> QED
    BY <2>1, <2>2, <2>3, <2>4 DEF IInv
<1> QED
  BY <1>2, <1>3 DEF MineRequest

\* A close intent: the deadline it gets is the clamp of the present instant.
LEMMA SubmitInv == ASSUME IInv, NEW s \in SignedStates, Submit(s) PROVE IInv'
<1>1. /\ UNCHANGED <<now, backed, requestTx, finalizeTx, channelStatus, currentCloseFreezeNonce,
                     closeRequestGeneration, closeRequestedAt, finalized, frozenGeneration,
                     highestCancelledRevivedStateVersion>>
      /\ pendingClose' = [active |-> TRUE, state |-> s, closeFreezeNonce |-> IntentFreezeNonce,
                          challengeDeadline |-> ClampedDeadline(now, closeChallengeHorizon')]
      /\ now \in Nat
  BY DEF Submit, SubmitCloseIntent, IInv, TypeOK
<1>2. /\ channelStatus = "ClosePending"
      /\ closeChallengeHorizon' \in Nat
      /\ closeChallengeHorizon' - 2 * ChallengePeriod <= now
      /\ now <= closeChallengeHorizon' + MinResponse
      /\ closeRequestedAt + GraceBeforeProcessSecs + 2 * ChallengePeriod
           <= closeChallengeHorizon'
  <2>1. CASE ReplacementAdmitted(s) /\ UNCHANGED closeChallengeHorizon
    <3>1. PICK t \in Nat : t <= now /\ closeChallengeHorizon - 2 * ChallengePeriod <= t
      BY <2>1 DEF IInv, LifecycleInv, ReplacementAdmitted
    <3> QED
      BY <2>1, <3>1, PeriodsAssumption, MinResponseType
         DEF IInv, TypeOK, LifecycleInv, ReplacementAdmitted
  <2>2. CASE FirstIntentAdmitted /\ closeChallengeHorizon' = now + 2 * ChallengePeriod
    BY <2>2, PeriodsAssumption, MinResponseType DEF IInv, TypeOK, FirstIntentAdmitted
  <2> QED
    BY <2>1, <2>2 DEF Submit, SubmitCloseIntent
<1>3. ClampedDeadline(now, closeChallengeHorizon') \in Nat
  BY <1>1, <1>2, DeadlineBounds
<1>4. TypeOK'
  BY <1>1, <1>2, <1>3 DEF IInv, TypeOK, IntentFreezeNonce, SignedFreezeNonce
<1>5. ActiveIsPristine' /\ FrozenWhileClosing' /\ CensorshipBounded'
  BY <1>1, <1>2
     DEF IInv, ActiveIsPristine, FrozenWhileClosing, CensorshipBounded, CancelsSoFar
<1>6. LifecycleInv'
  <2>1. \E t \in Nat : /\ t <= now'
                        /\ closeChallengeHorizon' - 2 * ChallengePeriod <= t
                        /\ t <= closeChallengeHorizon' + MinResponse
                        /\ pendingClose'.challengeDeadline
                             = ClampedDeadline(t, closeChallengeHorizon')
    BY <1>1, <1>2
  <2> QED
    BY <1>1, <1>2, <2>1 DEF IInv, LifecycleInv, IntentFreezeNonce, ClampedDeadline
<1>7. RequestsInv'
  BY <1>1 DEF IInv, RequestsInv
<1> QED
  BY <1>4, <1>5, <1>6, <1>7 DEF IInv

\* A cancel: every request in flight now carries an outdated floor.
LEMMA CancelInv == ASSUME IInv, NEW s \in SignedStates, Cancel(s) PROVE IInv'
<1>1. /\ UNCHANGED <<now, backed, requestTx, finalizeTx, closeRequestGeneration, finalized>>
      /\ highestCancelledRevivedStateVersion' = s.version
      /\ s.version > highestCancelledRevivedStateVersion
      /\ s.version \in Nat
      /\ frozenGeneration' = 0
      /\ pendingClose' = NoPendingClose
      /\ channelStatus' = "Active"
      /\ closeRequestedAt' = 0
      /\ closeChallengeHorizon' = 0
      /\ currentCloseFreezeNonce' = currentCloseFreezeNonce - 1
      /\ channelStatus = "ClosePending"
      /\ currentCloseFreezeNonce = 1
  BY SignedStatesAssumption
     DEF Cancel, CancelClose, CancelAdmitted, NonceAfterCancel, IInv, LifecycleInv,
         FrozenWhileClosing, IntentFreezeNonce, SignedFreezeNonce
<1>2. TypeOK'
  BY <1>1 DEF IInv, TypeOK, NoPendingClose
<1>3. ActiveIsPristine' /\ FrozenWhileClosing' /\ CensorshipBounded'
  BY <1>1
     DEF IInv, TypeOK, ActiveIsPristine, FrozenWhileClosing, CensorshipBounded, CancelsSoFar,
         SignedFreezeNonce
<1>4. LifecycleInv'
  BY <1>1 DEF IInv, LifecycleInv, NoPendingClose
<1>5. RequestsInv'
  BY <1>1 DEF IInv, TypeOK, RequestsInv
<1> QED
  BY <1>2, <1>3, <1>4, <1>5 DEF IInv

LEMMA MineFinalizeInv == ASSUME IInv, NEW m \in Members, MineFinalize(m) PROVE IInv'
<1>1. /\ UNCHANGED <<now, backed, requestTx>>
      /\ finalizeTx' \in [Members -> [sent : BOOLEAN,
                                      digest : (SignedStates \cup {NoState}) \X Nat,
                                      generation : Nat]]
  BY DEF MineFinalize, IInv, TypeOK, NoFinalization, CloseIntentDigest
<1>2. CASE UNCHANGED lifecycleVars
  <2>1. TypeOK'
    BY <1>1, <1>2 DEF IInv, TypeOK, lifecycleVars
  <2>2. RequestsInv'
    BY <1>1, <1>2 DEF IInv, RequestsInv, lifecycleVars
  <2> QED
    BY <1>1, <1>2, <2>1, <2>2, LifecycleUnchanged DEF IInv, TypeOK
<1>3. CASE FinalizeClose(finalizeTx[m])
  <2>1. channelStatus = "ClosePending"
    BY <1>3 DEF FinalizeClose, FinalizeAdmitted, IInv, LifecycleInv
  <2>2. TypeOK'
    BY <1>1, <1>3 DEF IInv, TypeOK, FinalizeClose, NoPendingClose
  <2>3. ActiveIsPristine' /\ FrozenWhileClosing' /\ CensorshipBounded'
    BY <1>3, <2>1
       DEF IInv, FinalizeClose, ActiveIsPristine, FrozenWhileClosing, CensorshipBounded,
           CancelsSoFar
  <2>4. LifecycleInv'
    BY <1>3 DEF IInv, FinalizeClose, LifecycleInv, NoPendingClose
  <2>5. RequestsInv'
    BY <1>1, <1>3, <2>1 DEF IInv, RequestsInv, FinalizeClose
  <2> QED
    BY <2>2, <2>3, <2>4, <2>5 DEF IInv
<1> QED
  BY <1>2, <1>3 DEF MineFinalize

\* Every step of the contract keeps the inductive invariant.
LEMMA NextInv == IInv /\ [Next]_vars => IInv'
<1> SUFFICES ASSUME IInv, [Next]_vars PROVE IInv'
  OBVIOUS
<1>1. CASE Tick
  BY <1>1, TickInv
<1>2. ASSUME NEW m \in Members,
             SignRequest(m) \/ MineRequest(m) \/ SignFinalize(m) \/ MineFinalize(m)
      PROVE  IInv'
  BY <1>2, SignRequestInv, MineRequestInv, SignFinalizeInv, MineFinalizeInv
<1>3. ASSUME NEW s \in SignedStates, Submit(s) \/ Cancel(s) PROVE IInv'
  BY <1>3, SubmitInv, CancelInv
<1>5. ASSUME NEW S \in SUBSET SignedStates, Attest(S) \/ LoseBacking(S) PROVE IInv'
  BY <1>5, BackingInv
<1>4. CASE UNCHANGED vars
  <2>1. UNCHANGED <<now, lifecycleVars, backed, requestTx, finalizeTx>>
    BY <1>4 DEF vars
  <2>2. TypeOK'
    BY <2>1 DEF IInv, TypeOK, lifecycleVars
  <2>3. RequestsInv'
    BY <2>1 DEF IInv, RequestsInv, lifecycleVars
  <2> QED
    BY <2>1, <2>2, <2>3, LifecycleUnchanged DEF IInv, TypeOK
<1> QED
  BY <1>1, <1>2, <1>3, <1>4, <1>5 DEF Next

THEOREM Invariance == Spec => []IInv
BY InitInv, NextInv, PTL DEF Spec

------------------------------------------------------------------------------
\* Every stored value keeps its type.
THEOREM TypeCorrect == Spec => []TypeOK
BY Invariance, PTL DEF IInv

\* A cancelled request leaves nothing behind but the two lifetime counters.
THEOREM CancelRestores == Spec => []ActiveIsPristine
BY Invariance, PTL DEF IInv

\* A pending or settled close holds the freeze of its own era.
THEOREM FreezeHeld == Spec => []FrozenWhileClosing
BY Invariance, PTL DEF IInv

\* The number of cancels is bounded by the highest version they consumed.
THEOREM CancelsBounded == Spec => []CensorshipBounded
BY Invariance, PTL DEF IInv

\* The deadline of a pending close lies between the end of the first challenge
\* period and the absolute end of the game.
LEMMA PendingDeadlineBounds ==
  ASSUME IInv, pendingClose.active
  PROVE  /\ pendingClose.challengeDeadline <= closeChallengeHorizon + MinResponse
         /\ pendingClose.challengeDeadline >= closeChallengeHorizon - ChallengePeriod
<1>1. PICK t \in Nat : /\ closeChallengeHorizon - 2 * ChallengePeriod <= t
                       /\ t <= closeChallengeHorizon + MinResponse
                       /\ pendingClose.challengeDeadline
                            = ClampedDeadline(t, closeChallengeHorizon)
  BY DEF IInv, LifecycleInv
<1> QED
  BY <1>1, DeadlineBounds DEF IInv, TypeOK

\* However many replacements land, the challenge game of an era ends.
THEOREM GameBounded == Spec => []ChallengeGameBounded
<1>1. IInv => ChallengeGameBounded
  BY PendingDeadlineBounds DEF ChallengeGameBounded, IInv, LifecycleInv
<1> QED
  BY <1>1, Invariance, PTL

\* A backed newer state is admissible for a full period from the first intent.
LEMMA AdmissibleInFirstPeriod == IInv => NewerStateStaysAdmissible
<1> SUFFICES ASSUME IInv, pendingClose.active, now <= FirstIntentAt + ChallengePeriod,
                    NEW s \in backed, IsNewer(s, pendingClose.state)
             PROVE  ReplacementAdmitted(s)
  BY DEF NewerStateStaysAdmissible
<1>1. now <= closeChallengeHorizon - ChallengePeriod
  BY PeriodsAssumption DEF FirstIntentAt, IInv, TypeOK
<1>2. now <= pendingClose.challengeDeadline /\ now <= closeChallengeHorizon + MinResponse
  BY <1>1, PendingDeadlineBounds, PeriodsAssumption, MinResponseType DEF IInv, TypeOK
<1> QED
  BY <1>2 DEF ReplacementAdmitted, IInv, LifecycleInv, FrozenWhileClosing

THEOREM NewerAdmissible == Spec => []NewerStateStaysAdmissible
BY AdmissibleInFirstPeriod, Invariance, PTL

------------------------------------------------------------------------------
\* Only submitCloseIntent leaves an active pending close that differs from the
\* one before it.
LEMMA PendingChangesBySubmit ==
  ASSUME IInv, [Next]_vars, pendingClose' # pendingClose, pendingClose'.active
  PROVE  \E s \in SignedStates : SubmitCloseIntent(s) /\ now' = now
<1>1. ~ Tick /\ ~ UNCHANGED vars
  BY DEF Tick, vars, lifecycleVars
<1>2. ASSUME NEW m \in Members PROVE ~ (SignRequest(m) \/ SignFinalize(m) \/ MineRequest(m))
  BY DEF SignRequest, SignFinalize, MineRequest, RequestClose, lifecycleVars
<1>3. ASSUME NEW m \in Members PROVE ~ MineFinalize(m)
  BY DEF MineFinalize, FinalizeClose, NoPendingClose, lifecycleVars
<1>4. ASSUME NEW s \in SignedStates PROVE ~ Cancel(s)
  BY DEF Cancel, CancelClose, NoPendingClose
<1>5. ASSUME NEW S \in SUBSET SignedStates PROVE ~ (Attest(S) \/ LoseBacking(S))
  BY DEF Attest, LoseBacking, lifecycleVars
<1> QED
  BY <1>1, <1>2, <1>3, <1>4, <1>5 DEF Next, Submit

\* The horizon of a pending close never moves.
LEMMA HorizonChangesWithPending ==
  ASSUME [Next]_vars, pendingClose' = pendingClose, pendingClose.active
  PROVE  closeChallengeHorizon' = closeChallengeHorizon
<1>1. Tick \/ UNCHANGED vars => UNCHANGED closeChallengeHorizon
  BY DEF Tick, vars, lifecycleVars
<1>2. ASSUME NEW m \in Members, SignRequest(m) \/ SignFinalize(m) \/ MineRequest(m)
      PROVE  UNCHANGED closeChallengeHorizon
  BY <1>2 DEF SignRequest, SignFinalize, MineRequest, RequestClose, lifecycleVars
<1>3. ASSUME NEW m \in Members, MineFinalize(m) PROVE UNCHANGED closeChallengeHorizon
  BY <1>3 DEF MineFinalize, FinalizeClose, NoPendingClose, lifecycleVars
<1>4. ASSUME NEW s \in SignedStates, Submit(s) PROVE UNCHANGED closeChallengeHorizon
  BY <1>4 DEF Submit, SubmitCloseIntent, FirstIntentAdmitted
<1>5. ASSUME NEW s \in SignedStates, Cancel(s) PROVE UNCHANGED closeChallengeHorizon
  BY <1>5 DEF Cancel, CancelClose, NoPendingClose
<1>6. ASSUME NEW S \in SUBSET SignedStates, Attest(S) \/ LoseBacking(S)
      PROVE  UNCHANGED closeChallengeHorizon
  BY <1>6 DEF Attest, LoseBacking, lifecycleVars
<1> QED
  BY <1>1, <1>2, <1>3, <1>4, <1>5, <1>6 DEF Next

\* Only finalizeCloseGuarded settles a close, and only a mined request starts an
\* era.
LEMMA FinalizedChangesByFinalize ==
  ASSUME [Next]_vars, finalized' # finalized
  PROVE  \E m \in Members : MineFinalize(m) /\ FinalizeClose(finalizeTx[m])
<1>1. ~ Tick /\ ~ UNCHANGED vars
  BY DEF Tick, vars, lifecycleVars
<1>2. ASSUME NEW m \in Members PROVE ~ (SignRequest(m) \/ SignFinalize(m) \/ MineRequest(m))
  BY DEF SignRequest, SignFinalize, MineRequest, RequestClose, lifecycleVars
<1>3. ASSUME NEW s \in SignedStates PROVE ~ (Submit(s) \/ Cancel(s))
  BY DEF Submit, SubmitCloseIntent, Cancel, CancelClose
<1>5. ASSUME NEW S \in SUBSET SignedStates PROVE ~ (Attest(S) \/ LoseBacking(S))
  BY DEF Attest, LoseBacking, lifecycleVars
<1>4. ASSUME NEW m \in Members, MineFinalize(m) PROVE FinalizeClose(finalizeTx[m])
  BY <1>4 DEF MineFinalize, lifecycleVars
<1> QED
  BY <1>1, <1>2, <1>3, <1>4, <1>5 DEF Next

LEMMA EraChangesByRequest ==
  ASSUME [Next]_vars, closeRequestGeneration' # closeRequestGeneration
  PROVE  \E m \in Members : MineRequest(m) /\ RequestClose(requestTx[m])
<1>1. ~ Tick /\ ~ UNCHANGED vars
  BY DEF Tick, vars, lifecycleVars
<1>2. ASSUME NEW m \in Members PROVE ~ (SignRequest(m) \/ SignFinalize(m) \/ MineFinalize(m))
  BY DEF SignRequest, SignFinalize, MineFinalize, FinalizeClose, lifecycleVars
<1>3. ASSUME NEW s \in SignedStates PROVE ~ (Submit(s) \/ Cancel(s))
  BY DEF Submit, SubmitCloseIntent, Cancel, CancelClose
<1>5. ASSUME NEW S \in SUBSET SignedStates PROVE ~ (Attest(S) \/ LoseBacking(S))
  BY DEF Attest, LoseBacking, lifecycleVars
<1>4. ASSUME NEW m \in Members, MineRequest(m) PROVE RequestClose(requestTx[m])
  BY <1>4 DEF MineRequest, lifecycleVars
<1> QED
  BY <1>1, <1>2, <1>3, <1>4, <1>5 DEF Next

\* A replacement goes to a strictly newer state of the same era and never brings
\* the deadline forward.
THEOREM ReplacementImproves == Spec => ReplacementOnlyImproves
<1> DEFINE Improves ==
      pendingClose.active /\ pendingClose'.active /\ pendingClose' # pendingClose =>
        /\ closeRequestGeneration' = closeRequestGeneration
        /\ closeChallengeHorizon' = closeChallengeHorizon
        /\ IsNewer(pendingClose'.state, pendingClose.state)
        /\ pendingClose'.challengeDeadline >= pendingClose.challengeDeadline
<1>1. IInv /\ [Next]_vars => [Improves]_vars
  <2> SUFFICES ASSUME IInv, [Next]_vars, pendingClose.active, pendingClose'.active,
                      pendingClose' # pendingClose
               PROVE  Improves
    OBVIOUS
  <2>1. PICK s \in SignedStates : SubmitCloseIntent(s) /\ now' = now
    BY PendingChangesBySubmit
  <2>2. /\ closeRequestGeneration' = closeRequestGeneration
        /\ closeChallengeHorizon' = closeChallengeHorizon
        /\ pendingClose'.state = s /\ IsNewer(s, pendingClose.state)
        /\ pendingClose'.challengeDeadline = ClampedDeadline(now, closeChallengeHorizon)
    BY <2>1 DEF SubmitCloseIntent, ReplacementAdmitted, FirstIntentAdmitted
  <2>3. PICK t \in Nat : /\ t <= now
                         /\ pendingClose.challengeDeadline
                              = ClampedDeadline(t, closeChallengeHorizon)
    BY DEF IInv, LifecycleInv
  <2>4. pendingClose.challengeDeadline <= ClampedDeadline(now, closeChallengeHorizon)
    BY <2>3, DeadlineMonotone DEF IInv, TypeOK
  <2>5. pendingClose.challengeDeadline \in Nat /\ ClampedDeadline(now, closeChallengeHorizon) \in Int
    BY MinResponseType, PeriodsAssumption DEF IInv, TypeOK, ClampedDeadline
  <2> QED
    BY <2>2, <2>4, <2>5
<1> QED
  BY <1>1, Invariance, PTL DEF Spec, ReplacementOnlyImproves

\* An intent admitted no later than the horizon can be answered.
THEOREM RungAnswerable == Spec => RungBeforeHorizonAnswerable
<1> DEFINE Answerable ==
      pendingClose' # pendingClose /\ pendingClose'.active /\ now <= closeChallengeHorizon' =>
        pendingClose'.challengeDeadline >= now + MinResponse
<1>1. IInv /\ [Next]_vars => [Answerable]_vars
  <2> SUFFICES ASSUME IInv, [Next]_vars, pendingClose'.active, pendingClose' # pendingClose,
                      now <= closeChallengeHorizon'
               PROVE  pendingClose'.challengeDeadline >= now + MinResponse
    OBVIOUS
  <2>1. PICK s \in SignedStates : SubmitCloseIntent(s) /\ now' = now
    BY PendingChangesBySubmit
  <2>2. pendingClose'.challengeDeadline = ClampedDeadline(now, closeChallengeHorizon')
    BY <2>1 DEF SubmitCloseIntent
  <2>3. closeChallengeHorizon' \in Nat /\ now \in Nat
    BY NextInv DEF IInv, TypeOK
  <2> QED
    BY <2>2, <2>3, DeadlineAnswerable
<1> QED
  BY <1>1, Invariance, PTL DEF Spec, RungBeforeHorizonAnswerable

\* A delayed raw request takes effect only in the era it was signed in.
THEOREM RequestFresh == Spec => DelayedRequestIsFresh
<1> DEFINE Fresh ==
      closeRequestGeneration' # closeRequestGeneration =>
        \E m \in Members : /\ requestTx[m].sent /\ ~requestTx'[m].sent
                           /\ requestTx[m].generation = closeRequestGeneration
<1>1. IInv /\ [Next]_vars => [Fresh]_vars
  <2> SUFFICES ASSUME IInv, [Next]_vars, closeRequestGeneration' # closeRequestGeneration
               PROVE  \E m \in Members : /\ requestTx[m].sent /\ ~requestTx'[m].sent
                                         /\ requestTx[m].generation = closeRequestGeneration
    OBVIOUS
  <2>1. PICK m \in Members : MineRequest(m) /\ RequestClose(requestTx[m])
    BY EraChangesByRequest
  <2>2. requestTx[m].generation = closeRequestGeneration
    BY <2>1 DEF RequestClose, RequestAdmitted, MineRequest, IInv, RequestsInv
  <2>3. requestTx[m].sent /\ ~requestTx'[m].sent
    BY <2>1 DEF MineRequest, NoRequest, IInv, TypeOK
  <2> QED
    BY <2>2, <2>3
<1> QED
  BY <1>1, Invariance, PTL DEF Spec, DelayedRequestIsFresh

\* What is settled is the close a caller named in the era it named, and it is
\* settled once.
THEOREM SettlesNamed == Spec => SettlesWhatWasNamed
<1> DEFINE Named ==
      finalized' # finalized =>
        /\ ~finalized.done
        /\ now > pendingClose.challengeDeadline
        /\ \E m \in Members :
             /\ finalizeTx[m].sent /\ ~finalizeTx'[m].sent
             /\ finalizeTx[m].digest = CloseIntentDigest(finalized'.state,
                                                         finalized'.closeFreezeNonce)
             /\ finalizeTx[m].generation = frozenGeneration
<1>1. IInv /\ [Next]_vars => [Named]_vars
  <2> SUFFICES ASSUME IInv, [Next]_vars, finalized' # finalized PROVE Named
    OBVIOUS
  <2>1. PICK m \in Members : MineFinalize(m) /\ FinalizeClose(finalizeTx[m])
    BY FinalizedChangesByFinalize
  <2>2. /\ now > pendingClose.challengeDeadline /\ pendingClose.active
        /\ finalizeTx[m].digest = CloseIntentDigest(finalized'.state, finalized'.closeFreezeNonce)
        /\ finalizeTx[m].generation = closeRequestGeneration
    BY <2>1 DEF FinalizeClose, FinalizeAdmitted
  <2>3. ~finalized.done /\ closeRequestGeneration = frozenGeneration
    BY <2>2 DEF IInv, LifecycleInv, FrozenWhileClosing
  <2>4. finalizeTx[m].sent /\ ~finalizeTx'[m].sent
    BY <2>1 DEF MineFinalize, NoFinalization, IInv, TypeOK
  <2> QED
    BY <2>2, <2>3, <2>4
<1> QED
  BY <1>1, Invariance, PTL DEF Spec, SettlesWhatWasNamed

------------------------------------------------------------------------------
\* TimelySpec: a stale pending state is never past the first window, and a
\* settled one is the newest.
TimelyInv ==
  /\ IInv
  /\ HonestState \in backed
  /\ pendingClose.active /\ pendingClose.state # HonestState =>
       now <= FirstIntentAt + ChallengePeriod
  /\ finalized.done => finalized.state = HonestState

\* A step of TimelySpec keeps TimelyInv when the honest state is the newest one.
LEMMA TimelyStep ==
  ASSUME HonestHoldsNewest, TimelyInv, [TimelyNext]_vars
  PROVE  TimelyInv'
<1>1. [Next]_vars
  BY DEF TimelyNext, TimelyTick, Next
<1>2. IInv'
  BY <1>1, NextInv DEF TimelyInv
<1>3. HonestState \in backed'
  <2>1. CASE \E S \in SUBSET SignedStates : Attest(S)
    BY <2>1 DEF TimelyInv, Attest
  <2>2. CASE \E S \in SUBSET (SignedStates \ {HonestState}) : LoseBacking(S)
    BY <2>2 DEF TimelyInv, LoseBacking
  <2>3. CASE UNCHANGED backed
    BY <2>3 DEF TimelyInv
  <2> QED
    BY <2>1, <2>2, <2>3 DEF TimelyNext, TimelyTick, vars, Tick, SignRequest, SignFinalize,
           MineRequest, MineFinalize, Submit, Cancel
<1>4. finalized'.done => finalized'.state = HonestState
  <2>1. CASE finalized' = finalized
    BY <2>1 DEF TimelyInv
  <2>2. CASE finalized' # finalized
    <3>1. PICK m \in Members : FinalizeClose(finalizeTx[m])
      BY <1>1, <2>2, FinalizedChangesByFinalize
    <3>2. /\ pendingClose.active /\ now > pendingClose.challengeDeadline
          /\ finalized'.state = pendingClose.state
      BY <3>1 DEF FinalizeClose, FinalizeAdmitted
    <3>3. now > FirstIntentAt + ChallengePeriod
      BY <3>2, PendingDeadlineBounds, PeriodsAssumption
         DEF FirstIntentAt, TimelyInv, IInv, TypeOK
    <3>4. pendingClose.state = HonestState
      BY <3>2, <3>3, PeriodsAssumption DEF TimelyInv, IInv, TypeOK, FirstIntentAt
    <3> QED
      BY <3>2, <3>4
  <2> QED
    BY <2>1, <2>2
<1>5. ASSUME pendingClose'.active, pendingClose'.state # HonestState
      PROVE  now' <= FirstIntentAt' + ChallengePeriod
  <2>1. CASE pendingClose' = pendingClose
    <3>1. closeChallengeHorizon' = closeChallengeHorizon
      BY <1>1, <1>5, <2>1, HorizonChangesWithPending
    <3>2. CASE now' = now
      BY <1>5, <2>1, <3>1, <3>2 DEF TimelyInv, FirstIntentAt
    <3>3. CASE now' # now
      <4>1. Tick
        BY <1>1, <3>3 DEF Next, vars, SignRequest, SignFinalize, MineRequest, MineFinalize,
               Submit, Cancel, Attest, LoseBacking
      <4>2. AnsweredInTime
        BY <3>3 DEF TimelyNext, TimelyTick, vars, SignRequest, SignFinalize, MineRequest, MineFinalize,
               Submit, Cancel, Attest, LoseBacking
      <4> QED
        BY <1>5, <2>1, <3>1, <4>1, <4>2, PeriodsAssumption
           DEF AnsweredInTime, Tick, FirstIntentAt, TimelyInv, IInv, TypeOK
    <3> QED
      BY <3>2, <3>3
  <2>2. CASE pendingClose' # pendingClose
    <3>1. PICK s \in SignedStates : SubmitCloseIntent(s) /\ now' = now
      BY <1>1, <1>5, <2>2, PendingChangesBySubmit DEF TimelyInv
    <3>2. pendingClose'.state = s
      BY <3>1 DEF SubmitCloseIntent
    <3>3. CASE FirstIntentAdmitted /\ closeChallengeHorizon' = now + 2 * ChallengePeriod
      BY <3>1, <3>3, PeriodsAssumption DEF FirstIntentAt, TimelyInv, IInv, TypeOK
    <3>4. CASE ReplacementAdmitted(s) /\ closeChallengeHorizon' = closeChallengeHorizon
      <4>1. pendingClose.state \in SignedStates /\ IsNewer(s, pendingClose.state)
        BY <3>4 DEF ReplacementAdmitted, TimelyInv, IInv, LifecycleInv
      <4>2. pendingClose.state # HonestState
        BY <1>5, <3>2, <4>1, SignedStatesAssumption, HonestAssumption
           DEF HonestHoldsNewest, IsNewer
      <4> QED
        BY <3>1, <3>4, <4>2 DEF ReplacementAdmitted, TimelyInv, FirstIntentAt
    <3> QED
      BY <3>1, <3>3, <3>4 DEF SubmitCloseIntent
  <2> QED
    BY <2>1, <2>2
<1> QED
  BY <1>2, <1>3, <1>4, <1>5 DEF TimelyInv

\* A member that holds the newest state and lands it within the challenge
\* period never sees an older one settle.
THEOREM NewestSettles == TimelySpec => []NewestStateSettles
<1>1. CASE HonestHoldsNewest
  <2>1. TimelyInit => TimelyInv
    BY InitInv DEF TimelyInit, Init, TimelyInv, NoPendingClose, NotFinalized
  <2>2. TimelyInv /\ [TimelyNext]_vars => TimelyInv'
    BY <1>1, TimelyStep
  <2>3. TimelyInv => NewestStateSettles
    BY DEF TimelyInv, NewestStateSettles
  <2> QED
    BY <2>1, <2>2, <2>3, PTL DEF TimelySpec
<1>2. CASE ~HonestHoldsNewest
  <2>1. NewestStateSettles
    BY <1>2 DEF NewestStateSettles
  <2> QED
    BY <2>1, PTL
<1> QED
  BY <1>1, <1>2

==============================================================================
