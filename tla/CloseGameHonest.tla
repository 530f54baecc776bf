-------------------------- MODULE CloseGameHonest --------------------------
(***************************************************************************)
(* What the close game gives one honest member, whoever else acts.         *)
(*                                                                         *)
(* LiveSpec: the member keeps sending its own transactions (request, close *)
(* intent of a state it holds, finalization) and they are eventually       *)
(* mined; everybody else may cancel, replace or stay silent.               *)
(*                                                                         *)
(* TimelySpec: the member holds the newest signed state and lands it       *)
(* within one challenge period of the era's first intent, which is what    *)
(* challengePeriod is sized for; no fairness.                              *)
(***************************************************************************)
EXTENDS CloseGame

CONSTANTS
  HonestMember,
  HonestState     \* a signed state the honest member holds

ASSUME HonestAssumption ==
  /\ HonestMember \in Members
  /\ HonestState \in SignedStates

\* The honest member's own steps, and time.
LiveSpec ==
  /\ Spec
  /\ WF_vars(Tick)
  /\ WF_vars(SignRequest(HonestMember))
  /\ WF_vars(MineRequest(HonestMember))
  /\ WF_vars(Attest({HonestState}))
  /\ WF_vars(Submit(HonestState))
  /\ WF_vars(SignFinalize(HonestMember))
  /\ WF_vars(MineFinalize(HonestMember))

\* Exit liveness: a member who holds any backed signed state gets the channel
\* closed for good, although others may cancel (cancelClose, A1 and C-3: "an
\* HONEST CLOSE is never blocked").
ExitLiveness == <>[](channelStatus = "Closed")

------------------------------------------------------------------------------
\* HonestState is the newest signed state.
HonestHoldsNewest == \A s \in SignedStates : s # HonestState => IsNewer(HonestState, s)

\* The clock does not pass the first window of an era while the pending state is
\* stale: the honest member has answered by then.
AnsweredInTime ==
  pendingClose.active /\ pendingClose.state # HonestState =>
    now < FirstIntentAt + ChallengePeriod

TimelyTick == AnsweredInTime /\ Tick

TimelyNext ==
  \/ TimelyTick
  \/ \E m \in Members : SignRequest(m) \/ MineRequest(m) \/ SignFinalize(m) \/ MineFinalize(m)
  \/ \E s \in SignedStates : Submit(s) \/ Cancel(s)
  \/ \E S \in SUBSET SignedStates : Attest(S)
  \/ \E S \in SUBSET (SignedStates \ {HonestState}) : LoseBacking(S)

TimelyInit == Init /\ HonestState \in backed

TimelySpec == TimelyInit /\ [][TimelyNext]_vars

\* A member that answers within the challenge period never sees an older state
\* settle (the stale-close defence of submitCloseIntent and _storePendingClose).
NewestStateSettles ==
  HonestHoldsNewest => (finalized.done => finalized.state = HonestState)

==============================================================================
