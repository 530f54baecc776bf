--------------------------- MODULE MCChannelExit ---------------------------
(* Instances of ChannelExit for model checking. *)
EXTENDS ChannelExit

State(v) == [epoch |-> v, version |-> v]

\* Three signed states, two sends.
ThreeStates == {State(v) : v \in 1 .. 3}
SettledByTwoSends == [s \in ThreeStates |-> s.version - 1]

\* A signed sub-block alone, two channels in either order, two sends in one batch,
\* and a send before a sub-block without a signer.
AllBatches ==
  LET other == CHOOSE c \in Others : TRUE
  IN  {<<Channel>>, <<other, Channel>>, <<Channel, other>>, <<Channel, Channel>>, <<Channel, Unsigned>>}
=============================================================================
