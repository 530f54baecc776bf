------------------------------- MODULE Payout -------------------------------
(***************************************************************************)
(* The money of a closed channel, from the rollup's escrow to the members: *)
(* materialization credits the Manager in the rollup's pull ledger, the    *)
(* Manager pulls exactly its cap, and each accepted claim is paid out by   *)
(* its nullifier.  Beside it run the burns and withdrawals the rollup pays *)
(* on its own (withdrawNative, withdrawERC20) and the transfers that reach *)
(* the channel after it closed (claimLateIncoming).                        *)
(*                                                                         *)
(* The Manager is Closed from the start and its fund vector is settled.    *)
(* Token index 0 and the ERC-20 indices share one shape: totalEscrowed and *)
(* pendingWithdrawals are escrow[ETH] and pending[ETH].  A transfer that   *)
(* fails or delivers another amount reverts its transaction, so it is no   *)
(* step.  A proof is mined later than it is made and is bound to what the  *)
(* prover read: a finalized height, or the late-balance checkpoint.        *)
(***************************************************************************)
EXTENDS Integers, FiniteSetsExt

CONSTANTS
  Tokens, ETH,          \* token indices; ETH is index 0
  Recipients, Manager,
  Fund,                 \* finalizedChannelFundAmount, per token
  Claims,               \* provable withdrawal and post-close claims of the channel
  Withdrawals,          \* provable base withdrawals, paid by the rollup
  LateReceipts,         \* transfers to the channel not received before it closed
  Escrowed,             \* per token: what all channels have deposited
  MaxHeight             \* bound: finalized height

Accounts == Recipients \cup {Manager}
Payee(who) == [token : Tokens, recipient : who, amount : Nat \ {0}]

\* What the records of one table that S names pay in token t.
Amounts(table) == [k \in DOMAIN table |-> table[k].amount]
TotalIn(table, S, t) == SumFunctionOnSet(Amounts(table), {k \in S : table[k].token = t})

\* Claims, receipts and withdrawals are named by their nullifiers.  The escrow
\* covers what the base layer lets anyone prove: the channel's fund, its late
\* receipts and all withdrawals.
ASSUME PayoutAssumption ==
  /\ ETH \in Tokens /\ Manager \notin Recipients /\ IsFiniteSet(Recipients)
  /\ \A table \in {Claims, LateReceipts, Withdrawals} : IsFiniteSet(DOMAIN table)
  /\ Fund \in [Tokens -> Nat] /\ Escrowed \in [Tokens -> Nat]
  /\ DOMAIN Claims \cap DOMAIN LateReceipts = {}
  /\ \A k \in DOMAIN Claims : Claims[k] \in Payee(Recipients)
  /\ \A k \in DOMAIN LateReceipts : LateReceipts[k] \in Payee(Recipients)
  /\ \A k \in DOMAIN Withdrawals : Withdrawals[k] \in Payee(Accounts)
  /\ \A t \in Tokens :
       Escrowed[t] >= Fund[t] + TotalIn(LateReceipts, DOMAIN LateReceipts, t)
                              + TotalIn(Withdrawals, DOMAIN Withdrawals, t)

VARIABLES
  escrow,                  \* totalEscrowed, escrowedByToken
  pending,                 \* pendingWithdrawals, pendingTokenWithdrawals
  withdrawalNullifierUsed, \* base withdrawals already paid
  latestFinalizedBlockNumber,
  withdrawalProofs,        \* proofs in flight: the leaves and the finalized height of each
  materialized,            \* materializedChannelExit equals the finalized close
  lateBalance,             \* lateBalanceStateCommitment: the receipts it has folded
  lateBalanceAnchorBlock,
  lateProof,               \* per receipt: the checkpoint and anchor its proof in flight is bound to
  lateIncomingFundAmount, receivedChannelFunds, totalWithdrawn, totalCreditedOut,
  usedWithdrawalNullifiers,
  withdrawalPayouts,       \* nullifiers with an unpaid payout
  withdrawalCredits,
  managerBalance,          \* tokens the Manager holds
  paid                     \* tokens that left the contracts

rollupVars == <<escrow, pending, withdrawalNullifierUsed>>
proofVars == <<latestFinalizedBlockNumber, withdrawalProofs, lateProof>>
lateVars == <<lateBalance, lateBalanceAnchorBlock>>
accrualVars == <<totalWithdrawn, usedWithdrawalNullifiers, withdrawalPayouts, withdrawalCredits>>
fundVars == <<receivedChannelFunds, totalCreditedOut, managerBalance>>
vars == <<rollupVars, proofVars, lateVars, accrualVars, fundVars, materialized,
          lateIncomingFundAmount, paid>>

NoProof == [made |-> FALSE, base |-> {}, anchor |-> 0]
Zero == [t \in Tokens |-> 0]

\* The terms of a Manager payout: claims and late receipts have distinct nullifiers.
Terms ==
  [n \in DOMAIN Claims \cup DOMAIN LateReceipts |->
     IF n \in DOMAIN Claims THEN Claims[n] ELSE LateReceipts[n]]

Init ==
  /\ escrow = Escrowed
  /\ pending = [t \in Tokens |-> [a \in Accounts |-> 0]]
  /\ withdrawalNullifierUsed = {}
  /\ latestFinalizedBlockNumber = 0
  /\ withdrawalProofs = {}
  /\ lateProof = [r \in DOMAIN LateReceipts |-> NoProof]
  /\ materialized = FALSE
  /\ lateBalance = {} /\ lateBalanceAnchorBlock = 0
  /\ lateIncomingFundAmount = Zero /\ receivedChannelFunds = Zero
  /\ totalWithdrawn = Zero /\ totalCreditedOut = Zero
  /\ usedWithdrawalNullifiers = {} /\ withdrawalPayouts = {}
  /\ withdrawalCredits = [t \in Tokens |-> [a \in Accounts |-> 0]]
  /\ managerBalance = Zero /\ paid = Zero

\* The rollup finalizes another block.
FinalizeBlock ==
  /\ latestFinalizedBlockNumber < MaxHeight
  /\ latestFinalizedBlockNumber' = latestFinalizedBlockNumber + 1
  /\ UNCHANGED <<rollupVars, withdrawalProofs, lateProof, lateVars, accrualVars, fundVars,
                 materialized, lateIncomingFundAmount, paid>>

------------------------------------------------------------------------------
(* Rollup: base withdrawals *)

\* The prover folds leaves of one asset class into a chain at a finalized state.
ProveWithdrawals(leaves) ==
  /\ leaves # {} /\ leaves \cap withdrawalNullifierUsed = {}
  /\ Cardinality({Withdrawals[w].token = ETH : w \in leaves}) = 1
  /\ withdrawalProofs' = withdrawalProofs
       \cup {[leaves |-> leaves, anchor |-> latestFinalizedBlockNumber]}
  /\ UNCHANGED <<rollupVars, latestFinalizedBlockNumber, lateProof, lateVars, accrualVars,
                 fundVars, materialized, lateIncomingFundAmount, paid>>

\* Mutant of WithdrawalAdmitted: only the latest root.
AtLatestRoot(p) ==
  p.anchor = latestFinalizedBlockNumber /\ p.leaves \cap withdrawalNullifierUsed = {}

\* _verifyWithdrawalSet, _consumeWithdrawalGuard: any finalized root, every leaf unused.
WithdrawalAdmitted(p) ==
  p.anchor <= latestFinalizedBlockNumber /\ p.leaves \cap withdrawalNullifierUsed = {}

\* What a set of leaves credits to account a in token t.
LeafCredit(leaves, t, a) ==
  TotalIn(Withdrawals, {w \in leaves : Withdrawals[w].recipient = a}, t)

\* Mutant: the escrow is not debited for leaves paid to the Manager.
DebitRecipientsOnly(credit) ==
  /\ escrow' = [t \in Tokens |->
                  escrow[t] - SumFunctionOnSet(credit[t], Recipients)]
  /\ pending' = [t \in Tokens |-> [a \in Accounts |-> pending[t][a] + credit[t][a]]]

\* _creditNativeEscrow / _creditTokenEscrow: the subtraction reverts below zero.
CreditEscrow(credit) ==
  LET debit(t) == SumFunctionOnSet(credit[t], Accounts)
  IN  /\ \A t \in Tokens : escrow[t] >= debit(t)
      /\ escrow' = [t \in Tokens |-> escrow[t] - debit(t)]
      /\ pending' = [t \in Tokens |-> [a \in Accounts |-> pending[t][a] + credit[t][a]]]

\* withdrawNative / withdrawERC20: the leaves of one proof, all or none.
Withdraw(p) ==
  /\ WithdrawalAdmitted(p)
  /\ CreditEscrow([t \in Tokens |-> [a \in Accounts |-> LeafCredit(p.leaves, t, a)]])
  /\ withdrawalNullifierUsed' = withdrawalNullifierUsed \cup p.leaves
  /\ UNCHANGED <<proofVars, lateVars, accrualVars, fundVars, materialized,
                 lateIncomingFundAmount, paid>>

\* withdraw / withdrawToken by a recipient.
PullCredit(t, a, amount) ==
  /\ amount <= pending[t][a]
  /\ pending' = [pending EXCEPT ![t][a] = @ - amount]
  /\ paid' = [paid EXCEPT ![t] = @ + amount]
  /\ UNCHANGED <<escrow, withdrawalNullifierUsed, proofVars, lateVars, accrualVars, fundVars,
                 materialized, lateIncomingFundAmount>>

------------------------------------------------------------------------------
(* Manager: accrual, funding, payout *)

\* The cap test of _accrueWithdrawal, after creditLateIncoming has raised the cap.
WithinCap(t, amount) == totalWithdrawn[t] + amount <= Fund[t] + lateIncomingFundAmount'[t]

\* Mutant: an accepted claim leaves its nullifier unused.
Reusable(n) == n \notin withdrawalPayouts

Unused(n) == n \notin usedWithdrawalNullifiers

\* _accrueWithdrawal
Accrue(n) ==
  LET c == Terms[n]
  IN  /\ Unused(n)
      /\ WithinCap(c.token, c.amount)
      /\ totalWithdrawn' = [totalWithdrawn EXCEPT ![c.token] = @ + c.amount]
      /\ usedWithdrawalNullifiers' = usedWithdrawalNullifiers \cup {n}
      /\ withdrawalCredits' = [withdrawalCredits EXCEPT ![c.token][c.recipient] = @ + c.amount]
      /\ withdrawalPayouts' = withdrawalPayouts \cup {n}

\* submitWithdrawalClaim / submitPostCloseClaim
SubmitClaim(n) ==
  /\ UNCHANGED lateIncomingFundAmount
  /\ Accrue(n)
  /\ UNCHANGED <<rollupVars, proofVars, lateVars, fundVars, materialized, paid>>

ToManager(amounts) ==
  [t \in Tokens |-> [a \in Accounts |-> IF a = Manager THEN amounts[t] ELSE 0]]

\* materializeSignedHead: the whole fund vector in one transaction; the anchor
\* of the close is finalized and becomes the late-balance anchor.
Materialize(anchor) ==
  /\ ~materialized
  /\ CreditEscrow(ToManager(Fund))
  /\ materialized' = TRUE
  /\ lateBalanceAnchorBlock' = anchor
  /\ UNCHANGED <<withdrawalNullifierUsed, proofVars, lateBalance, accrualVars, fundVars,
                 lateIncomingFundAmount, paid>>

\* A receive proof continues the checkpoint its prover read; the chain it
\* continues has not consumed the receipt.
ProveLate(r, anchor) ==
  /\ materialized /\ r \notin lateBalance
  /\ lateProof' = [lateProof EXCEPT ![r] = [made |-> TRUE, base |-> lateBalance, anchor |-> anchor]]
  /\ UNCHANGED <<rollupVars, latestFinalizedBlockNumber, withdrawalProofs, lateVars, accrualVars,
                 fundVars, materialized, lateIncomingFundAmount, paid>>

\* Mutant: a proof that continues an older checkpoint is accepted.
ContinuesAny(p) == p.made /\ p.anchor >= lateBalanceAnchorBlock

Continues(p) == p.made /\ p.base = lateBalance /\ p.anchor >= lateBalanceAnchorBlock

\* Mutant: the cap grows and the rollup credits nothing.
NoCredit(r) == UNCHANGED <<escrow, pending>>

\* rollup.creditChannelExit(manager, token, amount)
CreditLate(r) ==
  CreditEscrow(ToManager([t \in Tokens |->
    IF t = LateReceipts[r].token THEN LateReceipts[r].amount ELSE 0]))

\* claimLateIncoming and creditLateIncoming, one transaction.
ClaimLate(r) ==
  /\ materialized
  /\ Continues(lateProof[r])
  /\ lateBalance' = lateProof[r].base \cup {r}
  /\ lateBalanceAnchorBlock' = lateProof[r].anchor
  /\ CreditLate(r)
  /\ lateIncomingFundAmount' =
       [lateIncomingFundAmount EXCEPT ![LateReceipts[r].token] = @ + LateReceipts[r].amount]
  /\ Accrue(r)
  /\ UNCHANGED <<withdrawalNullifierUsed, proofVars, fundVars, materialized, paid>>

Cap(t) == Fund[t] + lateIncomingFundAmount[t]

\* What _pullChannelFunds withdraws.
Expected(t) == Cap(t) - receivedChannelFunds[t]

\* pullChannelFunds / pullChannelTokenFunds
PullChannelFunds(t) ==
  /\ receivedChannelFunds[t] < Cap(t)
  /\ materialized
  /\ Expected(t) <= pending[t][Manager]
  /\ pending' = [pending EXCEPT ![t][Manager] = @ - Expected(t)]
  /\ managerBalance' = [managerBalance EXCEPT ![t] = @ + Expected(t)]
  /\ receivedChannelFunds' = [receivedChannelFunds EXCEPT ![t] = Cap(t)]
  /\ UNCHANGED <<escrow, withdrawalNullifierUsed, proofVars, lateVars, accrualVars,
                 totalCreditedOut, materialized, lateIncomingFundAmount, paid>>

Covered(t, amount) == totalCreditedOut[t] + amount <= receivedChannelFunds[t]

\* claimWithdrawalCredit by the payout's recipient; the transfer needs the balance.
ClaimCredit(n) ==
  LET c == Terms[n]
  IN  /\ n \in withdrawalPayouts
      /\ c.amount <= withdrawalCredits[c.token][c.recipient]
      /\ Covered(c.token, c.amount)
      /\ c.amount <= managerBalance[c.token]
      /\ withdrawalPayouts' = withdrawalPayouts \ {n}
      /\ withdrawalCredits' = [withdrawalCredits EXCEPT ![c.token][c.recipient] = @ - c.amount]
      /\ totalCreditedOut' = [totalCreditedOut EXCEPT ![c.token] = @ + c.amount]
      /\ managerBalance' = [managerBalance EXCEPT ![c.token] = @ - c.amount]
      /\ paid' = [paid EXCEPT ![c.token] = @ + c.amount]
      /\ UNCHANGED <<rollupVars, proofVars, lateVars, totalWithdrawn, usedWithdrawalNullifiers,
                     receivedChannelFunds, materialized, lateIncomingFundAmount>>

------------------------------------------------------------------------------

Next ==
  \/ FinalizeBlock
  \/ \E leaves \in SUBSET DOMAIN Withdrawals : ProveWithdrawals(leaves)
  \/ \E p \in withdrawalProofs : Withdraw(p)
  \/ \E t \in Tokens, a \in Recipients : \E amount \in 1..pending[t][a] : PullCredit(t, a, amount)
  \/ \E n \in DOMAIN Claims : SubmitClaim(n)
  \/ \E anchor \in 0..latestFinalizedBlockNumber :
       \/ Materialize(anchor)
       \/ \E r \in DOMAIN LateReceipts : ProveLate(r, anchor)
  \/ \E r \in DOMAIN LateReceipts : ClaimLate(r)
  \/ \E t \in Tokens : PullChannelFunds(t)
  \/ \E n \in usedWithdrawalNullifiers : ClaimCredit(n)

Spec == Init /\ [][Next]_vars

\* Materialization and the Manager's pulls are permissionless and recipients want
\* their payouts: while some such call is possible, one is eventually made.
LiveSpec ==
  /\ Spec
  /\ WF_vars(\E anchor \in 0..latestFinalizedBlockNumber : Materialize(anchor))
  /\ WF_vars(\E t \in Tokens : PullChannelFunds(t))
  /\ WF_vars(\E n \in usedWithdrawalNullifiers : ClaimCredit(n))

------------------------------------------------------------------------------
(* Properties *)

\* Every unit deposited is in the escrow, owed by the rollup's pull ledger, held by
\* the Manager or paid out, and no balance is overdrawn: no path (withdrawNative,
\* withdrawERC20, materialization, late incoming, pull, claim) creates or strands
\* value between the three contracts.  The Manager holds exactly what it recorded as
\* received and has not paid out, within its cap: a credit the rollup owes its address
\* for another reason never enters the channel's payout capacity (_pullChannelFunds).
ValueConserved ==
  \A t \in Tokens :
    /\ Escrowed[t] = escrow[t] + SumFunctionOnSet(pending[t], Accounts)
                      + managerBalance[t] + paid[t]
    /\ escrow[t] >= 0 /\ managerBalance[t] >= 0 /\ \A a \in Accounts : pending[t][a] >= 0
    /\ managerBalance[t] = receivedChannelFunds[t] - totalCreditedOut[t]
    /\ receivedChannelFunds[t] <= Cap(t)

\* Each accepted claim is paid at most once, by its own amount, whichever of the
\* three entry points accepted it (submitWithdrawalClaim, submitPostCloseClaim,
\* creditLateIncoming share usedWithdrawalNullifiers).  The aggregate credits are the
\* open payouts, and open and paid payouts together stay within the cap, so
\* claimWithdrawalCredit never meets a payout whose credit is short and a later pull
\* always covers every accepted claim.
EachClaimPaidOnce ==
  \A t \in Tokens :
    /\ totalCreditedOut[t] = TotalIn(Terms, usedWithdrawalNullifiers \ withdrawalPayouts, t)
    /\ \A a \in Recipients :
         withdrawalCredits[t][a] =
           TotalIn(Terms, {n \in withdrawalPayouts : Terms[n].recipient = a}, t)
    /\ totalWithdrawn[t] = TotalIn(Terms, usedWithdrawalNullifiers, t)
    /\ totalWithdrawn[t] <= Cap(t)

\* A withdrawal proof stays payable while its leaves are unpaid, however many blocks
\* finalize and whatever else leaves the escrow in between (_verifyWithdrawalSet
\* accepts every finalized root; the escrow subtraction does not revert).
ProvenWithdrawalStaysPayable ==
  \A p \in withdrawalProofs : p.leaves \cap withdrawalNullifierUsed = {} =>
    /\ WithdrawalAdmitted(p)
    /\ \A t \in Tokens : escrow[t] >= TotalIn(Withdrawals, p.leaves, t)

\* The late-balance checkpoint contains exactly the receipts credited, and the late
\* cap is their sum: receive proofs that branch from an older checkpoint never make
\* it forget a credited receipt (claimLateIncoming's continuation check).
LateCheckpointComplete ==
  /\ lateBalance = usedWithdrawalNullifiers \cap DOMAIN LateReceipts
  /\ \A t \in Tokens : lateIncomingFundAmount[t] = TotalIn(LateReceipts, lateBalance, t)

\* Every accepted claim is eventually paid and none stays open, also when late
\* receipts raise the cap after the Manager pulled (a second exact pull covers the
\* difference); claims are finitely many.
EveryPayoutPaid == []<>(withdrawalPayouts = {})
==============================================================================
