-------------------------------- MODULE Outbox --------------------------------
(***************************************************************************)
(* The delegate's L1 outbox, node/delegate/signed-transaction-outbox.js:   *)
(* every write of the delegate (participant close, guarded finalization,   *)
(* claims and pulls) is a semantic action with its own fsynced journal of  *)
(* signed attempts, and one durable lease says which action owns the       *)
(* signer's nonce.                                                         *)
(*                                                                         *)
(* Unlike the Rust publishers (SignerLane) the outbox signs replacements:  *)
(* a pending attempt may be signed again with a higher fee and the same    *)
(* nonce, a finally reverted one with a fresh nonce, on the operator's     *)
(* explicit request.  All versions of one nonce stay eligible to be mined. *)
(*                                                                         *)
(* A call holds the signer mutex over its section of withSignerLock, and   *)
(* broadcasts outside it.  A crash loses the call and what it was about to *)
(* broadcast; journals and lease are files.                                *)
(***************************************************************************)
EXTENDS Integers, Sequences, FiniteSets, FiniteSetsExt

CONSTANTS
  Actions,       \* semantic actions of the delegate
  None,
  MaxAttempts,   \* attempts the operator asks for, per action
  MaxCrashes,    \* interrupted calls: crashes, and fee or signing errors
  MaxReorgs      \* reorganisations and forgotten transactions

ASSUME OutboxAssumption ==
  /\ None \notin Actions /\ IsFiniteSet(Actions)
  /\ MaxAttempts \in Nat \ {0} /\ MaxCrashes \in Nat /\ MaxReorgs \in Nat

VARIABLES
  attempts,      \* attempts[a]: the journaled attempts of a, each by its nonce
  terminal,      \* terminal[a]: the attempt the terminal record names, 0 before it
  lease,         \* the reservation file
  call,          \* the section of a call that holds the signer mutex
  outgoing,      \* attempts some call is about to broadcast
  mempool,       \* attempts the L1 knows and has not mined
  chain,         \* the signer's mined attempts by nonce: chain[n + 1]
  rivals,        \* actions whose effect another sender has had
  finalNonce, finalRivals,   \* the same at the finalized block
  crashes, reorgs

disk == <<attempts, terminal, lease>>
l1 == <<mempool, chain, rivals, finalNonce, finalRivals>>
vars == <<disk, call, outgoing, l1, crashes, reorgs>>

NoLease == [owner |-> None]
NoCall == [action |-> None]
IntentLease(a, nonce, prior) ==
  [owner |-> a, stage |-> "intent", nonce |-> nonce, prior |-> prior, tx |-> 0]
TxLease(a, i) ==
  [owner |-> a, stage |-> "transaction", nonce |-> attempts[a][i], prior |-> 0, tx |-> i]

Init ==
  /\ attempts = [a \in Actions |-> <<>>]
  /\ terminal = [a \in Actions |-> 0]
  /\ lease = NoLease /\ call = NoCall /\ outgoing = {}
  /\ mempool = {} /\ chain = <<>> /\ rivals = {}
  /\ finalNonce = 0 /\ finalRivals = {}
  /\ crashes = 0 /\ reorgs = 0

-----------------------------------------------------------------------------
(* What a call reads.                                                      *)

Last(a) == Len(attempts[a])
Nonce(a, i) == attempts[a][i]
Attempts == Actions \X (1 .. MaxAttempts)
Journaled == {x \in Attempts : x[2] <= Last(x[1])}
Mined(a, i) == \E n \in DOMAIN chain : chain[n].tx = <<a, i>>
Receipt(a, i) == CHOOSE n \in DOMAIN chain : chain[n].tx = <<a, i>>
Succeeded(a) == {i \in DOMAIN attempts[a] : Mined(a, i) /\ chain[Receipt(a, i)].ok}
Failed(a) == {i \in DOMAIN attempts[a] : Mined(a, i) /\ ~chain[Receipt(a, i)].ok}

\* Any receipt counts: a faulty form of Durable.
AnyReceipt(a, i) == TRUE

\* _assertReceiptFinalized, and the durable head of markFinalized.
Durable(a, i) == Receipt(a, i) <= finalNonce

\* A receipt for any version at the active nonce consumes that nonce.
ActiveFailure(a) == {i \in Failed(a) : Nonce(a, i) = Nonce(a, Last(a))}

\* _reserveNonce: past the pending nonce and past every journaled one.
ReserveNonce ==
  Max({Len(chain)} \cup {Nonce(x[1], x[2]) + 1 : x \in mempool \cup Journaled})

-----------------------------------------------------------------------------
(* The lease.                                                              *)

\* An interrupted section may have reached the journal: the first version at the
\* reserved nonce that is not the one being replaced.
Committed(a) ==
  {i \in DOMAIN attempts[a] : Nonce(a, i) = lease.nonce /\ i # lease.prior}

Escaped(a) ==
  Mined(a, Last(a)) \/ <<a, Last(a)>> \in mempool \/ Len(chain) > Nonce(a, Last(a))

\* _ensureReservation: the lease a call on a journaled action goes on with.
\* NoLease stands for the errors, on which the call ends.
Ensured(a, replace) ==
  IF lease = NoLease THEN IF Escaped(a) THEN NoLease ELSE TxLease(a, Last(a))
  ELSE IF lease.owner # a THEN NoLease
  ELSE IF lease.stage = "transaction" THEN TxLease(a, Last(a))
  ELSE IF Committed(a) # {} THEN TxLease(a, Min(Committed(a)))
  ELSE IF replace /\ lease.prior = Last(a) THEN lease ELSE NoLease

\* Only the very version that won is recognised: a faulty form of Released.
ReleasedIfLast(a) ==
  IF lease.owner = a /\ lease.stage = "transaction" /\ lease.tx = terminal[a]
  THEN NoLease ELSE lease

\* _releaseReservation of a terminal action: only the nonce its terminal attempt
\* consumed, under a lease that names a transaction.
Released(a) ==
  IF /\ lease.owner = a /\ lease.stage = "transaction"
     /\ lease.nonce = Nonce(a, terminal[a])
     /\ Nonce(a, lease.tx) = Nonce(a, terminal[a])
  THEN NoLease ELSE lease

-----------------------------------------------------------------------------
(* Calls.                                                                  *)

Free == call = NoCall
Section(a, pc) == [action |-> a, pc |-> pc]

\* The incumbent lease is taken up whoever owns it: a faulty form of SendFirst.
SendFirstUnleased(a) ==
  /\ Free /\ attempts[a] = <<>>
  /\ lease' = IntentLease(a, IF lease = NoLease THEN ReserveNonce ELSE lease.nonce, 0)
  /\ call' = Section(a, "reserved")
  /\ UNCHANGED <<attempts, terminal, outgoing, l1, crashes, reorgs>>

\* send, first attempt: the intent is durable before anything is signed.  An
\* interrupted intent of the same action is taken up with its nonce.
SendFirst(a) ==
  /\ Free /\ attempts[a] = <<>>
  /\ lease.owner \in {None, a}
  /\ lease' = IF lease = NoLease THEN IntentLease(a, ReserveNonce, 0) ELSE lease
  /\ call' = Section(a, "reserved")
  /\ UNCHANGED <<attempts, terminal, outgoing, l1, crashes, reorgs>>

\* The nonce of a replacement: fresh after a durable revert, the same otherwise.
ReplacementNonce(a) ==
  IF ActiveFailure(a) # {} THEN ReserveNonce ELSE Nonce(a, Last(a))

\* Any revert allows a fresh nonce: a faulty form of MayReplace.
MayReplaceAtOnce(a) == TRUE

\* A fresh nonce is taken only after the revert at the old one is durable.
MayReplace(a) == \A i \in ActiveFailure(a) : Durable(a, i)

\* send with an explicit replacement: no attempt has succeeded, and an interrupted
\* intent is resumed only with the nonce it reserved.
SendReplacement(a) ==
  /\ Free /\ attempts[a] # <<>> /\ terminal[a] = 0
  /\ Last(a) < MaxAttempts
  /\ Ensured(a, TRUE) # NoLease
  /\ Succeeded(a) = {} /\ MayReplace(a)
  /\ Ensured(a, TRUE).stage = "intent" => Ensured(a, TRUE).nonce = ReplacementNonce(a)
  /\ lease' = IntentLease(a, ReplacementNonce(a), Last(a))
  /\ call' = Section(a, "reserved")
  /\ UNCHANGED <<attempts, terminal, outgoing, l1, crashes, reorgs>>

\* _newAttempt: the signed bytes go into the journal ...
Journal ==
  /\ call # NoCall /\ call.pc = "reserved"
  /\ attempts' = [attempts EXCEPT ![call.action] = Append(@, lease.nonce)]
  /\ call' = Section(call.action, "journaled")
  /\ UNCHANGED <<terminal, lease, outgoing, l1, crashes, reorgs>>

\* ... then the lease names them, and the mutex is given up before the broadcast.
WriteLease ==
  /\ call # NoCall /\ call.pc = "journaled"
  /\ lease' = TxLease(call.action, Last(call.action))
  /\ outgoing' = outgoing \cup {<<call.action, Last(call.action)>>}
  /\ call' = NoCall
  /\ UNCHANGED <<attempts, terminal, l1, crashes, reorgs>>

\* send or resumeExact on a journaled action: repair the lease, and broadcast the
\* last attempt again unless a receipt says what became of its nonce.
Resume(a) ==
  /\ Free /\ attempts[a] # <<>> /\ terminal[a] = 0
  /\ Ensured(a, FALSE) # NoLease
  /\ lease' = Ensured(a, FALSE)
  /\ outgoing' = IF Succeeded(a) \cup ActiveFailure(a) = {}
                   THEN outgoing \cup {<<a, Last(a)>>} ELSE outgoing
  /\ UNCHANGED <<attempts, terminal, call, l1, crashes, reorgs>>

\* A fee cap that is too low, a failed gas estimate or a signing error ends the
\* section with the intent in place.
Fails ==
  /\ call # NoCall /\ call.pc = "reserved" /\ crashes < MaxCrashes
  /\ crashes' = crashes + 1
  /\ call' = NoCall
  /\ UNCHANGED <<disk, outgoing, l1, reorgs>>

Crash ==
  /\ call # NoCall \/ outgoing # {}
  /\ crashes < MaxCrashes
  /\ crashes' = crashes + 1
  /\ call' = NoCall /\ outgoing' = {}
  /\ UNCHANGED <<disk, l1, reorgs>>

\* An intent with no journal behind it was never signed into the open.
Abandon(a) ==
  /\ Free /\ attempts[a] = <<>> /\ lease.owner = a
  /\ lease' = NoLease
  /\ UNCHANGED <<attempts, terminal, call, outgoing, l1, crashes, reorgs>>

\* A known transaction is not sent again; the L1 refuses a nonce already spent.
Broadcast(x) ==
  /\ x \in outgoing
  /\ outgoing' = outgoing \ {x}
  /\ mempool' = IF Nonce(x[1], x[2]) >= Len(chain) THEN mempool \cup {x} ELSE mempool
  /\ UNCHANGED <<disk, call, chain, rivals, finalNonce, finalRivals, crashes, reorgs>>

\* markFinalized: the watcher's event belongs to a journaled attempt, its receipt is
\* successful and durable.  It does not look at the lease before the terminal record.
MarkFinalized(a, i) ==
  /\ Free /\ terminal[a] = 0
  /\ i \in Succeeded(a) /\ Durable(a, i)
  /\ terminal' = [terminal EXCEPT ![a] = i]
  /\ call' = Section(a, "terminal")
  /\ UNCHANGED <<attempts, lease, outgoing, l1, crashes, reorgs>>

\* settleSuperseded: both the local revert and the winner's event are durable.
SettleSuperseded(a) ==
  /\ Free /\ attempts[a] # <<>> /\ terminal[a] = 0
  /\ Ensured(a, FALSE) # NoLease
  /\ Succeeded(a) = {} /\ a \in finalRivals
  /\ \E i \in ActiveFailure(a) :
       /\ Durable(a, i)
       /\ terminal' = [terminal EXCEPT ![a] = i]
  /\ lease' = Ensured(a, FALSE)
  /\ call' = Section(a, "terminal")
  /\ UNCHANGED <<attempts, outgoing, l1, crashes, reorgs>>

\* The lease goes after the terminal record is durable; where it does not match, the
\* call ends with an error and the lease stays.
Release ==
  /\ call # NoCall /\ call.pc = "terminal"
  /\ lease' = Released(call.action)
  /\ call' = NoCall
  /\ UNCHANGED <<attempts, terminal, outgoing, l1, crashes, reorgs>>

\* send, markFinalized or resumeExact on a terminal action finishes its release.
ReleaseTerminal(a) ==
  /\ Free /\ terminal[a] # 0 /\ lease.owner = a
  /\ lease' = Released(a)
  /\ UNCHANGED <<attempts, terminal, call, outgoing, l1, crashes, reorgs>>

-----------------------------------------------------------------------------
(* The L1, external to this code.                                          *)

\* Any version at the account's nonce can be mined, and it can fail for reasons of
\* its own; it must fail once another sender has had the effect.
Mine(x, ok) ==
  /\ x \in mempool /\ Nonce(x[1], x[2]) = Len(chain)
  /\ ok => x[1] \notin rivals
  /\ chain' = Append(chain, [tx |-> x, ok |-> ok])
  /\ mempool' = {y \in mempool : Nonce(y[1], y[2]) # Nonce(x[1], x[2])}
  /\ UNCHANGED <<disk, call, outgoing, rivals, finalNonce, finalRivals, crashes, reorgs>>

Rival(a) ==
  /\ a \notin rivals /\ Succeeded(a) = {}
  /\ rivals' = rivals \cup {a}
  /\ UNCHANGED <<disk, call, outgoing, mempool, chain, finalNonce, finalRivals, crashes, reorgs>>

Finalize ==
  /\ <<finalNonce, finalRivals>> # <<Len(chain), rivals>>
  /\ finalNonce' = Len(chain) /\ finalRivals' = rivals
  /\ UNCHANGED <<disk, call, outgoing, mempool, chain, rivals, crashes, reorgs>>

Reorg ==
  /\ reorgs < MaxReorgs
  /\ <<finalNonce, finalRivals>> # <<Len(chain), rivals>>
  /\ reorgs' = reorgs + 1
  /\ mempool' = mempool \cup {chain[n].tx : n \in (finalNonce + 1) .. Len(chain)}
  /\ chain' = SubSeq(chain, 1, finalNonce) /\ rivals' = finalRivals
  /\ UNCHANGED <<disk, call, outgoing, finalNonce, finalRivals, crashes>>

Drop(x) ==
  /\ x \in mempool /\ reorgs < MaxReorgs
  /\ reorgs' = reorgs + 1
  /\ mempool' = mempool \ {x}
  /\ UNCHANGED <<disk, call, outgoing, chain, rivals, finalNonce, finalRivals, crashes>>

-----------------------------------------------------------------------------
Next ==
  \/ \E a \in Actions :
       \/ SendFirst(a) \/ SendReplacement(a) \/ Resume(a) \/ Abandon(a)
       \/ SettleSuperseded(a) \/ ReleaseTerminal(a) \/ Rival(a)
  \/ \E a \in Actions, i \in 1 .. MaxAttempts : MarkFinalized(a, i)
  \/ Journal \/ WriteLease \/ Release \/ Fails \/ Crash
  \/ \E x \in Attempts : Broadcast(x) \/ Drop(x)
  \/ \E x \in Attempts, ok \in BOOLEAN : Mine(x, ok)
  \/ Finalize \/ Reorg

Spec == Init /\ [][Next]_vars

\* A call that holds the mutex ends, and the delegate, which retries every action
\* that its Store does not show as done, calls again on a terminal one.
LiveSpec ==
  /\ Spec
  /\ WF_vars(Journal) /\ WF_vars(WriteLease) /\ WF_vars(Release)
  /\ \A a \in Actions : SF_vars(ReleaseTerminal(a))

-----------------------------------------------------------------------------
(* Properties.                                                             *)

\* Two semantic actions never sign the same nonce, over crashes at every point of
\* _newAttempt, reorganisations and replacements: the lease excludes the sibling.
ActionsOwnNonces ==
  \A x, y \in Journaled :
    Nonce(x[1], x[2]) = Nonce(y[1], y[2]) => x[1] = y[1]

\* At most one attempt of an action ever succeeds (OUTBOX_MULTIPLE_SUCCESSES never
\* happens): a second nonce is signed only once the first one's revert is durable.
AtMostOneSuccess ==
  \A a \in Actions : Cardinality(Succeeded(a)) <= 1

\* When the lease has left a terminal action, no signed version of it can move again:
\* every nonce it ever journaled is spent in a finalized block (_releaseReservation).
ReleasedIsSpent ==
  \A x \in Journaled :
    terminal[x[1]] # 0 /\ lease.owner # x[1] => Nonce(x[1], x[2]) < finalNonce

\* "A retained reservation means the signer nonce or semantic transition is not yet
\* safely reconciled" (doc/tasks/delegate-signed-transaction-journal.md): the lease
\* does not stay with an action whose terminal record is written.
TerminalLeaseReleased ==
  \A a \in Actions : terminal[a] # 0 ~> lease.owner # a

\* An interrupted replacement is the one way for it to stay: a lease that names a
\* transaction is released after the terminal record, whatever crashed in between.
LeaseReleasedOrIntent ==
  \A a \in Actions :
    terminal[a] # 0 ~> (lease.owner # a \/ lease.stage = "intent")
===============================================================================
