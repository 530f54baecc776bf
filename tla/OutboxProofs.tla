---------------------------- MODULE OutboxProofs ----------------------------
(***************************************************************************)
(* Proofs about the delegate's outbox (module Outbox), for any finite set  *)
(* of actions and any number of attempts, crashes and reorganisations.     *)
(*                                                                         *)
(* None of the three properties is inductive.  The invariant adds what the *)
(* code relies on without saying it: the lease of one action holds a nonce *)
(* that no other action has signed (LeaseSound), and an action moves       *)
(* to a fresh nonce only when every earlier one is spent, in a finalized   *)
(* block, by a transaction that failed (OldNoncesFailed).                  *)
(***************************************************************************)
EXTENDS Outbox, TLAPS

Lease == [owner : Actions, stage : {"intent", "transaction"}, nonce : Nat, prior : Nat, tx : Nat]
Call == [action : Actions, pc : {"reserved", "journaled", "terminal"}]
Tried(a) == DOMAIN attempts[a]

TypeOK ==
  /\ attempts \in [Actions -> Seq(Nat)] /\ \A a \in Actions : Last(a) <= MaxAttempts
  /\ terminal \in [Actions -> Nat] /\ \A a \in Actions : terminal[a] <= Last(a)
  /\ lease \in Lease \cup {NoLease} /\ call \in Call \cup {NoCall}
  /\ outgoing \subseteq Journaled /\ mempool \subseteq Journaled
  /\ chain \in Seq([tx : Attempts, ok : BOOLEAN])
  /\ finalNonce \in 0 .. Len(chain)

\* The account's nonce is the length of the chain: slot n holds a version of nonce n - 1.
SlotsByNonce ==
  \A n \in DOMAIN chain :
    chain[n].tx \in Journaled /\ Nonce(chain[n].tx[1], chain[n].tx[2]) = n - 1

\* A lease that names a transaction has its nonce, and nobody but its owner has signed
\* the nonce of a lease.
LeaseSound(l) ==
  l # NoLease =>
    /\ l.stage = "transaction" => l.tx \in Tried(l.owner) /\ l.nonce = Nonce(l.owner, l.tx)
    /\ \A a \in Actions : a # l.owner => \A i \in Tried(a) : Nonce(a, i) # l.nonce

\* A nonce is spent by a finalized transaction that failed.
FailedForGood(n) == n < finalNonce /\ ~chain[n + 1].ok

\* An action has left a nonce behind only after it failed for good.
OldNoncesFailed ==
  \A a \in Actions : \A i \in Tried(a) :
    Nonce(a, i) # Nonce(a, Last(a)) => FailedForGood(Nonce(a, i))

\* What _newAttempt is about to sign while it holds the mutex.
AboutToSign ==
  call # NoCall /\ call.pc = "reserved" =>
    /\ lease # NoLease /\ lease.owner = call.action
    /\ terminal[call.action] = 0 /\ Last(call.action) < MaxAttempts
    /\ attempts[call.action] # <<>> =>
         \/ lease.nonce = Nonce(call.action, Last(call.action))
         \/ FailedForGood(Nonce(call.action, Last(call.action)))

JustSigned ==
  call # NoCall /\ call.pc = "journaled" => attempts[call.action] # <<>>

\* Everything a terminal action has signed is spent in a finalized block.
TerminalSpent ==
  \A a \in Actions : terminal[a] # 0 => \A i \in Tried(a) : Nonce(a, i) < finalNonce

IInv ==
  /\ TypeOK /\ SlotsByNonce /\ ActionsOwnNonces
  /\ LeaseSound(lease) /\ OldNoncesFailed
  /\ AboutToSign /\ JustSigned /\ TerminalSpent

\* The numbers the outbox picks: the first of several attempts (_ensureReservation), and a
\* nonce that no mined and no journaled attempt has (_reserveNonce).  PicksHold, at the end,
\* proves it from the library's theorems about finite sets.
Picks ==
  /\ \A S \in SUBSET Nat : S # {} => Min(S) \in S
  /\ TypeOK => /\ ReserveNonce \in Nat
               /\ \A a \in Actions : \A i \in Tried(a) : Nonce(a, i) < ReserveNonce

-----------------------------------------------------------------------------
(* Journals and receipts.                                                   *)

\* What the invariant says of one attempt.
LEMMA Journals ==
  ASSUME TypeOK, NEW a \in Actions
  PROVE  /\ attempts[a] \in Seq(Nat) /\ Last(a) \in Nat /\ Tried(a) = 1 .. Last(a)
         /\ \A i \in Tried(a) : Nonce(a, i) \in Nat /\ <<a, i>> \in Journaled
         /\ attempts[a] # <<>> => Last(a) \in Tried(a)
<1>1. attempts[a] \in Seq(Nat) /\ Last(a) \in Nat /\ Tried(a) = 1 .. Last(a)
  BY DEF TypeOK, Last, Tried
<1>2. \A i \in Tried(a) : Nonce(a, i) \in Nat
  BY <1>1 DEF Nonce, Last
<1>3. \A i \in Tried(a) : <<a, i>> \in Journaled
  BY <1>1, OutboxAssumption DEF TypeOK, Journaled, Attempts
<1>4. attempts[a] # <<>> => Last(a) \in Tried(a)
  BY <1>1 DEF Last
<1> QED BY <1>1, <1>2, <1>3, <1>4

LEMMA JournaledIs ==
  ASSUME TypeOK
  PROVE  \A x \in Journaled : x[1] \in Actions /\ x[2] \in Tried(x[1]) /\ x = <<x[1], x[2]>>
<1> SUFFICES ASSUME NEW x \in Journaled
             PROVE  x[1] \in Actions /\ x[2] \in Tried(x[1]) /\ x = <<x[1], x[2]>>
  OBVIOUS
<1>1. x[1] \in Actions /\ x[2] \in 1 .. MaxAttempts /\ x[2] <= Last(x[1]) /\ x = <<x[1], x[2]>>
  BY DEF Journaled, Attempts
<1> QED BY <1>1, Journals, OutboxAssumption

\* A receipt stands in the slot of its nonce.
LEMMA ReceiptIs ==
  ASSUME TypeOK, SlotsByNonce, NEW a \in Actions, NEW i, Mined(a, i)
  PROVE  /\ i \in Tried(a) /\ Nonce(a, i) \in Nat /\ Nonce(a, i) < Len(chain)
         /\ Receipt(a, i) = Nonce(a, i) + 1 /\ chain[Nonce(a, i) + 1].tx = <<a, i>>
<1>1. PICK n : n = Receipt(a, i)
  OBVIOUS
<1>2. n \in DOMAIN chain /\ chain[n].tx = <<a, i>>
  BY <1>1 DEF Mined, Receipt
<1>3. <<a, i>> \in Journaled /\ Nonce(a, i) = n - 1
  BY <1>2 DEF SlotsByNonce
<1>4. i \in Tried(a) /\ Nonce(a, i) \in Nat
  BY <1>3, JournaledIs, Journals
<1>5. Len(chain) \in Nat /\ n \in 1 .. Len(chain)
  BY <1>2 DEF TypeOK
<1>6. n = Nonce(a, i) + 1
  BY <1>3, <1>4, <1>5
<1> QED BY <1>1, <1>2, <1>4, <1>5, <1>6

\* An attempt that succeeded has the nonce of the last one.
LEMMA SuccessIsLast ==
  ASSUME TypeOK, SlotsByNonce, OldNoncesFailed, NEW a \in Actions, NEW i \in Succeeded(a)
  PROVE  /\ i \in Tried(a) /\ Nonce(a, i) = Nonce(a, Last(a))
         /\ chain[Nonce(a, i) + 1].tx = <<a, i>> /\ Receipt(a, i) = Nonce(a, i) + 1
<1>1. Mined(a, i) /\ chain[Receipt(a, i)].ok
  BY DEF Succeeded
<1>2. /\ i \in Tried(a) /\ Receipt(a, i) = Nonce(a, i) + 1
      /\ chain[Nonce(a, i) + 1].tx = <<a, i>>
  BY <1>1, ReceiptIs
<1>3. ~FailedForGood(Nonce(a, i))
  BY <1>1, <1>2 DEF FailedForGood
<1> QED BY <1>2, <1>3 DEF OldNoncesFailed

LEMMA SpentAfterRelease == IInv => ReleasedIsSpent
<1> SUFFICES ASSUME IInv, NEW x \in Journaled, terminal[x[1]] # 0
             PROVE  Nonce(x[1], x[2]) < finalNonce
  BY DEF ReleasedIsSpent
<1>1. x[1] \in Actions /\ x[2] \in Tried(x[1])
  BY JournaledIs DEF IInv
<1> QED BY <1>1 DEF IInv, TerminalSpent

-----------------------------------------------------------------------------
(* The frames.                                                              *)

Slot == [tx : Attempts, ok : BOOLEAN]

\* A step of the L1: what is final stays, the files and the calls do not move.
LEMMA L1Step ==
  ASSUME IInv, UNCHANGED <<disk, call>>,
         outgoing' \subseteq Journaled, mempool' \subseteq Journaled,
         chain' \in Seq(Slot), finalNonce' \in 0 .. Len(chain'), finalNonce <= finalNonce',
         \A n \in 1 .. finalNonce : chain'[n] = chain[n],
         \A n \in DOMAIN chain' :
           chain'[n].tx \in Journaled /\ Nonce(chain'[n].tx[1], chain'[n].tx[2]) = n - 1
  PROVE  IInv'
<1>1. attempts' = attempts /\ terminal' = terminal /\ lease' = lease /\ call' = call
  BY DEF disk
<1>2. finalNonce \in Nat /\ finalNonce' \in Nat
  BY DEF IInv, TypeOK
<1>3. \A n \in Nat : FailedForGood(n) => FailedForGood(n)'
  BY <1>2 DEF FailedForGood
<1>4. TypeOK' /\ SlotsByNonce'
  BY Zenon, <1>1 DEF IInv, TypeOK, SlotsByNonce, Journaled, Nonce, Last, Slot
<1>5. ActionsOwnNonces' /\ LeaseSound(lease)'
  BY <1>1 DEF IInv, ActionsOwnNonces, LeaseSound, Journaled, Nonce, Last, Tried
<1>6. OldNoncesFailed'
  <2> SUFFICES ASSUME NEW a \in Actions, NEW k \in Tried(a), Nonce(a, k) # Nonce(a, Last(a))
               PROVE  FailedForGood(Nonce(a, k))'
    BY <1>1 DEF OldNoncesFailed, Tried, Nonce, Last
  <2>1. PICK n \in Nat : n = Nonce(a, k)
    BY Zenon, Journals DEF IInv
  <2>2. FailedForGood(n)'
    BY <2>1, <1>3 DEF IInv, OldNoncesFailed
  <2> QED BY <1>1, <2>1, <2>2 DEF FailedForGood, Nonce
<1>7. AboutToSign'
  <2> SUFFICES ASSUME call # NoCall, call.pc = "reserved", attempts[call.action] # <<>>,
                      lease.nonce # Nonce(call.action, Last(call.action))
               PROVE  FailedForGood(Nonce(call.action, Last(call.action)))'
    BY <1>1 DEF IInv, AboutToSign, Nonce, Last
  <2>1. call.action \in Actions
    BY DEF IInv, TypeOK, Call
  <2>2. PICK n \in Nat : n = Nonce(call.action, Last(call.action))
    BY Zenon, <2>1, Journals DEF IInv
  <2>3. FailedForGood(n)'
    BY <2>2, <1>3 DEF IInv, AboutToSign
  <2> QED BY Zenon, <1>1, <2>2, <2>3 DEF FailedForGood, Nonce, Last
<1>8. JustSigned'
  BY <1>1 DEF IInv, JustSigned
<1>9. TerminalSpent'
  <2> SUFFICES ASSUME NEW a \in Actions, terminal[a] # 0, NEW k \in Tried(a)
               PROVE  Nonce(a, k) < finalNonce'
    BY <1>1 DEF TerminalSpent, Tried, Nonce
  <2>1. Nonce(a, k) \in Nat /\ Nonce(a, k) < finalNonce
    BY Zenon, Journals DEF IInv, TerminalSpent
  <2> QED BY <1>2, <2>1
<1> QED BY <1>4, <1>5, <1>6, <1>7, <1>8, <1>9 DEF IInv

\* A step of a call that writes no journal: lease, terminal record and mutex.
LEMMA CallStep ==
  ASSUME IInv, UNCHANGED <<attempts, l1>>, outgoing' \subseteq Journaled,
         lease' \in Lease \cup {NoLease}, LeaseSound(lease'), call' \in Call \cup {NoCall},
         terminal' \in [Actions -> Nat], \A a \in Actions : terminal'[a] <= Last(a),
         TerminalSpent', AboutToSign', JustSigned'
  PROVE  IInv'
<1>1. UNCHANGED <<attempts, mempool, chain, finalNonce>>
  BY DEF l1
<1>2. TypeOK' /\ SlotsByNonce'
  BY Zenon, <1>1 DEF IInv, TypeOK, SlotsByNonce, Journaled, Nonce, Last
<1>3. ActionsOwnNonces' /\ LeaseSound(lease)' /\ OldNoncesFailed'
  BY <1>1 DEF IInv, ActionsOwnNonces, LeaseSound, Journaled, Nonce, Last, Tried, OldNoncesFailed,
     FailedForGood
<1> QED BY <1>2, <1>3 DEF IInv

-----------------------------------------------------------------------------
(* The leases a call writes.                                                *)

LEMMA TxLeaseSound ==
  ASSUME IInv, NEW a \in Actions, NEW i \in Tried(a)
  PROVE  /\ TxLease(a, i) \in Lease /\ TxLease(a, i) # NoLease /\ TxLease(a, i).owner = a
         /\ TxLease(a, i).stage = "transaction" /\ LeaseSound(TxLease(a, i))
<1>1. PICK l : l = TxLease(a, i)
  OBVIOUS
<1>2. Nonce(a, i) \in Nat /\ i \in Nat
  <2>1. Last(a) \in Nat /\ Tried(a) = 1 .. Last(a) /\ Nonce(a, i) \in Nat
    BY Zenon, Journals DEF IInv
  <2> QED BY <2>1
<1>3. /\ l \in Lease /\ l.owner = a /\ l.stage = "transaction" /\ l.tx = i
      /\ l.nonce = Nonce(a, i)
  BY <1>1, <1>2 DEF TxLease, Lease, Nonce
<1>4. l # NoLease
  BY <1>3, OutboxAssumption DEF NoLease
<1>5. ASSUME NEW b \in Actions, b # a, NEW k \in Tried(b) PROVE Nonce(b, k) # Nonce(a, i)
  <2>1. <<a, i>> \in Journaled /\ <<b, k>> \in Journaled
    BY <1>5, Journals DEF IInv
  <2> QED BY <1>5, <2>1 DEF IInv, ActionsOwnNonces
<1>6. LeaseSound(l)
  BY <1>3, <1>5 DEF LeaseSound
<1> QED BY <1>1, <1>3, <1>4, <1>6

LEMMA EnsuredSound ==
  ASSUME Picks, IInv, NEW a \in Actions, attempts[a] # <<>>, NEW r \in BOOLEAN,
         Ensured(a, r) # NoLease
  PROVE  /\ Ensured(a, r) \in Lease /\ Ensured(a, r).owner = a /\ LeaseSound(Ensured(a, r))
<1>1. Last(a) \in Tried(a)
  BY Zenon, Journals DEF IInv
<1>2. CASE Ensured(a, r) = TxLease(a, Last(a))
  BY <1>1, <1>2, TxLeaseSound
<1>3. CASE Committed(a) # {} /\ Ensured(a, r) = TxLease(a, Min(Committed(a)))
  <2>1. Committed(a) \subseteq Tried(a) /\ Tried(a) \subseteq Nat
    BY Journals DEF IInv, Committed, Tried
  <2>2. Min(Committed(a)) \in Tried(a)
    BY <1>3, <2>1 DEF Picks
  <2> QED BY <1>3, <2>2, TxLeaseSound
<1>4. CASE Ensured(a, r) = lease /\ lease # NoLease /\ lease.owner = a
  BY <1>4 DEF IInv, TypeOK
<1> QED BY Zenon, <1>2, <1>3, <1>4 DEF Ensured

\* An intent on a fresh nonce, or on the nonce of the owner's last attempt.
LEMMA IntentSound ==
  ASSUME Picks, IInv, NEW a \in Actions, NEW n \in Nat, NEW p \in Nat,
         \/ n = ReserveNonce
         \/ attempts[a] # <<>> /\ n = Nonce(a, Last(a))
  PROVE  /\ IntentLease(a, n, p) \in Lease /\ IntentLease(a, n, p) # NoLease
         /\ IntentLease(a, n, p).owner = a /\ IntentLease(a, n, p).nonce = n
         /\ LeaseSound(IntentLease(a, n, p))
<1>1. PICK l : l = IntentLease(a, n, p)
  OBVIOUS
<1>2. l \in Lease /\ l.owner = a /\ l.stage = "intent" /\ l.nonce = n
  BY Zenon, <1>1 DEF IntentLease, Lease
<1>3. l # NoLease
  BY <1>2, OutboxAssumption DEF NoLease
<1>4. ASSUME NEW b \in Actions, b # a, NEW k \in Tried(b) PROVE Nonce(b, k) # n
  <2>1. CASE n = ReserveNonce
    <3>1. Nonce(b, k) < ReserveNonce /\ Nonce(b, k) \in Nat
      BY Zenon, <1>4, Journals DEF Picks, IInv
    <3> QED BY <2>1, <3>1
  <2>2. CASE attempts[a] # <<>> /\ n = Nonce(a, Last(a))
    <3>1. <<a, Last(a)>> \in Journaled /\ <<b, k>> \in Journaled
      BY Zenon, <1>4, <2>2, Journals DEF IInv
    <3> QED BY Zenon, <1>4, <2>2, <3>1 DEF IInv, ActionsOwnNonces
  <2> QED BY <2>1, <2>2
<1>5. LeaseSound(l)
  BY <1>2, <1>4 DEF LeaseSound
<1> QED BY <1>1, <1>2, <1>3, <1>5

-----------------------------------------------------------------------------
(* One lemma per action.                                                    *)

LEMMA CallIs ==
  ASSUME NEW a \in Actions, NEW pc \in {"reserved", "journaled", "terminal"}
  PROVE  /\ Section(a, pc) \in Call /\ Section(a, pc) # NoCall
         /\ Section(a, pc).action = a /\ Section(a, pc).pc = pc
BY Zenon, OutboxAssumption DEF Section, Call, NoCall

\* The lease of a step that leaves it alone, and the terminal records likewise.
LEMMA Unmoved ==
  ASSUME IInv, UNCHANGED <<attempts, terminal, finalNonce>>
  PROVE  /\ terminal' \in [Actions -> Nat] /\ \A a \in Actions : terminal'[a] <= Last(a)
         /\ TerminalSpent'
BY DEF IInv, TypeOK, TerminalSpent, Tried, Nonce

LEMMA SendFirstInv ==
  ASSUME Picks, IInv, NEW a \in Actions, SendFirst(a)
  PROVE  IInv'
<1>1. /\ UNCHANGED <<attempts, l1, terminal, finalNonce>> /\ outgoing' = outgoing
      /\ call' = Section(a, "reserved") /\ attempts[a] = <<>>
  BY Zenon DEF SendFirst, l1
<1>2. /\ Last(a) = 0 /\ terminal[a] = 0
  <2>1. Last(a) = 0
    BY <1>1 DEF Last
  <2> QED BY <2>1 DEF IInv, TypeOK
<1>3. lease' \in Lease /\ lease'.owner = a /\ lease' # NoLease /\ LeaseSound(lease')
  <2>1. CASE lease = NoLease
    <3>1. lease' = IntentLease(a, ReserveNonce, 0)
      BY <2>1 DEF SendFirst
    <3>2. ReserveNonce \in Nat
      BY DEF Picks, IInv
    <3> QED BY <3>1, <3>2, IntentSound
  <2>2. CASE lease # NoLease
    <3>1. lease' = lease /\ lease.owner \in {None, a}
      BY <2>2 DEF SendFirst
    <3> QED BY <2>2, <3>1, OutboxAssumption DEF IInv, TypeOK, Lease
  <2> QED BY <2>1, <2>2
<1>4. call' \in Call /\ call' # NoCall /\ call'.action = a /\ call'.pc = "reserved"
  BY Zenon, <1>1, CallIs
<1>5. AboutToSign' /\ JustSigned'
  BY <1>1, <1>2, <1>3, <1>4, OutboxAssumption DEF AboutToSign, JustSigned, Last
<1> QED BY Zenon, <1>1, <1>3, <1>4, <1>5, Unmoved, CallStep DEF IInv, TypeOK

LEMMA SendReplacementInv ==
  ASSUME Picks, IInv, NEW a \in Actions, SendReplacement(a)
  PROVE  IInv'
<1>1. /\ UNCHANGED <<attempts, l1, terminal, finalNonce>> /\ outgoing' = outgoing
      /\ call' = Section(a, "reserved") /\ attempts[a] # <<>>
      /\ terminal[a] = 0 /\ Last(a) < MaxAttempts /\ MayReplace(a)
      /\ lease' = IntentLease(a, ReplacementNonce(a), Last(a))
  BY Zenon DEF SendReplacement, l1
<1>2. Last(a) \in Nat /\ Nonce(a, Last(a)) \in Nat
  BY Zenon, <1>1, Journals DEF IInv
<1>3. PICK n : n = ReplacementNonce(a)
  OBVIOUS
<1>4. /\ n \in Nat
      /\ n = ReserveNonce \/ n = Nonce(a, Last(a))
      /\ n = Nonce(a, Last(a)) \/ FailedForGood(Nonce(a, Last(a)))
  <2>1. CASE ActiveFailure(a) # {}
    <3>1. PICK i \in ActiveFailure(a) : Durable(a, i)
      BY <1>1, <2>1 DEF MayReplace
    <3>2. Mined(a, i) /\ ~chain[Receipt(a, i)].ok /\ Nonce(a, i) = Nonce(a, Last(a))
      BY DEF ActiveFailure, Failed
    <3>3. Receipt(a, i) = Nonce(a, i) + 1
      BY Zenon, <3>2, ReceiptIs DEF IInv
    <3>4. Nonce(a, Last(a)) + 1 <= finalNonce
      BY <3>1, <3>2, <3>3 DEF Durable
    <3>5. finalNonce \in Nat
      BY DEF IInv, TypeOK
    <3>6. FailedForGood(Nonce(a, Last(a)))
      BY <1>2, <3>2, <3>3, <3>4, <3>5 DEF FailedForGood
    <3>7. n = ReserveNonce /\ n \in Nat
      BY <1>3, <2>1 DEF Picks, ReplacementNonce, IInv
    <3> QED BY <3>6, <3>7
  <2>2. CASE ActiveFailure(a) = {}
    BY <1>2, <1>3, <2>2 DEF ReplacementNonce
  <2> QED BY <2>1, <2>2
<1>5. /\ lease' \in Lease /\ lease'.owner = a /\ lease' # NoLease /\ lease'.nonce = n
      /\ LeaseSound(lease')
  BY <1>1, <1>2, <1>3, <1>4, IntentSound
<1>6. call' \in Call /\ call' # NoCall /\ call'.action = a /\ call'.pc = "reserved"
  BY Zenon, <1>1, CallIs
<1>7. FailedForGood(Nonce(a, Last(a))) => FailedForGood(Nonce(a, Last(a)))'
  BY Zenon, <1>1 DEF FailedForGood, Nonce, Last, l1
<1>8. AboutToSign' /\ JustSigned'
  <2>1. Nonce(a, Last(a))' = Nonce(a, Last(a)) /\ Last(a)' = Last(a) /\ terminal'[a] = 0
    BY Zenon, <1>1 DEF Nonce, Last
  <2> QED BY Zenon, <1>1, <1>4, <1>5, <1>6, <1>7, <2>1 DEF AboutToSign, JustSigned
<1> QED BY Zenon, <1>1, <1>5, <1>6, <1>8, Unmoved, CallStep DEF IInv, TypeOK

\* Calls that end: the mutex is free again and the lease is sound.
LEMMA FreeStep ==
  ASSUME IInv, UNCHANGED <<attempts, l1, terminal>>, outgoing' \subseteq Journaled,
         lease' \in Lease \cup {NoLease}, LeaseSound(lease'), call' = NoCall
  PROVE  IInv'
<1>1. finalNonce' = finalNonce
  BY DEF l1
<1>2. AboutToSign' /\ JustSigned'
  BY Zenon DEF AboutToSign, JustSigned
<1> QED BY <1>1, <1>2, Unmoved, CallStep

LEMMA WriteLeaseInv ==
  ASSUME IInv, WriteLease
  PROVE  IInv'
<1>1. call \in Call /\ call.action \in Actions
  BY DEF WriteLease, IInv, TypeOK, Call
<1>2. PICK a \in Actions : a = call.action
  BY <1>1
<1>3. Last(a) \in Tried(a) /\ <<a, Last(a)>> \in Journaled
  BY Zenon, <1>2, Journals DEF WriteLease, IInv, JustSigned
<1>4. /\ lease' = TxLease(a, Last(a)) /\ outgoing' = outgoing \cup {<<a, Last(a)>>}
      /\ call' = NoCall /\ UNCHANGED <<attempts, l1, terminal>>
  BY <1>2 DEF WriteLease
<1>5. outgoing' \subseteq Journaled
  BY Zenon, <1>3, <1>4 DEF IInv, TypeOK
<1> QED BY <1>3, <1>4, <1>5, TxLeaseSound, FreeStep

LEMMA ResumeInv ==
  ASSUME Picks, IInv, NEW a \in Actions, Resume(a)
  PROVE  IInv'
<1>1. <<a, Last(a)>> \in Journaled
  BY Zenon, Journals DEF Resume, IInv
<1>2. outgoing' \subseteq Journaled
  BY Zenon, <1>1 DEF Resume, IInv, TypeOK
<1>3. lease' \in Lease /\ LeaseSound(lease')
  BY Zenon, EnsuredSound DEF Resume
<1>4. call' = NoCall /\ UNCHANGED <<attempts, l1, terminal>>
  BY Zenon DEF Resume, Free
<1> QED BY <1>2, <1>3, <1>4, FreeStep

\* Fails, Crash, Abandon, Release and ReleaseTerminal keep the lease or drop it.
LEMMA EndInv ==
  ASSUME IInv,
         \/ Fails \/ Crash \/ Release
         \/ \E a \in Actions : Abandon(a) \/ ReleaseTerminal(a)
  PROVE  IInv'
<1>1. /\ UNCHANGED <<attempts, l1, terminal>> /\ call' = NoCall
      /\ outgoing' \subseteq outgoing /\ lease' \in {lease, NoLease}
  BY Zenon DEF Fails, Crash, Release, Abandon, ReleaseTerminal, Released, Free, disk
<1>2. LeaseSound(lease') /\ lease' \in Lease \cup {NoLease}
  BY Zenon, <1>1 DEF IInv, TypeOK, LeaseSound
<1> QED BY Zenon, <1>1, <1>2, FreeStep DEF IInv, TypeOK

\* A terminal record on an attempt at the last nonce, whose receipt is durable.
LEMMA TerminalStep ==
  ASSUME IInv, NEW a \in Actions, NEW i \in Tried(a), Nonce(a, i) = Nonce(a, Last(a)),
         Nonce(a, i) < finalNonce, terminal' = [terminal EXCEPT ![a] = i],
         UNCHANGED <<attempts, l1, outgoing>>, lease' \in Lease \cup {NoLease}, LeaseSound(lease'),
         call' = Section(a, "terminal")
  PROVE  IInv'
<1>1. finalNonce' = finalNonce /\ attempts' = attempts
  BY DEF l1
<1>2. i \in Nat /\ i <= Last(a)
  BY Journals DEF IInv
<1>3. terminal' \in [Actions -> Nat] /\ \A b \in Actions : terminal'[b] <= Last(b)
  BY <1>2 DEF IInv, TypeOK
<1>4. TerminalSpent'
  <2> SUFFICES ASSUME NEW b \in Actions, terminal'[b] # 0, NEW k \in Tried(b)
               PROVE  Nonce(b, k) < finalNonce
    BY Zenon, <1>1 DEF TerminalSpent, Tried, Nonce
  <2>1. CASE b = a
    BY <2>1 DEF IInv, OldNoncesFailed, FailedForGood
  <2>2. CASE b # a
    BY <2>2 DEF IInv, TypeOK, TerminalSpent
  <2> QED BY <2>1, <2>2
<1>5. call' \in Call /\ AboutToSign' /\ JustSigned'
  BY Zenon, CallIs DEF AboutToSign, JustSigned
<1> QED BY Zenon, <1>3, <1>4, <1>5, CallStep DEF IInv, TypeOK

LEMMA MarkFinalizedInv ==
  ASSUME IInv, NEW a \in Actions, NEW i \in 1 .. MaxAttempts, MarkFinalized(a, i)
  PROVE  IInv'
<1>1. i \in Succeeded(a) /\ Durable(a, i)
  BY DEF MarkFinalized
<1>2. /\ i \in Tried(a) /\ Nonce(a, i) = Nonce(a, Last(a)) /\ Receipt(a, i) = Nonce(a, i) + 1
  BY Zenon, <1>1, SuccessIsLast DEF IInv
<1>3. Nonce(a, i) \in Nat /\ finalNonce \in Nat
  <2>1. Nonce(a, i) \in Nat
    BY Zenon, <1>2, Journals DEF IInv
  <2>2. finalNonce \in Nat
    BY DEF IInv, TypeOK
  <2> QED BY <2>1, <2>2
<1>4. Nonce(a, i) < finalNonce
  BY <1>1, <1>2, <1>3 DEF Durable
<1>5. /\ terminal' = [terminal EXCEPT ![a] = i] /\ call' = Section(a, "terminal")
      /\ UNCHANGED <<attempts, l1, outgoing>> /\ lease' = lease
  BY DEF MarkFinalized
<1>6. lease' \in Lease \cup {NoLease} /\ LeaseSound(lease')
  BY <1>5 DEF IInv, TypeOK
<1> QED BY Zenon, <1>2, <1>4, <1>5, <1>6, TerminalStep

LEMMA SettleSupersededInv ==
  ASSUME Picks, IInv, NEW a \in Actions, SettleSuperseded(a)
  PROVE  IInv'
<1>1. PICK i \in ActiveFailure(a) : Durable(a, i) /\ terminal' = [terminal EXCEPT ![a] = i]
  BY Zenon DEF SettleSuperseded
<1>2. Mined(a, i) /\ Nonce(a, i) = Nonce(a, Last(a))
  BY <1>1 DEF ActiveFailure, Failed
<1>3. i \in Tried(a) /\ Nonce(a, i) \in Nat /\ Receipt(a, i) = Nonce(a, i) + 1
  BY Zenon, <1>2, ReceiptIs DEF IInv
<1>4. finalNonce \in Nat
  BY DEF IInv, TypeOK
<1>5. Nonce(a, i) < finalNonce
  BY <1>1, <1>3, <1>4 DEF Durable
<1>6. lease' \in Lease \cup {NoLease} /\ LeaseSound(lease')
  BY Zenon, EnsuredSound DEF SettleSuperseded
<1>7. call' = Section(a, "terminal") /\ UNCHANGED <<attempts, l1, outgoing>>
  BY Zenon DEF SettleSuperseded
<1> QED BY Zenon, <1>1, <1>2, <1>3, <1>5, <1>6, <1>7, TerminalStep

\* The new attempt is at the nonce of the lease, which no other action has signed; where
\* that nonce is a fresh one, the one left behind has failed for good.
LEMMA JournalInv ==
  ASSUME IInv, Journal
  PROVE  IInv'
<1>1. PICK c \in Actions : c = call.action
  BY DEF Journal, IInv, TypeOK, Call
<1>2. PICK m \in Nat : m = lease.nonce
  BY Zenon DEF Journal, IInv, TypeOK, AboutToSign, Lease
<1>3. /\ lease # NoLease /\ lease.owner = c /\ terminal[c] = 0 /\ Last(c) < MaxAttempts
      /\ attempts[c] # <<>> => m = Nonce(c, Last(c)) \/ FailedForGood(Nonce(c, Last(c)))
  BY Zenon, <1>1, <1>2 DEF Journal, IInv, AboutToSign
<1>4. /\ attempts' = [attempts EXCEPT ![c] = Append(attempts[c], m)]
      /\ UNCHANGED <<terminal, lease, outgoing, mempool, chain, finalNonce>>
      /\ call' = Section(c, "journaled")
  BY <1>1, <1>2 DEF Journal, l1
<1>5. /\ attempts[c] \in Seq(Nat) /\ Last(c) \in Nat /\ Tried(c) = 1 .. Last(c)
      /\ \A k \in Tried(c) : Nonce(c, k) \in Nat
  BY Zenon, Journals DEF IInv
<1>. PICK z \in Nat : z = Last(c)
  BY <1>5
<1>6. /\ attempts'[c] \in Seq(Nat) /\ Last(c)' = z + 1 /\ Tried(c)' = 1 .. z + 1
      /\ Nonce(c, z + 1)' = m /\ \A k \in Tried(c) : Nonce(c, k)' = Nonce(c, k)
  <2>1. attempts'[c] = Append(attempts[c], m)
    BY <1>4 DEF IInv, TypeOK
  <2>2. /\ Append(attempts[c], m) \in Seq(Nat)
        /\ Len(Append(attempts[c], m)) = Len(attempts[c]) + 1
        /\ Append(attempts[c], m)[Len(attempts[c]) + 1] = m
        /\ \A k \in 1 .. Len(attempts[c]) : Append(attempts[c], m)[k] = attempts[c][k]
        /\ DOMAIN Append(attempts[c], m) = 1 .. Len(attempts[c]) + 1
    BY <1>5
  <2> QED BY Zenon, <1>5, <2>1, <2>2 DEF Last, Tried, Nonce
<1>7. ASSUME NEW b \in Actions, b # c
      PROVE  /\ attempts'[b] = attempts[b] /\ Last(b)' = Last(b) /\ Tried(b)' = Tried(b)
             /\ \A k \in Tried(b) : Nonce(b, k)' = Nonce(b, k)
  BY <1>4, <1>7 DEF IInv, TypeOK, Last, Tried, Nonce
<1>8. /\ Journaled \subseteq Journaled'
      /\ \A x \in Journaled' : x \in Journaled \/ x = <<c, z + 1>>
      /\ \A x \in Journaled : Nonce(x[1], x[2])' = Nonce(x[1], x[2])
  <2>1. \A b \in Actions : Last(b) \in Nat
    BY Journals DEF IInv
  <2>2. ASSUME NEW x \in Journaled PROVE x \in Journaled'
    <3>1. x \in Attempts /\ x[1] \in Actions /\ x[2] \in Nat /\ x[2] <= Last(x[1])
      BY <2>2, OutboxAssumption DEF Journaled, Attempts
    <3>2. CASE x[1] = c
      <4>1. x[2] <= z + 1
        BY <3>1, <3>2
      <4>2. x[2] <= Last(x[1])'
        BY Zenon, <1>6, <3>2, <4>1
      <4> QED BY Zenon, <3>1, <4>2 DEF Journaled
    <3>3. CASE x[1] # c
      <4>1. x[2] <= Last(x[1])'
        BY Zenon, <1>7, <3>1, <3>3
      <4> QED BY Zenon, <3>1, <4>1 DEF Journaled
    <3> QED BY Zenon, <3>2, <3>3
  <2>3. ASSUME NEW x \in Journaled' PROVE x \in Journaled \/ x = <<c, z + 1>>
    <3>1. /\ x \in Attempts /\ x[1] \in Actions /\ x[2] \in 1 .. MaxAttempts /\ x = <<x[1], x[2]>>
          /\ x[2] <= Last(x[1])'
      BY <2>3 DEF Journaled, Attempts
    <3>2. CASE x[1] = c
      BY <1>5, <1>6, <3>1, <3>2, OutboxAssumption DEF Journaled
    <3>3. CASE x[1] # c
      BY <1>7, <3>1, <3>3 DEF Journaled
    <3> QED BY <3>2, <3>3
  <2>4. ASSUME NEW x \in Journaled PROVE Nonce(x[1], x[2])' = Nonce(x[1], x[2])
    <3>1. x[1] \in Actions /\ x[2] \in Tried(x[1])
      BY <2>4, JournaledIs DEF IInv
    <3> QED BY Zenon, <1>6, <1>7, <3>1
  <2> QED BY Zenon, <2>2, <2>3, <2>4
<1>9. call' \in Call /\ call' # NoCall /\ call'.action = c /\ call'.pc = "journaled"
  BY <1>4, CallIs
<1>10. TypeOK'
  <2>1. attempts' \in [Actions -> Seq(Nat)]
    BY Zenon, <1>4, <1>6 DEF IInv, TypeOK
  <2>2. \A b \in Actions : Last(b)' <= MaxAttempts /\ terminal'[b] <= Last(b)'
    <3> SUFFICES ASSUME NEW b \in Actions PROVE Last(b)' <= MaxAttempts /\ terminal[b] <= Last(b)'
      BY <1>4
    <3>1. CASE b = c
      BY <1>3, <1>6, <3>1, OutboxAssumption
    <3>2. CASE b # c
      BY <1>7, <3>2 DEF IInv, TypeOK
    <3> QED BY <3>1, <3>2
  <2>3. outgoing' \subseteq Journaled' /\ mempool' \subseteq Journaled'
    BY Zenon, <1>4, <1>8 DEF IInv, TypeOK
  <2> QED BY Zenon, <1>4, <1>9, <2>1, <2>2, <2>3 DEF IInv, TypeOK
<1>11. SlotsByNonce'
  BY Zenon, <1>4, <1>8 DEF IInv, SlotsByNonce
<1>12. ASSUME NEW b \in Actions, b # c, NEW k \in Tried(b) PROVE Nonce(b, k) # m
  BY Zenon, <1>2, <1>3, <1>12 DEF IInv, LeaseSound
<1>13. ActionsOwnNonces'
  <2> SUFFICES ASSUME NEW x \in Journaled', NEW y \in Journaled',
                      Nonce(x[1], x[2])' = Nonce(y[1], y[2])'
               PROVE  x[1] = y[1]
    BY DEF ActionsOwnNonces
  <2>1. CASE x \in Journaled /\ y \in Journaled
    BY <1>8, <2>1 DEF IInv, ActionsOwnNonces
  <2>2. ASSUME NEW w \in Journaled, Nonce(w[1], w[2]) = m PROVE w[1] = c
    BY <1>12, <2>2, JournaledIs DEF IInv
  <2>6. ASSUME NEW w \in Journaled', w \notin Journaled PROVE w[1] = c /\ Nonce(w[1], w[2])' = m
    <3>1. w = <<c, z + 1>>
      BY <1>8, <2>6
    <3>2. w[1] = c /\ w[2] = z + 1
      BY <3>1
    <3> QED BY <1>6, <3>2
  <2>3. CASE x \notin Journaled /\ y \in Journaled
    BY <1>8, <2>2, <2>3, <2>6
  <2>4. CASE x \in Journaled /\ y \notin Journaled
    BY <1>8, <2>2, <2>4, <2>6
  <2>5. CASE x \notin Journaled /\ y \notin Journaled
    BY <1>8, <2>5
  <2> QED BY <2>1, <2>3, <2>4, <2>5
<1>14. LeaseSound(lease)'
  <2>1. lease'.stage = "transaction" => lease'.tx \in Tried(c)' /\ m = Nonce(c, lease.tx)'
    BY <1>2, <1>3, <1>4, <1>5, <1>6 DEF IInv, LeaseSound
  <2>2. \A b \in Actions : b # c => \A k \in Tried(b)' : Nonce(b, k)' # m
    BY Zenon, <1>7, <1>12
  <2> QED BY Zenon, <1>2, <1>3, <1>4, <2>1, <2>2 DEF LeaseSound
<1>15. OldNoncesFailed'
  <2> SUFFICES ASSUME NEW b \in Actions, NEW k \in Tried(b)', Nonce(b, k)' # Nonce(b, Last(b))'
               PROVE  FailedForGood(Nonce(b, k))'
    BY DEF OldNoncesFailed
  <2>1. CASE b # c
    <3>1. /\ k \in Tried(b) /\ Nonce(b, k)' = Nonce(b, k)
          /\ Nonce(b, Last(b))' = Nonce(b, Last(b))
      BY Zenon, <1>7, <2>1 DEF Nonce
    <3>2. FailedForGood(Nonce(b, k))
      BY Zenon, <3>1 DEF IInv, OldNoncesFailed
    <3> QED BY Zenon, <1>4, <3>1, <3>2 DEF FailedForGood
  <2>2. CASE b = c
    <3>0. Nonce(c, Last(c))' = m
      BY Zenon, <1>6 DEF Nonce
    <3>1. k \in Tried(c) /\ Nonce(c, k)' = Nonce(c, k) /\ Nonce(c, k) # m
      BY <1>5, <1>6, <2>2, <3>0
    <3>2. attempts[c] # <<>>
      BY <1>5, <3>1 DEF Last
    <3>3. FailedForGood(Nonce(c, k))
      BY Zenon, <1>3, <3>1, <3>2 DEF IInv, OldNoncesFailed
    <3> QED BY Zenon, <1>4, <2>2, <3>1, <3>3 DEF FailedForGood
  <2> QED BY <2>1, <2>2
<1>16. AboutToSign' /\ JustSigned'
  <2>1. attempts'[c] # <<>>
    BY <1>5, <1>6 DEF Last
  <2> QED BY Zenon, <1>9, <2>1 DEF AboutToSign, JustSigned
<1>17. TerminalSpent'
  <2> SUFFICES ASSUME NEW b \in Actions, terminal'[b] # 0, NEW k \in Tried(b)'
               PROVE  Nonce(b, k)' < finalNonce'
    BY DEF TerminalSpent
  <2>1. b # c
    BY Zenon, <1>3, <1>4
  <2> QED BY <1>4, <1>7, <2>1 DEF IInv, TerminalSpent
<1> QED BY <1>10, <1>11, <1>13, <1>14, <1>15, <1>16, <1>17 DEF IInv

-----------------------------------------------------------------------------
(* The L1.                                                                  *)

LEMMA ChainFacts ==
  ASSUME IInv
  PROVE  /\ chain \in Seq(Slot) /\ Len(chain) \in Nat /\ DOMAIN chain = 1 .. Len(chain)
         /\ finalNonce \in 0 .. Len(chain)
         /\ \A n \in DOMAIN chain :
              chain[n].tx \in Journaled /\ Nonce(chain[n].tx[1], chain[n].tx[2]) = n - 1
BY DEF IInv, TypeOK, SlotsByNonce, Slot

\* Broadcast, Drop, Rival and Finalize do not touch the chain.
LEMMA SameChainInv ==
  ASSUME IInv,
         \/ \E x \in Attempts : Broadcast(x) \/ Drop(x)
         \/ \E a \in Actions : Rival(a)
         \/ Finalize
  PROVE  IInv'
<1>1. UNCHANGED <<disk, call, chain>>
  BY Zenon DEF Broadcast, Drop, Rival, Finalize
<1>2. outgoing' \subseteq outgoing /\ mempool' \subseteq mempool \cup outgoing
  BY Zenon DEF Broadcast, Drop, Rival, Finalize
<1>3. finalNonce' \in {finalNonce, Len(chain)}
  BY Zenon DEF Broadcast, Drop, Rival, Finalize
<1>4. outgoing \subseteq Journaled /\ mempool \subseteq Journaled
  BY DEF IInv, TypeOK
<1>5. chain' = chain /\ finalNonce' \in 0 .. Len(chain') /\ finalNonce <= finalNonce'
  BY <1>1, <1>3, ChainFacts
<1> QED BY Zenon, <1>1, <1>2, <1>4, <1>5, ChainFacts, L1Step

LEMMA MineInv ==
  ASSUME IInv, NEW x \in Attempts, NEW ok \in BOOLEAN, Mine(x, ok)
  PROVE  IInv'
<1>1. PICK s : s = [tx |-> x, ok |-> ok]
  BY Zenon
<1>2. s \in Slot /\ s.tx = x
  BY <1>1 DEF Slot
<1>3. /\ x \in Journaled /\ Nonce(x[1], x[2]) = Len(chain) /\ chain' = Append(chain, s)
      /\ mempool' \subseteq Journaled /\ outgoing' \subseteq Journaled
      /\ finalNonce' = finalNonce /\ UNCHANGED <<disk, call>>
  BY Zenon, <1>1 DEF Mine, IInv, TypeOK
<1>4. /\ chain' \in Seq(Slot) /\ Len(chain') = Len(chain) + 1 /\ chain'[Len(chain) + 1] = s
      /\ \A n \in 1 .. Len(chain) : chain'[n] = chain[n]
      /\ DOMAIN chain' = 1 .. Len(chain) + 1
  BY <1>2, <1>3, ChainFacts
<1>5. finalNonce' \in 0 .. Len(chain') /\ finalNonce <= finalNonce'
      /\ \A n \in 1 .. finalNonce : chain'[n] = chain[n]
  BY <1>3, <1>4, ChainFacts
<1>6. ASSUME NEW n \in DOMAIN chain'
      PROVE  chain'[n].tx \in Journaled /\ Nonce(chain'[n].tx[1], chain'[n].tx[2]) = n - 1
  <2>1. CASE n = Len(chain) + 1
    BY <1>2, <1>3, <1>4, <2>1, ChainFacts
  <2>2. CASE n # Len(chain) + 1
    <3>1. n \in 1 .. Len(chain)
      BY <1>4, <1>6, <2>2, ChainFacts
    <3>2. chain'[n] = chain[n]
      BY <1>4, <3>1
    <3> QED BY Zenon, <3>1, <3>2, ChainFacts
  <2> QED BY Zenon, <2>1, <2>2
<1> QED BY Zenon, <1>3, <1>4, <1>5, <1>6, L1Step

LEMMA ReorgInv ==
  ASSUME IInv, Reorg
  PROVE  IInv'
<1>1. /\ chain' = SubSeq(chain, 1, finalNonce) /\ finalNonce' = finalNonce
      /\ outgoing' = outgoing /\ UNCHANGED <<disk, call>>
      /\ mempool' = mempool \cup {chain[n].tx : n \in (finalNonce + 1) .. Len(chain)}
  BY DEF Reorg
<1>2. mempool' \subseteq Journaled /\ outgoing' \subseteq Journaled
  <2>1. \A n \in (finalNonce + 1) .. Len(chain) : chain[n].tx \in Journaled
    BY ChainFacts
  <2> QED BY Zenon, <1>1, <2>1 DEF IInv, TypeOK
<1>3. /\ chain' \in Seq(Slot) /\ Len(chain') = finalNonce /\ DOMAIN chain' = 1 .. finalNonce
      /\ \A n \in 1 .. finalNonce : chain'[n] = chain[n]
  <2>1. \A n \in 1 .. finalNonce : chain[n] \in Slot
    BY ChainFacts
  <2>2. /\ SubSeq(chain, 1, finalNonce) \in Seq(Slot)
        /\ Len(SubSeq(chain, 1, finalNonce)) = finalNonce
        /\ \A n \in 1 .. finalNonce : SubSeq(chain, 1, finalNonce)[n] = chain[n]
    BY <2>1, ChainFacts
  <2> QED BY <1>1, <2>2
<1>4. ASSUME NEW n \in DOMAIN chain'
      PROVE  chain'[n].tx \in Journaled /\ Nonce(chain'[n].tx[1], chain'[n].tx[2]) = n - 1
  BY <1>3, <1>4, ChainFacts
<1>5. finalNonce' \in 0 .. Len(chain') /\ finalNonce <= finalNonce'
  BY <1>1, <1>3, ChainFacts
<1> QED BY Zenon, <1>1, <1>2, <1>3, <1>4, <1>5, L1Step

-----------------------------------------------------------------------------
LEMMA InitIInv == Init => IInv
<1> SUFFICES ASSUME Init PROVE IInv
  OBVIOUS
<1>1. \A a \in Actions : attempts[a] = <<>> /\ Last(a) = 0 /\ Tried(a) = {}
  BY DEF Init, Last, Tried
<1>2. chain = <<>> /\ Len(chain) = 0 /\ DOMAIN chain = {}
  BY DEF Init
<1>3. Journaled = {}
  BY <1>1, OutboxAssumption DEF Journaled, Attempts
<1>4. TypeOK
  BY <1>1, <1>2, OutboxAssumption DEF Init, TypeOK
<1>5. SlotsByNonce /\ ActionsOwnNonces /\ LeaseSound(lease) /\ OldNoncesFailed
  BY Zenon, <1>1, <1>2, <1>3 DEF Init, SlotsByNonce, ActionsOwnNonces, LeaseSound, OldNoncesFailed
<1>6. AboutToSign /\ JustSigned /\ TerminalSpent
  BY Zenon, <1>1 DEF Init, AboutToSign, JustSigned, TerminalSpent
<1> QED BY <1>4, <1>5, <1>6 DEF IInv

LEMMA StutterIInv == IInv /\ UNCHANGED vars => IInv'
<1> SUFFICES ASSUME IInv, UNCHANGED vars PROVE IInv'
  OBVIOUS
<1>1. UNCHANGED <<disk, call>> /\ chain' = chain /\ finalNonce' = finalNonce
      /\ outgoing' = outgoing /\ mempool' = mempool
  BY DEF vars, l1
<1>2. finalNonce \in 0 .. Len(chain) /\ finalNonce <= finalNonce'
  BY <1>1, ChainFacts
<1> QED BY Zenon, <1>1, <1>2, ChainFacts, L1Step DEF IInv, TypeOK

\* Every step, and a stutter, keeps the invariant.
LEMMA NextIInv ==
  ASSUME Picks
  PROVE  IInv /\ [Next]_vars => IInv'
<1> SUFFICES ASSUME IInv, [Next]_vars PROVE IInv'
  OBVIOUS
<1>1. ASSUME NEW a \in Actions, SendFirst(a) PROVE IInv'
  BY <1>1, SendFirstInv
<1>2. ASSUME NEW a \in Actions, SendReplacement(a) PROVE IInv'
  BY <1>2, SendReplacementInv
<1>3. ASSUME NEW a \in Actions, Resume(a) PROVE IInv'
  BY <1>3, ResumeInv
<1>4. ASSUME NEW a \in Actions, SettleSuperseded(a) PROVE IInv'
  BY <1>4, SettleSupersededInv
<1>5. ASSUME NEW a \in Actions, Abandon(a) \/ ReleaseTerminal(a) PROVE IInv'
  BY <1>5, EndInv
<1>6. ASSUME NEW a \in Actions, NEW i \in 1 .. MaxAttempts, MarkFinalized(a, i) PROVE IInv'
  BY <1>6, MarkFinalizedInv
<1>7. CASE Journal
  BY <1>7, JournalInv
<1>8. CASE WriteLease
  BY <1>8, WriteLeaseInv
<1>9. CASE Release \/ Fails \/ Crash
  BY <1>9, EndInv
<1>10. CASE \/ \E x \in Attempts : Broadcast(x) \/ Drop(x)
            \/ \E a \in Actions : Rival(a)
            \/ Finalize
  BY <1>10, SameChainInv
<1>11. ASSUME NEW x \in Attempts, NEW ok \in BOOLEAN, Mine(x, ok) PROVE IInv'
  BY <1>11, MineInv
<1>12. CASE Reorg
  BY <1>12, ReorgInv
<1>13. CASE UNCHANGED vars
  BY <1>13, StutterIInv
<1> QED BY Zenon, <1>1, <1>2, <1>3, <1>4, <1>5, <1>6, <1>7, <1>8, <1>9, <1>10, <1>11, <1>12, <1>13 DEF Next

-----------------------------------------------------------------------------
(* The numbers the outbox picks.                                            *)

FST == INSTANCE FiniteSetTheorems

LEMMA SameFinite == \A S : FST!IsFiniteSet(S) <=> IsFiniteSet(S)
BY DEF IsFiniteSet, FST!IsFiniteSet

LEMMA SameCardinality == \A S : FST!Cardinality(S) = Cardinality(S)
BY DEF Cardinality, FST!Cardinality

LEMMA MaxExists ==
  ASSUME NEW S, IsFiniteSet(S), S # {}, S \subseteq Int
  PROVE  \E m \in S : \A y \in S : m >= y
<1> DEFINE bad == {X \in FST!FiniteSubsetsOf(S) : X # {} /\ ~ \E m \in X : \A y \in X : m >= y}
<1>1. SUFFICES ASSUME bad # {} PROVE FALSE
  BY FST!FS_FiniteSubsetsOfFinite, SameFinite, S \in SUBSET S DEF FST!FiniteSubsetsOf
<1>2. FST!IsWellFoundedOn(FST!StrictSubsetOrdering(S), FST!FiniteSubsetsOf(S))
  BY FST!FS_StrictSubsetOrderingWellFounded, SameFinite
<1>3. PICK X \in bad : \A Y \in bad : <<Y, X>> \notin FST!StrictSubsetOrdering(S)
  BY Zenon, <1>1, <1>2, FST!WFMin, bad \subseteq FST!FiniteSubsetsOf(S)
<1>4. PICK e \in X : TRUE
  OBVIOUS
<1>5. X \ {e} \in FST!FiniteSubsetsOf(S)
  BY Zenon, FST!FS_RemoveElement, SameFinite DEF FST!FiniteSubsetsOf
<1>6. <<X \ {e}, X>> \in FST!StrictSubsetOrdering(S)
  BY Zenon, <1>5, <1>4, X \in FST!FiniteSubsetsOf(S) DEF FST!StrictSubsetOrdering, FST!FiniteSubsetsOf
<1>7. X \ {e} \notin bad
  BY Zenon, <1>3, <1>6
<1>8. X \subseteq Int
  BY DEF FST!FiniteSubsetsOf
<1>9. CASE X \ {e} = {}
  <2>1. \A y \in X : e >= y
    BY <1>9, <1>8, <1>4
  <2> QED BY <2>1, <1>4
<1>10. CASE X \ {e} # {}
  <2>1. PICK m \in X \ {e} : \A y \in X \ {e} : m >= y
    BY <1>10, <1>7, <1>5
  <2>2. (\A y \in X : m >= y) \/ (\A y \in X : e >= y)
    BY <2>1, <1>8, <1>4
  <2> QED BY <2>2, <1>4, <2>1
<1> QED BY <1>9, <1>10

\* The journals hold finitely many attempts.
LEMMA JournaledFinite == IsFiniteSet(Journaled)
<1>1. IsFiniteSet(1 .. MaxAttempts)
  BY OutboxAssumption, FST!FS_Interval, SameFinite
<1>2. IsFiniteSet(Attempts)
  BY <1>1, OutboxAssumption, FST!FS_Product, SameFinite DEF Attempts
<1> QED BY <1>2, FST!FS_Subset, SameFinite DEF Journaled

\* _reserveNonce returns a nonce that no mined and no journaled attempt has.
LEMMA ReservedIsFresh ==
  ASSUME TypeOK
  PROVE  /\ ReserveNonce \in Nat
         /\ \A a \in Actions : \A i \in Tried(a) : Nonce(a, i) < ReserveNonce
<1>1. PICK S : S = {Len(chain)} \cup {Nonce(x[1], x[2]) + 1 : x \in mempool \cup Journaled}
  BY Zenon
<1>2. \A x \in Journaled : Nonce(x[1], x[2]) \in Nat
  BY Zenon, JournaledIs, Journals
<1>3. mempool \cup Journaled = Journaled /\ Len(chain) \in Nat
  BY DEF TypeOK
<1>4. S \subseteq Nat /\ S # {}
  BY <1>1, <1>2, <1>3
<1>5. IsFiniteSet(S)
  <2>1. PICK T : T = {Nonce(x[1], x[2]) + 1 : x \in Journaled}
    BY Zenon
  <2>2. IsFiniteSet(T)
    <3>1. PICK f : f = [x \in Journaled |-> Nonce(x[1], x[2]) + 1]
      BY Zenon
    <3>2. f \in FST!Surjection(Journaled, T)
      BY Zenon, <2>1, <3>1 DEF FST!Surjection
    <3> QED BY Zenon, <3>2, JournaledFinite, FST!FS_Surjection, SameFinite
  <2>3. S = T \cup {Len(chain)}
    BY Zenon, <1>1, <1>3, <2>1
  <2> QED BY Zenon, <2>2, <2>3, FST!FS_AddElement, SameFinite
<1>6. PICK m \in S : \A y \in S : m >= y
  <2>1. S \subseteq Int
    BY <1>4
  <2> QED BY Zenon, <2>1, <1>4, <1>5, MaxExists
<1>7. ReserveNonce \in S /\ \A y \in S : ReserveNonce >= y
  BY Zenon, <1>1, <1>6 DEF ReserveNonce, Max
<1>8. ASSUME NEW a \in Actions, NEW i \in Tried(a) PROVE Nonce(a, i) < ReserveNonce
  <2>1. <<a, i>> \in Journaled /\ Nonce(a, i) \in Nat
    BY Zenon, Journals
  <2>2. Nonce(a, i) + 1 \in S
    BY <1>1, <2>1
  <2> QED BY <1>4, <1>7, <2>1, <2>2
<1> QED BY <1>4, <1>7, <1>8

\* The minimum is the greatest lower bound.
LEMMA MinExists ==
  ASSUME NEW S, S \subseteq Nat, S # {}
  PROVE  Min(S) \in S
<1>1. PICK n \in S : n \in Nat
  BY Zenon
<1>2. PICK L : L = {k \in 0 .. n : \A y \in S : k <= y}
  BY Zenon
<1>3. IsFiniteSet(0 .. n)
  BY <1>1, FST!FS_Interval, SameFinite
<1>4. IsFiniteSet(L) /\ L \subseteq Int /\ 0 \in L
  <2>1. IsFiniteSet(L)
    BY <1>2, <1>3, FST!FS_Subset, SameFinite
  <2> QED BY <1>1, <1>2, <2>1
<1>5. PICK m \in L : \A k \in L : m >= k
  BY Zenon, <1>4, MaxExists
<1>6. m \in Nat /\ m <= n /\ \A y \in S : m <= y
  BY <1>1, <1>2
<1>7. m \in S
  <2> SUFFICES ASSUME m \notin S PROVE FALSE
    OBVIOUS
  <2>1. \A y \in S : m + 1 <= y
    BY <1>6
  <2>2. m + 1 \in L
    BY <1>1, <1>2, <1>6, <2>1
  <2> QED BY <1>5, <1>6, <2>2
<1> QED BY Zenon, <1>6, <1>7 DEF Min

LEMMA PicksHold == Picks
BY Zenon, ReservedIsFresh, MinExists DEF Picks

LEMMA OneSuccess == IInv => AtMostOneSuccess
<1> SUFFICES ASSUME IInv, NEW a \in Actions PROVE Cardinality(Succeeded(a)) <= 1
  BY DEF AtMostOneSuccess
<1>1. ASSUME NEW i \in Succeeded(a), NEW j \in Succeeded(a) PROVE i = j
  <2>1. /\ Nonce(a, i) = Nonce(a, Last(a)) /\ chain[Nonce(a, i) + 1].tx = <<a, i>>
        /\ Nonce(a, j) = Nonce(a, Last(a)) /\ chain[Nonce(a, j) + 1].tx = <<a, j>>
    BY Zenon, <1>1, SuccessIsLast DEF IInv
  <2> QED BY <2>1
<1>2. CASE Succeeded(a) = {}
  BY <1>2, FST!FS_EmptySet, SameCardinality
<1>3. CASE Succeeded(a) # {}
  <2>1. PICK i : Succeeded(a) = {i}
    BY <1>1, <1>3
  <2>2. Cardinality({i}) = 1
    BY FST!FS_Singleton, SameCardinality
  <2> QED BY <2>1, <2>2
<1> QED BY <1>2, <1>3

-----------------------------------------------------------------------------
\* The invariant, of every reachable state: at every point of _newAttempt, over crashes,
\* reorganisations and replacements, the lease keeps the nonces of the actions apart.
THEOREM OutboxInvariance == Spec => []IInv
BY PicksHold, InitIInv, NextIInv, PTL DEF Spec

\* Two semantic actions never sign the same nonce: the lease excludes the sibling over
\* every interruption of _newAttempt.
THEOREM NoncesAreOwned == Spec => []ActionsOwnNonces
<1>1. IInv => ActionsOwnNonces
  BY DEF IInv
<1> QED BY <1>1, OutboxInvariance, PTL

\* OUTBOX_MULTIPLE_SUCCESSES (_refreshAttemptReceipts) is never raised: an action leaves a
\* nonce behind only when the transaction that spent it has failed in a finalized block.
THEOREM SucceedsAtMostOnce == Spec => []AtMostOneSuccess
BY OneSuccess, OutboxInvariance, PTL

\* When the lease has left a terminal action (_releaseReservation), every nonce it ever
\* signed is spent in a finalized block.
THEOREM NothingLeftToMine == Spec => []ReleasedIsSpent
BY SpentAfterRelease, OutboxInvariance, PTL
=============================================================================
