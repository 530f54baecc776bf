---------------------------- MODULE ClusterProofs ----------------------------
(* NoFork, ClosesFullySigned and CompleteRoundTried for every number of   *)
(* hosts and payloads.                                                     *)
EXTENDS Cluster, TLAPS

(* Slot k has signed the state p, and its ledger says so.                  *)
Signed(k, p) == ledger[k][PrevState[p]] = p
FullySigned(p) == \A k \in Hosts : Signed(k, p)

(* The payloads that a merge in the lock queue will adopt.                 *)
Merges(q) == {q[i].p : i \in {j \in DOMAIN q : q[j].kind = "merge"}}

(* The signatures a host has pooled or that are on their way are in the    *)
(* ledger of the slot that made them.                                      *)
PooledSigned == \A h \in Hosts, p \in Payloads : \A k \in rounds[h][p].sigs : Signed(k, p)
PostedSigned == \A m \in msgs : m.type = "signature" => Signed(m.slot, m.p)

(* Only a fully signed payload is queued for a merge, adopted or closed at.*)
MergesSigned == \A h \in Hosts : \A p \in Merges(queue[h]) : FullySigned(p)
AdoptedSigned == \A h \in Hosts : \A p \in adopted[h] \cap Payloads : FullySigned(p)
HeadAdopted == \A h \in Hosts : head[h] \in adopted[h]

IInv ==
    /\ TypeOK
    /\ PooledSigned /\ PostedSigned /\ MergesSigned /\ AdoptedSigned /\ HeadAdopted
    /\ ClosesFullySigned

(* The payloads of the merges that have adopted their head.                *)
Staged(q) == {q[i].p : i \in {j \in DOMAIN q : q[j].stage = "adopted"}}

(* A round is complete, and a merge is past its adoption, only if the      *)
(* state was adopted.  A host that signed a successor of its head has not  *)
(* left that head for another state.                                       *)
CompletedAdopted ==
    \A h \in Hosts, p \in Payloads : rounds[h][p].completed => p \in adopted[h]
StagedAdopted == \A h \in Hosts : Staged(queue[h]) \subseteq adopted[h]
SignedNext ==
    \A h \in Hosts, p \in Payloads :
        Signed(h, p) => PrevState[p] = head[h] \/ p \in adopted[h]

RInv ==
    /\ CompletedAdopted /\ StagedAdopted /\ SignedNext
    /\ CompleteRoundTried

-----------------------------------------------------------------------------
(* Types.                                                                  *)

LEMMA RoundTypes ==
    ASSUME NEW r \in Round
    PROVE  /\ NoRound \in Round /\ OpenRound(r) \in Round
           /\ OwnerWaits(r) \in Round /\ Aborted(r) \in Round
<1>1. NoRound \in Round
  BY Zenon DEF Round, NoRound
<1>2. [r EXCEPT !.payload = TRUE] \in Round
  BY Zenon DEF Round
<1>3. [NoRound EXCEPT !.open = TRUE, !.payload = TRUE, !.warned = TRUE, !.timed = TRUE] \in Round
  BY Zenon, <1>1 DEF Round
<1>4. OpenRound(r) \in Round
  BY Zenon, <1>2, <1>3 DEF OpenRound
<1>5. OwnerWaits(r) \in Round
  BY Zenon DEF Round, OwnerWaits, CanMerge
<1> QED BY Zenon, <1>1, <1>4, <1>5 DEF Aborted

LEMMA NewJobType ==
    ASSUME NEW kind \in {"sign", "merge", "close"}, NEW p \in Payloads
    PROVE  NewJob(kind, p) \in Job
BY DEF NewJob, Job

LEMMA QueuedType ==
    ASSUME NEW q \in Seq(Job), NEW r, NEW p \in Payloads
    PROVE  Queued(q, r, p) \in Seq(Job)
BY NewJobType DEF Queued

LEMMA DetachType ==
    ASSUME NEW q \in Seq(Job), NEW r, NEW p
    PROVE  Detach(q, r, p) \in Seq(Job)
<1> DEFINE d == [i \in DOMAIN q |-> [q[i] EXCEPT !.detached = @ \/ q[i].p = p]]
<1>1. DOMAIN q = 1..Len(q) /\ Len(q) \in Nat
  OBVIOUS
<1>2. ASSUME NEW i \in DOMAIN q PROVE [q[i] EXCEPT !.detached = @ \/ q[i].p = p] \in Job
  <2>1. q[i] \in Job
    BY <1>1
  <2> QED BY Zenon, <2>1 DEF Job
<1>3. d \in [1..Len(q) -> Job]
  BY <1>1, <1>2
<1>4. d \in Seq(Job)
  BY <1>1, <1>3
<1> QED BY <1>4 DEF Detach

LEMMA QueueTypes ==
    ASSUME NEW q \in Seq(Job), q # << >>
    PROVE  Head(q) \in Job /\ Tail(q) \in Seq(Job)
OBVIOUS

(* The update of one round.                                                *)
LEMMA RoundsUpdate ==
    ASSUME rounds \in [Hosts -> [Payloads -> Round]],
           NEW h \in Hosts, NEW p \in Payloads, NEW r \in Round,
           rounds' = [rounds EXCEPT ![h][p] = r]
    PROVE  /\ rounds' \in [Hosts -> [Payloads -> Round]]
           /\ \A k \in Hosts, q \in Payloads :
                 rounds'[k][q] = IF k = h /\ q = p THEN r ELSE rounds[k][q]
OBVIOUS

(* The update of one lock queue.                                           *)
LEMMA QueueUpdate ==
    ASSUME queue \in [Hosts -> Seq(Job)],
           NEW h \in Hosts, NEW q \in Seq(Job),
           queue' = [queue EXCEPT ![h] = q]
    PROVE  /\ queue' \in [Hosts -> Seq(Job)]
           /\ \A k \in Hosts : queue'[k] = IF k = h THEN q ELSE queue[k]
OBVIOUS

-----------------------------------------------------------------------------
(* The merges that a queue holds.                                          *)

LEMMA MergesType ==
    ASSUME NEW q \in Seq(Job)
    PROVE  Merges(q) \subseteq Payloads
<1> SUFFICES ASSUME NEW i \in DOMAIN q PROVE q[i].p \in Payloads
  BY DEF Merges
<1>1. q[i] \in Job
  OBVIOUS
<1> QED BY <1>1 DEF Job

LEMMA MergesOfTail ==
    ASSUME NEW q \in Seq(Job), q # << >>
    PROVE  Merges(Tail(q)) \subseteq Merges(q)
<1> SUFFICES ASSUME NEW i \in DOMAIN Tail(q), Tail(q)[i].kind = "merge"
             PROVE  Tail(q)[i].p \in Merges(q)
  BY DEF Merges
<1>1. /\ Tail(q) \in Seq(Job) /\ Len(Tail(q)) = Len(q) - 1
      /\ \A j \in 1..Len(Tail(q)) : Tail(q)[j] = q[j + 1]
  OBVIOUS
<1>2. i \in 1..Len(Tail(q)) /\ i + 1 \in DOMAIN q
  BY <1>1
<1>3. Tail(q)[i] = q[i + 1]
  BY <1>1, <1>2
<1> QED BY <1>2, <1>3 DEF Merges

LEMMA MergesOfHead ==
    ASSUME NEW q \in Seq(Job), q # << >>, Head(q).kind = "merge"
    PROVE  Head(q).p \in Merges(q)
<1>1. Head(q) = q[1] /\ 1 \in DOMAIN q
  OBVIOUS
<1> QED BY <1>1 DEF Merges

LEMMA MergesOfDetach ==
    ASSUME NEW q \in Seq(Job), NEW r, NEW p
    PROVE  Merges(Detach(q, r, p)) \subseteq Merges(q)
<1> DEFINE d == [i \in DOMAIN q |-> [q[i] EXCEPT !.detached = @ \/ q[i].p = p]]
<1>1. ASSUME NEW i \in DOMAIN q
      PROVE  d[i].kind = q[i].kind /\ d[i].p = q[i].p
  <2>1. q[i] \in Job
    OBVIOUS
  <2> QED BY <2>1 DEF Job
<1>2. DOMAIN d = DOMAIN q
  OBVIOUS
<1> HIDE DEF d
<1>3. Merges(d) \subseteq Merges(q)
  BY <1>1, <1>2 DEF Merges
<1> QED BY Zenon, <1>3 DEF Detach, d

LEMMA MergesOfAppend ==
    ASSUME NEW q \in Seq(Job), NEW j \in Job
    PROVE  Merges(Append(q, j)) \subseteq
             Merges(q) \cup {p \in Payloads : j.kind = "merge" /\ p = j.p}
<1> SUFFICES ASSUME NEW i \in DOMAIN Append(q, j), Append(q, j)[i].kind = "merge"
             PROVE  \/ Append(q, j)[i].p \in Merges(q)
                    \/ j.kind = "merge" /\ Append(q, j)[i].p = j.p /\ j.p \in Payloads
  BY DEF Merges
<1>1. /\ Append(q, j) \in Seq(Job) /\ Len(Append(q, j)) = Len(q) + 1
      /\ \A n \in 1..Len(q) : Append(q, j)[n] = q[n]
      /\ Append(q, j)[Len(q) + 1] = j
  OBVIOUS
<1>2. CASE i = Len(q) + 1
  BY <1>1, <1>2 DEF Job
<1>3. CASE i # Len(q) + 1
  <2>1. i \in 1..Len(q) /\ i \in DOMAIN q
    BY <1>1, <1>3
  <2> QED BY <1>1, <2>1 DEF Merges
<1> QED BY <1>2, <1>3

(* tryComplete queues a merge only when no slot is missing.                *)
LEMMA MergesOfQueued ==
    ASSUME NEW q \in Seq(Job), NEW r, NEW p \in Payloads
    PROVE  \A m \in Merges(Queued(q, r, p)) :
              m \in Merges(q) \/ (m = p /\ Hosts \subseteq r.sigs)
<1>1. CASE CanMerge(r) /\ ~Merging(q, p)
  <2>1. Hosts \subseteq r.sigs
    BY <1>1 DEF CanMerge, Missing
  <2>2. NewJob("merge", p) \in Job /\ NewJob("merge", p).p = p
    BY NewJobType DEF NewJob
  <2>3. Queued(q, r, p) = Append(q, NewJob("merge", p))
    BY <1>1 DEF Queued
  <2> QED BY <2>1, <2>2, <2>3, MergesOfAppend
<1>2. CASE ~(CanMerge(r) /\ ~Merging(q, p))
  BY <1>2 DEF Queued
<1> QED BY <1>1, <1>2

-----------------------------------------------------------------------------
(* Messages.                                                               *)

LEMMA BroadcastType ==
    ASSUME NEW type \in {"propose", "halt"}, NEW h \in Hosts, NEW p \in Payloads,
           msgs \subseteq Message, Broadcast(type, h, p)
    PROVE  /\ msgs' \subseteq Message
           /\ \A m \in msgs' : m \in msgs \/ m.type # "signature"
BY DEF Broadcast, Message

LEMMA SignaturesType ==
    ASSUME NEW slots, slots \subseteq Hosts, NEW to, to \subseteq Hosts, NEW p \in Payloads
    PROVE  /\ Signatures(slots, to, p) \subseteq Message
           /\ \A m \in Signatures(slots, to, p) : m.slot \in slots /\ m.p = p
BY DEF Signatures, Message

-----------------------------------------------------------------------------
(* A step that leaves heads and ledgers alone preserves the invariant if   *)
(* it pools and posts only signatures that were made, and queues only      *)
(* merges of payloads that are fully signed.                               *)
LEMMA Frame ==
    ASSUME IInv, TypeOK', UNCHANGED <<head, ledger, adopted>>,
           \A h \in Hosts : \/ halt'[h].closedAt = halt[h].closedAt
                            \/ halt'[h].closedAt \notin Payloads
                            \/ halt'[h].closedAt \in adopted[h],
           \A h \in Hosts, p \in Payloads : \A k \in rounds'[h][p].sigs :
              k \in rounds[h][p].sigs \/ Signed(k, p),
           \A m \in msgs' : m \in msgs \/ m.type # "signature" \/ Signed(m.slot, m.p),
           \A h \in Hosts : \A p \in Merges(queue'[h]) :
              p \in Merges(queue[h]) \/ FullySigned(p)
    PROVE  IInv'
<1>1. PooledSigned'
  BY DEF IInv, PooledSigned, Signed
<1>2. PostedSigned'
  BY DEF IInv, PostedSigned, Signed
<1>3. MergesSigned'
  BY DEF IInv, MergesSigned, FullySigned, Signed
<1>4. AdoptedSigned' /\ HeadAdopted'
  BY DEF IInv, AdoptedSigned, HeadAdopted, FullySigned, Signed
<1>5. ClosesFullySigned'
  BY DEF IInv, ClosesFullySigned, AdoptedSigned, FullySigned, Signed
<1> QED BY <1>1, <1>2, <1>3, <1>4, <1>5 DEF IInv

(* tryComplete on a round whose signatures were all made.                  *)
LEMMA QueuedSigned ==
    ASSUME IInv, NEW q \in Seq(Job), NEW h \in Hosts, NEW r, NEW p \in Payloads,
           Merges(q) \subseteq Merges(queue[h]),
           \A k \in r.sigs : Signed(k, p)
    PROVE  \A m \in Merges(Queued(q, r, p)) : m \in Merges(queue[h]) \/ FullySigned(m)
BY MergesOfQueued DEF FullySigned

LEMMA InitInv == Init => IInv
<1> SUFFICES ASSUME Init PROVE IInv
  OBVIOUS
<1>1. NoRound \in Round /\ NoRound.sigs = {}
  BY DEF NoRound, Round
<1>2. NoHalt \in Halt /\ NoHalt.closedAt = None
  BY DEF NoHalt, HaltFor, Halt
<1>3. TypeOK
  BY <1>1, <1>2, ClusterAssumption DEF Init, TypeOK, States
<1>4. PooledSigned /\ PostedSigned
  BY <1>1 DEF Init, PooledSigned, PostedSigned
<1>5. MergesSigned
  BY DEF Init, MergesSigned, Merges
<1>6. AdoptedSigned /\ HeadAdopted /\ ClosesFullySigned
  BY <1>2, ClusterAssumption DEF Init, AdoptedSigned, HeadAdopted, ClosesFullySigned, States
<1> QED BY <1>3, <1>4, <1>5, <1>6 DEF IInv

-----------------------------------------------------------------------------
(* The wallet's request and the proposal.                                  *)

LEMMA CosignInv ==
    ASSUME IInv, NEW h \in Hosts, NEW p \in Payloads, Cosign(h, p)
    PROVE  IInv'
<1> DEFINE r == [OpenRound(rounds[h][p]) EXCEPT !.waiting = TRUE, !.proposing = TRUE]
<1>1. rounds[h][p] \in Round
  BY DEF IInv, TypeOK
<1>2. r \in Round /\ r.sigs \subseteq rounds[h][p].sigs
  BY Zenon, <1>1 DEF Round, OpenRound, NoRound
<1>3. rounds' = [rounds EXCEPT ![h][p] = r]
  BY DEF Cosign
<1> HIDE DEF r
<1>4. /\ rounds' \in [Hosts -> [Payloads -> Round]]
      /\ \A k \in Hosts, q \in Payloads : rounds'[k][q].sigs \subseteq rounds[k][q].sigs
  BY <1>2, <1>3, RoundsUpdate DEF IInv, TypeOK
<1>5. submits' \in [Payloads -> 0..MaxSubmits]
  BY ClusterAssumption DEF Cosign, IInv, TypeOK
<1>6. msgs' \subseteq Message /\ \A m \in msgs' : m \in msgs \/ m.type # "signature"
  BY Zenon, BroadcastType DEF Cosign, IInv, TypeOK
<1>7. UNCHANGED <<durable, queue, events>>
  BY DEF Cosign
<1>8. TypeOK'
  BY Zenon, <1>4, <1>5, <1>6, <1>7 DEF IInv, TypeOK, durable
<1> QED BY <1>4, <1>6, <1>7, <1>8, Frame DEF durable

LEMMA SignOwnInv ==
    ASSUME IInv, NEW h \in Hosts, NEW p \in Payloads, NEW r \in Round,
           r.sigs \subseteq rounds[h][p].sigs, SignOwn(h, p, r),
           UNCHANGED <<durable, counters>>, msgs' \subseteq msgs
    PROVE  IInv'
<1>1. queue[h] \in Seq(Job) /\ queue \in [Hosts -> Seq(Job)]
      /\ rounds \in [Hosts -> [Payloads -> Round]]
  BY DEF IInv, TypeOK
<1>2. \A k \in r.sigs : Signed(k, p)
  BY DEF IInv, PooledSigned
<1>3. PICK q \in Seq(Job), s \in Round :
        /\ queue' = [queue EXCEPT ![h] = q] /\ rounds' = [rounds EXCEPT ![h][p] = s]
        /\ s.sigs = r.sigs
        /\ \A m \in Merges(q) : m \in Merges(queue[h]) \/ FullySigned(m)
  <2>1. CASE r.signed
    <3>1. OwnerWaits(r) \in Round /\ OwnerWaits(r).sigs = r.sigs
      BY DEF OwnerWaits, Round, CanMerge
    <3>2. Queued(queue[h], r, p) \in Seq(Job)
      BY <1>1, QueuedType
    <3>3. \A m \in Merges(Queued(queue[h], r, p)) : m \in Merges(queue[h]) \/ FullySigned(m)
      BY <1>1, <1>2, QueuedSigned
    <3> QED BY <2>1, <3>1, <3>2, <3>3 DEF SignOwn
  <2>2. CASE ~r.signed
    <3> DEFINE s == [r EXCEPT !.signed = TRUE]
               q == Append(queue[h], NewJob("sign", p))
    <3>1. s \in Round /\ s.sigs = r.sigs
      BY Zenon DEF Round
    <3>2. NewJob("sign", p) \in Job /\ NewJob("sign", p).kind # "merge"
      BY NewJobType DEF NewJob
    <3>3. q \in Seq(Job) /\ Merges(q) \subseteq Merges(queue[h])
      BY <1>1, <3>2, MergesOfAppend
    <3>4. queue' = [queue EXCEPT ![h] = q] /\ rounds' = [rounds EXCEPT ![h][p] = s]
      BY <2>2 DEF SignOwn
    <3> QED BY Zenon, <3>1, <3>3, <3>4
  <2> QED BY <2>1, <2>2
<1>4. /\ rounds' \in [Hosts -> [Payloads -> Round]]
      /\ \A k \in Hosts, x \in Payloads : rounds'[k][x].sigs \subseteq rounds[k][x].sigs
  BY <1>1, <1>3, RoundsUpdate
<1>5. /\ queue' \in [Hosts -> Seq(Job)]
      /\ \A k \in Hosts : \A m \in Merges(queue'[k]) : m \in Merges(queue[k]) \/ FullySigned(m)
  BY <1>1, <1>3, QueueUpdate
<1>6. TypeOK'
  BY Zenon, <1>4, <1>5 DEF IInv, TypeOK, durable, counters
<1> QED BY <1>4, <1>5, <1>6, Frame DEF durable

LEMMA CosignSignInv ==
    ASSUME IInv, NEW h \in Hosts, NEW p \in Payloads, CosignSign(h, p)
    PROVE  IInv'
<1> DEFINE r == [rounds[h][p] EXCEPT !.proposing = FALSE]
<1>1. rounds[h][p] \in Round
  BY DEF IInv, TypeOK
<1>2. r \in Round /\ r.sigs = rounds[h][p].sigs
  BY Zenon, <1>1 DEF Round
<1>3. SignOwn(h, p, r) /\ UNCHANGED <<durable, counters>> /\ msgs' = msgs
  BY DEF CosignSign, counters
<1> HIDE DEF r
<1> QED BY <1>2, <1>3, SignOwnInv

LEMMA OnProposeInv ==
    ASSUME IInv, NEW h \in Hosts, NEW p \in Payloads, OnPropose(h, p)
    PROVE  IInv'
<1>1. msgs' \subseteq msgs /\ UNCHANGED <<durable, counters>>
  BY DEF OnPropose
<1>2. CASE Halted(h)
  <2>1. UNCHANGED <<rounds, queue>>
    BY <1>2 DEF OnPropose
  <2>2. TypeOK'
    BY <1>1, <2>1 DEF IInv, TypeOK, durable, counters
  <2> QED BY <1>1, <2>1, <2>2, Frame DEF durable
<1>3. CASE ~Halted(h)
  <2>1. rounds[h][p] \in Round
    BY DEF IInv, TypeOK
  <2>2. OpenRound(rounds[h][p]) \in Round
        /\ OpenRound(rounds[h][p]).sigs \subseteq rounds[h][p].sigs
    BY Zenon, <2>1 DEF OpenRound, NoRound, Round
  <2>3. SignOwn(h, p, OpenRound(rounds[h][p]))
    BY <1>3 DEF OnPropose
  <2> QED BY <1>1, <2>2, <2>3, SignOwnInv
<1> QED BY <1>2, <1>3

-----------------------------------------------------------------------------
(* The jobs under the lock.                                                *)

(* A slot signs one successor per predecessor: what it signed before       *)
(* stays signed.                                                           *)
LEMMA SignaturesKept ==
    ASSUME IInv, NEW h \in Hosts, NEW p \in Payloads,
           p = Head(queue[h]).p, SignPartial(h)
    PROVE  /\ ledger' \in [Hosts -> [States -> Payloads \cup {None}]]
           /\ Signed(h, p)'
           /\ \A k \in Hosts, x \in Payloads : Signed(k, x) => Signed(k, x)'
<1>1. /\ ledger' = [ledger EXCEPT ![h][PrevState[p]] = p]
      /\ ledger[h][PrevState[p]] \in {None, p}
  BY Zenon DEF SignPartial, LedgerAdmits
<1>2. ledger \in [Hosts -> [States -> Payloads \cup {None}]]
  BY DEF IInv, TypeOK
<1>3. \A x \in Payloads : PrevState[x] \in States /\ x # None
  BY ClusterAssumption DEF States
<1> QED BY Zenon, <1>1, <1>2, <1>3 DEF Signed

LEMMA SignPartialInv ==
    ASSUME IInv, NEW h \in Hosts, SignPartial(h)
    PROVE  IInv'
<1>1. queue[h] \in Seq(Job) /\ queue[h] # << >> /\ queue \in [Hosts -> Seq(Job)]
      /\ rounds \in [Hosts -> [Payloads -> Round]]
  BY Zenon DEF IInv, TypeOK, SignPartial, Running
<1>2. Tail(queue[h]) \in Seq(Job) /\ Merges(Tail(queue[h])) \subseteq Merges(queue[h])
  BY <1>1, QueueTypes, MergesOfTail
<1>3. PICK p \in Payloads : p = Head(queue[h]).p
  BY Zenon, <1>1, QueueTypes DEF Job
<1>4. /\ ledger' \in [Hosts -> [States -> Payloads \cup {None}]]
      /\ Signed(h, p)'
      /\ \A k \in Hosts, x \in Payloads : Signed(k, x) => Signed(k, x)'
  BY <1>3, SignaturesKept
<1>5. /\ \A k \in rounds[h][p].sigs \cup {h} : Signed(k, p)'
      /\ rounds[h][p] \in Round /\ rounds[h][p].sigs \subseteq Hosts
  <2>1. rounds[h][p] \in Round
    BY <1>1
  <2>2. rounds[h][p].sigs \subseteq Hosts
    BY <2>1 DEF Round
  <2> QED BY <1>4, <2>1, <2>2 DEF IInv, PooledSigned
<1>6. \A x \in Payloads : FullySigned(x) => FullySigned(x)'
  BY <1>4 DEF FullySigned
<1>7. PICK q \in Seq(Job), s \in Round :
        /\ queue' = [queue EXCEPT ![h] = q] /\ rounds' = [rounds EXCEPT ![h][p] = s]
        /\ s.sigs \subseteq rounds[h][p].sigs \cup {h}
        /\ \A m \in Merges(q) :
              m \in Merges(queue[h]) \/ (m = p /\ Hosts \subseteq rounds[h][p].sigs \cup {h})
  <2>1. CASE Head(queue[h]).detached
    <3>1. queue' = [queue EXCEPT ![h] = Tail(queue[h])] /\ rounds' = rounds
      BY <2>1 DEF SignPartial
    <3>2. rounds = [rounds EXCEPT ![h][p] = rounds[h][p]]
      BY <1>1
    <3> QED BY Zenon, <1>2, <1>5, <3>1, <3>2
  <2>2. CASE ~Head(queue[h]).detached
    <3> DEFINE r == [rounds[h][p] EXCEPT !.sigs = @ \cup {h}]
    <3>1. r \in Round /\ r.sigs = rounds[h][p].sigs \cup {h}
      BY <1>5 DEF Round
    <3>2. queue' = [queue EXCEPT ![h] = Queued(Tail(queue[h]), r, p)]
          /\ rounds' = [rounds EXCEPT ![h][p] = OwnerWaits(r)]
      BY Zenon, <1>3, <2>2 DEF SignPartial
    <3> HIDE DEF r
    <3>3. OwnerWaits(r) \in Round /\ OwnerWaits(r).sigs = r.sigs
      BY <3>1 DEF OwnerWaits, Round, CanMerge
    <3>4. Queued(Tail(queue[h]), r, p) \in Seq(Job)
      BY Zenon, <1>2, QueuedType
    <3>5. \A m \in Merges(Queued(Tail(queue[h]), r, p)) :
             m \in Merges(Tail(queue[h])) \/ (m = p /\ Hosts \subseteq r.sigs)
      BY Zenon, <1>2, MergesOfQueued
    <3> QED BY Zenon, <1>2, <3>1, <3>2, <3>3, <3>4, <3>5
  <2> QED BY Zenon, <2>1, <2>2
<1>8. /\ rounds' \in [Hosts -> [Payloads -> Round]]
      /\ \A k \in Hosts, x \in Payloads :
            rounds'[k][x] = IF k = h /\ x = p THEN s ELSE rounds[k][x]
  BY <1>1, <1>7, RoundsUpdate
<1>9. /\ queue' \in [Hosts -> Seq(Job)]
      /\ \A k \in Hosts : queue'[k] = IF k = h THEN q ELSE queue[k]
  BY <1>1, <1>7, QueueUpdate
<1>10. /\ msgs' \subseteq Message
       /\ \A m \in msgs' : m \in msgs \/ (m.slot = h /\ m.p = p)
  <2>1. msgs' = msgs \cup Signatures({h}, Hosts \ {h}, p)
    BY Zenon, <1>3 DEF SignPartial
  <2>2. /\ Signatures({h}, Hosts \ {h}, p) \subseteq Message
        /\ \A m \in Signatures({h}, Hosts \ {h}, p) : m.slot \in {h} /\ m.p = p
    BY SignaturesType
  <2> QED BY Zenon, <2>1, <2>2 DEF IInv, TypeOK
<1>11. UNCHANGED <<head, halt, adopted, counters>>
  BY Zenon DEF SignPartial
<1>12. TypeOK'
  BY <1>4, <1>8, <1>9, <1>10, <1>11 DEF IInv, TypeOK, counters
<1>13. PooledSigned'
  <2> SUFFICES ASSUME NEW k \in Hosts, NEW x \in Payloads, NEW j \in rounds'[k][x].sigs
               PROVE  Signed(j, x)'
    BY DEF PooledSigned
  <2>1. CASE k = h /\ x = p
    BY <1>5, <1>7, <1>8, <2>1
  <2>2. CASE ~(k = h /\ x = p)
    <3>1. rounds[k][x] \in Round /\ j \in rounds[k][x].sigs
      BY <1>1, <1>8, <2>2
    <3>2. j \in Hosts /\ Signed(j, x)
      BY <3>1 DEF Round, IInv, PooledSigned
    <3> QED BY <1>4, <3>2
  <2> QED BY <2>1, <2>2
<1>14. PostedSigned'
  <2> SUFFICES ASSUME NEW m \in msgs', m.type = "signature" PROVE Signed(m.slot, m.p)'
    BY DEF PostedSigned
  <2>1. CASE m \in msgs
    <3>1. m.slot \in Hosts /\ m.p \in Payloads /\ Signed(m.slot, m.p)
      BY Zenon, <2>1 DEF IInv, TypeOK, PostedSigned, Message
    <3> QED BY <1>4, <3>1
  <2> QED BY <1>4, <1>10, <2>1
<1>15. MergesSigned'
  <2> SUFFICES ASSUME NEW k \in Hosts, NEW m \in Merges(queue'[k]) PROVE FullySigned(m)'
    BY DEF MergesSigned
  <2>1. CASE m \in Merges(queue[k])
    <3>1. m \in Payloads /\ FullySigned(m)
      BY <1>1, <2>1, MergesType DEF IInv, MergesSigned
    <3> QED BY <1>6, <3>1
  <2>2. CASE m = p /\ Hosts \subseteq rounds[h][p].sigs \cup {h}
    BY <1>5, <2>2 DEF FullySigned
  <2> QED BY Zenon, <1>7, <1>9, <2>1, <2>2
<1>16. AdoptedSigned' /\ HeadAdopted'
  BY <1>6, <1>11 DEF IInv, AdoptedSigned, HeadAdopted
<1>17. ClosesFullySigned'
  BY Zenon, <1>4, <1>11 DEF IInv, ClosesFullySigned, Signed
<1> QED BY <1>12, <1>13, <1>14, <1>15, <1>16, <1>17 DEF IInv

(* A job ends without an adoption: the queue loses its head, the round of  *)
(* the job may be dropped, and nothing is posted.                          *)
LEMMA JobEnds ==
    ASSUME IInv, NEW h \in Hosts, queue[h] # << >>,
           NEW p \in Payloads, NEW s \in Round, s.sigs \subseteq rounds[h][p].sigs,
           rounds' = [rounds EXCEPT ![h][p] = s],
           \/ queue' = [queue EXCEPT ![h] = Tail(queue[h])]
           \/ queue' = [queue EXCEPT ![h] = Detach(Tail(queue[h]), rounds[h][p], p)],
           UNCHANGED <<head, ledger, adopted, msgs, submits>>, events' \in 0..MaxEvents,
           halt' \in [Hosts -> Halt],
           \A k \in Hosts : \/ halt'[k].closedAt = halt[k].closedAt
                            \/ halt'[k].closedAt \notin Payloads
                            \/ halt'[k].closedAt \in adopted[k]
    PROVE  IInv'
<1>1. queue[h] \in Seq(Job) /\ queue \in [Hosts -> Seq(Job)]
      /\ rounds \in [Hosts -> [Payloads -> Round]]
  BY Zenon DEF IInv, TypeOK
<1>2. Tail(queue[h]) \in Seq(Job) /\ Merges(Tail(queue[h])) \subseteq Merges(queue[h])
  BY <1>1, QueueTypes, MergesOfTail
<1>3. PICK q \in Seq(Job) :
        queue' = [queue EXCEPT ![h] = q] /\ Merges(q) \subseteq Merges(queue[h])
  BY Zenon, <1>2, DetachType, MergesOfDetach
<1>4. /\ rounds' \in [Hosts -> [Payloads -> Round]]
      /\ \A k \in Hosts, x \in Payloads : rounds'[k][x].sigs \subseteq rounds[k][x].sigs
  BY <1>1, RoundsUpdate
<1>5. /\ queue' \in [Hosts -> Seq(Job)]
      /\ \A k \in Hosts : Merges(queue'[k]) \subseteq Merges(queue[k])
  BY Zenon, <1>1, <1>3, QueueUpdate
<1>6. TypeOK'
  BY Zenon, <1>4, <1>5 DEF IInv, TypeOK
<1> QED BY Zenon, <1>4, <1>5, <1>6, Frame

LEMMA RoundUnchanged ==
    ASSUME IInv, NEW h \in Hosts, NEW p \in Payloads, rounds' = rounds
    PROVE  rounds' = [rounds EXCEPT ![h][p] = rounds[h][p]] /\ rounds[h][p] \in Round
BY DEF IInv, TypeOK

LEMMA SignThrowsInv ==
    ASSUME IInv, NEW h \in Hosts, queue[h] # << >>, SignThrows(h), events' \in 0..MaxEvents
    PROVE  IInv'
<1>1. queue[h] \in Seq(Job) /\ halt \in [Hosts -> Halt]
  BY DEF IInv, TypeOK
<1>2. PICK p \in Payloads : p = Head(queue[h]).p
  BY Zenon, <1>1, QueueTypes DEF Job
<1>3. UNCHANGED <<head, ledger, halt, adopted, msgs, submits>>
  BY DEF SignThrows, durable
<1>4. CASE Head(queue[h]).detached
  <2>1. queue' = [queue EXCEPT ![h] = Tail(queue[h])] /\ rounds' = rounds
    BY <1>4 DEF SignThrows
  <2>2. rounds' = [rounds EXCEPT ![h][p] = rounds[h][p]] /\ rounds[h][p] \in Round
    BY <2>1, RoundUnchanged
  <2> QED BY Zenon, <1>1, <1>3, <2>1, <2>2, JobEnds
<1>5. CASE ~Head(queue[h]).detached
  <2>1. /\ queue' = [queue EXCEPT ![h] = Detach(Tail(queue[h]), rounds[h][p], p)]
        /\ rounds' = [rounds EXCEPT ![h][p] = Aborted(rounds[h][p])]
    BY Zenon, <1>2, <1>5 DEF SignThrows
  <2>2. rounds[h][p] \in Round
    BY DEF IInv, TypeOK
  <2>3. Aborted(rounds[h][p]) \in Round
        /\ Aborted(rounds[h][p]).sigs \subseteq rounds[h][p].sigs
    BY Zenon, <2>2, RoundTypes DEF Aborted, NoRound
  <2> QED BY Zenon, <1>1, <1>3, <2>1, <2>3, JobEnds
<1> QED BY Zenon, <1>4, <1>5

(* The round that stays when a merge ends without a result.                *)
StaysAs(h, p, s, fault) ==
    /\ rounds' = [rounds EXCEPT ![h][p] = s] /\ s.sigs = rounds[h][p].sigs
    /\ s.completed = rounds[h][p].completed
    /\ ~fault \/ s.failed \/ (s = rounds[h][p] /\ Head(queue[h]).detached)

LEMMA KeptRound ==
    ASSUME IInv, NEW h \in Hosts, NEW p \in Payloads, p = Head(queue[h]).p,
           NEW fault \in BOOLEAN, RoundKept(h, fault)
    PROVE  /\ queue' = [queue EXCEPT ![h] = Tail(queue[h])]
           /\ \E s \in Round : StaysAs(h, p, s, fault)
<1> DEFINE s == MergeLost(rounds[h][p], fault)
<1>1. rounds[h][p] \in Round
  BY Zenon DEF IInv, TypeOK
<1>2. /\ s \in Round /\ s.sigs = rounds[h][p].sigs /\ (fault => s.failed)
      /\ s.completed = rounds[h][p].completed
  <2> DEFINE old == rounds[h][p]
  <2>1. old \in Round
    BY <1>1
  <2>2. s = [old EXCEPT !.failed = old.failed \/ fault, !.owned = FALSE]
    BY DEF MergeLost
  <2> HIDE DEF s
  <2>3. s.sigs = old.sigs /\ s.failed = (old.failed \/ fault) /\ s.completed = old.completed
    <3> HIDE DEF old
    <3> QED BY <2>1, <2>2 DEF Round
  <2>4. s \in Round
    <3> HIDE DEF old
    <3>1. (old.failed \/ fault) \in BOOLEAN
      BY Zenon
    <3> QED BY Zenon, <2>1, <2>2, <3>1 DEF Round
  <2> QED BY Zenon, <2>3, <2>4
<1>3. queue' = [queue EXCEPT ![h] = Tail(queue[h])]
  BY Zenon DEF RoundKept
<1>4. CASE Head(queue[h]).detached
  <2>1. rounds' = rounds
    BY Zenon, <1>4 DEF RoundKept
  <2>2. rounds' = [rounds EXCEPT ![h][p] = rounds[h][p]]
    BY Zenon, <2>1, RoundUnchanged
  <2>3. StaysAs(h, p, rounds[h][p], fault)
    BY Zenon, <1>4, <2>2 DEF StaysAs
  <2> QED BY Zenon, <1>1, <1>3, <2>3
<1>5. CASE ~Head(queue[h]).detached
  <2>1. rounds' = [rounds EXCEPT ![h][p] = s]
    BY Zenon, <1>5 DEF RoundKept
  <2> HIDE DEF s
  <2>2. StaysAs(h, p, s, fault)
    BY Zenon, <1>2, <2>1 DEF StaysAs
  <2> QED BY Zenon, <1>2, <1>3, <2>2
<1> QED BY Zenon, <1>4, <1>5

LEMMA RoundKeptInv ==
    ASSUME IInv, NEW h \in Hosts, queue[h] # << >>, NEW fault \in BOOLEAN,
           RoundKept(h, fault),
           UNCHANGED <<durable, msgs, submits>>, events' \in 0..MaxEvents
    PROVE  IInv'
<1>1. queue[h] \in Seq(Job) /\ halt \in [Hosts -> Halt]
  BY Zenon DEF IInv, TypeOK
<1>2. PICK p \in Payloads : p = Head(queue[h]).p
  BY Zenon, <1>1, QueueTypes DEF Job
<1>3. UNCHANGED <<head, ledger, halt, adopted, msgs, submits>>
  BY DEF durable
<1>4. PICK s \in Round : StaysAs(h, p, s, fault)
  BY <1>2, KeptRound
<1>5. queue' = [queue EXCEPT ![h] = Tail(queue[h])]
  BY Zenon, <1>2, KeptRound
<1>6. rounds' = [rounds EXCEPT ![h][p] = s] /\ s.sigs \subseteq rounds[h][p].sigs /\ halt' = halt
  BY Zenon, <1>3, <1>4 DEF StaysAs
<1> QED BY Zenon, <1>1, <1>3, <1>4, <1>5, <1>6, JobEnds

LEMMA MergeThrowsInv ==
    ASSUME IInv, NEW h \in Hosts, queue[h] # << >>, NEW fault \in BOOLEAN,
           MergeThrows(h, fault), events' \in 0..MaxEvents
    PROVE  IInv'
<1>1. queue[h] \in Seq(Job) /\ halt \in [Hosts -> Halt]
  BY DEF IInv, TypeOK
<1>2. PICK p \in Payloads : p = Head(queue[h]).p
  BY Zenon, <1>1, QueueTypes DEF Job
<1>3. UNCHANGED <<head, ledger, halt, adopted, msgs, submits>>
  BY DEF MergeThrows, durable
<1>4. CASE ~(rounds[h][p].owned /\ ~Head(queue[h]).detached)
  <2>1. RoundKept(h, fault) /\ UNCHANGED <<durable, msgs, submits>>
    BY Zenon, <1>2, <1>4 DEF MergeThrows
  <2> QED BY Zenon, <2>1, RoundKeptInv
<1>5. CASE rounds[h][p].owned /\ ~Head(queue[h]).detached
  <2>1. /\ queue' = [queue EXCEPT ![h] = Detach(Tail(queue[h]), rounds[h][p], p)]
        /\ rounds' = [rounds EXCEPT ![h][p] = NoRound]
    BY Zenon, <1>2, <1>5 DEF MergeThrows
  <2>2. NoRound \in Round /\ NoRound.sigs = {}
    BY DEF NoRound, Round
  <2> QED BY Zenon, <1>1, <1>3, <2>1, <2>2, JobEnds
<1> QED BY <1>4, <1>5

LEMMA JobFailsInv ==
    ASSUME IInv, NEW h \in Hosts,
           SignRefused(h) \/ SignFails(h) \/ MergeRefused(h) \/ MergeFails(h) \/ PublishFails(h)
    PROVE  IInv'
<1>1. queue[h] # << >>
  BY Zenon DEF SignRefused, SignFails, MergeRefused, MergeFails, PublishFails, Running
<1>2. events' \in 0..MaxEvents
  <2>1. events' = events \/ (events < MaxEvents /\ events' = events + 1)
    BY Zenon DEF SignRefused, SignFails, MergeRefused, MergeFails, PublishFails
  <2>2. events \in 0..MaxEvents
    BY Zenon DEF IInv, TypeOK
  <2> QED BY <2>1, <2>2, ClusterAssumption
<1>3. SignThrows(h) \/ (\E fault \in BOOLEAN : MergeThrows(h, fault)) \/ MergeIncomplete(h)
  BY Zenon DEF SignRefused, SignFails, MergeRefused, MergeFails, PublishFails
<1>4. CASE MergeIncomplete(h)
  BY Zenon, <1>1, <1>2, <1>4, RoundKeptInv DEF MergeIncomplete
<1> QED BY <1>1, <1>2, <1>3, <1>4, SignThrowsInv, MergeThrowsInv

LEMMA HaltTypes ==
    ASSUME NEW p \in Payloads
    PROVE  /\ HaltFor(p) \in Halt /\ HaltFor(p).closedAt = None
           /\ NoHalt \in Halt /\ NoHalt.closedAt = None /\ None \notin Payloads
BY ClusterAssumption DEF HaltFor, NoHalt, Halt, States

LEMMA MergeDoneInv ==
    ASSUME IInv, NEW h \in Hosts, MergeDone(h)
    PROVE  IInv'
<1>1. queue[h] \in Seq(Job) /\ halt \in [Hosts -> Halt] /\ queue[h] # << >>
  BY DEF IInv, TypeOK, MergeDone, Running
<1>2. PICK p \in Payloads : p = Head(queue[h]).p
  BY Zenon, <1>1, QueueTypes DEF Job
<1>3. rounds[h][p] \in Round
  BY DEF IInv, TypeOK
<1>4. PICK s \in Round : rounds' = [rounds EXCEPT ![h][p] = s] /\ s.sigs = rounds[h][p].sigs
  <2> DEFINE r == [rounds[h][p] EXCEPT !.completed = TRUE, !.warned = FALSE,
                                       !.timed = FALSE, !.owned = FALSE, !.waiting = FALSE]
  <2>1. r \in Round /\ r.sigs = rounds[h][p].sigs
    BY Zenon, <1>3 DEF Round
  <2>2. rounds' = rounds \/ rounds' = [rounds EXCEPT ![h][p] = r]
    BY <1>2 DEF MergeDone
  <2> HIDE DEF r
  <2> QED BY <1>3, <2>1, <2>2, RoundUnchanged
<1>5. /\ halt' \in [Hosts -> Halt]
      /\ \A k \in Hosts : halt'[k] = halt[k] \/ halt'[k].closedAt \notin Payloads
  <2>1. halt' = [halt EXCEPT ![h] = IF halt[h] = HaltFor(p) THEN NoHalt ELSE halt[h]]
    BY <1>2 DEF MergeDone
  <2> QED BY <1>1, <2>1, HaltTypes
<1>6. /\ UNCHANGED <<head, ledger, adopted, msgs, submits>> /\ events' \in 0..MaxEvents
      /\ queue' = [queue EXCEPT ![h] = Tail(queue[h])]
  BY DEF MergeDone, counters, IInv, TypeOK
<1> QED BY Zenon, <1>1, <1>4, <1>5, <1>6, JobEnds

(* The merge at the head of the queue is of a fully signed payload.        *)
LEMMA MergeAdoptInv ==
    ASSUME IInv, NEW h \in Hosts, MergeAdopt(h)
    PROVE  IInv'
<1>1. queue[h] \in Seq(Job) /\ queue \in [Hosts -> Seq(Job)] /\ queue[h] # << >>
      /\ Head(queue[h]).kind = "merge"
  BY DEF IInv, TypeOK, MergeAdopt, Running
<1>2. PICK p \in Payloads : p = Head(queue[h]).p
  BY Zenon, <1>1, QueueTypes DEF Job
<1>3. FullySigned(p)
  BY <1>1, <1>2, MergesOfHead DEF IInv, MergesSigned
<1>4. /\ head' = [head EXCEPT ![h] = p]
      /\ adopted' = [adopted EXCEPT ![h] = adopted[h] \cup {p}]
      /\ UNCHANGED <<ledger, halt, rounds, msgs, counters>>
  BY <1>2 DEF MergeAdopt
<1>5. /\ head' \in [Hosts -> States] /\ adopted' \in [Hosts -> SUBSET States]
      /\ \A k \in Hosts : \/ head'[k] = head[k] /\ adopted'[k] = adopted[k]
                          \/ head'[k] = p /\ adopted'[k] = adopted[k] \cup {p}
  BY <1>4 DEF IInv, TypeOK, States
<1>6. PICK q \in Seq(Job) : queue' = [queue EXCEPT ![h] = q] /\ Merges(q) \subseteq Merges(queue[h])
  <2> DEFINE j == [queue[h][1] EXCEPT !.stage = "adopted"]
             q == [queue[h] EXCEPT ![1] = j]
  <2>1. 1 \in DOMAIN queue[h] /\ queue[h][1] \in Job
    BY <1>1
  <2>2. j \in Job /\ j.kind = queue[h][1].kind /\ j.p = queue[h][1].p
    BY <2>1 DEF Job
  <2>3. queue' = [queue EXCEPT ![h] = q]
    BY <1>1, <2>1 DEF MergeAdopt
  <2> HIDE DEF j
  <2>4. q \in Seq(Job) /\ DOMAIN q = DOMAIN queue[h]
        /\ \A i \in DOMAIN q : q[i] = IF i = 1 THEN j ELSE queue[h][i]
    BY <1>1, <2>1, <2>2
  <2> HIDE DEF q
  <2>5. Merges(q) \subseteq Merges(queue[h])
    BY <2>2, <2>4 DEF Merges
  <2> QED BY Zenon, <2>3, <2>4, <2>5
<1>7. /\ queue' \in [Hosts -> Seq(Job)]
      /\ \A k \in Hosts : Merges(queue'[k]) \subseteq Merges(queue[k])
  BY <1>1, <1>6, QueueUpdate
<1>8. TypeOK'
  BY Zenon, <1>4, <1>5, <1>7 DEF IInv, TypeOK, counters
<1>9. PooledSigned' /\ PostedSigned' /\ ClosesFullySigned'
  BY Zenon, <1>4 DEF IInv, PooledSigned, PostedSigned, ClosesFullySigned, Signed
<1>10. MergesSigned'
  BY Zenon, <1>4, <1>7 DEF IInv, MergesSigned, FullySigned, Signed
<1>11. AdoptedSigned' /\ HeadAdopted'
  BY <1>3, <1>4, <1>5 DEF IInv, AdoptedSigned, HeadAdopted, FullySigned, Signed
<1> QED BY <1>8, <1>9, <1>10, <1>11 DEF IInv

LEMMA AutoCloseInv ==
    ASSUME IInv, NEW h \in Hosts, AutoClose(h)
    PROVE  IInv'
<1>1. /\ queue[h] \in Seq(Job) /\ queue[h] # << >> /\ halt \in [Hosts -> Halt]
      /\ queue \in [Hosts -> Seq(Job)]
  BY DEF IInv, TypeOK, AutoClose, Running
<1>2. PICK p \in Payloads : p = Head(queue[h]).p
  BY Zenon, <1>1, QueueTypes DEF Job
<1>3. head[h] \in States /\ head[h] \in adopted[h]
  BY DEF IInv, TypeOK, HeadAdopted
<1>4. /\ halt' \in [Hosts -> Halt]
      /\ \A k \in Hosts : halt'[k] = halt[k] \/ halt'[k].closedAt \in adopted[k]
  <2> DEFINE c == [digest |-> p, closedAt |-> head[h]]
  <2>1. c \in Halt /\ c.closedAt = head[h]
    BY <1>3 DEF Halt
  <2>2. halt' = [halt EXCEPT ![h] = c]
    BY <1>2 DEF AutoClose, CloseState
  <2> HIDE DEF c
  <2> QED BY <1>1, <1>3, <2>1, <2>2
<1>5. rounds' = [rounds EXCEPT ![h][p] = rounds[h][p]] /\ rounds[h][p] \in Round
  BY RoundUnchanged DEF AutoClose
<1>6. /\ UNCHANGED <<head, ledger, adopted, msgs, submits>> /\ events' \in 0..MaxEvents
      /\ queue' = [queue EXCEPT ![h] = Tail(queue[h])]
  BY DEF AutoClose, counters, IInv, TypeOK
<1> QED BY Zenon, <1>1, <1>4, <1>5, <1>6, JobEnds

LEMMA AutoCloseFailsInv ==
    ASSUME IInv, NEW h \in Hosts, AutoCloseFails(h)
    PROVE  IInv'
<1>1. queue[h] \in Seq(Job) /\ queue[h] # << >> /\ halt \in [Hosts -> Halt]
  BY DEF IInv, TypeOK, AutoCloseFails, Running
<1>2. PICK p \in Payloads : p = Head(queue[h]).p
  BY Zenon, <1>1, QueueTypes DEF Job
<1>3. rounds' = [rounds EXCEPT ![h][p] = rounds[h][p]] /\ rounds[h][p] \in Round
  BY RoundUnchanged DEF AutoCloseFails
<1>4. /\ UNCHANGED <<head, ledger, halt, adopted, msgs, submits>> /\ events' \in 0..MaxEvents
      /\ queue' = [queue EXCEPT ![h] = Tail(queue[h])]
  BY DEF AutoCloseFails, durable, counters, IInv, TypeOK
<1> QED BY Zenon, <1>1, <1>3, <1>4, JobEnds

-----------------------------------------------------------------------------
(* Signatures, timers and faults.                                          *)

LEMMA OnSignatureInv ==
    ASSUME IInv, NEW h \in Hosts, NEW p \in Payloads, OnSignature(h, p)
    PROVE  IInv'
<1>1. /\ queue[h] \in Seq(Job) /\ queue \in [Hosts -> Seq(Job)]
      /\ rounds \in [Hosts -> [Payloads -> Round]] /\ rounds[h][p] \in Round
  BY DEF IInv, TypeOK
<1>2. PICK m \in msgs :
        /\ m.type = "signature" /\ m.p = p /\ msgs' = msgs \ {m}
        /\ LET r == [rounds[h][p] EXCEPT !.open = TRUE, !.sigs = @ \cup {m.slot}]
           IN  /\ rounds' = [rounds EXCEPT ![h][p] = r]
               /\ queue' = [queue EXCEPT ![h] = Queued(queue[h], r, p)]
        /\ UNCHANGED <<durable, counters>>
  BY Zenon DEF OnSignature
<1>3. m.slot \in Hosts /\ Signed(m.slot, p)
  BY Zenon, <1>2 DEF IInv, TypeOK, PostedSigned, Message
<1> DEFINE r == [rounds[h][p] EXCEPT !.open = TRUE, !.sigs = @ \cup {m.slot}]
<1>4. r \in Round /\ r.sigs = rounds[h][p].sigs \cup {m.slot}
  BY Zenon, <1>1, <1>3 DEF Round
<1>5. /\ rounds' = [rounds EXCEPT ![h][p] = r]
      /\ queue' = [queue EXCEPT ![h] = Queued(queue[h], r, p)]
  BY <1>2
<1> HIDE DEF r
<1>6. \A k \in r.sigs : Signed(k, p)
  BY <1>3, <1>4 DEF IInv, PooledSigned
<1>7. /\ rounds' \in [Hosts -> [Payloads -> Round]]
      /\ \A k \in Hosts, x \in Payloads :
            rounds'[k][x] = IF k = h /\ x = p THEN r ELSE rounds[k][x]
  BY <1>1, <1>4, <1>5, RoundsUpdate
<1>8. Queued(queue[h], r, p) \in Seq(Job)
      /\ \A x \in Merges(Queued(queue[h], r, p)) : x \in Merges(queue[h]) \/ FullySigned(x)
  BY Zenon, <1>1, <1>6, QueuedType, QueuedSigned
<1>9. /\ queue' \in [Hosts -> Seq(Job)]
      /\ \A k \in Hosts : \A x \in Merges(queue'[k]) : x \in Merges(queue[k]) \/ FullySigned(x)
  BY <1>1, <1>5, <1>8, QueueUpdate
<1>10. TypeOK'
  BY <1>2, <1>7, <1>9 DEF IInv, TypeOK, durable, counters
<1>11. \A k \in Hosts, x \in Payloads : \A j \in rounds'[k][x].sigs :
          j \in rounds[k][x].sigs \/ Signed(j, x)
  BY <1>6, <1>7
<1> QED BY <1>2, <1>9, <1>10, <1>11, Frame DEF durable

LEMMA WarnInv ==
    ASSUME IInv, NEW h \in Hosts, NEW p \in Payloads, Warn(h, p)
    PROVE  IInv'
<1>1. /\ queue[h] \in Seq(Job) /\ queue \in [Hosts -> Seq(Job)]
      /\ rounds \in [Hosts -> [Payloads -> Round]] /\ msgs \subseteq Message
  BY DEF IInv, TypeOK
<1>2. UNCHANGED <<durable, rounds, counters>>
  BY DEF Warn
<1>3. CASE Missing(rounds[h][p]) = {}
  <2>1. queue' = [queue EXCEPT ![h] = Queued(queue[h], rounds[h][p], p)] /\ msgs' = msgs
    BY Zenon, <1>3 DEF Warn
  <2>2. Queued(queue[h], rounds[h][p], p) \in Seq(Job)
        /\ \A x \in Merges(Queued(queue[h], rounds[h][p], p)) :
              x \in Merges(queue[h]) \/ FullySigned(x)
    BY Zenon, <1>1, QueuedType, QueuedSigned DEF IInv, PooledSigned
  <2>3. /\ queue' \in [Hosts -> Seq(Job)]
        /\ \A k \in Hosts : \A x \in Merges(queue'[k]) : x \in Merges(queue[k]) \/ FullySigned(x)
    BY <1>1, <2>1, <2>2, QueueUpdate
  <2>4. TypeOK'
    BY Zenon, <1>2, <2>1, <2>3 DEF IInv, TypeOK, durable, counters
  <2> QED BY Zenon, <1>2, <2>1, <2>3, <2>4, Frame DEF durable
<1>4. CASE Missing(rounds[h][p]) # {}
  <2>1. PICK k \in Hosts : /\ queue' = queue
        /\ msgs' = msgs \cup Signatures(rounds[k][p].sigs \cap Missing(rounds[h][p]), {h}, p)
    BY Zenon, <1>4 DEF Warn
  <2> DEFINE S == rounds[k][p].sigs \cap Missing(rounds[h][p])
  <2>2. S \subseteq Hosts /\ \A j \in S : Signed(j, p)
    BY DEF Missing, IInv, PooledSigned
  <2>3. msgs' = msgs \cup Signatures(S, {h}, p)
    BY <2>1
  <2> HIDE DEF S
  <2>4. /\ Signatures(S, {h}, p) \subseteq Message
        /\ \A m \in Signatures(S, {h}, p) : m.slot \in S /\ m.p = p
    BY <2>2, SignaturesType
  <2>5. msgs' \subseteq Message /\ \A m \in msgs' : m \in msgs \/ Signed(m.slot, m.p)
    BY Zenon, <1>1, <2>2, <2>3, <2>4
  <2>6. TypeOK'
    BY Zenon, <1>2, <2>1, <2>5 DEF IInv, TypeOK, durable, counters
  <2> QED BY Zenon, <1>2, <2>1, <2>5, <2>6, Frame DEF durable
<1> QED BY <1>3, <1>4

LEMMA HaltRoundInv ==
    ASSUME IInv, NEW h \in Hosts, NEW p \in Payloads, HaltRound(h, p)
    PROVE  IInv'
<1>1. /\ queue[h] \in Seq(Job) /\ queue \in [Hosts -> Seq(Job)] /\ halt \in [Hosts -> Halt]
      /\ rounds \in [Hosts -> [Payloads -> Round]] /\ rounds[h][p] \in Round
      /\ msgs \subseteq Message
  BY DEF IInv, TypeOK
<1>2. UNCHANGED <<head, ledger, adopted, counters>>
  BY DEF HaltRound
<1>3. CASE Missing(rounds[h][p]) = {}
  <2> DEFINE s == [rounds[h][p] EXCEPT !.timed = FALSE]
  <2>1. s \in Round /\ s.sigs = rounds[h][p].sigs
    BY Zenon, <1>1 DEF Round
  <2>2. /\ rounds' = [rounds EXCEPT ![h][p] = s]
        /\ queue' = [queue EXCEPT ![h] = Queued(queue[h], rounds[h][p], p)]
        /\ UNCHANGED <<halt, msgs>>
    BY <1>3 DEF HaltRound
  <2> HIDE DEF s
  <2>3. /\ rounds' \in [Hosts -> [Payloads -> Round]]
        /\ \A k \in Hosts, x \in Payloads : rounds'[k][x].sigs = rounds[k][x].sigs
    BY <1>1, <2>1, <2>2, RoundsUpdate
  <2>4. Queued(queue[h], rounds[h][p], p) \in Seq(Job)
        /\ \A x \in Merges(Queued(queue[h], rounds[h][p], p)) :
              x \in Merges(queue[h]) \/ FullySigned(x)
    BY Zenon, <1>1, QueuedType, QueuedSigned DEF IInv, PooledSigned
  <2>5. /\ queue' \in [Hosts -> Seq(Job)]
        /\ \A k \in Hosts : \A x \in Merges(queue'[k]) : x \in Merges(queue[k]) \/ FullySigned(x)
    BY Zenon, <1>1, <2>2, <2>4, QueueUpdate
  <2>6. TypeOK'
    BY Zenon, <1>2, <2>2, <2>3, <2>5 DEF IInv, TypeOK, counters
  <2> QED BY <1>2, <2>2, <2>3, <2>5, <2>6, Frame
<1>4. CASE Missing(rounds[h][p]) # {}
  <2> DEFINE s == [rounds[h][p] EXCEPT !.timed = FALSE, !.waiting = FALSE]
  <2>1. s \in Round /\ s.sigs = rounds[h][p].sigs
    BY Zenon, <1>1 DEF Round
  <2>2. /\ rounds' = [rounds EXCEPT ![h][p] = s] /\ queue' = queue
        /\ halt' = [halt EXCEPT ![h] = HaltFor(p)] /\ Broadcast("halt", h, p)
    BY <1>4 DEF HaltRound
  <2> HIDE DEF s
  <2>3. /\ rounds' \in [Hosts -> [Payloads -> Round]]
        /\ \A k \in Hosts, x \in Payloads : rounds'[k][x].sigs = rounds[k][x].sigs
    BY <1>1, <2>1, <2>2, RoundsUpdate
  <2>4. msgs' \subseteq Message /\ \A m \in msgs' : m \in msgs \/ m.type # "signature"
    BY Zenon, <1>1, <2>2, BroadcastType
  <2>5. /\ halt' \in [Hosts -> Halt]
        /\ \A k \in Hosts : halt'[k] = halt[k] \/ halt'[k].closedAt \notin Payloads
    BY Zenon, <1>1, <2>2, HaltTypes
  <2>6. TypeOK'
    BY Zenon, <1>2, <2>2, <2>3, <2>4, <2>5 DEF IInv, TypeOK, counters
  <2> QED BY Zenon, <1>2, <2>2, <2>3, <2>4, <2>5, <2>6, Frame
<1> QED BY <1>3, <1>4

LEMMA OnHaltInv ==
    ASSUME IInv, NEW h \in Hosts, NEW p \in Payloads, OnHalt(h, p)
    PROVE  IInv'
<1>1. msgs' \subseteq msgs /\ UNCHANGED <<head, ledger, adopted, rounds, queue, counters>>
  BY Zenon DEF OnHalt
<1>2. halt \in [Hosts -> Halt] /\ halt' \in {halt, [halt EXCEPT ![h] = HaltFor(p)]}
  BY Zenon DEF OnHalt, IInv, TypeOK
<1>3. /\ halt' \in [Hosts -> Halt]
      /\ \A k \in Hosts : halt'[k] = halt[k] \/ halt'[k].closedAt \notin Payloads
  BY <1>2, HaltTypes
<1>4. TypeOK'
  BY Zenon, <1>1, <1>3 DEF IInv, TypeOK, counters
<1> QED BY Zenon, <1>1, <1>3, <1>4, Frame

LEMMA TickInv ==
    ASSUME IInv, NEW h \in Hosts, Tick(h)
    PROVE  IInv'
<1>1. queue[h] \in Seq(Job) /\ queue \in [Hosts -> Seq(Job)] /\ halt[h] \in Halt
  BY DEF IInv, TypeOK
<1>2. halt[h].digest \in Payloads
  BY Zenon, <1>1 DEF Tick, Halted, NoHalt, HaltFor, Halt
<1> DEFINE j == NewJob("close", halt[h].digest)
<1>3. j \in Job /\ j.kind # "merge"
  BY Zenon, <1>2, NewJobType DEF NewJob
<1>4. queue' = [queue EXCEPT ![h] = Append(queue[h], j)]
  BY Zenon DEF Tick
<1> HIDE DEF j
<1>5. Append(queue[h], j) \in Seq(Job)
      /\ Merges(Append(queue[h], j)) \subseteq Merges(queue[h])
  BY <1>1, <1>3, MergesOfAppend
<1>6. /\ queue' \in [Hosts -> Seq(Job)]
      /\ \A k \in Hosts : Merges(queue'[k]) \subseteq Merges(queue[k])
  BY <1>1, <1>4, <1>5, QueueUpdate
<1>7. UNCHANGED <<durable, rounds, msgs, submits>> /\ events' \in 0..MaxEvents
  BY ClusterAssumption DEF Tick, IInv, TypeOK
<1>8. TypeOK'
  BY Zenon, <1>6, <1>7 DEF IInv, TypeOK, durable
<1> QED BY Zenon, <1>6, <1>7, <1>8, Frame DEF durable

LEMMA RestartInv ==
    ASSUME IInv, NEW h \in Hosts, Restart(h)
    PROVE  IInv'
<1>1. NoRound \in Round /\ NoRound.sigs = {}
  BY Zenon DEF NoRound, Round
<1>2. /\ rounds' \in [Hosts -> [Payloads -> Round]]
      /\ \A k \in Hosts, x \in Payloads : rounds'[k][x].sigs \subseteq rounds[k][x].sigs
  BY Zenon, <1>1 DEF Restart, IInv, TypeOK
<1>3. queue \in [Hosts -> Seq(Job)] /\ queue' = [queue EXCEPT ![h] = << >>]
  BY Zenon DEF Restart, IInv, TypeOK
<1>4. << >> \in Seq(Job) /\ Merges(<< >>) = {}
  BY DEF Merges
<1>5. /\ queue' \in [Hosts -> Seq(Job)]
      /\ \A k \in Hosts : Merges(queue'[k]) \subseteq Merges(queue[k])
  BY <1>3, <1>4, QueueUpdate
<1>6. UNCHANGED <<durable, msgs, submits>> /\ events' \in 0..MaxEvents
  BY ClusterAssumption DEF Restart, IInv, TypeOK
<1>7. TypeOK'
  BY Zenon, <1>2, <1>5, <1>6 DEF IInv, TypeOK, durable
<1> QED BY Zenon, <1>2, <1>5, <1>6, <1>7, Frame DEF durable

LEMMA LoseInv ==
    ASSUME IInv, Lose
    PROVE  IInv'
<1>1. /\ UNCHANGED <<durable, rounds, queue, submits>> /\ msgs' \subseteq msgs
      /\ events' \in 0..MaxEvents
  BY ClusterAssumption DEF Lose, IInv, TypeOK
<1>2. TypeOK'
  BY Zenon, <1>1 DEF IInv, TypeOK, durable
<1> QED BY Zenon, <1>1, <1>2, Frame DEF durable

LEMMA StutterInv ==
    ASSUME IInv, UNCHANGED vars
    PROVE  IInv'
<1>1. UNCHANGED <<head, ledger, halt, adopted, rounds, queue, msgs, submits, events>>
  BY DEF vars, durable, counters
<1>2. TypeOK'
  BY Zenon, <1>1 DEF IInv, TypeOK
<1> QED BY Zenon, <1>1, <1>2, Frame

LEMMA NextInv == IInv /\ [Next]_vars => IInv'
<1> SUFFICES ASSUME IInv, [Next]_vars PROVE IInv'
  OBVIOUS
<1>1. CASE Lose
  BY <1>1, LoseInv
<1>2. ASSUME NEW h \in Hosts, RunJob(h) PROVE IInv'
  BY <1>2, SignPartialInv, JobFailsInv, MergeAdoptInv, MergeDoneInv, AutoCloseInv,
     AutoCloseFailsInv DEF RunJob
<1>3. ASSUME NEW h \in Hosts, SignFails(h) \/ MergeFails(h) \/ PublishFails(h)
                              \/ Restart(h) \/ Tick(h)
      PROVE  IInv'
  BY <1>3, JobFailsInv, RestartInv, TickInv
<1>4. ASSUME NEW h \in Hosts, NEW p \in Payloads,
             \/ Cosign(h, p) \/ CosignSign(h, p)
             \/ Deliver(h, p) \/ Warn(h, p) \/ HaltRound(h, p)
      PROVE  IInv'
  BY Zenon, <1>4, CosignInv, CosignSignInv, OnProposeInv, OnSignatureInv, OnHaltInv, WarnInv,
     HaltRoundInv DEF Deliver
<1>5. CASE UNCHANGED vars
  BY <1>5, StutterInv
<1> QED BY Zenon, <1>1, <1>2, <1>3, <1>4, <1>5 DEF Next

-----------------------------------------------------------------------------
(* What the lock queue is working on.                                      *)

LEMMA AppendWorks ==
    ASSUME NEW q \in Seq(Job), NEW j \in Job, j.stage = "queued"
    PROVE  /\ \A x : Working(q, x) => Working(Append(q, j), x)
           /\ j.kind # "close" /\ ~j.detached => Working(Append(q, j), j.p)
           /\ Staged(Append(q, j)) \subseteq Staged(q)
<1>1. /\ DOMAIN q = 1..Len(q) /\ Len(q) \in Nat
      /\ DOMAIN Append(q, j) = 1..(Len(q) + 1)
      /\ \A n \in 1..Len(q) : Append(q, j)[n] = q[n]
      /\ Append(q, j)[Len(q) + 1] = j
  OBVIOUS
<1> DEFINE a == Append(q, j)
<1> HIDE DEF a
<1>2. /\ DOMAIN q \subseteq DOMAIN a /\ Len(q) + 1 \in DOMAIN a
      /\ \A n \in DOMAIN a : n \in DOMAIN q \/ n = Len(q) + 1
      /\ \A n \in DOMAIN q : a[n] = q[n]
      /\ a[Len(q) + 1] = j
  BY <1>1 DEF a
<1>3. \A x : Working(q, x) => Working(a, x)
  BY Zenon, <1>2 DEF Working
<1>4. j.kind # "close" /\ ~j.detached => Working(a, j.p)
  BY <1>2 DEF Working
<1>5. Staged(a) \subseteq Staged(q)
  BY <1>2 DEF Staged
<1> QED BY <1>3, <1>4, <1>5 DEF a

(* tryComplete leaves a job for every round that can be merged.            *)
LEMMA QueuedWorks ==
    ASSUME NEW q \in Seq(Job), NEW r, NEW p \in Payloads
    PROVE  /\ \A x : Working(q, x) => Working(Queued(q, r, p), x)
           /\ CanMerge(r) => Working(Queued(q, r, p), p)
           /\ Staged(Queued(q, r, p)) \subseteq Staged(q)
<1> DEFINE j == NewJob("merge", p)
<1>1. /\ j \in Job /\ j.stage = "queued" /\ j.kind # "close" /\ ~j.detached /\ j.p = p
  BY NewJobType DEF NewJob
<1>2. CASE CanMerge(r) /\ ~Merging(q, p)
  <2>1. Queued(q, r, p) = Append(q, j)
    BY <1>2 DEF Queued
  <2> HIDE DEF j
  <2> QED BY <1>1, <2>1, AppendWorks
<1>3. CASE ~(CanMerge(r) /\ ~Merging(q, p))
  <2>1. Queued(q, r, p) = q
    BY <1>3 DEF Queued
  <2>2. Merging(q, p) => Working(q, p)
    BY DEF Merging, Working
  <2> QED BY <1>3, <2>1, <2>2
<1> QED BY Zenon, <1>2, <1>3

LEMMA TailWorks ==
    ASSUME NEW q \in Seq(Job), q # << >>
    PROVE  /\ \A x : Working(q, x) =>
                \/ Working(Tail(q), x)
                \/ Head(q).p = x /\ Head(q).kind # "close" /\ ~Head(q).detached
           /\ Staged(Tail(q)) \subseteq Staged(q)
<1>1. /\ DOMAIN q = 1..Len(q) /\ Len(q) \in Nat /\ Head(q) = q[1]
      /\ DOMAIN Tail(q) = 1..(Len(q) - 1)
      /\ \A n \in 1..(Len(q) - 1) : Tail(q)[n] = q[n + 1]
  OBVIOUS
<1> DEFINE t == Tail(q)
<1>2. /\ \A n \in DOMAIN q : n = 1 \/ (n - 1 \in DOMAIN t /\ t[n - 1] = q[n])
      /\ \A n \in DOMAIN t : n + 1 \in DOMAIN q /\ t[n] = q[n + 1]
  BY <1>1
<1> HIDE DEF t
<1>3. ASSUME NEW x, Working(q, x)
      PROVE  \/ Working(t, x)
             \/ Head(q).p = x /\ Head(q).kind # "close" /\ ~Head(q).detached
  <2>1. PICK i \in DOMAIN q : q[i].p = x /\ q[i].kind # "close" /\ ~q[i].detached
    BY <1>3 DEF Working
  <2>2. CASE i = 1
    BY <1>1, <2>1, <2>2
  <2>3. CASE i # 1
    <3>1. PICK n \in DOMAIN t : t[n] = q[i]
      BY <1>2, <2>3
    <3> QED BY <2>1, <3>1 DEF Working
  <2> QED BY <2>2, <2>3
<1>4. Staged(t) \subseteq Staged(q)
  BY <1>2 DEF Staged
<1> QED BY <1>3, <1>4 DEF t

LEMMA DetachWorks ==
    ASSUME NEW q \in Seq(Job), NEW r, NEW p
    PROVE  /\ \A x : x # p /\ Working(q, x) => Working(Detach(q, r, p), x)
           /\ Staged(Detach(q, r, p)) \subseteq Staged(q)
<1> DEFINE d == [i \in DOMAIN q |-> [q[i] EXCEPT !.detached = @ \/ q[i].p = p]]
<1>1. ASSUME NEW i \in DOMAIN q
      PROVE  /\ d[i].kind = q[i].kind /\ d[i].p = q[i].p /\ d[i].stage = q[i].stage
             /\ q[i].p # p /\ ~q[i].detached => ~d[i].detached
  <2>1. q[i] \in Job
    OBVIOUS
  <2> QED BY <2>1 DEF Job
<1>2. DOMAIN d = DOMAIN q
  OBVIOUS
<1> HIDE DEF d
<1>3. Staged(d) \subseteq Staged(q) /\ \A x : x # p /\ Working(q, x) => Working(d, x)
  BY Zenon, <1>1, <1>2 DEF Staged, Working
<1> QED BY Zenon, <1>3 DEF Detach, d

(* A job ends: only its own payload may lose a worker.                     *)
LEMMA HeadDetaches ==
    ASSUME IInv, NEW h \in Hosts, queue[h] # << >>, NEW p \in Payloads,
           p = Head(queue[h]).p, NEW r
    PROVE  /\ Detach(Tail(queue[h]), r, p) \in Seq(Job)
           /\ Staged(Detach(Tail(queue[h]), r, p)) \subseteq Staged(queue[h])
           /\ \A x : x # p /\ Working(queue[h], x) => Working(Detach(Tail(queue[h]), r, p), x)
<1>1. queue[h] \in Seq(Job)
  BY Zenon DEF IInv, TypeOK
<1>2. PICK t \in Seq(Job) : t = Tail(queue[h])
  BY Zenon, <1>1, QueueTypes
<1>3. Detach(t, r, p) \in Seq(Job)
  BY Zenon, DetachType
<1>4. /\ \A x : x # p /\ Working(queue[h], x) => Working(t, x)
      /\ Staged(t) \subseteq Staged(queue[h])
  BY Zenon, <1>1, <1>2, TailWorks
<1>5. /\ \A x : x # p /\ Working(t, x) => Working(Detach(t, r, p), x)
      /\ Staged(Detach(t, r, p)) \subseteq Staged(t)
  BY DetachWorks
<1> QED BY Zenon, <1>2, <1>3, <1>4, <1>5

LEMMA HeadLeaves ==
    ASSUME IInv, NEW h \in Hosts, queue[h] # << >>, NEW p \in Payloads,
           p = Head(queue[h]).p, NEW q, NEW r,
           q = Tail(queue[h]) \/ q = Detach(Tail(queue[h]), r, p)
    PROVE  /\ q \in Seq(Job)
           /\ \A x : x # p /\ Working(queue[h], x) => Working(q, x)
           /\ Staged(q) \subseteq Staged(queue[h])
<1>1. queue[h] \in Seq(Job)
  BY Zenon DEF IInv, TypeOK
<1>2. Tail(queue[h]) \in Seq(Job)
  BY Zenon, <1>1, QueueTypes
<1>3. /\ \A x : x # p /\ Working(queue[h], x) => Working(Tail(queue[h]), x)
      /\ Staged(Tail(queue[h])) \subseteq Staged(queue[h])
  BY Zenon, <1>1, TailWorks
<1>4. CASE q = Tail(queue[h])
  BY Zenon, <1>2, <1>3, <1>4
<1>5. CASE q = Detach(Tail(queue[h]), r, p)
  BY Zenon, <1>5, HeadDetaches
<1> QED BY Zenon, <1>4, <1>5

-----------------------------------------------------------------------------
(* No complete round is left untried.                                      *)

(* One round and one queue change, and no state is adopted.                *)
LEMMA RoundStep ==
    ASSUME IInv, RInv, NEW h \in Hosts, NEW p \in Payloads,
           NEW s \in Round, NEW q \in Seq(Job),
           rounds' = [rounds EXCEPT ![h][p] = s], queue' = [queue EXCEPT ![h] = q],
           adopted' = adopted, SignedNext',
           s.completed => p \in adopted[h],
           Staged(q) \subseteq Staged(queue[h]),
           \A x \in Payloads : x # p /\ Working(queue[h], x) => Working(q, x),
           s.payload /\ Missing(s) = {} => p \in adopted[h] \/ s.proposing \/ s.failed \/ Working(q, p)
    PROVE  RInv'
<1>1. /\ \A k \in Hosts, x \in Payloads :
            rounds'[k][x] = IF k = h /\ x = p THEN s ELSE rounds[k][x]
      /\ \A k \in Hosts : queue'[k] = IF k = h THEN q ELSE queue[k]
  BY RoundsUpdate, QueueUpdate DEF IInv, TypeOK
<1>2. CompletedAdopted' /\ StagedAdopted'
  BY <1>1 DEF RInv, CompletedAdopted, StagedAdopted
<1>3. CompleteRoundTried'
  <2> SUFFICES ASSUME NEW k \in Hosts, NEW x \in Payloads,
                      rounds'[k][x].payload, Missing(rounds'[k][x]) = {}
               PROVE  \/ x \in adopted'[k] \/ rounds'[k][x].proposing
                      \/ rounds'[k][x].failed \/ Working(queue'[k], x)
    BY DEF CompleteRoundTried, Missing, Working
  <2>1. CASE k = h /\ x = p
    BY <1>1, <2>1
  <2>2. CASE ~(k = h /\ x = p)
    <3>1. rounds'[k][x] = rounds[k][x]
      BY <1>1, <2>2
    <3>2. x \in adopted[k] \/ rounds[k][x].proposing \/ rounds[k][x].failed \/ Working(queue[k], x)
      BY Zenon, <3>1 DEF RInv, CompleteRoundTried
    <3>3. Working(queue[k], x) => Working(queue'[k], x)
      BY Zenon, <1>1, <2>2
    <3> QED BY Zenon, <3>1, <3>2, <3>3
  <2> QED BY Zenon, <2>1, <2>2
<1> QED BY Zenon, <1>2, <1>3 DEF RInv

LEMMA SignedNextKept ==
    ASSUME RInv, UNCHANGED <<head, ledger, adopted>>
    PROVE  SignedNext' /\ adopted' = adopted
BY Zenon DEF RInv, SignedNext, Signed

(* A step that leaves rounds, queues and adoptions alone.                  *)
LEMMA RoundsKept ==
    ASSUME RInv, UNCHANGED <<head, ledger, adopted, rounds, queue>>
    PROVE  RInv'
<1>1. SignedNext' /\ CompletedAdopted' /\ StagedAdopted'
  BY Zenon, SignedNextKept DEF RInv, CompletedAdopted, StagedAdopted
<1>2. CompleteRoundTried'
  BY Zenon DEF RInv, CompleteRoundTried
<1> QED BY <1>1, <1>2 DEF RInv

LEMMA InitRounds == Init => RInv
<1> SUFFICES ASSUME Init PROVE RInv
  OBVIOUS
<1>1. ~NoRound.payload /\ ~NoRound.completed
  BY Zenon DEF NoRound
<1>2. CompletedAdopted /\ CompleteRoundTried
  BY Zenon, <1>1 DEF Init, CompletedAdopted, CompleteRoundTried
<1>3. StagedAdopted
  BY DEF Init, StagedAdopted, Staged
<1>4. SignedNext
  BY Zenon, ClusterAssumption DEF Init, SignedNext, Signed, States
<1> QED BY <1>2, <1>3, <1>4 DEF RInv

LEMMA CosignRounds ==
    ASSUME IInv, RInv, NEW h \in Hosts, NEW p \in Payloads, Cosign(h, p)
    PROVE  RInv'
<1> DEFINE s == [OpenRound(rounds[h][p]) EXCEPT !.waiting = TRUE, !.proposing = TRUE]
<1>1. rounds[h][p] \in Round /\ queue[h] \in Seq(Job) /\ queue \in [Hosts -> Seq(Job)]
  BY Zenon DEF IInv, TypeOK
<1>2. s \in Round /\ s.proposing /\ (s.completed => rounds[h][p].completed)
  BY Zenon, <1>1 DEF Round, OpenRound, NoRound
<1>3. rounds' = [rounds EXCEPT ![h][p] = s] /\ queue' = queue
      /\ UNCHANGED <<head, ledger, adopted>>
  BY DEF Cosign, durable
<1> HIDE DEF s
<1>4. s.completed => p \in adopted[h]
  BY Zenon, <1>2 DEF RInv, CompletedAdopted
<1>5. queue' = [queue EXCEPT ![h] = queue[h]]
  BY <1>1, <1>3
<1> QED BY Zenon, <1>1, <1>2, <1>3, <1>4, <1>5, SignedNextKept, RoundStep

(* A round that was just given to tryComplete.                             *)
LEMMA CompletesOrWorks ==
    ASSUME NEW h \in Hosts, NEW p \in Payloads, NEW q \in Seq(Job), NEW r \in Round,
           r.completed => p \in adopted[h]
    PROVE  r.payload /\ Missing(r) = {} => p \in adopted[h] \/ Working(Queued(q, r, p), p)
BY Zenon, QueuedWorks DEF CanMerge

LEMMA OwnerWaitsRound ==
    ASSUME NEW r \in Round
    PROVE  /\ OwnerWaits(r) \in Round
           /\ OwnerWaits(r).completed = r.completed /\ OwnerWaits(r).payload = r.payload
           /\ Missing(OwnerWaits(r)) = Missing(r)
BY DEF OwnerWaits, Round, CanMerge, Missing

LEMMA SignOwnRounds ==
    ASSUME IInv, RInv, NEW h \in Hosts, NEW p \in Payloads, NEW r \in Round,
           r.completed => p \in adopted[h], SignOwn(h, p, r),
           UNCHANGED <<head, ledger, adopted>>
    PROVE  RInv'
<1>1. queue[h] \in Seq(Job)
  BY Zenon DEF IInv, TypeOK
<1>2. CASE r.signed
  <2>1. /\ queue' = [queue EXCEPT ![h] = Queued(queue[h], r, p)]
        /\ rounds' = [rounds EXCEPT ![h][p] = OwnerWaits(r)]
    BY <1>2 DEF SignOwn
  <2> DEFINE s == OwnerWaits(r)
             q == Queued(queue[h], r, p)
  <2>2. /\ s \in Round /\ (s.completed => p \in adopted[h])
        /\ s.payload /\ Missing(s) = {} => p \in adopted[h] \/ Working(q, p)
    BY Zenon, <1>1, OwnerWaitsRound, CompletesOrWorks
  <2>3. /\ q \in Seq(Job) /\ Staged(q) \subseteq Staged(queue[h])
        /\ \A x : Working(queue[h], x) => Working(q, x)
    BY Zenon, <1>1, QueuedType, QueuedWorks
  <2> HIDE DEF s, q
  <2>4. rounds' = [rounds EXCEPT ![h][p] = s] /\ queue' = [queue EXCEPT ![h] = q]
    BY <2>1 DEF s, q
  <2> QED BY Zenon, <2>2, <2>3, <2>4, SignedNextKept, RoundStep
<1>3. CASE ~r.signed
  <2> DEFINE s == [r EXCEPT !.signed = TRUE]
             j == NewJob("sign", p)
             q == Append(queue[h], j)
  <2>1. s \in Round /\ s.completed = r.completed
    BY Zenon DEF Round
  <2>2. j \in Job /\ j.stage = "queued" /\ j.kind # "close" /\ ~j.detached /\ j.p = p
    BY Zenon, NewJobType DEF NewJob
  <2>3. queue' = [queue EXCEPT ![h] = q] /\ rounds' = [rounds EXCEPT ![h][p] = s]
    BY <1>3 DEF SignOwn
  <2> HIDE DEF s, j
  <2>4. /\ q \in Seq(Job) /\ Staged(q) \subseteq Staged(queue[h])
        /\ Working(q, p) /\ \A x : Working(queue[h], x) => Working(q, x)
    BY <1>1, <2>2, AppendWorks
  <2> HIDE DEF q
  <2> QED BY Zenon, <2>1, <2>3, <2>4, SignedNextKept, RoundStep
<1> QED BY Zenon, <1>2, <1>3

LEMMA CosignSignRounds ==
    ASSUME IInv, RInv, NEW h \in Hosts, NEW p \in Payloads, CosignSign(h, p)
    PROVE  RInv'
<1> DEFINE r == [rounds[h][p] EXCEPT !.proposing = FALSE]
<1>1. rounds[h][p] \in Round
  BY Zenon DEF IInv, TypeOK
<1>2. r \in Round /\ r.completed = rounds[h][p].completed
  BY Zenon, <1>1 DEF Round
<1>3. SignOwn(h, p, r) /\ UNCHANGED <<head, ledger, adopted>>
  BY DEF CosignSign, durable
<1> HIDE DEF r
<1> QED BY Zenon, <1>2, <1>3, SignOwnRounds DEF RInv, CompletedAdopted

LEMMA OnProposeRounds ==
    ASSUME IInv, RInv, NEW h \in Hosts, NEW p \in Payloads, OnPropose(h, p)
    PROVE  RInv'
<1>1. UNCHANGED <<head, ledger, adopted>>
  BY Zenon DEF OnPropose, durable
<1>2. CASE Halted(h)
  <2>1. UNCHANGED <<rounds, queue>>
    BY Zenon, <1>2 DEF OnPropose
  <2> QED BY <1>1, <2>1, RoundsKept
<1>3. CASE ~Halted(h)
  <2>1. rounds[h][p] \in Round
    BY DEF IInv, TypeOK
  <2>2. OpenRound(rounds[h][p]) \in Round
        /\ (OpenRound(rounds[h][p]).completed => rounds[h][p].completed)
    BY Zenon, <2>1 DEF OpenRound, NoRound, Round
  <2>3. SignOwn(h, p, OpenRound(rounds[h][p]))
    BY Zenon, <1>3 DEF OnPropose
  <2> QED BY Zenon, <1>1, <2>2, <2>3, SignOwnRounds DEF RInv, CompletedAdopted
<1> QED BY <1>2, <1>3

LEMMA SignPartialRounds ==
    ASSUME IInv, RInv, NEW h \in Hosts, SignPartial(h)
    PROVE  RInv'
<1>1. /\ queue[h] \in Seq(Job) /\ queue[h] # << >>
      /\ rounds \in [Hosts -> [Payloads -> Round]]
      /\ ledger \in [Hosts -> [States -> Payloads \cup {None}]]
  BY Zenon DEF IInv, TypeOK, SignPartial, Running
<1>2. PICK p \in Payloads : p = Head(queue[h]).p
  BY Zenon, <1>1, QueueTypes DEF Job
<1>3. Tail(queue[h]) \in Seq(Job)
  BY <1>1, QueueTypes
<1>4. /\ PrevState[p] = head[h] /\ ledger' = [ledger EXCEPT ![h][PrevState[p]] = p]
      /\ UNCHANGED <<head, adopted>>
  BY Zenon, <1>2 DEF SignPartial, CosignGate
<1>5. SignedNext'
  <2> SUFFICES ASSUME NEW k \in Hosts, NEW x \in Payloads,
                      ledger'[k][PrevState[x]] = x
               PROVE  PrevState[x] = head[k] \/ x \in adopted[k]
    BY Zenon, <1>4 DEF SignedNext, Signed
  <2>1. PrevState[x] \in States /\ PrevState[p] \in States
    BY ClusterAssumption
  <2>2. (k = h /\ x = p) \/ ledger[k][PrevState[x]] = x
    BY Zenon, <1>1, <1>4, <2>1
  <2> QED BY Zenon, <1>4, <2>2 DEF RInv, SignedNext, Signed
<1>6. rounds[h][p] \in Round /\ (rounds[h][p].completed => p \in adopted[h])
  BY Zenon, <1>1 DEF RInv, CompletedAdopted
<1>7. CASE Head(queue[h]).detached
  <2>1. queue' = [queue EXCEPT ![h] = Tail(queue[h])] /\ rounds' = rounds
    BY <1>7 DEF SignPartial
  <2>2. rounds' = [rounds EXCEPT ![h][p] = rounds[h][p]]
    BY <2>1, RoundUnchanged
  <2>3. /\ Staged(Tail(queue[h])) \subseteq Staged(queue[h])
        /\ \A x : Working(queue[h], x) => Working(Tail(queue[h]), x)
    BY Zenon, <1>1, <1>7, TailWorks
  <2>4. rounds[h][p].payload /\ Missing(rounds[h][p]) = {} =>
          p \in adopted[h] \/ rounds[h][p].proposing \/ rounds[h][p].failed \/ Working(Tail(queue[h]), p)
    BY Zenon, <2>3 DEF RInv, CompleteRoundTried
  <2> QED BY Zenon, <1>3, <1>4, <1>5, <1>6, <2>1, <2>2, <2>3, <2>4, RoundStep
<1>8. CASE ~Head(queue[h]).detached
  <2> DEFINE r == [rounds[h][p] EXCEPT !.sigs = @ \cup {h}]
             s == OwnerWaits(r)
             q == Queued(Tail(queue[h]), r, p)
  <2>1. r \in Round /\ r.completed = rounds[h][p].completed
    BY <1>6 DEF Round
  <2>2. queue' = [queue EXCEPT ![h] = q] /\ rounds' = [rounds EXCEPT ![h][p] = s]
    BY Zenon, <1>2, <1>8 DEF SignPartial
  <2> HIDE DEF r
  <2>3. /\ s \in Round /\ (s.completed => p \in adopted[h])
        /\ s.payload /\ Missing(s) = {} => p \in adopted[h] \/ Working(q, p)
    BY Zenon, <1>3, <1>6, <2>1, OwnerWaitsRound, CompletesOrWorks
  <2>4. /\ Staged(Tail(queue[h])) \subseteq Staged(queue[h])
        /\ \A x : x # p /\ Working(queue[h], x) => Working(Tail(queue[h]), x)
    BY Zenon, <1>1, <1>2, TailWorks
  <2>5. /\ q \in Seq(Job) /\ Staged(q) \subseteq Staged(queue[h])
        /\ \A x : x # p /\ Working(queue[h], x) => Working(q, x)
    BY Zenon, <1>3, <2>4, QueuedType, QueuedWorks
  <2> HIDE DEF s, q
  <2> QED BY Zenon, <1>4, <1>5, <2>2, <2>3, <2>5, RoundStep
<1> QED BY <1>7, <1>8

LEMMA SignThrowsRounds ==
    ASSUME IInv, RInv, NEW h \in Hosts, queue[h] # << >>, SignThrows(h)
    PROVE  RInv'
<1>1. queue[h] \in Seq(Job)
  BY Zenon DEF IInv, TypeOK
<1>2. PICK p \in Payloads : p = Head(queue[h]).p
  BY Zenon, <1>1, QueueTypes DEF Job
<1>3. UNCHANGED <<head, ledger, adopted>>
  BY DEF SignThrows, durable
<1>4. rounds[h][p] \in Round /\ (rounds[h][p].completed => p \in adopted[h])
  BY Zenon DEF IInv, TypeOK, RInv, CompletedAdopted
<1>5. CASE Head(queue[h]).detached
  <2>1. queue' = [queue EXCEPT ![h] = Tail(queue[h])] /\ rounds' = rounds
    BY <1>5 DEF SignThrows
  <2>2. rounds' = [rounds EXCEPT ![h][p] = rounds[h][p]]
    BY <2>1, RoundUnchanged
  <2>3. /\ Staged(Tail(queue[h])) \subseteq Staged(queue[h])
        /\ \A x : Working(queue[h], x) => Working(Tail(queue[h]), x)
    BY Zenon, <1>1, <1>5, TailWorks
  <2>4. rounds[h][p].payload /\ Missing(rounds[h][p]) = {} =>
          p \in adopted[h] \/ rounds[h][p].proposing \/ rounds[h][p].failed \/ Working(Tail(queue[h]), p)
    BY Zenon, <2>3 DEF RInv, CompleteRoundTried
  <2>5. Tail(queue[h]) \in Seq(Job)
    BY Zenon, <1>1, QueueTypes
  <2> QED BY Zenon, <1>3, <1>4, <2>1, <2>2, <2>3, <2>4, <2>5, SignedNextKept, RoundStep
<1>6. CASE ~Head(queue[h]).detached
  <2> DEFINE s == Aborted(rounds[h][p])
             q == Detach(Tail(queue[h]), rounds[h][p], p)
  <2>1. rounds' = [rounds EXCEPT ![h][p] = s] /\ queue' = [queue EXCEPT ![h] = q]
    BY Zenon, <1>2, <1>6 DEF SignThrows
  <2>2. /\ s \in Round /\ (s.completed => p \in adopted[h])
        /\ s.payload => p \in adopted[h]
    BY Zenon, <1>4, RoundTypes DEF Aborted, NoRound
  <2>3. /\ q \in Seq(Job) /\ Staged(q) \subseteq Staged(queue[h])
        /\ \A x : x # p /\ Working(queue[h], x) => Working(q, x)
    BY Zenon, <1>2, HeadDetaches
  <2> HIDE DEF s, q
  <2> QED BY Zenon, <1>3, <2>1, <2>2, <2>3, SignedNextKept, RoundStep
<1> QED BY <1>5, <1>6

(* A merge at the head of the queue ends after its state was adopted.      *)
LEMMA AdoptedMergeEnds ==
    ASSUME IInv, RInv, NEW h \in Hosts, queue[h] # << >>, NEW p \in Payloads,
           p = Head(queue[h]).p, p \in adopted[h], NEW s \in Round,
           rounds' = [rounds EXCEPT ![h][p] = s],
           \/ queue' = [queue EXCEPT ![h] = Tail(queue[h])]
           \/ queue' = [queue EXCEPT ![h] = Detach(Tail(queue[h]), rounds[h][p], p)],
           UNCHANGED <<head, ledger, adopted>>
    PROVE  RInv'
<1>1. PICK q : /\ queue' = [queue EXCEPT ![h] = q]
               /\ q = Tail(queue[h]) \/ q = Detach(Tail(queue[h]), rounds[h][p], p)
  BY Zenon
<1>2. /\ q \in Seq(Job) /\ Staged(q) \subseteq Staged(queue[h])
      /\ \A x : x # p /\ Working(queue[h], x) => Working(q, x)
  BY Zenon, <1>1, HeadLeaves
<1> QED BY Zenon, <1>1, <1>2, SignedNextKept, RoundStep

LEMMA RoundKeptRounds ==
    ASSUME IInv, RInv, NEW h \in Hosts, queue[h] # << >>, RoundKept(h, TRUE),
           UNCHANGED <<head, ledger, adopted>>
    PROVE  RInv'
<1>1. queue[h] \in Seq(Job)
  BY Zenon DEF IInv, TypeOK
<1>2. PICK p \in Payloads : p = Head(queue[h]).p
  BY Zenon, <1>1, QueueTypes DEF Job
<1>0. PICK s \in Round : StaysAs(h, p, s, TRUE)
  BY Zenon, <1>2, KeptRound
<1>3. /\ rounds' = [rounds EXCEPT ![h][p] = s] /\ s.completed = rounds[h][p].completed
      /\ s.failed \/ (s = rounds[h][p] /\ Head(queue[h]).detached)
  BY Zenon, <1>0 DEF StaysAs
<1> DEFINE q == Tail(queue[h])
<1>4. queue' = [queue EXCEPT ![h] = q]
  BY Zenon, <1>2, KeptRound
<1>5. /\ q \in Seq(Job) /\ Staged(q) \subseteq Staged(queue[h])
      /\ \A x : x # p /\ Working(queue[h], x) => Working(q, x)
      /\ Head(queue[h]).detached => \A x : Working(queue[h], x) => Working(q, x)
  BY Zenon, <1>1, <1>2, QueueTypes, TailWorks
<1> HIDE DEF q
<1>6. s.completed => p \in adopted[h]
  BY Zenon, <1>3 DEF RInv, CompletedAdopted
<1>7. s.payload /\ Missing(s) = {} =>
        p \in adopted[h] \/ s.proposing \/ s.failed \/ Working(q, p)
  BY Zenon, <1>3, <1>5 DEF RInv, CompleteRoundTried
<1> QED BY Zenon, <1>3, <1>4, <1>5, <1>6, <1>7, SignedNextKept, RoundStep

LEMMA MergeThrowsRounds ==
    ASSUME IInv, RInv, NEW h \in Hosts, queue[h] # << >>, NEW fault \in BOOLEAN,
           MergeThrows(h, fault), fault \/ Head(queue[h]).p \in adopted[h]
    PROVE  RInv'
<1>1. queue[h] \in Seq(Job)
  BY Zenon DEF IInv, TypeOK
<1>2. PICK p \in Payloads : p = Head(queue[h]).p
  BY Zenon, <1>1, QueueTypes DEF Job
<1>3. UNCHANGED <<head, ledger, adopted>>
  BY Zenon DEF MergeThrows, durable
<1>4. CASE ~(rounds[h][p].owned /\ ~Head(queue[h]).detached)
  <2>1. RoundKept(h, fault)
    BY Zenon, <1>2, <1>4 DEF MergeThrows
  <2>2. CASE fault
    <3>1. fault = TRUE
      BY <2>2
    <3> QED BY Zenon, <1>3, <2>1, <3>1, RoundKeptRounds
  <2>3. CASE ~fault
    <3>0. PICK s \in Round : StaysAs(h, p, s, fault)
      BY <1>2, <2>1, KeptRound
    <3>1. rounds' = [rounds EXCEPT ![h][p] = s]
      BY Zenon, <3>0 DEF StaysAs
    <3>2. queue' = [queue EXCEPT ![h] = Tail(queue[h])]
      BY Zenon, <1>2, <2>1, KeptRound
    <3> QED BY Zenon, <1>2, <1>3, <2>3, <3>1, <3>2, AdoptedMergeEnds
  <2> QED BY Zenon, <2>2, <2>3
<1>5. CASE rounds[h][p].owned /\ ~Head(queue[h]).detached
  <2> DEFINE q == Detach(Tail(queue[h]), rounds[h][p], p)
  <2>1. rounds' = [rounds EXCEPT ![h][p] = NoRound] /\ queue' = [queue EXCEPT ![h] = q]
    BY Zenon, <1>2, <1>5 DEF MergeThrows
  <2>2. NoRound \in Round /\ ~NoRound.completed /\ ~NoRound.payload
    BY Zenon DEF NoRound, Round
  <2>3. /\ q \in Seq(Job) /\ Staged(q) \subseteq Staged(queue[h])
        /\ \A x : x # p /\ Working(queue[h], x) => Working(q, x)
    BY Zenon, <1>2, HeadDetaches
  <2> HIDE DEF q
  <2> QED BY Zenon, <1>3, <2>1, <2>2, <2>3, SignedNextKept, RoundStep
<1> QED BY Zenon, <1>4, <1>5

(* A merge of the head is past its adoption: its state was adopted.        *)
LEMMA StagedHead ==
    ASSUME IInv, RInv, NEW h \in Hosts, Running(h, "merge", "adopted")
    PROVE  queue[h] # << >> /\ Head(queue[h]).p \in adopted[h]
<1>1. queue[h] \in Seq(Job) /\ queue[h] # << >> /\ Head(queue[h]).stage = "adopted"
  BY Zenon DEF IInv, TypeOK, Running
<1>2. Head(queue[h]) = queue[h][1] /\ 1 \in DOMAIN queue[h]
  BY <1>1
<1>3. Head(queue[h]).p \in Staged(queue[h])
  BY Zenon, <1>1, <1>2 DEF Staged
<1> QED BY Zenon, <1>1, <1>3 DEF RInv, StagedAdopted

(* The gate refuses a fully signed payload only after its adoption.        *)
LEMMA RefusedHead ==
    ASSUME IInv, RInv, NEW h \in Hosts, MergeRefused(h)
    PROVE  queue[h] # << >> /\ Head(queue[h]).p \in adopted[h]
<1>1. queue[h] \in Seq(Job) /\ queue[h] # << >> /\ Head(queue[h]).kind = "merge"
  BY Zenon DEF IInv, TypeOK, MergeRefused, Running
<1>2. PICK p \in Payloads : p = Head(queue[h]).p
  BY Zenon, <1>1, QueueTypes DEF Job
<1>3. Signed(h, p)
  BY Zenon, <1>1, <1>2, MergesOfHead DEF IInv, MergesSigned, FullySigned
<1>4. PrevState[p] # head[h]
  BY Zenon, <1>2 DEF MergeRefused, CosignGate
<1> QED BY Zenon, <1>1, <1>2, <1>3, <1>4 DEF RInv, SignedNext

LEMMA JobFailsRounds ==
    ASSUME IInv, RInv, NEW h \in Hosts,
           SignRefused(h) \/ SignFails(h) \/ MergeRefused(h) \/ MergeFails(h) \/ PublishFails(h)
    PROVE  RInv'
<1>1. CASE SignRefused(h) \/ SignFails(h)
  BY Zenon, <1>1, SignThrowsRounds DEF SignRefused, SignFails, Running
<1>2. CASE MergeRefused(h)
  <2>1. MergeThrows(h, FALSE)
    BY Zenon, <1>2 DEF MergeRefused
  <2> QED BY Zenon, <1>2, <2>1, RefusedHead, MergeThrowsRounds
<1>3. CASE PublishFails(h)
  <2>1. MergeThrows(h, FALSE) /\ Running(h, "merge", "adopted")
    BY Zenon, <1>3 DEF PublishFails
  <2> QED BY Zenon, <2>1, StagedHead, MergeThrowsRounds
<1>4. CASE MergeFails(h)
  <2>1. queue[h] # << >> /\ (MergeThrows(h, TRUE) \/ MergeIncomplete(h))
    BY Zenon, <1>4 DEF MergeFails, Running
  <2>2. CASE MergeIncomplete(h)
    <3>1. RoundKept(h, TRUE) /\ UNCHANGED <<head, ledger, adopted>>
      BY Zenon, <2>2 DEF MergeIncomplete, durable
    <3> QED BY Zenon, <2>1, <3>1, RoundKeptRounds
  <2> QED BY Zenon, <2>1, <2>2, MergeThrowsRounds
<1> QED BY <1>1, <1>2, <1>3, <1>4

LEMMA MergeDoneRounds ==
    ASSUME IInv, RInv, NEW h \in Hosts, MergeDone(h)
    PROVE  RInv'
<1>1. queue[h] # << >> /\ Head(queue[h]).p \in adopted[h] /\ queue[h] \in Seq(Job)
  BY StagedHead DEF MergeDone, IInv, TypeOK
<1>2. PICK p \in Payloads : p = Head(queue[h]).p
  BY Zenon, <1>1, QueueTypes DEF Job
<1>3. rounds[h][p] \in Round
  BY DEF IInv, TypeOK
<1>4. PICK s \in Round : rounds' = [rounds EXCEPT ![h][p] = s]
  <2> DEFINE r == [rounds[h][p] EXCEPT !.completed = TRUE, !.warned = FALSE,
                                       !.timed = FALSE, !.owned = FALSE, !.waiting = FALSE]
  <2>1. r \in Round
    BY Zenon, <1>3 DEF Round
  <2>2. rounds' = rounds \/ rounds' = [rounds EXCEPT ![h][p] = r]
    BY <1>2 DEF MergeDone
  <2> HIDE DEF r
  <2> QED BY <1>3, <2>1, <2>2, RoundUnchanged
<1>5. /\ UNCHANGED <<head, ledger, adopted>>
      /\ queue' = [queue EXCEPT ![h] = Tail(queue[h])]
  BY DEF MergeDone
<1> QED BY Zenon, <1>1, <1>2, <1>4, <1>5, AdoptedMergeEnds

(* The adopted state is the one successor of the old head that h signed.   *)
LEMMA MergeAdoptRounds ==
    ASSUME IInv, RInv, NEW h \in Hosts, MergeAdopt(h)
    PROVE  RInv'
<1>1. queue[h] \in Seq(Job) /\ queue \in [Hosts -> Seq(Job)] /\ queue[h] # << >>
      /\ Head(queue[h]).kind = "merge"
  BY DEF IInv, TypeOK, MergeAdopt, Running
<1>2. PICK p \in Payloads : p = Head(queue[h]).p
  BY Zenon, <1>1, QueueTypes DEF Job
<1>3. Signed(h, p)
  BY Zenon, <1>1, <1>2, MergesOfHead DEF IInv, MergesSigned, FullySigned
<1>4. /\ PrevState[p] = head[h] /\ head' = [head EXCEPT ![h] = p]
      /\ adopted' = [adopted EXCEPT ![h] = adopted[h] \cup {p}]
      /\ UNCHANGED <<ledger, rounds>>
  BY <1>2 DEF MergeAdopt, CosignGate
<1>5. \A k \in Hosts : /\ adopted'[k] = IF k = h THEN adopted[k] \cup {p} ELSE adopted[k]
                       /\ head'[k] = IF k = h THEN p ELSE head[k]
  BY Zenon, <1>4 DEF IInv, TypeOK
<1>6. SignedNext'
  <2> SUFFICES ASSUME NEW k \in Hosts, NEW x \in Payloads, Signed(k, x)
               PROVE  PrevState[x] = head'[k] \/ x \in adopted'[k]
    BY Zenon, <1>4 DEF SignedNext, Signed
  <2>1. PrevState[x] = head[k] \/ x \in adopted[k]
    BY Zenon DEF RInv, SignedNext
  <2>2. k = h /\ PrevState[x] = head[k] => x = p
    BY Zenon, <1>3, <1>4 DEF Signed
  <2> QED BY Zenon, <1>5, <2>1, <2>2
<1>7. CompletedAdopted'
  BY <1>4, <1>5 DEF RInv, CompletedAdopted
<1>8. PICK q \in Seq(Job) :
        /\ queue' = [queue EXCEPT ![h] = q]
        /\ Staged(q) \subseteq Staged(queue[h]) \cup {p}
        /\ \A x : Working(queue[h], x) => Working(q, x)
  <2> DEFINE j == [queue[h][1] EXCEPT !.stage = "adopted"]
             q == [queue[h] EXCEPT ![1] = j]
  <2>1. 1 \in DOMAIN queue[h] /\ queue[h][1] \in Job /\ queue[h][1].p = p
    BY <1>1, <1>2
  <2>2. /\ j \in Job /\ j.kind = queue[h][1].kind /\ j.p = p
        /\ ~queue[h][1].detached => ~j.detached
    BY <2>1 DEF Job
  <2>3. queue' = [queue EXCEPT ![h] = q]
    BY <1>1, <2>1 DEF MergeAdopt
  <2> HIDE DEF j
  <2>4. q \in Seq(Job) /\ DOMAIN q = DOMAIN queue[h]
        /\ \A i \in DOMAIN q : q[i] = IF i = 1 THEN j ELSE queue[h][i]
    BY <1>1, <2>1, <2>2
  <2> HIDE DEF q
  <2>5. Staged(q) \subseteq Staged(queue[h]) \cup {p}
    BY <2>2, <2>4 DEF Staged
  <2>6. \A x : Working(queue[h], x) => Working(q, x)
    BY <2>1, <2>2, <2>4 DEF Working
  <2> QED BY Zenon, <2>3, <2>4, <2>5, <2>6
<1>9. \A k \in Hosts : queue'[k] = IF k = h THEN q ELSE queue[k]
  BY Zenon, <1>1, <1>8, QueueUpdate
<1>10. StagedAdopted'
  BY Zenon, <1>5, <1>8, <1>9 DEF RInv, StagedAdopted
<1>11. CompleteRoundTried'
  <2> SUFFICES ASSUME NEW k \in Hosts, NEW x \in Payloads,
                      rounds[k][x].payload, Missing(rounds[k][x]) = {}
               PROVE  \/ x \in adopted'[k] \/ rounds[k][x].proposing
                      \/ rounds[k][x].failed \/ Working(queue'[k], x)
    BY <1>4 DEF CompleteRoundTried, Missing, Working
  <2>1. x \in adopted[k] \/ rounds[k][x].proposing \/ rounds[k][x].failed \/ Working(queue[k], x)
    BY Zenon DEF RInv, CompleteRoundTried
  <2>2. Working(queue[k], x) => Working(queue'[k], x)
    BY Zenon, <1>8, <1>9
  <2> QED BY Zenon, <1>5, <2>1, <2>2
<1> QED BY <1>6, <1>7, <1>10, <1>11 DEF RInv

(* A close leaves the queue: it was no worker of any round.                *)
LEMMA CloseRounds ==
    ASSUME IInv, RInv, NEW h \in Hosts, AutoClose(h) \/ AutoCloseFails(h)
    PROVE  RInv'
<1>1. queue[h] \in Seq(Job) /\ queue[h] # << >> /\ Head(queue[h]).kind = "close"
  BY Zenon DEF IInv, TypeOK, AutoClose, AutoCloseFails, Running
<1>2. PICK p \in Payloads : p = Head(queue[h]).p
  BY Zenon, <1>1, QueueTypes DEF Job
<1>3. UNCHANGED <<head, ledger, adopted, rounds>>
      /\ queue' = [queue EXCEPT ![h] = Tail(queue[h])]
  BY Zenon DEF AutoClose, AutoCloseFails, durable
<1>4. rounds' = [rounds EXCEPT ![h][p] = rounds[h][p]] /\ rounds[h][p] \in Round
  BY Zenon, <1>3, RoundUnchanged
<1>5. /\ Staged(Tail(queue[h])) \subseteq Staged(queue[h])
      /\ \A x : Working(queue[h], x) => Working(Tail(queue[h]), x)
  BY Zenon, <1>1, TailWorks
<1>6. Tail(queue[h]) \in Seq(Job)
  BY <1>1, QueueTypes
<1>7. /\ rounds[h][p].completed => p \in adopted[h]
      /\ rounds[h][p].payload /\ Missing(rounds[h][p]) = {} =>
            p \in adopted[h] \/ rounds[h][p].proposing \/ rounds[h][p].failed \/ Working(Tail(queue[h]), p)
  BY Zenon, <1>5 DEF RInv, CompletedAdopted, CompleteRoundTried
<1> QED BY Zenon, <1>3, <1>4, <1>5, <1>6, <1>7, SignedNextKept, RoundStep

(* tryComplete on a round that a timer or a signature has changed.         *)
LEMMA TryCompleteRounds ==
    ASSUME IInv, RInv, NEW h \in Hosts, NEW p \in Payloads, NEW r \in Round, NEW s \in Round,
           r.completed => p \in adopted[h],
           s.completed => r.completed, s.payload => r.payload, s.sigs = r.sigs,
           rounds' = [rounds EXCEPT ![h][p] = s],
           queue' = [queue EXCEPT ![h] = Queued(queue[h], r, p)],
           UNCHANGED <<head, ledger, adopted>>
    PROVE  RInv'
<1>1. queue[h] \in Seq(Job)
  BY Zenon DEF IInv, TypeOK
<1> DEFINE q == Queued(queue[h], r, p)
<1>2. /\ q \in Seq(Job) /\ Staged(q) \subseteq Staged(queue[h])
      /\ \A x : Working(queue[h], x) => Working(q, x)
  BY Zenon, <1>1, QueuedType, QueuedWorks
<1>3. r.payload /\ Missing(r) = {} => p \in adopted[h] \/ Working(q, p)
  BY Zenon, <1>1, CompletesOrWorks
<1>4. s.payload /\ Missing(s) = {} => p \in adopted[h] \/ Working(q, p)
  BY Zenon, <1>3 DEF Missing
<1> HIDE DEF q
<1>5. queue' = [queue EXCEPT ![h] = q]
  BY DEF q
<1> QED BY Zenon, <1>2, <1>4, <1>5, SignedNextKept, RoundStep

LEMMA OnSignatureRounds ==
    ASSUME IInv, RInv, NEW h \in Hosts, NEW p \in Payloads, OnSignature(h, p)
    PROVE  RInv'
<1>1. rounds[h][p] \in Round /\ msgs \subseteq Message
  BY DEF IInv, TypeOK
<1>2. PICK m \in msgs :
        /\ m.type = "signature"
        /\ LET r == [rounds[h][p] EXCEPT !.open = TRUE, !.sigs = @ \cup {m.slot}]
           IN  /\ rounds' = [rounds EXCEPT ![h][p] = r]
               /\ queue' = [queue EXCEPT ![h] = Queued(queue[h], r, p)]
        /\ UNCHANGED <<head, ledger, adopted>>
  BY Zenon DEF OnSignature, durable
<1>3. m.slot \in Hosts
  BY <1>1, <1>2 DEF Message
<1> DEFINE r == [rounds[h][p] EXCEPT !.open = TRUE, !.sigs = @ \cup {m.slot}]
<1>4. r \in Round /\ (r.completed => rounds[h][p].completed)
  BY Zenon, <1>1, <1>3 DEF Round
<1>5. /\ rounds' = [rounds EXCEPT ![h][p] = r]
      /\ queue' = [queue EXCEPT ![h] = Queued(queue[h], r, p)]
  BY <1>2
<1> HIDE DEF r
<1>6. r.completed => p \in adopted[h]
  BY Zenon, <1>4 DEF RInv, CompletedAdopted
<1> QED BY Zenon, <1>2, <1>4, <1>5, <1>6, TryCompleteRounds

LEMMA WarnRounds ==
    ASSUME IInv, RInv, NEW h \in Hosts, NEW p \in Payloads, Warn(h, p)
    PROVE  RInv'
<1>1. UNCHANGED <<head, ledger, adopted, rounds>>
  BY Zenon DEF Warn, durable
<1>2. CASE Missing(rounds[h][p]) = {}
  <2>1. queue' = [queue EXCEPT ![h] = Queued(queue[h], rounds[h][p], p)]
    BY Zenon, <1>2 DEF Warn
  <2>2. rounds' = [rounds EXCEPT ![h][p] = rounds[h][p]] /\ rounds[h][p] \in Round
    BY Zenon, <1>1, RoundUnchanged
  <2>3. rounds[h][p].completed => p \in adopted[h]
    BY Zenon DEF RInv, CompletedAdopted
  <2> QED BY Zenon, <1>1, <2>1, <2>2, <2>3, TryCompleteRounds
<1>3. CASE Missing(rounds[h][p]) # {}
  <2>1. queue' = queue
    BY Zenon, <1>3 DEF Warn
  <2> QED BY <1>1, <2>1, RoundsKept
<1> QED BY <1>2, <1>3

LEMMA HaltRoundRounds ==
    ASSUME IInv, RInv, NEW h \in Hosts, NEW p \in Payloads, HaltRound(h, p)
    PROVE  RInv'
<1>1. rounds[h][p] \in Round /\ queue[h] \in Seq(Job) /\ queue \in [Hosts -> Seq(Job)]
  BY DEF IInv, TypeOK
<1>2. UNCHANGED <<head, ledger, adopted>>
  BY DEF HaltRound
<1>3. rounds[h][p].completed => p \in adopted[h]
  BY DEF RInv, CompletedAdopted
<1>4. CASE Missing(rounds[h][p]) = {}
  <2> DEFINE s == [rounds[h][p] EXCEPT !.timed = FALSE]
  <2>1. /\ s \in Round /\ s.sigs = rounds[h][p].sigs
        /\ s.completed => rounds[h][p].completed
        /\ s.payload => rounds[h][p].payload
    BY Zenon, <1>1 DEF Round
  <2>2. /\ rounds' = [rounds EXCEPT ![h][p] = s]
        /\ queue' = [queue EXCEPT ![h] = Queued(queue[h], rounds[h][p], p)]
    BY <1>4 DEF HaltRound
  <2> HIDE DEF s
  <2> QED BY Zenon, <1>1, <1>2, <1>3, <2>1, <2>2, TryCompleteRounds
<1>5. CASE Missing(rounds[h][p]) # {}
  <2> DEFINE s == [rounds[h][p] EXCEPT !.timed = FALSE, !.waiting = FALSE]
  <2>1. /\ s \in Round /\ Missing(s) # {}
        /\ s.completed => rounds[h][p].completed
    BY Zenon, <1>1, <1>5 DEF Round, Missing
  <2>2. rounds' = [rounds EXCEPT ![h][p] = s] /\ queue' = queue
    BY <1>5 DEF HaltRound
  <2> HIDE DEF s
  <2>3. queue' = [queue EXCEPT ![h] = queue[h]]
    BY <1>1, <2>2
  <2> QED BY Zenon, <1>1, <1>2, <1>3, <2>1, <2>2, <2>3, SignedNextKept, RoundStep
<1> QED BY <1>4, <1>5

LEMMA TickRounds ==
    ASSUME IInv, RInv, NEW h \in Hosts, Tick(h)
    PROVE  RInv'
<1>1. queue[h] \in Seq(Job) /\ halt[h] \in Halt
  BY DEF IInv, TypeOK
<1>2. PICK p \in Payloads : p = halt[h].digest
  BY Zenon, <1>1 DEF Tick, Halted, NoHalt, HaltFor, Halt
<1> DEFINE j == NewJob("close", p)
           q == Append(queue[h], j)
<1>3. j \in Job /\ j.stage = "queued"
  BY Zenon, NewJobType DEF NewJob
<1>4. queue' = [queue EXCEPT ![h] = q] /\ UNCHANGED <<head, ledger, adopted, rounds>>
  BY Zenon, <1>2 DEF Tick, durable
<1> HIDE DEF j
<1>5. /\ q \in Seq(Job) /\ Staged(q) \subseteq Staged(queue[h])
      /\ \A x : Working(queue[h], x) => Working(q, x)
  BY <1>1, <1>3, AppendWorks
<1> HIDE DEF q
<1>6. rounds' = [rounds EXCEPT ![h][p] = rounds[h][p]] /\ rounds[h][p] \in Round
  BY <1>4, RoundUnchanged
<1>7. /\ rounds[h][p].completed => p \in adopted[h]
      /\ rounds[h][p].payload /\ Missing(rounds[h][p]) = {} =>
            p \in adopted[h] \/ rounds[h][p].proposing \/ rounds[h][p].failed \/ Working(q, p)
  BY Zenon, <1>5 DEF RInv, CompletedAdopted, CompleteRoundTried
<1> QED BY Zenon, <1>4, <1>5, <1>6, <1>7, SignedNextKept, RoundStep

LEMMA RestartRounds ==
    ASSUME IInv, RInv, NEW h \in Hosts, Restart(h)
    PROVE  RInv'
<1>1. UNCHANGED <<head, ledger, adopted>>
  BY DEF Restart, durable
<1>2. ~NoRound.payload /\ ~NoRound.completed
  BY Zenon DEF NoRound
<1>3. \A k \in Hosts, x \in Payloads :
         rounds'[k][x] = IF k = h THEN NoRound ELSE rounds[k][x]
  BY Zenon DEF Restart, IInv, TypeOK
<1>4. \A k \in Hosts : queue'[k] = IF k = h THEN << >> ELSE queue[k]
  BY Zenon DEF Restart, IInv, TypeOK
<1>5. Staged(<< >>) = {}
  BY DEF Staged
<1>6. CompletedAdopted' /\ StagedAdopted'
  BY <1>1, <1>2, <1>3, <1>4, <1>5 DEF RInv, CompletedAdopted, StagedAdopted
<1>7. CompleteRoundTried'
  <2> SUFFICES ASSUME NEW k \in Hosts, NEW x \in Payloads,
                      rounds'[k][x].payload, Missing(rounds'[k][x]) = {}
               PROVE  \/ x \in adopted'[k] \/ rounds'[k][x].proposing
                      \/ rounds'[k][x].failed \/ Working(queue'[k], x)
    BY DEF CompleteRoundTried, Missing, Working
  <2>1. k # h /\ rounds'[k][x] = rounds[k][x] /\ queue'[k] = queue[k]
    BY <1>2, <1>3, <1>4
  <2>2. x \in adopted[k] \/ rounds[k][x].proposing \/ rounds[k][x].failed \/ Working(queue[k], x)
    BY Zenon, <2>1 DEF RInv, CompleteRoundTried
  <2> QED BY Zenon, <1>1, <2>1, <2>2
<1> QED BY <1>1, <1>6, <1>7, SignedNextKept DEF RInv

LEMMA NextRounds == IInv /\ RInv /\ [Next]_vars => RInv'
<1> SUFFICES ASSUME IInv, RInv, [Next]_vars PROVE RInv'
  OBVIOUS
<1>1. CASE Lose
  <2>1. UNCHANGED <<head, ledger, adopted, rounds, queue>>
    BY <1>1 DEF Lose, durable
  <2> QED BY <2>1, RoundsKept
<1>2. ASSUME NEW h \in Hosts, RunJob(h) PROVE RInv'
  BY Zenon, <1>2, SignPartialRounds, JobFailsRounds, MergeAdoptRounds, MergeDoneRounds,
     CloseRounds DEF RunJob
<1>3. ASSUME NEW h \in Hosts, SignFails(h) \/ MergeFails(h) \/ PublishFails(h)
                              \/ Restart(h) \/ Tick(h)
      PROVE  RInv'
  BY <1>3, JobFailsRounds, RestartRounds, TickRounds
<1>4. ASSUME NEW h \in Hosts, NEW p \in Payloads, OnHalt(h, p) PROVE RInv'
  <2>1. UNCHANGED <<head, ledger, adopted, rounds, queue>>
    BY Zenon, <1>4 DEF OnHalt
  <2> QED BY <2>1, RoundsKept
<1>5. ASSUME NEW h \in Hosts, NEW p \in Payloads,
             \/ Cosign(h, p) \/ CosignSign(h, p)
             \/ Deliver(h, p) \/ Warn(h, p) \/ HaltRound(h, p)
      PROVE  RInv'
  BY Zenon, <1>4, <1>5, CosignRounds, CosignSignRounds, OnProposeRounds, OnSignatureRounds,
     WarnRounds, HaltRoundRounds DEF Deliver
<1>6. CASE UNCHANGED vars
  <2>1. UNCHANGED <<head, ledger, adopted, rounds, queue>>
    BY <1>6 DEF vars, durable
  <2> QED BY <2>1, RoundsKept
<1> QED BY Zenon, <1>1, <1>2, <1>3, <1>5, <1>6 DEF Next

-----------------------------------------------------------------------------
(* The inductive invariant: a signature that is pooled, posted or used by  *)
(* a merge is in the ledger of the slot that made it (cosign-partial       *)
(* records it before it is sent), and every adopted head is fully signed.  *)
THEOREM ClusterInvariance == Spec => []IInv
BY InitInv, NextInv, PTL DEF Spec

(* Two adopted successors of one state are both in the ledger of every     *)
(* slot, which holds one successor per state.                              *)
LEMMA LedgersExcludeForks == IInv => NoFork
<1> SUFFICES ASSUME IInv, NEW h \in Hosts, NEW k \in Hosts,
                    NEW s \in adopted[h], NEW t \in adopted[k],
                    s \in Payloads, t \in Payloads, PrevState[s] = PrevState[t]
             PROVE  s = t
  BY Zenon DEF NoFork
<1>1. FullySigned(s) /\ FullySigned(t)
  BY Zenon DEF IInv, AdoptedSigned
<1> QED BY Zenon, <1>1 DEF FullySigned, Signed

(* For any number of slots and payloads, whatever is lost, repeated or     *)
(* reordered and whoever restarts: no two hosts adopt different successors *)
(* of one state (cosign-merge over the anti-equivocation ledger).          *)
THEOREM AdoptedChainNeverForks == Spec => []NoFork
BY ClusterInvariance, LedgersExcludeForks, PTL

(* For any number of slots and payloads, onAutoClose closes only at a      *)
(* state that every slot has signed.                                       *)
THEOREM ClosesAtSignedState == Spec => []ClosesFullySigned
<1>1. IInv => ClosesFullySigned
  BY DEF IInv
<1> QED BY <1>1, ClusterInvariance, PTL

(* For any number of slots and payloads, no round with its payload and     *)
(* every signature is left untried: it has a job under the lock, an owner  *)
(* that has yet to call tryComplete, an adopted state, or a merge of its   *)
(* own that failed.                                                        *)
THEOREM CompleteRoundsAreTried == Spec => []CompleteRoundTried
<1>1. RInv => CompleteRoundTried
  BY DEF RInv
<1>2. Spec => []RInv
  BY ClusterInvariance, InitRounds, NextRounds, PTL DEF Spec
<1> QED BY <1>1, <1>2, PTL
=============================================================================
