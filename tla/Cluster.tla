------------------------------- MODULE Cluster -------------------------------
(***************************************************************************)
(* Co-signing of one channel by a cluster of hosts: api/lib/cluster.js, as *)
(* the relay wires it (hosting/wallet/wallet-relay.js), on the commands    *)
(* cosign-partial and cosign-merge of channel_member.rs.  Every host holds *)
(* one cosigner slot.  A payload stands for the successor state it         *)
(* proposes; PrevState gives the state it extends.                         *)
(*                                                                         *)
(* head, ledger and halt are files and survive a restart; rounds and the   *)
(* channel's lock queue live in the relay's memory.                        *)
(***************************************************************************)
EXTENDS Naturals, Sequences, FiniteSets

CONSTANTS
    Hosts,             \* hosts of the cluster, one slot each
    Payloads,          \* proposals of wallets, named by the state proposed
    Genesis,           \* the first fully signed state
    PrevState,         \* payload -> the state it extends
    None,              \* no state
    MaxSubmits,        \* bound: how often wallets submit one payload
    MaxEvents          \* bound: restarts, failed commands, failed posts and
                       \* automatic closes together

States == Payloads \cup {Genesis}

ASSUME ClusterAssumption ==
    /\ Genesis \notin Payloads
    /\ None \notin States
    /\ PrevState \in [Payloads -> States]
    /\ Hosts # {}
    /\ MaxSubmits \in Nat /\ MaxEvents \in Nat

VARIABLES
    head,              \* host -> snapshot.state of cli_state.json
    ledger,            \* host -> predecessor -> the successor its slot signed
    halt,              \* host -> cluster_halt.json
    rounds,            \* host -> payload -> round
    queue,             \* host -> jobs waiting for withLock, the first one runs
    msgs,              \* posts that will reach their host
    adopted,           \* history: host -> states that were its head
    submits, events    \* bounded counters

durable  == <<head, ledger, halt, adopted>>
counters == <<submits, events>>
vars == <<durable, rounds, queue, msgs, counters>>

(* cluster_halt.json: the stalled round, and the state of the automatic    *)
(* close once it has been made (closedAt, close).                          *)
HaltFor(p) == [digest |-> p, closedAt |-> None]
NoHalt == HaltFor(None)

(* rounds[ch][nextDigest].  warned: the repeating warning timer is armed;  *)
(* timed: the halt timer is armed; proposing: cosign awaits the answers to *)
(* its proposal; owned: an owner of the round (cosign, onPropose) awaits   *)
(* the merge, and drops the round if it fails; waiting: a wallet's request *)
(* waits for the result; failed: a merge failed for a reason of its own    *)
(* before it adopted the state, and the round was kept.                    *)
NoRound == [open |-> FALSE, payload |-> FALSE, sigs |-> {}, signed |-> FALSE,
            completed |-> FALSE, warned |-> FALSE, timed |-> FALSE,
            proposing |-> FALSE, owned |-> FALSE, waiting |-> FALSE,
            failed |-> FALSE]

Round == [open : BOOLEAN, payload : BOOLEAN, sigs : SUBSET Hosts,
          signed : BOOLEAN, completed : BOOLEAN, warned : BOOLEAN,
          timed : BOOLEAN, proposing : BOOLEAN, owned : BOOLEAN,
          waiting : BOOLEAN, failed : BOOLEAN]

Halt == [digest : Payloads \cup {None}, closedAt : States \cup {None}]

(* A job under the lock.  A merge holds the lock from the adoption of the  *)
(* head until that head is published (stage "adopted").  detached: the     *)
(* round was dropped while the job was waiting.                            *)
Job == [kind : {"sign", "merge", "close"}, p : Payloads,
        stage : {"queued", "adopted"}, detached : BOOLEAN]

NewJob(kind, p) ==
    [kind |-> kind, p |-> p, stage |-> "queued", detached |-> FALSE]

(* What is posted to the peers: a proposal, the signature of a slot, the   *)
(* announcement of a halt.                                                 *)
Message ==
    [type : {"propose", "halt"}, from : Hosts, to : Hosts, p : Payloads]
    \cup [type : {"signature"}, to : Hosts, p : Payloads, slot : Hosts]

Broadcast(type, h, p) ==
    msgs' = msgs \cup [type : {type}, from : {h}, to : Hosts \ {h}, p : {p}]

Signatures(slots, to, p) ==
    [type : {"signature"}, to : to, p : {p}, slot : slots]

(* Every post of host h's proposal was answered or failed.                 *)
ProposalAnswered(h, p) ==
    \A m \in msgs : ~(m.type = "propose" /\ m.from = h /\ m.p = p)

Halted(h) == halt[h] # NoHalt

Missing(r) == Hosts \ r.sigs

OpenRound(r) ==
    IF r.open THEN [r EXCEPT !.payload = TRUE]
    ELSE [NoRound EXCEPT !.open = TRUE, !.payload = TRUE,
                         !.warned = TRUE, !.timed = TRUE]

Merging(q, p) ==
    \E i \in DOMAIN q : q[i].kind = "merge" /\ q[i].p = p /\ ~q[i].detached

CanMerge(r) == r.payload /\ ~r.completed /\ Missing(r) = {}

(* tryComplete: what it does to the lock queue and to the round.           *)
Queued(q, r, p) ==
    IF CanMerge(r) /\ ~Merging(q, p) THEN Append(q, NewJob("merge", p)) ELSE q

OwnerWaits(r) == [r EXCEPT !.owned = @ \/ CanMerge(r)]

(* abortRound: timers cleared, waiters rejected, the round deleted; jobs   *)
(* that still refer to it go on without it.                                *)
Aborted(r) == IF r.completed THEN r ELSE NoRound

Detach(q, r, p) ==
    IF r.completed THEN q
    ELSE [i \in DOMAIN q |-> [q[i] EXCEPT !.detached = @ \/ q[i].p = p]]

-----------------------------------------------------------------------------
Init ==
    /\ head = [h \in Hosts |-> Genesis]
    /\ ledger = [h \in Hosts |-> [s \in States |-> None]]
    /\ halt = [h \in Hosts |-> NoHalt]
    /\ adopted = [h \in Hosts |-> {Genesis}]
    /\ rounds = [h \in Hosts |-> [p \in Payloads |-> NoRound]]
    /\ queue = [h \in Hosts |-> << >>]
    /\ msgs = {}
    /\ submits = [p \in Payloads |-> 0]
    /\ events = 0

(* A wallet's request reaches host h (drainCosignWindow admits only a      *)
(* payload that extends the head) and cosign opens the round.              *)
Cosign(h, p) ==
    /\ submits[p] < MaxSubmits
    /\ ~Halted(h)
    /\ PrevState[p] = head[h]
    /\ ~rounds[h][p].waiting
    /\ submits' = [submits EXCEPT ![p] = @ + 1]
    /\ rounds' = [rounds EXCEPT ![h][p] =
                    [OpenRound(@) EXCEPT !.waiting = TRUE, !.proposing = TRUE]]
    /\ Broadcast("propose", h, p)
    /\ UNCHANGED <<durable, queue, events>>

(* signOwn: once per round; a second owner goes on to tryComplete.         *)
SignOwn(h, p, r) ==
    IF r.signed
    THEN /\ queue' = [queue EXCEPT ![h] = Queued(@, r, p)]
         /\ rounds' = [rounds EXCEPT ![h][p] = OwnerWaits(r)]
    ELSE /\ queue' = [queue EXCEPT ![h] = Append(@, NewJob("sign", p))]
         /\ rounds' = [rounds EXCEPT ![h][p] = [r EXCEPT !.signed = TRUE]]

(* cosign continues when the posts of its proposal have been answered.     *)
CosignSign(h, p) ==
    /\ rounds[h][p].proposing
    /\ ProposalAnswered(h, p)
    /\ SignOwn(h, p, [rounds[h][p] EXCEPT !.proposing = FALSE])
    /\ UNCHANGED <<durable, msgs, counters>>

OnPropose(h, p) ==
    \E m \in msgs :
        /\ m.type = "propose" /\ m.to = h /\ m.p = p
        /\ msgs' = msgs \ {m}
        /\ IF Halted(h) THEN UNCHANGED <<rounds, queue>>
           ELSE SignOwn(h, p, OpenRound(rounds[h][p]))
        /\ UNCHANGED <<durable, counters>>

Running(h, kind, stage) ==
    queue[h] # << >> /\ Head(queue[h]).kind = kind
                     /\ Head(queue[h]).stage = stage

(* cosign_gate: the payload extends this host's head.                      *)
CosignGate(h, p) == PrevState[p] = head[h]

(* Forgets what was signed before: a faulty form of LedgerAdmits.          *)
LedgerForgets(h, p) == TRUE

(* The anti-equivocation ledger: one successor per predecessor and slot.   *)
LedgerAdmits(h, p) == ledger[h][PrevState[p]] \in {None, p}

(* cosign-partial signs, records the signature, and it is sent to all; the *)
(* owner then tries to complete the round (its wait for the answers of the *)
(* peers is left out: a signature that comes in meanwhile does the same).  *)
SignPartial(h) ==
    /\ Running(h, "sign", "queued")
    /\ LET p == Head(queue[h]).p
           r == [rounds[h][p] EXCEPT !.sigs = @ \cup {h}]
       IN  /\ CosignGate(h, p) /\ LedgerAdmits(h, p)
           /\ ledger' = [ledger EXCEPT ![h][PrevState[p]] = p]
           /\ IF Head(queue[h]).detached
              THEN /\ queue' = [queue EXCEPT ![h] = Tail(@)]
                   /\ UNCHANGED rounds
              ELSE /\ queue' = [queue EXCEPT ![h] = Queued(Tail(@), r, p)]
                   /\ rounds' = [rounds EXCEPT ![h][p] = OwnerWaits(r)]
           /\ msgs' = msgs \cup Signatures({h}, Hosts \ {h}, p)
    /\ UNCHANGED <<head, halt, adopted, counters>>

(* A refusal drops the round at once.                                      *)
SignThrows(h) ==
    /\ LET p == Head(queue[h]).p
           r == rounds[h][p]
       IN  IF Head(queue[h]).detached
           THEN /\ queue' = [queue EXCEPT ![h] = Tail(@)]
                /\ UNCHANGED rounds
           ELSE /\ queue' = [queue EXCEPT ![h] = Detach(Tail(@), r, p)]
                /\ rounds' = [rounds EXCEPT ![h][p] = Aborted(r)]
    /\ UNCHANGED <<durable, msgs, submits>>

(* The gate or the ledger refuses.                                         *)
SignRefused(h) ==
    /\ Running(h, "sign", "queued")
    /\ ~(CosignGate(h, Head(queue[h]).p) /\ LedgerAdmits(h, Head(queue[h]).p))
    /\ SignThrows(h)
    /\ UNCHANGED events

(* The command fails for a reason of its own, as a missing exit kit.       *)
SignFails(h) ==
    /\ Running(h, "sign", "queued")
    /\ events < MaxEvents
    /\ events' = events + 1
    /\ SignThrows(h)

(* Pools the signature and leaves the merge to the owner: a faulty form of *)
(* OnSignature.                                                            *)
OnSignaturePools(h, p) ==
    \E m \in msgs :
        /\ m.type = "signature" /\ m.to = h /\ m.p = p
        /\ msgs' = msgs \ {m}
        /\ rounds' = [rounds EXCEPT ![h][p] =
                        [@ EXCEPT !.open = TRUE, !.sigs = @ \cup {m.slot}]]
        /\ UNCHANGED <<durable, queue, counters>>

(* A signature may come before its proposal: it then makes a round that    *)
(* has no payload and no timers.                                           *)
OnSignature(h, p) ==
    \E m \in msgs :
        /\ m.type = "signature" /\ m.to = h /\ m.p = p
        /\ msgs' = msgs \ {m}
        /\ LET r == [rounds[h][p] EXCEPT !.open = TRUE,
                                         !.sigs = @ \cup {m.slot}]
           IN  /\ rounds' = [rounds EXCEPT ![h][p] = r]
               /\ queue' = [queue EXCEPT ![h] = Queued(@, r, p)]
        /\ UNCHANGED <<durable, counters>>

(* cosign-merge adopts the fully signed head, then the relay publishes it  *)
(* (flushPublishedHead) while it still holds the lock.                     *)
MergeAdopt(h) ==
    /\ Running(h, "merge", "queued")
    /\ LET p == Head(queue[h]).p
       IN  /\ CosignGate(h, p)
           /\ head' = [head EXCEPT ![h] = p]
           /\ adopted' = [adopted EXCEPT ![h] = @ \cup {p}]
    /\ queue' = [queue EXCEPT ![h][1].stage = "adopted"]
    /\ UNCHANGED <<ledger, halt, rounds, msgs, counters>>

(* The merge ends without a result and the round stays.                    *)
MergeLost(r, fault) == [r EXCEPT !.failed = @ \/ fault, !.owned = FALSE]

RoundKept(h, fault) ==
    /\ rounds' = IF Head(queue[h]).detached THEN rounds
                 ELSE [rounds EXCEPT ![h][Head(queue[h]).p] = MergeLost(@, fault)]
    /\ queue' = [queue EXCEPT ![h] = Tail(@)]

(* A merge that throws: an owner that awaits it drops the round; a merge   *)
(* that a signature or a timer started leaves the round.                   *)
MergeThrows(h, fault) ==
    LET p == Head(queue[h]).p
        r == rounds[h][p]
    IN  /\ IF r.owned /\ ~Head(queue[h]).detached
           THEN /\ rounds' = [rounds EXCEPT ![h][p] = NoRound]
                /\ queue' = [queue EXCEPT ![h] = Detach(Tail(@), r, p)]
           ELSE RoundKept(h, fault)
        /\ UNCHANGED <<durable, msgs, submits>>

(* A result that is not complete is logged, whoever awaits it.             *)
MergeIncomplete(h) == RoundKept(h, TRUE) /\ UNCHANGED <<durable, msgs, submits>>

(* The merge fails before it adopts anything: the command cannot run or    *)
(* times out, a pending burn that goes first fails, a pooled signature is  *)
(* invalid, or the result is incomplete.                                   *)
MergeFails(h) ==
    /\ Running(h, "merge", "queued")
    /\ events < MaxEvents
    /\ events' = events + 1
    /\ MergeThrows(h, TRUE) \/ MergeIncomplete(h)

MergeRefused(h) ==
    /\ Running(h, "merge", "queued")
    /\ ~CosignGate(h, Head(queue[h]).p)
    /\ MergeThrows(h, FALSE)
    /\ UNCHANGED events

(* The head is adopted but its publication fails.                          *)
PublishFails(h) ==
    /\ Running(h, "merge", "adopted")
    /\ events < MaxEvents
    /\ events' = events + 1
    /\ MergeThrows(h, FALSE)

(* The round is complete; its own halt is lifted.                          *)
MergeDone(h) ==
    /\ Running(h, "merge", "adopted")
    /\ LET p == Head(queue[h]).p
       IN  /\ rounds' = IF Head(queue[h]).detached THEN rounds
                        ELSE [rounds EXCEPT ![h][p] =
                                [@ EXCEPT !.completed = TRUE, !.warned = FALSE,
                                          !.timed = FALSE, !.owned = FALSE,
                                          !.waiting = FALSE]]
           /\ halt' = [halt EXCEPT ![h] =
                        IF @ = HaltFor(p) THEN NoHalt ELSE @]
    /\ queue' = [queue EXCEPT ![h] = Tail(@)]
    /\ UNCHANGED <<head, ledger, adopted, msgs, counters>>

(* The CLOSE WARNING names the missing slots; a host it reaches posts the  *)
(* signatures it holds, its own or another's (onMissing).  It is           *)
(* repeated until the round completes; a halted host sends at most one     *)
(* more, which is not counted here.                                        *)
Warn(h, p) ==
    LET r == rounds[h][p]
    IN  /\ r.warned
        /\ IF Missing(r) = {}
           THEN /\ queue' = [queue EXCEPT ![h] = Queued(@, r, p)]
                /\ UNCHANGED msgs
           ELSE /\ \E k \in Hosts \ {h} :
                     msgs' = msgs \cup
                         Signatures(rounds[k][p].sigs \cap Missing(r), {h}, p)
                /\ UNCHANGED queue
        /\ UNCHANGED <<durable, rounds, counters>>

(* The halt timer.                                                         *)
HaltRound(h, p) ==
    LET r == rounds[h][p]
    IN  /\ r.timed
        /\ IF Missing(r) = {}
           THEN /\ rounds' = [rounds EXCEPT ![h][p].timed = FALSE]
                /\ queue' = [queue EXCEPT ![h] = Queued(@, r, p)]
                /\ UNCHANGED <<halt, msgs>>
           ELSE /\ rounds' = [rounds EXCEPT ![h][p] =
                               [@ EXCEPT !.timed = FALSE, !.waiting = FALSE]]
                /\ halt' = [halt EXCEPT ![h] = HaltFor(p)]
                /\ Broadcast("halt", h, p)
                /\ UNCHANGED queue
        /\ UNCHANGED <<head, ledger, adopted, counters>>

OnHalt(h, p) ==
    \E m \in msgs :
        /\ m.type = "halt" /\ m.to = h /\ m.p = p
        /\ msgs' = msgs \ {m}
        /\ halt' = IF rounds[h][p].completed \/ Halted(h) THEN halt
                   ELSE [halt EXCEPT ![h] = HaltFor(p)]
        /\ UNCHANGED <<head, ledger, adopted, rounds, queue, counters>>

(* The watchdog finds the channel halted for closeMs.  closeMs exceeds     *)
(* haltMs, and a halted host opens no timed round: its halt timers have    *)
(* all fired.  The close waits for the lock with the halt it has read.     *)
Tick(h) ==
    /\ events < MaxEvents /\ Halted(h) /\ halt[h].closedAt = None
    /\ \A p \in Payloads : ~rounds[h][p].timed
    /\ \A i \in DOMAIN queue[h] : queue[h][i].kind # "close"
    /\ events' = events + 1
    /\ queue' = [queue EXCEPT ![h] = Append(@, NewJob("close", halt[h].digest))]
    /\ UNCHANGED <<durable, rounds, msgs, submits>>

(* Closes at the stalled proposal: a faulty form of CloseState.            *)
CloseAtProposal(h) == halt[h].digest

(* The state at which host h closes the channel.                           *)
CloseState(h) == head[h]

(* onAutoClose closes on L1 at the head; the halt read by the watchdog is  *)
(* written back with closedAt.                                             *)
AutoClose(h) ==
    /\ Running(h, "close", "queued")
    /\ halt' = [halt EXCEPT ![h] = [digest |-> Head(queue[h]).p,
                                    closedAt |-> CloseState(h)]]
    /\ queue' = [queue EXCEPT ![h] = Tail(@)]
    /\ UNCHANGED <<head, ledger, adopted, rounds, msgs, counters>>

(* The close failed; a later tick tries again.                             *)
AutoCloseFails(h) ==
    /\ Running(h, "close", "queued")
    /\ queue' = [queue EXCEPT ![h] = Tail(@)]
    /\ UNCHANGED <<durable, rounds, msgs, counters>>

(* A host restarts: files are kept, rounds, timers and the queue are lost. *)
Restart(h) ==
    /\ events < MaxEvents
    /\ events' = events + 1
    /\ rounds' = [rounds EXCEPT ![h] = [p \in Payloads |-> NoRound]]
    /\ queue' = [queue EXCEPT ![h] = << >>]
    /\ UNCHANGED <<durable, msgs, submits>>

(* A failed post is logged and forgotten.                                  *)
Lose ==
    /\ events < MaxEvents
    /\ events' = events + 1
    /\ \E m \in msgs : msgs' = msgs \ {m}
    /\ UNCHANGED <<durable, rounds, queue, submits>>

Deliver(h, p) ==
    OnPropose(h, p) \/ OnSignature(h, p) \/ OnHalt(h, p)

RunJob(h) ==
    \/ SignPartial(h) \/ SignRefused(h)
    \/ MergeAdopt(h) \/ MergeRefused(h) \/ MergeDone(h)
    \/ AutoClose(h) \/ AutoCloseFails(h)

Next ==
    \/ Lose
    \/ \E h \in Hosts :
        \/ RunJob(h) \/ SignFails(h) \/ MergeFails(h) \/ PublishFails(h)
        \/ Restart(h) \/ Tick(h)
        \/ \E p \in Payloads :
              \/ Cosign(h, p) \/ CosignSign(h, p)
              \/ Deliver(h, p) \/ Warn(h, p) \/ HaltRound(h, p)

Spec == Init /\ [][Next]_vars

-----------------------------------------------------------------------------
TypeOK ==
    /\ head \in [Hosts -> States]
    /\ ledger \in [Hosts -> [States -> Payloads \cup {None}]]
    /\ halt \in [Hosts -> Halt]
    /\ adopted \in [Hosts -> SUBSET States]
    /\ rounds \in [Hosts -> [Payloads -> Round]]
    /\ queue \in [Hosts -> Seq(Job)]
    /\ msgs \in SUBSET Message
    /\ submits \in [Payloads -> 0..MaxSubmits]
    /\ events \in 0..MaxEvents

(* Hosts adopt one chain: two states adopted anywhere that extend the same *)
(* state are equal.  cosign-merge needs the signature of every slot, and   *)
(* the ledger of ledgered_state_signature_with survives restarts.          *)
NoFork ==
    \A h, k \in Hosts : \A s \in adopted[h], t \in adopted[k] :
        s \in Payloads /\ t \in Payloads /\ PrevState[s] = PrevState[t] => s = t

(* A job of the queue signs or merges payload p for a round that is alive. *)
Working(q, p) ==
    \E i \in DOMAIN q : q[i].p = p /\ q[i].kind # "close" /\ ~q[i].detached

(* No complete round is left untried (onSignature, signOwn and the owners  *)
(* all end in tryComplete): a round that has its payload and every         *)
(* signature is about to be merged, by a job under the lock or by an owner *)
(* that has yet to call tryComplete, unless the host has adopted the state *)
(* or a merge of this very round failed for a reason of its own (the gate  *)
(* never refuses it before the adoption).  A failed merge is tried again   *)
(* by the warning timer, which a round made by a signature does not have.  *)
CompleteRoundTried ==
    \A h \in Hosts, p \in Payloads :
        LET r == rounds[h][p]
        IN  r.payload /\ Missing(r) = {} =>
              p \in adopted[h] \/ r.proposing \/ r.failed \/ Working(queue[h], p)

(* onAutoClose closes only at a state that every slot has signed, never at *)
(* the stalled proposal of the round that halted the channel.              *)
ClosesFullySigned ==
    \A h, k \in Hosts : halt[h].closedAt \in Payloads =>
        ledger[k][PrevState[halt[h].closedAt]] = halt[h].closedAt
=============================================================================
