---------------------------- MODULE InterChannel ----------------------------
(***************************************************************************)
(* The transfer between two channels that share one relay                  *)
(* (api/lib/inter-channel-send.js).  Four durable stores have to agree:    *)
(* the co-signers' channel heads, committed for both channels by a local   *)
(* two-phase journal (channel_member.rs); the relay's request files; the   *)
(* block producer's journal; and the live balance service.  A transfer     *)
(* writes them one after another, each write can fail, the relay can die   *)
(* between any two, and a sweep resumes what it left behind.               *)
(*                                                                         *)
(* A head is the sequence of the debits and credits it was built from, so  *)
(* digests are equal iff the sequences are.  A call of the relay is the    *)
(* list of the steps it still has to take; every await ends a step.        *)
(***************************************************************************)
EXTENDS Naturals, Sequences, FiniteSets, SequencesExt

CONSTANTS Channels, Transfers, Clients, Sweep,
          Deployments,      \* the routes transfers may have, and whether the daemon is
                            \* built with authenticated-tail-receive
          None,
          MaxFaults         \* deaths of the relay, failed or interrupted calls

ASSUME InterChannelAssumption ==
    /\ Deployments \subseteq [route : [Transfers -> [src : Channels, dst : Channels]],
                              tailReceive : BOOLEAN]
    /\ \A d \in Deployments, t \in Transfers : d.route[t].src # d.route[t].dst
    /\ Channels \subseteq Nat
    /\ Sweep \notin Clients
    /\ MaxFaults \in Nat

VARIABLES
    deployment,  \* the transfers' routes and the build of the daemon
    built,       \* built[t]: head and base nonce the sender built t on
    head,        \* head[c]: the fully signed head in c's co-signer wallet
    receipt,     \* receipt[c]: an exit kit for exactly that head is archived
    journal,     \* journal[t]: PREPARED two-channel commit, the heads before it
    result,      \* result[c]: inter_transfer.json
    incoming,    \* incoming[c]: incoming_inter_transfer.json
    recovery,    \* recovery[c]: incoming_inter_transfer_recovery.json
    op,          \* op[c]: inter_operation.json and its request
    kitop,       \* kitop[c]: exit_kit_operation.json
    entries,     \* the producer's journal: posts and head syncs
    public,      \* public[c]: head of c in the producer
    staged,      \* the unsigned block that freezes the producer
    live,        \* live[c]: the transitions the live balance service applied
    call,        \* call[k]: what the request of k, or the sweep, is doing
    queue,       \* queue[c]: callers in the order they asked for c's lock
    faults

cliVars == <<head, receipt, journal, result, incoming, recovery>>
relayVars == <<op, kitop>>
daemonVars == <<entries, public, staged, live>>
callVars == <<call, queue>>
vars == <<deployment, built, cliVars, relayVars, daemonVars, callVars, faults>>

-----------------------------------------------------------------------------
(* What the stores say.                                                    *)

Src(t) == deployment.route[t].src
Dst(t) == deployment.route[t].dst

Debit(t) == <<"debit", t>>
Credit(t) == <<"credit", t>>

\* The part of a signed history that precedes event e.
PrefixBefore(h, e) == SubSeq(h, 1, SelectInSeq(h, LAMBDA x : x = e) - 1)

PostEntry(t) == <<"post", t>>
SyncEntry(t) == <<"sync", t>>

Posted(t) == Contains(entries, PostEntry(t))
Generation(t) == SelectInSeq(entries, LAMBDA e : e = PostEntry(t))

\* Base nonce of a history: every debit consumes one.
Nonce(h) == Len(SelectSeq(h, LAMBDA e : e[1] = "debit"))

\* Producer generation of the last transition the live service applied to c.
LiveGeneration(c) == IF live[c] = <<>> THEN 0 ELSE Generation(Last(live[c])[2])

PendingOn(c) == {t \in Transfers : journal[t] # None /\ c \in {Src(t), Dst(t)}}

KitInFlight(c) == kitop[c] # None /\ kitop[c].status # "complete"

\* Mutant of Committed that forgets the roll-forward journal.
CommittedByResult(t, results, journals) == results[Src(t)] # None

\* sourceLegCommitted: what a failed signing command leaves is not abandoned.
Committed(t, results, journals) == results[Src(t)] # None \/ journals[t] # None

-----------------------------------------------------------------------------
(* The programs of the relay's calls.                                      *)

Callers == Clients \cup {Sweep}
Idle == [todo |-> <<>>, nonce |-> 0]
Running(k) == call[k].todo # <<>>

At(k, name) == Running(k) /\ Head(call[k].todo)[1] = name
Arg(k) == Head(call[k].todo)[2]
Rest(k) == Tail(call[k].todo)

\* A call that is over gives its locks back.
Goto(k, todo) ==
    IF todo = <<>>
    THEN /\ call' = [call EXCEPT ![k] = Idle]
         /\ queue' = [c \in Channels |-> SelectSeq(queue[c], LAMBDA j : j # k)]
    ELSE call' = [call EXCEPT ![k].todo = todo] /\ queue' = queue
Advance(k) == Goto(k, Rest(k))

\* The daemon phases of a signed transfer; the destination's are run only
\* under the destination's lock (flushLastProducerBlock, interChannelSend).
LandSteps(t, destination) ==
    << <<"post", t>>, <<"sync", t>>, <<"settle", t>>, <<"install", Src(t)>> >>
    \o (IF Dst(t) = destination THEN << <<"receive", t>>, <<"install", Dst(t)>> >> ELSE <<>>)

\* flushPublishedHead once the CLI has recovered: what is left depends on the
\* last transition of the head.
FlushSteps(c) ==
    LET e == IF head[c] = <<>> THEN <<"genesis", None>> ELSE Last(head[c])
        t == e[2]
    IN  (CASE e[1] = "debit" /\ result[c] = t ->
                << <<"post", t>>, <<"sync", t>>, <<"settle", t>> >>
           [] e[1] = "credit" /\ incoming[c] = t ->
                << <<"post", t>>, <<"settleFor", t>>, <<"receive", t>>, <<"install", c>>,
                   <<"sync", t>> >>
           [] OTHER -> <<>>)
        \o << <<"check", c>> >>

\* From the peer's flush to completion: the part of interChannelSend that a
\* pending request which was never signed repeats.  The peer is not flushed
\* while an exit kit is in flight.
SendSteps(t) ==
    (IF KitInFlight(Src(t)) THEN <<>> ELSE << <<"flush", Dst(t)>> >>)
    \o << <<"nonce", t>>, <<"propose", t>>, <<"prepare", t>>, <<"sign", t>> >>
    \o LandSteps(t, Dst(t)) \o << <<"complete", t>> >>

\* flushLastProducerBlock, flushPublishedHead, then the request is journaled.
FreshSteps(t) ==
    (IF result[Src(t)] = None THEN <<>>
     ELSE LandSteps(result[Src(t)], Dst(t)))
    \o << <<"flush", Src(t)>>, <<"clear", t>>, <<"begin", t>> >>

\* Mutant of AbandonSteps: the request journal stays.
AbandonKeepsRequest(t) == << <<"abandon", t>>, <<"dropKit", t>> >>

\* abandonUncommittedTransfer
AbandonSteps(t) == << <<"abandon", t>>, <<"dropOp", t>>, <<"dropKit", t>> >>

SigningSteps == {"propose", "prepare", "sign"}
FileSteps == {"lock", "enter", "pending", "clear", "begin", "complete", "abandon", "dropOp", "dropKit"}

\* A step throws.  Inside the signing section the request is abandoned unless
\* its source leg was committed; everywhere else the call just ends.
Throw(k) ==
    IF Head(call[k].todo)[1] \in SigningSteps /\ ~Committed(Arg(k), result, journal)
    THEN Goto(k, AbandonSteps(Arg(k)))
    ELSE Goto(k, <<>>)

Init ==
    /\ deployment \in Deployments
    /\ built = [t \in Transfers |-> None]
    /\ head = [c \in Channels |-> <<>>]
    /\ receipt = [c \in Channels |-> TRUE]
    /\ journal = [t \in Transfers |-> None]
    /\ result = [c \in Channels |-> None]
    /\ incoming = [c \in Channels |-> None]
    /\ recovery = [c \in Channels |-> None]
    /\ op = [c \in Channels |-> None]
    /\ kitop = [c \in Channels |-> None]
    /\ entries = <<>> /\ staged = None
    /\ public = [c \in Channels |-> <<>>]
    /\ live = [c \in Channels |-> <<>>]
    /\ call = [k \in Callers |-> Idle]
    /\ queue = [c \in Channels |-> <<>>]
    /\ faults = 0

-----------------------------------------------------------------------------
(* Requests.                                                               *)

\* A sender reads the channel's head and base nonce and builds its transfer.
Build(t) ==
    /\ built[t] = None
    /\ built' = [built EXCEPT ![t] = [head |-> head[Src(t)], nonce |-> Nonce(live[Src(t)])]]
    /\ UNCHANGED <<deployment, cliVars, relayVars, daemonVars, callVars, faults>>

\* withInterLocks: the lower channel first, the other one once it is held.
LockSteps(locks) ==
    LET low == CHOOSE c \in locks : \A l \in locks : c <= l
    IN  << <<"lock", low>> >> \o SetToSeq({<<"lock", l>> : l \in locks \ {low}})

Start(k, locks, step) ==
    /\ ~Running(k)
    /\ LET todo == Append(LockSteps(locks), step)
       IN  /\ call' = [call EXCEPT ![k] = [todo |-> todo, nonce |-> 0]]
           /\ queue' = [queue EXCEPT ![Head(todo)[2]] = Append(@, k)]
    /\ UNCHANGED <<deployment, built, cliVars, relayVars, daemonVars, faults>>

\* A lock is taken in the order of its queue.
Lock(k) ==
    /\ At(k, "lock") /\ Head(queue[Arg(k)]) = k
    /\ call' = [call EXCEPT ![k].todo = Rest(k)]
    /\ queue' = IF Head(Rest(k))[1] = "lock"
                THEN [queue EXCEPT ![Head(Rest(k))[2]] = Append(@, k)] ELSE queue
    /\ UNCHANGED <<deployment, built, cliVars, relayVars, daemonVars, faults>>

\* POST /inter/send.  The wallet relay's route resumes a pending request of the
\* source first, which is Resume(k, Src(t)); the API's route does not.
Submit(k, t) ==
    built[t] # None /\ Start(k, {Src(t), Dst(t)}, <<"enter", t>>)

\* resumePendingInterTransferLocked, of a sender or of the sweep: it looks for a
\* pending request before it locks, and again with the locks of the one it saw.
Resume(k, c) ==
    /\ op[c] # None /\ op[c].status = "prepared"
    /\ Start(k, {c, Dst(op[c].t)}, <<"pending", c>>)

\* The snapshot route flushes one channel under its lock.  A flush that finds
\* every store up to date changes nothing and is left out.
FlushRoute(k, c) ==
    /\ \/ head[c] # public[c] \/ head[c] # live[c]
       \/ ~receipt[c] \/ PendingOn(c) # {} \/ KitInFlight(c)
    /\ Start(k, {c}, <<"flush", c>>)

-----------------------------------------------------------------------------
(* The command line of the co-signers.  Every command first rolls forward  *)
(* the prepared commits that touch its channel.                            *)

\* Mutant of Commit that applies the two legs to the wallets as they are now.
CommitReapplied(t, before, n) ==
    LET s == Src(t)  d == Dst(t)
    IN  /\ head' = [head EXCEPT ![s] = IF n >= 1 THEN Append(@, Debit(t)) ELSE @,
                                ![d] = IF n >= 2 THEN Append(@, Credit(t)) ELSE @]
        /\ receipt' = [receipt EXCEPT ![s] = IF n >= 1 THEN TRUE ELSE @,
                                      ![d] = IF n >= 2 THEN FALSE ELSE @]
        /\ result' = [result EXCEPT ![s] = IF n >= 3 THEN t ELSE @]
        /\ incoming' = [incoming EXCEPT ![d] = IF n >= 4 THEN t ELSE @]
        /\ recovery' = [recovery EXCEPT ![d] = IF n >= 5 THEN t ELSE @]
        /\ journal' = [journal EXCEPT ![t] = IF n >= 5 THEN None ELSE before]

\* The first n of the writes that carry the commit of t out, in their order:
\* source wallet, destination wallet, result, incoming copy, recovery copy and
\* retired journal.
Commit(t, before, n) ==
    LET s == Src(t)  d == Dst(t)
    IN  /\ head' = [head EXCEPT ![s] = IF n >= 1 THEN Append(before.src, Debit(t)) ELSE @,
                                ![d] = IF n >= 2 THEN Append(before.dst, Credit(t)) ELSE @]
        /\ receipt' = [receipt EXCEPT ![s] = IF n >= 1 THEN TRUE ELSE @,
                                      ![d] = IF n >= 2 THEN FALSE ELSE @]
        /\ result' = [result EXCEPT ![s] = IF n >= 3 THEN t ELSE @]
        /\ incoming' = [incoming EXCEPT ![d] = IF n >= 4 THEN t ELSE @]
        /\ recovery' = [recovery EXCEPT ![d] = IF n >= 5 THEN t ELSE @]
        /\ journal' = [journal EXCEPT ![t] = IF n >= 5 THEN None ELSE before]

Writes == 5

\* roll_forward_inter_transfer_commit refuses a head that is neither the one
\* before nor the one after the commit.
CanRollForward(t) ==
    /\ head[Src(t)] \in {journal[t].src, Append(journal[t].src, Debit(t))}
    /\ head[Dst(t)] \in {journal[t].dst, Append(journal[t].dst, Credit(t))}

\* The channel on which the next step of d runs a command, if it runs one.
CommandOn(k) ==
    LET s == Head(call[k].todo)
    IN  CASE s[1] \in {"flush", "install"} -> s[2]
          [] s[1] = "sign" -> Src(s[2])
          [] s[1] = "propose" /\ ~KitInFlight(Src(s[2])) -> Src(s[2])
          [] s[1] = "resume" /\ result[Src(s[2])] = None -> Src(s[2])
          [] OTHER -> None

Recovered(k) == CommandOn(k) = None \/ PendingOn(CommandOn(k)) = {}

\* recover_pending_inter_transfers at the start of a command.
RollForward(k) ==
    /\ Running(k) /\ CommandOn(k) # None
    /\ \E t \in PendingOn(CommandOn(k)) :
         IF CanRollForward(t)
         THEN Commit(t, journal[t], Writes) /\ UNCHANGED callVars
         ELSE Throw(k) /\ UNCHANGED <<head, receipt, result, incoming, recovery, journal>>
    /\ UNCHANGED <<deployment, built, relayVars, daemonVars, faults>>

\* The same command is killed after some of the writes.
RollForwardCut(k) ==
    /\ Running(k) /\ CommandOn(k) # None /\ faults < MaxFaults
    /\ \E t \in PendingOn(CommandOn(k)), n \in 0..(Writes - 1) :
         CanRollForward(t) /\ Commit(t, journal[t], n)
    /\ Throw(k) /\ faults' = faults + 1
    /\ UNCHANGED <<deployment, built, relayVars, daemonVars>>

\* cmd_cosign_inter_transfer: t extends the source's current head at the base
\* nonce the relay read, and the destination's head has its exit kit.
CanSign(t, nonce) ==
    /\ built[t].head = head[Src(t)]
    /\ built[t].nonce = nonce
    /\ receipt[Dst(t)]
    /\ PendingOn(Dst(t)) = {}

\* The PREPARED journal is the commit point; the writes follow it.
Sign(k) ==
    /\ At(k, "sign") /\ Recovered(k)
    /\ UNCHANGED <<deployment, built, op, daemonVars>>
    /\ LET t == Arg(k)
           before == [src |-> head[Src(t)], dst |-> head[Dst(t)]]
       IN  \/ /\ CanSign(t, kitop[Src(t)].nonce)
              /\ \/ /\ Commit(t, before, Writes)
                    /\ kitop' = [kitop EXCEPT ![Src(t)].status = "complete"]
                    /\ Advance(k) /\ faults' = faults
                 \/ /\ faults < MaxFaults
                    /\ \E n \in 0..(Writes - 1) : Commit(t, before, n)
                    /\ Goto(k, IF Committed(t, result', journal') THEN <<>> ELSE AbandonSteps(t))
                    /\ faults' = faults + 1 /\ kitop' = kitop
           \/ /\ ~CanSign(t, kitop[Src(t)].nonce)
              /\ Throw(k) /\ UNCHANGED <<cliVars, kitop, faults>>

\* install-exit-kit archives the live service's kit for the current head.
Install(k) ==
    /\ At(k, "install") /\ Recovered(k)
    /\ IF live[Arg(k)] = head[Arg(k)]
       THEN receipt' = [receipt EXCEPT ![Arg(k)] = TRUE] /\ Advance(k)
       ELSE Throw(k) /\ receipt' = receipt
    /\ UNCHANGED <<deployment, built, head, journal, result, incoming, recovery,
                   relayVars, daemonVars, faults>>

-----------------------------------------------------------------------------
(* The relay's own steps.                                                  *)

\* recover-inter-transfers and publish-snapshot, then what the head calls for.
\* recoverIncomingHead needs the recovery copy of the same transfer.
Flush(k) ==
    /\ At(k, "flush") /\ Recovered(k)
    /\ IF recovery[Arg(k)] = incoming[Arg(k)]
       THEN Goto(k, FlushSteps(Arg(k)) \o Rest(k))
       ELSE Throw(k)
    /\ UNCHANGED <<deployment, built, cliVars, relayVars, daemonVars, faults>>

\* interChannelSend reads the request journal: a completed request is answered
\* from it, another pending one is a 409, its own pending one is resumed.
Enter(k) ==
    /\ At(k, "enter")
    /\ LET t == Arg(k)  o == op[Src(t)]
       IN  Goto(k, CASE o = None -> FreshSteps(t)
                     [] o # None /\ o.t = t /\ o.status = "prepared" -> << <<"resume", t>> >>
                     [] o # None /\ o.t # t /\ o.status = "completed" -> FreshSteps(t)
                     [] OTHER -> <<>>)
    /\ UNCHANGED <<deployment, built, cliVars, relayVars, daemonVars, faults>>

\* resumePendingInterTransfer
Pending(k) ==
    /\ At(k, "pending")
    /\ LET o == op[Arg(k)]
       IN  Goto(k, IF o # None /\ o.status = "prepared" THEN << <<"resume", o.t>> >> ELSE <<>>)
    /\ UNCHANGED <<deployment, built, cliVars, relayVars, daemonVars, faults>>

\* A pending request: land it if it was signed, otherwise sign it.
Decide(k) ==
    /\ At(k, "resume") /\ Recovered(k)
    /\ LET t == Arg(k)
       IN  Goto(k, IF result[Src(t)] = None THEN SendSteps(t)
                   ELSE LandSteps(result[Src(t)], Dst(t)) \o << <<"complete", t>> >>)
    /\ UNCHANGED <<deployment, built, cliVars, relayVars, daemonVars, faults>>

\* Mutant of Clear that leaves the last signed result in place.
ClearNothing(k) ==
    /\ At(k, "clear") /\ Advance(k)
    /\ UNCHANGED <<deployment, built, cliVars, relayVars, daemonVars, faults>>

\* The last signed result is flushed by now; its file makes room.
Clear(k) ==
    /\ At(k, "clear") /\ Advance(k)
    /\ result' = [result EXCEPT ![Src(Arg(k))] = None]
    /\ UNCHANGED <<deployment, built, head, receipt, journal, incoming, recovery,
                   relayVars, daemonVars, faults>>

Journal(k, status) ==
    /\ op' = [op EXCEPT ![Src(Arg(k))] = [t |-> Arg(k), status |-> status]]
    /\ UNCHANGED <<deployment, built, cliVars, kitop, daemonVars, faults>>

Begin(k) == At(k, "begin") /\ Journal(k, "prepared") /\ Goto(k, SendSteps(Arg(k)))
Complete(k) == At(k, "complete") /\ Journal(k, "completed") /\ Advance(k)

\* authoritativeBaseNonceEnv
ReadNonce(k) ==
    /\ At(k, "nonce")
    /\ call' = [call EXCEPT ![k].todo = Rest(k), ![k].nonce = Nonce(live[Src(Arg(k))])]
    /\ queue' = queue
    /\ UNCHANGED <<deployment, built, cliVars, relayVars, daemonVars, faults>>

\* cliWithPreparedExitKit: an operation in flight is resumed only by its own
\* request; otherwise the command proposes and the proposal is journaled.
Propose(k) ==
    /\ At(k, "propose") /\ Recovered(k)
    /\ LET t == Arg(k)
       IN  \/ /\ KitInFlight(Src(t)) /\ kitop[Src(t)].t = t
              /\ Advance(k) /\ kitop' = kitop
           \/ /\ ~KitInFlight(Src(t)) /\ CanSign(t, call[k].nonce)
              /\ kitop' = [kitop EXCEPT ![Src(t)] = [t |-> t, status |-> "proposed",
                                                nonce |-> call[k].nonce]]
              /\ Advance(k)
           \/ /\ IF KitInFlight(Src(t)) THEN kitop[Src(t)].t # t ELSE ~CanSign(t, call[k].nonce)
              /\ Throw(k) /\ kitop' = kitop
    /\ UNCHANGED <<deployment, built, cliVars, op, daemonVars, faults>>

\* abandonUncommittedTransfer: the files go even when the daemon's release
\* fails, first the request, then the exit-kit operation.
Abandon(k) ==
    /\ At(k, "abandon") /\ Advance(k)
    /\ staged' = IF staged = Arg(k) THEN None ELSE staged
    /\ UNCHANGED <<deployment, built, cliVars, relayVars, entries, public, live, faults>>

DropOp(k) ==
    /\ At(k, "dropOp") /\ Advance(k)
    /\ op' = [op EXCEPT ![Src(Arg(k))] = None]
    /\ UNCHANGED <<deployment, built, cliVars, kitop, daemonVars, faults>>

DropKit(k) ==
    /\ At(k, "dropKit") /\ Advance(k)
    /\ kitop' = [kitop EXCEPT ![Src(Arg(k))] = None]
    /\ UNCHANGED <<deployment, built, cliVars, op, daemonVars, faults>>

-----------------------------------------------------------------------------
(* The daemon: block producer and live balance service.  Every request is  *)
(* idempotent under its id and all but a head sync look for the receipt of *)
(* an earlier attempt before anything else.                                *)

Applied(c, e) == Contains(live[c], e)

\* live_prepare_exit_kit: stage the unsigned block, prove the kit on it.
CanStage(t) ==
    /\ staged \in {None, t}
    /\ ~Posted(t)
    /\ public[Src(t)] = built[t].head
    /\ live[Src(t)] = built[t].head

Prepare(k) ==
    /\ At(k, "prepare")
    /\ LET t == Arg(k)
       IN  \/ kitop[Src(t)].status = "prepared" /\ Advance(k) /\ UNCHANGED <<kitop, staged, faults>>
           \/ /\ kitop[Src(t)].status = "proposed" /\ CanStage(t)
              /\ staged' = t
              /\ \/ /\ kitop' = [kitop EXCEPT ![Src(t)].status = "prepared"]
                    /\ Advance(k) /\ faults' = faults
                 \/ /\ faults < MaxFaults /\ faults' = faults + 1   \* the answer is lost
                    /\ Throw(k) /\ kitop' = kitop
           \/ /\ kitop[Src(t)].status = "proposed" /\ ~CanStage(t)
              /\ Throw(k) /\ UNCHANGED <<kitop, staged, faults>>
    /\ UNCHANGED <<deployment, built, cliVars, op, entries, public, live>>

\* The transition is the successor of the channel's public head.
PostExtends(t) == public[Src(t)] = PrefixBefore(head[Src(t)], Debit(t))

SyncExtends(t) == public[Dst(t)] = PrefixBefore(head[Dst(t)], Credit(t))

\* post_inter_channel: promotes the block staged for t and refuses while
\* another one is staged.
Post(k) ==
    /\ At(k, "post")
    /\ LET t == Arg(k)
           admitted == staged \in {None, t} /\ PostExtends(t)
       IN  \/ Posted(t) /\ Advance(k) /\ UNCHANGED <<entries, public, staged>>
           \/ /\ ~Posted(t)
              /\ IF admitted
                 THEN /\ entries' = Append(entries, PostEntry(t))
                      /\ public' = [public EXCEPT ![Src(t)] = Append(@, Debit(t))]
                      /\ staged' = None
                      /\ Advance(k)
                 ELSE Throw(k) /\ UNCHANGED <<entries, public, staged>>
    /\ UNCHANGED <<deployment, built, cliVars, relayVars, live, faults>>

\* sync_offchain_heads with the two credit states of t: a staged block refuses
\* it even when the states are already in.
Sync(k) ==
    /\ At(k, "sync")
    /\ LET t == Arg(k)
           synced == Contains(entries, SyncEntry(t))
       IN  \/ staged = None /\ synced /\ Advance(k) /\ UNCHANGED <<entries, public>>
           \/ /\ staged = None /\ ~synced /\ SyncExtends(t)
              /\ entries' = Append(entries, SyncEntry(t))
              /\ public' = [public EXCEPT ![Dst(t)] = Append(@, Credit(t))]
              /\ Advance(k)
           \/ /\ staged # None \/ (~synced /\ ~SyncExtends(t))
              /\ Throw(k) /\ UNCHANGED <<entries, public>>
    /\ UNCHANGED <<deployment, built, cliVars, relayVars, staged, live, faults>>

\* The live service applies e to c once, on the history e was signed on and
\* at a newer producer generation.
Apply(k, c, e, ready) ==
    LET next == /\ ready /\ Posted(e[2])
                /\ live[c] = PrefixBefore(head[c], e)
                /\ Generation(e[2]) > LiveGeneration(c)
    IN  \/ Applied(c, e) /\ Advance(k) /\ live' = live
        \/ /\ ~Applied(c, e)
           /\ IF next THEN Advance(k) /\ live' = [live EXCEPT ![c] = Append(@, e)]
              ELSE Throw(k) /\ live' = live

\* acknowledgePreparedExitKit closes the operation whose signed head arrived.
Acknowledged(c, e) ==
    IF kitop[c] # None /\ kitop[c].status = "prepared" /\ Debit(kitop[c].t) = e
    THEN [kitop EXCEPT ![c].status = "complete"] ELSE kitop

\* live_settle_inter_channel; the source's own call then acknowledges.
Settle(k) ==
    /\ At(k, "settle") \/ At(k, "settleFor")
    /\ LET t == Arg(k)
       IN  /\ Apply(k, Src(t), Debit(t), TRUE)
           /\ kitop' = IF At(k, "settle") /\ Debit(t) \in ToSet(live'[Src(t)])
                       THEN Acknowledged(Src(t), Debit(t)) ELSE kitop
    /\ UNCHANGED <<deployment, built, cliVars, op, entries, public, staged, faults>>

\* ensure_receive_window_open: without authenticated-tail-receive a channel that
\* has posted a send can prove a receive only before its next posted send.
WindowOpen(c) ==
    LET sends == {t \in Transfers : Src(t) = c /\ Posted(t)}
    IN  deployment.tailReceive \/ sends = {} \/ \E t \in sends : ~Applied(c, Debit(t))

\* live_send_artifact of the source, then live_receive_inter_channel.
Receive(k) ==
    /\ At(k, "receive")
    /\ LET t == Arg(k)
       IN  Apply(k, Dst(t), Credit(t), Applied(Src(t), Debit(t)) /\ WindowOpen(Dst(t)))
    /\ UNCHANGED <<deployment, built, cliVars, relayVars, entries, public, staged, faults>>

\* syncStateIfNeeded: neither a debit nor the second of two credit states can
\* be synced alone, so the public head has to be there already.
Check(k) ==
    /\ At(k, "check")
    /\ LET c == Arg(k)
       IN  IF public[c] = head[c]
           THEN /\ Advance(k)
                /\ kitop' = IF head[c] = <<>> THEN kitop ELSE Acknowledged(c, Last(head[c]))
           ELSE Throw(k) /\ kitop' = kitop
    /\ UNCHANGED <<deployment, built, cliVars, op, daemonVars, faults>>

-----------------------------------------------------------------------------
(* Failures.                                                               *)

\* A command or a daemon request fails without effect.
Fault(k) ==
    /\ faults < MaxFaults /\ Running(k)
    /\ Head(call[k].todo)[1] \notin FileSteps
    /\ faults' = faults + 1
    /\ Throw(k)
    /\ UNCHANGED <<deployment, built, cliVars, relayVars, daemonVars>>

\* The relay dies: every call and every lock is gone.
Crash ==
    /\ faults < MaxFaults /\ \E k \in Callers : Running(k)
    /\ faults' = faults + 1
    /\ call' = [k \in Callers |-> Idle]
    /\ queue' = [c \in Channels |-> <<>>]
    /\ UNCHANGED <<deployment, built, cliVars, relayVars, daemonVars>>

Step(k) ==
    \/ RollForward(k) \/ Sign(k) \/ Install(k)
    \/ Lock(k) \/ Enter(k) \/ Pending(k) \/ Flush(k) \/ Decide(k) \/ Clear(k) \/ Begin(k) \/ Complete(k)
    \/ ReadNonce(k) \/ Propose(k) \/ Abandon(k) \/ DropOp(k) \/ DropKit(k)
    \/ Prepare(k) \/ Post(k) \/ Sync(k) \/ Settle(k) \/ Receive(k) \/ Check(k)

Next ==
    \/ \E t \in Transfers : Build(t)
    \/ \E k \in Clients : \/ \E t \in Transfers : Submit(k, t)
                          \/ \E c \in Channels : FlushRoute(k, c)
    \/ \E k \in Callers, c \in Channels : Resume(k, c)
    \/ \E k \in Callers : Step(k) \/ RollForwardCut(k) \/ Fault(k)
    \/ Crash

Spec == Init /\ [][Next]_vars

\* Here the daemon gets every release.  A started call goes on, and the sweep
\* comes back for a pending request: the lock queue is first come, first served.
Progress ==
    /\ \A k \in Callers : WF_vars(Step(k))
    /\ \A c \in {d.route[t].src : d \in Deployments, t \in Transfers} : SF_vars(Resume(Sweep, c))
LiveSpec == Spec /\ Progress

\* abandonUncommittedTransfer when the daemon does not get the release.
LoseRelease(k) ==
    /\ At(k, "abandon") /\ Advance(k)
    /\ faults < MaxFaults /\ faults' = faults + 1
    /\ UNCHANGED <<deployment, built, cliVars, relayVars, daemonVars>>

\* Releases can be lost, and every sender keeps repeating its request.
RetrySpec ==
    /\ Init /\ [][Next \/ \E k \in Callers : LoseRelease(k)]_vars
    /\ Progress
    /\ \A k \in Clients, t \in Transfers : SF_vars(Submit(k, t))

-----------------------------------------------------------------------------
(* Properties.                                                             *)

\* A transfer is signed into both channels or into neither, at most once, and
\* until its two wallets agree its journal can be rolled forward: no other
\* commit extends one half (roll_forward_inter_transfer_commit: "source head is
\* neither before nor prepared after").
TransferAtomic ==
    \A t \in Transfers :
        IF journal[t] # None THEN CanRollForward(t)
        ELSE /\ Contains(head[Src(t)], Debit(t)) <=> Contains(head[Dst(t)], Credit(t))
             /\ \A c \in Channels : IsInjective(head[c])

\* Producer and live service take a channel's transitions, the first time they
\* are posted, in the order they were signed, a debit is signed only when
\* everything before it has reached both, and a request reported as completed has reached both for both channels
\* (interChannelSend: "stops the channel here instead of letting its state
\* outrun the base chain"; a retry returns "the already-settled response").
LandedInSignedOrder ==
    /\ \A c \in Channels : IsPrefix(public[c], head[c]) /\ IsPrefix(live[c], head[c])
    /\ \A t \in Transfers : Contains(head[Src(t)], Debit(t)) =>
          LET prior == PrefixBefore(head[Src(t)], Debit(t))
          IN  IsPrefix(prior, public[Src(t)]) /\ IsPrefix(prior, live[Src(t)])
    /\ \A t \in Transfers : op[Src(t)] = [t |-> t, status |-> "completed"] =>
          /\ Posted(t) /\ Contains(entries, SyncEntry(t))
          /\ Applied(Src(t), Debit(t)) /\ Applied(Dst(t), Credit(t))

\* The live service refuses a signed credit of c because the window is closed.
Withholds(c) ==
    ~WindowOpen(c) /\ \E t \in Transfers : Contains(head[c], Credit(t)) /\ ~Applied(c, Credit(t))

\* A committed debit is credited in the end, in the producer and in the live
\* service, although the sender is gone (resumePendingInterTransferLocked: "the
\* transfer MUST land on the destination").  A commit is never taken back.  A
\* daemon built without authenticated-tail-receive may withhold credits of the
\* destination instead ("the credit stays pending"); built with it, it never does.
CommittedLands ==
    LET Landed(t) == Applied(Dst(t), Credit(t)) /\ Contains(entries, SyncEntry(t))
    IN  []<>(\A t \in Transfers :
                journal[t] # None \/ Contains(head[Src(t)], Debit(t)) =>
                    Landed(t) \/ Withholds(Dst(t)))

\* A pending request completes or is abandoned (interChannelSend: "a
\* deterministic refusal must not leave the channel in `prepared` forever"),
\* unless a credit of one of its channels is withheld.
PendingResolves ==
    \A t \in Transfers :
        LET pending == op[Src(t)] = [t |-> t, status |-> "prepared"]
        IN  []<>(pending => Withholds(Src(t)) \/ Withholds(Dst(t)))

\* A staged block is committed or released when its sender keeps repeating the
\* request (abandonUncommittedTransfer: "the next identical retry resolves").
StagedResolves == \A t \in Transfers : staged = t ~> staged # t
=============================================================================
