# A TLA+ model of INTMAX3

INTMAX3 is a ZK rollup for payment channels. Channel members sign states off
chain; a block producer posts batches of channel blocks to the rollup contract,
proves them later, and can be convicted of fraud or time out; a channel leaves
through a challenge game on L1 and is paid from the rollup's escrow. This
directory models the L1 contracts, which decide about money and finality, and the
off-chain protocols that have to survive crashes, lost messages and
reorganisations: the co-signing cluster, the transfer between channels, and the
journals of the L1 senders. TLC checks small instances; TLAPS proves the safety
properties of all components but the inter-channel transfer for every value of their
constants.

## The system

| Part | State | Operations | Module |
|---|---|---|---|
| `ChannelSettlementManager`, lifecycle | status, freeze nonce, generation, pending close, deadline, horizon, consumed cancel version, finalized close | request, submit intent, replace, cancel, finalize | `CloseGame`, `CloseGameHonest` |
| `ChannelSettlementManager`, payout | cap, received funds, nullifiers, payouts, credits | claim, late credit, pull, pay out | `Payout` |
| `IntmaxRollup`, chain | block hash chain, per-height records, submissions, finalized roots, deposit and registration chains, checkpoints | deposit, register, post, attest, finalize, fraud proof, timeout removal | `Rollup`, `RollupLedger` |
| `IntmaxRollup`, bonds | bond balance, posted, released, pull ledger | top up, withdraw, release, forfeit | `Rollup` |
| `IntmaxRollup`, escrow | escrow per token, pull ledger, used nullifiers | withdraw native / ERC-20, pull, credit a channel exit | `Payout` |
| `CloseFundingMaterializer` | bound managers, freeze, post journal, backing receipts, exits, late-balance checkpoint | bind, freeze, record and roll back posts, attest, materialize, claim late incoming | `ChannelExit`, `Payout` |
| `BlobKZGVerifier` | attestation journal | attest | a flag of a submission in `Rollup` |
| L1 publishers (Rust) and their signer reservation | journals, raw transactions, reservation | claim, sign, publish, confirm, adopt, release | `SignerLane` |
| The delegate's outbox | attempts per action, terminal records, lease | send, replace, resume, finalize, release | `Outbox` |
| Signature cluster (`api/lib/cluster.js`) | heads, signing ledger, halts, rounds, lock queue | propose, sign, merge, warn, halt, auto-close | `Cluster` |
| Inter-channel transfer with exit kits, producer journal and live balance | heads, two-channel journal, request files, producer entries, staged block, live service | send, resume, sweep, sign, stage, post, sync, settle, receive | `InterChannel` |
| Deposits and burns, provers, polling loops, user interface | | | not modelled |
| Circuits, Falcon, Regev, MLE/WHIR | none | pure functions | not modelled |

`PROJECT.json` lists every part with its sources, the definition-to-source map
and the hazards the properties are aimed at.

## Modules

* **CloseGame**. One channel's close. A signed state is its (epoch, version)
  pair. `requestClose` and `finalizeCloseGuarded` are called with values read
  earlier, so each is two actions: a member signs (`SignRequest`,
  `SignFinalize`) and the transaction is mined later and may revert
  (`MineRequest`, `MineFinalize`). `Submit` is `submitCloseIntent` with
  `_storePendingClose`, `Cancel` is `cancelClose`. `backed` is the answer to the
  admission reads of `_checkCloseProof`; `Attest` and `LoseBacking` change it.
* **CloseGameHonest**. The same game seen by one honest member: `LiveSpec` (the
  member keeps sending its transactions) and `TimelySpec` (it answers within one
  challenge period).
* **Rollup**. Posting, finality, removal and bonds. Hash chains are the
  sequences they fold; the correct state root of a chain is the chain itself.
  What a producer posts is arbitrary: valid for another span, invalid, not
  evaluable, with a junk declared root.
* **RollupLedger**. What the rollup promises: whole batches are appended or
  removed from the end, the finalized height rises only to batch ends and nothing
  at or below it is lost. `Rollup` implements it (`ImplementsLedger`).
* **ChannelExit**. Composition: `INSTANCE CloseGame` with `backed` computed from
  the materializer's receipts, `INSTANCE RollupLedger` for the chain, and the
  materializer's journal between them. It implements `CloseGame`
  (`ImplementsGame`), so what is proved of the close game holds for it.
* **Payout**. The money of a closed channel across the three contracts.
* **SignerLane**. The publishers of validity proofs, closes and close funding and
  the one signer they share. A publication is a journal that takes its
  transactions in order; a run walks it from the first step, replays what the
  journal holds and signs what it does not. A run ends at any point (`Crash`,
  `GiveUp`); journal, reservation and chain stay. The L1 is external: an account
  nonce, a mempool that may forget, blocks that may be reorganised down to the
  finalized head, other senders that carry out a permissionless step first or make
  it impossible, and the signer's bond, which decides the amount a post carries.
  One close era: that the submit slot of a cancelled era is rotated is left out.
* **Outbox**. The delegate's L1 writes: one lease for the signer, a journal of
  signed attempts per action, replacements with the same or a fresh nonce. A
  section under the signer mutex is split at each durable write. The mutex itself
  (a lock directory that is taken over from a dead owner) is taken to be sound.
* **Cluster**. The hosts of one channel. A round, its timers and the channel's
  lock queue are in memory and die with the relay; head, signing ledger and halt
  are files. Jobs under the lock (sign, merge, close) run one at a time; a job
  whose round was dropped goes on without it (`detached`). A merge can fail before it
  adopts the head (`MergeFails`: the command cannot run or times out, a pending burn
  that goes first fails, a pooled signature is invalid, the result is incomplete) and
  after (`PublishFails`).
* **InterChannel**. A transfer writes four durable stores one after another. A
  call of the relay is the list of steps it still has to take; every await ends a
  step, every step can fail, the relay can die between any two, and a command of
  `channel_member` can be killed between two of its writes (`RollForwardCut`). The
  daemon's build is part of the initial state: without `authenticated-tail-receive`
  the live service refuses a receive of a channel that has sent and has no further
  send posted (`WindowOpen`, `ensure_receive_window_open`).
* **\*Proofs**. The TLAPS proofs, see below.
* **MC\***. Instances for TLC.

An operator that stands just before a definition and is described as faulty, or as
a mutant of it, is a plausible bug in that definition. No specification uses it;
it shows that a property can fail.

## Runs

| Run | Question | Size |
|---|---|---|
| `close_game` | Do late transactions, replacements and cancels leave the close consistent and answerable, and does a member that keeps acting get out? | 2 members, 3 states, 493k, liveness |
| `rollup` | Is the chain consistent through posts, removals and reposts, are only its own roots finalized, are deposits and pins safe, is every batch resolved, is the ledger implemented? | 2 posts of 1 or 2 blocks, 2 deposits, 1 registration, 123k, liveness |
| `rollup_bonds` | Do bonds cover what can be removed, and does reporting one's own fraud never pay? | 2 producers, 3 posts, 272k |
| `channel_exit` | Does the composed exit pay exactly the posted sends, stay fundable and stay possible? | 2 channels, height 3, 120k, liveness |
| `payout` | Is no claim paid twice, no proven withdrawal or unit of value lost, and every accepted claim paid in the end? | 2 tokens, 2 claims, 2 late receipts, 2 withdrawals, 137k, liveness |
| `signer_lane` | Is no nonce signed twice, can every journaled transaction be replayed, is a result final, and what can a publication that does not complete be waiting for? | 2 publications of 2 steps, 196k, liveness |
| `publisher_resume` | Does every publication complete? **No**, see below | 1 crash |
| `outbox` | Do actions own their nonces, succeed at most once, and leave nothing to mine when the lease moves on? | 2 actions, 2 attempts each, 128k, liveness |
| `outbox_wedge` | Is the lease of a terminal action always released? **No**, see below | 1 crash |
| `cluster` | Do the hosts adopt one chain, try to merge every complete round, and close only at signed states? | 2 hosts, 2 competing payloads, 962k |
| `inter_channel` | Are both channels signed or neither, does everything land in the order it was signed, and does no request stay pending? | 2 transfers, 2 faults, both builds, 139k, liveness |
| `inter_frozen` | Is a staged block always resolved by the sender's retries? **No**, see below | 2 transfers, 2 faults |

**Bounds.** Three signed states give a pending state, a replacement and a cancel
above both; periods of 1 still separate request, grace, first deadline and
horizon. Time advances only while a guard depends on it (`LastTimedInstant`). Two
posts allow a removal and a repost, three in `rollup_bonds` also a repost on top of
a surviving batch and a removal that takes another producer's post with it (the
proofs have no bound on posts); batches of two blocks separate heights from batch
ends. The deadline of 0 Ethereum blocks
only fixes when removal becomes possible. In `payout` the claims together exceed
the fund, so the cap binds. `signer_lane` has one crash, two upsets of the L1 (a
reorganisation, a dropped transaction, a step made impossible) and one change of the
bond, so that a step is signed, lost, replayed and overtaken by another sender; two
steps give a first, which checks the predecessor, and a later one (the proofs have no
bound on steps). `outbox` has two
crashes, so that a replacement can be interrupted after a first interruption was
repaired. In `cluster` the two payloads extend the same head and one fault may
happen; hosts are symmetric. `inter_channel` takes two topologies, back and forth
and twice the same way, with one sender besides the sweep; the builds of the daemon
differ only back and forth, where a channel both sends and receives. Symmetry is used only in
`rollup_bonds` (producers) and `cluster` (hosts), which have no liveness property.
Deadlock is not checked: a closed channel, a bounded number of posts or of
submissions may end.

**Fairness.** `close_game`: time passes and one member's own transactions are
mined; nothing is assumed of others. `rollup`: Ethereum produces blocks and
somebody sends the permissionless, proof-free removal. `channel_exit`: submissions
are resolved, which is `EverySubmissionResolves` of the rollup, and somebody
attests the newest backing (permissionless). `payout`: materialization and pulls
are permissionless, and recipients claim. `signer_lane`: the operator runs every
unfinished publication again (strongly fair: another run may hold the flock), a
run goes on or ends with an error, the L1 mines and finalizes. `outbox`: a section
that holds the mutex ends, and the delegate's loop calls again on an action whose
store does not show it as done. `inter_channel`: a started call goes on, and the
sweep, which runs on a timer and waits in a first-come lock queue, comes back for
every pending request; `inter_frozen` adds senders that retry, and releases the
daemon may miss.

## Where code and text disagree

* `publisher_resume`: `publish_public_validity` checks the candidate's predecessor
  against the latest L1 head before it reads its journal. Its own post moves that
  head, so a run interrupted after the post was mined is refused by every later
  run, and the reservation of an unconfirmed post keeps the other publishers of
  the signer waiting. The documentation says the exact raw transaction is resent
  on restart. Besides this one the model has two more ways to strand a publication
  (`Stranded`): a post reserved with one amount and never journaled, when the bond
  lacks another amount at the next run, so that the reservation's intent no longer
  matches; and an L1 that has gone past a step in another way. `StrandedHoldUpByLaneOnly`
  shows that a publication that never completes is stranded or waits for the lane of
  one that is.
* `outbox_wedge`: a fee replacement rewrites the lease to stage `intent` before it
  signs. If that call is interrupted and the original version is finalized, the
  terminal record is written but no later call releases the lease.
  `LeaseReleasedOrIntent` shows that a lease that names a transaction is released.
* `inter_frozen`: when the daemon misses the release of an abandoned transfer, the
  retry does not resolve the staged block as the comment says:
  `flushPublishedHead` is refused while a block is staged, before the retry reaches
  the step that would replace it.

Four more observations have no run of their own:

* The NatSpec of `withdrawNative` asks for the latest finalized root,
  `_verifyWithdrawalSet` accepts every finalized one, and
  `ProvenWithdrawalStaysPayable` relies on it.
* The comment on `MIN_CLOSE_RESPONSE_SECS` promises the response interval to every
  admitted replacement. `_storePendingClose` caps the deadline at
  `horizon + minResponse`, so one mined after the horizon can get less. Up to the
  horizon the interval is proved (`RungAnswerable`).
* A signature that arrives before its proposal creates a round without timers, and
  `openRound` then returns that round unchanged (`cluster.js:279`). With three
  hosts and one lost post such a host neither warns nor halts, and a wallet's
  request on it waits for the peers; the same holds after a failed merge, which only
  the timers try again. `CompleteRoundTried` states what does hold: once the last
  signature is there the merge is under way, unless a merge of that round has failed.

* `ensure_receive_window_open` says that a withheld credit "stays pending until this
  channel posts its next send". That send is refused (`CanStage`) until the live head
  includes the credit; `doc/tasks/inter-channel-live.md` says that the window "never
  opens in the current flow". `Cargo.toml` leaves the feature that removes it off,
  `hosting/wallet/deploy-relay-host.sh` turns it on. `CommittedLands` and
  `PendingResolves` therefore make an exception for withheld credits (`Withholds`),
  which with the feature never happens.

## Proofs

All theorems are about `Spec` without fairness and hold for every value of the
constants that satisfies the named assumptions; bounds on crashes, posts or events
are arbitrary naturals. `PROJECT.json` says which theorem generalises which run.

**CloseGameProofs** (`SignedStatesAssumption`, `PeriodsAssumption`,
`HonestAssumption`): the safety properties of `close_game`; that a cancel restores
the initial lifecycle (`CancelRestores`), that the freeze is held (`FreezeHeld`),
that cancels and the whole game are bounded (`CancelsBounded`, `GameBounded`), that
replacements only improve (`ReplacementImproves`); and `NewestSettles` under
`TimelySpec`: if the holder of the newest state answers in time, nothing older
settles. `IInv` adds `LifecycleInv`: a pending close has status ClosePending, and
its deadline is `ClampedDeadline(t, horizon)` for some instant t already passed. The
clamp is monotone in t and bounded, which gives the bounded game and the full first
period. `RequestsInv` says of a raw request in flight that it still carries the
current floor only if it was signed in this era or no longer matches the nonce.

**RollupProofs** (`BatchesAssumption`, `StakesAssumption`, `RolesAssumption`,
`ValuesAssumption`): the live submissions tile the chain, finalized roots are on it,
removal is never blocked, and `Rollup` implements `RollupLedger`, initial states and
every step. Tiling speaks of consecutive batches, but a removal drops several;
`ChainInv` therefore orders any two (`BatchesOrdered`). `FinalizedBelow` ties the
finalized marks to the finalized height: the guard of `fraudProof` compares heights,
the revert in `_truncateSubmissions` looks at the marks.

**RollupMoneyProofs**, deposits: no deposit is lost, and an admitted pin stays admitted until
the next post. `LiveInv` says that every recorded pin is a prefix of the live pair of
chains, so of two pins the one with the larger counts extends the other, and
comparing counts, which is all the contract does, is comparing chains. `ConsumedInv`
and `BlocksInv` say that what a removal restores is a recorded pair, grows along the
submissions, and covers what the remaining blocks consumed.

**RollupMoneyProofs**, bonds: a released post is final, the bond of a producer that was never
convicted covers every post that can be removed, and a conviction costs the offender
more than the reporter is paid. That released posts are final is not inductive,
because a removal decrements `posted` and indices are given out again. `CountInv`
bounds `released` by the number of the producer's final posts, which no removal
changes, and says that an index is the rank of its post; `CoverInv` counts exposed
posts.

**ChannelExitProofs** (`SettledByAssumption`, `BatchesAssumption`, and the assumptions
of `CloseGame`): the journal tracks the chain, a rollback never reverts, an admitted
close stays fundable and settles exactly the posted sends, and the composition
implements `CloseGame`, initial states and every step. `JournalTracksChain` speaks of
the current pointers, but a rollback brings back saved ones. `JournalInv` therefore says
of every pointer that it is right for whoever sees only the blocks below it
(`PointsAt`); the pointers that a rollback to height k must leave can then be written
down at once (`LastAt`), and the walk of `JournalAfter`, a recursive function over the
heights, is shown to compute them by a smallest counterexample. `ReceiptsInv` says that
a receipt has processed the finalized own sends it is keyed on, and `ManagerInv` that
only a bound and frozen channel closes. The refinement needs both: while the channel is
frozen no own send is posted and none is removed, so what is backed stays backed.

**PayoutProofs** (`PayoutAssumption`: finite tables, escrow that covers what the base
layer lets anyone prove): value is conserved, each claim is paid once and within the
cap, the late checkpoint is complete, a proven withdrawal stays payable. `IInv` joins
the properties with `EscrowBooked`: what the escrow has lost is the exit, the credited
late receipts and the paid withdrawals. The totals are sums over finite sets; their
lemmas (adding an element, subsets, agreement of two recursive definitions) are proved
by minimal counterexample. What they need of finite sets is the hypothesis
`FiniteLaws` of every lemma, which `LawsHold` discharges from the library at the end.

**SignerLaneProofs** (`LaneAssumption`): nonces are exclusive, a journaled transaction
can be replayed, a returned result is final. All rest on `LaneHeld`: a journaled
transaction of unknown fate owns the lane. So there is at most one; everything else
the account sent is final, and a new transaction takes the first nonce after it.

**OutboxProofs** (`OutboxAssumption`: finitely many actions): actions own their nonces,
an action succeeds at most once, and a released lease leaves nothing to mine. None is
inductive. `LeaseSound` says that the lease holds a nonce no other action has signed,
`OldNoncesFailed` that an action moves to a fresh nonce only when every earlier one is
spent, in a finalized block, by a transaction that failed. `TerminalSpent` is stronger
than the property: a terminal action has no open nonce even while it keeps the lease.
`Picks`, which the lemmas assume, says that the maxima and minima the code takes exist;
`PicksHold` proves it.

**ClusterProofs** (`ClusterAssumption`): no fork, closes at signed states, and every
complete round is tried. `IInv` says that a signature that is pooled, in flight or used by
a merge is in the ledger of the slot that made it, so two adopted successors of one
state are both in one ledger entry. `RInv`, for `CompleteRoundTried`, adds
`SignedNext`: a host that signed a successor of its head has not left that head for
another state. Hence the gate refuses a queued merge only after its state was adopted,
and a job that leaves the queue without adopting drops its round or marks it failed.

**Only model-checked.** The liveness properties (`ExitLiveness`,
`EverySubmissionResolves`, `FrozenChannelIsClosable`, `EveryPayoutPaid`,
`StrandedHoldUpByLaneOnly`, `LeaseReleasedOrIntent`, `CommittedLands`, `PendingResolves`):
fairness and ENABLED are out of the prover's reach. The safety properties of
`InterChannel` (`TransferAtomic`, `LandedInSignedOrder`): their inductive invariant
describes where every process stands in its list of steps, and no proof of it that
the prover checks in reasonable time has been found.

## Assumptions and what is left out

* A channel signs at most one state per version, with successive epochs and an
  unchanged freeze nonce (`SignedStatesAssumption`, `SignedFreezeNonce`). `Cluster`
  shows the part of it that is the anti-equivocation ledger.
* A valid proof states the truth; circuits and signatures are not modelled.
* In `ChannelExit` a channel's signed sends are posted in the order they were
  signed, also after a rollback. `InterChannel` shows the order for a first posting.
* In `InterChannel` a block that is released and staged again is the same block; that
  an exit kit names the block its transfer lands in is not shown.
* The lock directory of the delegate's outbox excludes two holders.
* In `Payout` the escrow covers what the base layer lets anyone prove
  (`PayoutAssumption`), all deposits are made at the start, and the Manager is
  Closed; how it gets there is `ChannelExit`.
* Owner setters and one-time wiring are constants; entry points that always
  revert are no actions; unread view mappings are left out.
* Not modelled: the deposit and burn pipelines (recovery procedures of the shape of
  `InterChannel`; the on-chain side of deposits is in `Rollup`), the validity and
  close provers and the live balance proofs (pure computation), the replay of the
  producer's journal file, the polling of the delegate and cosigner nodes, HTTP
  routes and the wallet's user interface.
