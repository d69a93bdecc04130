# TLA+ specifications of e-zkappchain

These modules specify the stateful parts of the repository: the exchange engine (order
book, C bindings, command actor, write-ahead log) with the node around it, the order flow
auctions and their settlement on L1, the batch consensus of the sequencers with its locks,
and the p2p loop. TLC checks small instances of all of them. TLAPS proves the safety
properties that hold, for every value of the constants: the order book with its refinement
and the depth it reports, the node with its log, service and key files, the auctions and their
settlement, the consensus and the p2p loop.

Paths below are relative to the repository. `PROJECT.json` maps every definition to
the lines it models, and lists all components, runs, hazards, findings and theorems.

## The system

    host (C) ──> FFI ──> OrderBook                           (zkapp/ffi)

    gRPC clients ──> MarketProcessor ──> velocity.wal        (zkapp/engine)
                       │  OrderBook
                       │  auctions ──channel──> settlement task ──> EviceRollup (L1)
                       └──broadcast──> WebSocket clients     (zkapp/node)

    ConsensusEngine <──channels──> p2p loop <──gossip, requests──> other nodes
                                                             (evice-multi-sequencer)
    keystore, p2p_keypair, genesis.json ──> node             (zkapp/node)

The exchange and the consensus are not connected yet in the code: payloads that come out
of the consensus are only logged (`zkapp/node/src/main.rs:462-495`), and nothing fills the
mempool of the proposer. So the two halves are specified separately, and nothing is
claimed about a batch's effect on the book.

| Part | Source | Modules |
|---|---|---|
| Order book | `zkapp/engine/src/lib.rs` | `OrderBook`, `OrderLedger`, `PriceTimeBook`, `OrderBookRefinement`, `OrderBookProofs` |
| C bindings, depth | `zkapp/ffi/src/lib.rs` | `FfiEngine`, `FfiEngineProofs` |
| Command actor and log | `zkapp/engine/src/processor.rs`, `wal.rs` | `MarketProcessor`, `TradingNodeProofs` |
| gRPC service, market data feed | `zkapp/node/src/main.rs` | `TradingService`, `TradingServiceProofs` |
| Key files | `keystore.rs`, `zkapp/node/src/main.rs` | `KeyFiles`, `TradingNodeProofs` |
| A node over its lives | `zkapp/node/src/main.rs` | `TradingNode`, `TradingNodeProofs`, `TradingServiceProofs` |
| Genesis and first election | `zkapp/node/src/main.rs`, `genesis.rs`, `p2p/types.rs` | `Bootstrap`, `AddressBook` |
| Auctions, settlement task, contracts | `processor.rs`, `settlement.rs`, `contracts/src` | `Settlement`, `SettlementProofs` |
| Consensus engine | `evice-multi-sequencer/src/consensus` | `Consensus`, `ConsensusSteps`, `ConsensusProofs` |
| Locks of the consensus state | `consensus/engine.rs`, `p2p/swarm.rs` | `StateLocks` |
| P2P loop, peer scores | `p2p/swarm.rs`, `p2p/types.rs` | `SwarmLoop`, `AddressBook`, `SwarmLoopProofs` |

Modules called `MC...` give the constants of small instances.

## Modules

### OrderBook, OrderLedger, FfiEngine

`store` and `free` are the slab (`free` is its chain of vacant slots, the slot freed
last first, which decides which slot the next order gets), `book` is `bids` and
`asks`, `index` is `order_index`. Prices without a level, vacant slots and unknown ids
are outside the domains. A book has one owner, so commands do not interleave; the
matching loop takes one step per iteration: `StartPlace` enters
`place_limit_order`, `CancelSelfTrade` and `Trade` are the two ways an iteration can
go, `Rest` and `Filled` leave it. `Cancel` is `cancel_order`. `taker` holds the local
variables of the running call, `events` what it returns.

`Reused` are the ids that clients send again. The code does not prevent it, so the
invariants of queues and slab are checked and proved for any such set.

`OrderLedger` observes the book through the events it returns: it records what was asked
for and what the trades report, and states that these add up.

`FfiEngine` adds the bindings: an engine that is set once, calls that are answered with
null, the mutex (held while `taker` is an order), and `get_depth` as an operator on the
book whose sums wrap at `Width`. Its steps are steps of `OrderBook` or leave the book
alone (`FfiKeepsTheBook`), so what is proved of `OrderBook` holds for it.

### PriceTimeBook, OrderBookRefinement

`PriceTimeBook` is what the book promises: a line of orders at every price, served from the
front, best price first, without slots, levels or index. `OrderBookRefinement` maps the
book to it (the line at a price is what the slots in the queue of its level hold), and
`KeepsPriceTimePriority` says that every step of the code is one of the promise. Of a
cancellation the promise is only that one order goes, or none; which one is the subject of
`CancelRemovesTheNamedOrder`.

### MarketProcessor

The actor handles one command at a time. Each order of a command is written to the log
(`WriteEntry`, or `WriteFails` when the disk refuses) and then applied to the book
(`Execute`); `Respond` answers the client. `Crash` may come between any two steps (one
within a write is `WriteFails` and then `Crash`); `Recover` is `MarketProcessor::new`. A
log entry is two pieces, so a partial one can remain. After a refused write, `BufWriter`
keeps what it has not written; the next entry goes behind it. The buffer has 8 KiB
(`Fits`): a field for which there is no room makes it flush within the entry, and when the
disk refuses that too the entry is cut off there (`WriteOverflows`). The pieces of two entries
can also decode to something nobody wrote (`Garbage`). The book is a function of the
entries applied to it, so the sequence `executed` stands for it.

### TradingService

The clients' side of the actor. A call is accepted or refused, sends its command when the
channel has room (`Send`), waits, and is over; its client may give up at any moment
(`GiveUp`), which does not take a sent command back. `Take` hands the next command to the
actor, `Reply` publishes its events and then answers. `ProcessorPanics` ends the task of
the actor and leaves the service running. A viewer of the WebSocket feed gets the events
from a ring buffer (`Subscribe`, `Show`); one that has fallen behind is disconnected.

### KeyFiles, TradingNode

`KeyFiles` is the disk: `save_to_path` in its five system calls (`CreateTmp` to
`SyncDir`), each of which may be the last; and `p2p_keypair`, which the node or
`--get-peer-id` reads, or makes and writes in place. A file carries whether its data was
synced. `PowerFailure` may leave part of a file that was not, and may undo a renaming in a
directory that was not.

`TradingNode` composes both: a node opens its keys, recovers the book, serves, and ends or
loses power at any point, several times. A step of it is a step of `KeyFiles` or leaves the
key files alone (`NodeKeepsKeys`), so what is proved of `KeyFiles` holds for it.

### Bootstrap, AddressBook

From `node --bootstrap` to the first election: the accounts written to `genesis.json`, the
address book that `update_from_genesis` makes of them, and the sub-committee drawn from it.
An account is the size of its key and the peer it names.

### Settlement

The auctions in the actor (`SubmitBid`, `Expire` for the passing of 500 ms,
`ResolveAuctions` for the tick, `CommitToStateMachine` for each event sent), the bounded
channel `outbound`, the task that takes one event after the other (`ReceiveEvent`,
`SubmitZkBatch`, `SubmitFails`), the transactions that were sent and for whose receipt
nobody waits any more (`sent`, `ExecuteLate`), and the contracts (`DepositIntent`, `UpdateState` with
`VerifyProof`, `SetVerifier`, pausing). While `resolving` is not empty the actor waits in
`commit_to_state_machine` and handles nothing else. `Crash` loses what is in memory, not
what was sent to L1.
Root and proof are constants in the code, and so they are here.

### Consensus

All nodes with their state and the messages sent so far. A node runs a driver
(`Advance`, `Timeout`), the job of the current step (`Elect`, `Propose`, `VoteForOwn`,
`CountOwn`), and one task per message (`ReceiveProposal`, `CastVote`, `Count`;
`ReceiveVote`, `StoreVote`, `Count`; `ReceiveQC`), with `PruneProposals` after a
confirmation. They share the state under locks taken several times, and a step is what
happens between two points where another task can come in. When the driver leaves a step
it aborts its job; the job disappears or, if it is running at that moment, goes on.

Gossip loses, delays and reorders. Delivering a vote or certificate again changes
nothing, so only proposals need the cache of seen hashes (`seen`). Nodes are honest and
may restart with nothing, since no consensus state is on disk.

Simplifications: the driver's reading and writing of its round is one step (only the
driver writes it); so are the two halves of `prune_confirmed_proposals`;
`premature_proposals` is left out because nothing is ever put into it;
`consensus_ready` is always true in the node; fewer than 1000 hashes are in use.
An abort while a certificate is sent is a certificate nobody receives. It would also leave
out `prune_stale_data`, which follows the sending (`Confirm` has both in one step): the votes
of a batch that is processed already and one more confirmed batch would stay until the next
confirmation.
The seeded shuffle is the constant `Committee`, of which the proofs assume nothing;
`MCConsensus` gives a rotation that depends on the round and the kind of seed.

### StateLocks

What `Consensus` leaves out: that the locks can be waited for. Every task is the sequence
of the locks it takes and drops, one sequence per way through its code
(`ProcessVotesForBatch`, `HandleBatchProposal`, `LookUpBatch`, ...). A lock is a queue of
requests, of which the first and, if it reads, the readers right behind it are granted:
tokio's `RwLock` lets nobody overtake a writer that waits.

### SwarmLoop

One node's p2p loop. `loop` says what it waits for: `select!` (`Idle`), the mutex
`peer_scores` or room in the channel to the engine. The branches of `select!` are
`ReceiveCommand`, `SendResponse`, `Tick` and one action per event of the swarm; a gossip
message or a request spawns a task, with its own steps (`GossipLocks` to `Respond`).
`channel`, `commands` and `responses` are the bounded channels. The engine is what the
loop meets of it: it takes messages and sends commands. libp2p is the environment; nothing
is assumed of it except that closing needs an open connection. So a request that the loop
hands to libp2p, `InformAboutPeers` of a bootstrap node included, may get lost, and an answer
is the call of `send_response`, whose error is only logged. What happens in the
consensus state for `GetFullProposal` is `Lookup`, of which no progress is assumed, because
of what `StateLocks` shows.

## Runs

`tlc -config X.cfg M`, for the module and the cfg below. With two workers the longest
(`node`, `auctions`, `consensus_rounds`, `swarm`) take one to two minutes.

| Run | Module, cfg | Checks | States |
|---|---|---|---|
| `book` | `MCFfiEngine`, `MCFfiEngine` | `TypeOK`, `QueuesMatchStore`, `NotCrossed`, `RestingOrdersCanBeCancelled`, `IndInv`, `FillsAddUp`, `DepthIsTheMarket`, `MatchingProgresses`, `KeepsPriceTimePriority` | 220,000 |
| `node` | `MCTradingNode`, `MCTradingNode` | `TypeOK`, `ServiceTypeOK`, `LogLeadsBook`, `AnswersSurvive`, `NoCallIsForgotten`, `FeedIsContiguous`, `FeedShowsTheBook`, `KeystoreIsWhole`, `SavedKeystoreStays`, `IdentityIsKept` | 989,000 |
| `auctions` | `MCSettlement`, `MCSettlement_auction` | `TypeOK`, `WinnersAreBest`, `EveryAuctionHasOneOutcome`, `ResolvedIntentsWereWon`, `AuctionsEnd`, `ActorReturns` | 302,000 |
| `consensus_faults` | `MCConsensus`, `MCConsensus_faults` | `TypeOK`, `CertificatesAreValid`, `QuorumsAreNoticed`, `CertifiedBatchesAreHeld` | 156,000 |
| `consensus_rounds` | `MCConsensus`, `MCConsensus_rounds` | `ConfirmedOnce`, `NodesMoveForward` | 683,000 |
| `swarm` | `MCSwarmLoop`, `MCSwarmLoop` | `TypeOK`, `LowScoresAreBanned`, `ConnectedPeersAreNotPending`, `LoopReturns`, `RequestsAreAnswered`, `FlagFollowsNetwork` | 45,000 |

What they show, beyond the type invariants:

- `book`: no order of calls, self-trades, partial fills, reused slots and reused ids makes
  queues and slab disagree, crosses the book, loses quantity, reports a wrong depth or
  breaks price-time priority; the matching loop ends.
- `node`: what clients were told and viewers were shown is in the book after any crashes,
  unless the disk had just refused a write, what it refused filled the buffer, or the power
  failed; no waiting call is left
  without an answer to come; a viewer never misses an event unknowingly; the keystore is
  whole or absent, a saved one is not lost, and the PeerId stays the same.
- `auctions`: auctions end with their best bid, and each with one outcome; the actor comes
  back from a full channel; only locked intents that were won are resolved, however late.
- `consensus_faults`, `consensus_rounds`: certificates carry quorums of real voters, quorums
  are noticed, certified batches can be fetched, nothing is confirmed twice, and nodes
  only move forward: no step of a round starts twice, so its timeouts run out. That the
  driver gets to its ticks is another matter, see `locks`.
- `swarm`: the loop always returns to `select!` although loop, tasks and engine wait for
  each other; requests are answered; the ready flag follows the network; no order of
  rewards and penalties passes the threshold without a ban; a connected peer is not taken
  for one that is being dialled.

Every property has a variant of the code (the definitions marked "Variant") that breaks it.

### Where the code and its documents differ

TLC finds a counterexample in each of these runs:

| Run | Module, cfg | Property | What happens |
|---|---|---|---|
| `book_cancel` | `OrderBook`, `OrderBook_cancel` | `CancelRemovesTheNamedOrder` | the id of a filled order still leads to its slot; cancelling it removes the user's order that took the slot |
| `processor_torn` | `MCMarketProcessor`, `MCMarketProcessor_torn` | `WrittenEntriesAreReplayed` | entries behind a partial one are not replayed |
| `settlement` | `Settlement`, `Settlement_settled` | `WinsAreSettled` | the second settlement has the same root as the first and is refused |
| `consensus_order` | `MCConsensus`, `MCConsensus_order` | `SameOrderEverywhere` | two nodes confirm different batches at index 1 |
| `locks` | `StateLocks`, `StateLocks` | `DriverGoesOn` | a lookup holds `pending_proposals` and waits for `core_state`, a counting task the other way round, with a writer between them: the driver never comes back |
| `genesis` | `Bootstrap`, `Bootstrap` | `ElectionsHaveALeader` | `--bootstrap` files accounts under public keys, the address book keeps 20-byte addresses only: it is empty, and no election has a leader |

More facts of the code are in the specifications, and limit what can be promised, without
a run of their own:

- `service.proto` calls `order_id` an idempotency key; `place_limit_order` does not look an
  id up, so a repeated request places a second order (`Reused`).
- When the log cannot be written the command is executed all the same, and `flush` is not a
  sync. `LogLeadsBook`, `AnswersSurvive` and `FeedShowsTheBook` therefore stop at a crash
  that meets a refused write, at an entry that is cut off because the buffer is full of what
  the disk refused, and at a power failure (`lost`); `IdentityIsKept` stops at a
  power failure, since `p2p_keypair` is not synced either.
- The orders of a bundle are separate entries: after a crash a bundle that was not
  answered may be in the book in part.
- The seed of an election (`Seed`) depends on whether the node has confirmed the certified
  batch, so nodes with the same certificate may elect different leaders.
- The sum of a level in `get_depth` wraps in a release build (`DepthIsTheMarket` is about
  sums that fit).
- A dial that fails later than `swarm.dial` stays in `pending_dials`.
- A ban is marked for half an hour (`BAN_DURATION`). Nothing reads `is_banned` or
  `ban_until`, so it blocks nothing and does not end with time; it goes with the entry of
  the peer when any of its connections closes, also when another one is left.
- A bootstrap node announces a peer once, when it is new. A peer that is away at that moment
  does not get the request and hears nothing when it comes back, since it is known.
- A bid that arrives after its auction was resolved opens another one for the same intent,
  whose winner is sent to L1 as well (`WinnersAreBest` says that the bids do not mix).
- `network_ready_flag` follows the network, but the engine is given another flag that is
  always true, so nothing pauses when peers are lost.

### Bounds

- Order book: three slots, two prices and users, quantities 0 to 2 (0 is refused by the
  bindings), one id that is sent once and one that is sent again and again; `book_cancel`
  has three ids. A queue of two orders, an order that meets two levels, a
  partial fill, self-trade between foreign orders, and a slot that is freed and reused all
  occur. `free # <<>>` in `StartPlace` bounds the slab, which grows without limit in the
  code. Users, and ids that are sent once, are interchangeable, which is the symmetry used
  (only safety is checked). From a full slab only cancellations are possible;
  `FullOfOnes` follows them where every order of the full slab wants 1. The other full
  slabs are checked as well, but nothing is followed from them. `Width` is 4, so that sums do wrap.
- Node: one command of each kind, the bundle with two orders, of which three are called;
  a channel and a ring buffer of one, so that both overflow; two refused writes with a
  buffer for one entry and a half (`FitsThree`), so that it is cut off with the second; two
  crashes or panics, one keystore (that a later one stays is shown by the proof only), two
  p2p keys, one power failure. `KeysOrOrders` keeps the files
  and the orders from multiplying: keys are saved and made before the first order, and the
  power fails with at most one order handled. The second crash comes with
  at most two orders sent; with it there is no viewer, nor with the second refused write, and
  the two do not come together. What is cut off is the product of parts
  that share only start and end of the process. The proofs are about the composition
  without this limit, and any `Fits`.
- Settlement: a channel of one, so that it is full with a single event while a second
  auction waits; three bids for two intents, one with an id that does not parse, so one
  intent may have a second auction; two deposits, so that a resolved intent can be locked
  again; and one crash, pause, lost or late transaction. `LowBidsForMalformed` lets bids
  compete for the other intent only, `BidsOrDeposits` allows two of the bids with the second
  deposit. No fairness is assumed of bids and deposits, so this takes no step away from
  liveness.
- Consensus: `consensus_faults` has two nodes, and two proposers in one round or a restart
  (`RestartsOrLaterSteps`: not both); `consensus_rounds` has two nodes for two rounds of two
  steps with a restart (`LaterStepsOrBatches`: behaviours with a second proposal are
  followed only until a node restarts or leaves the first proposer of its round). Two nodes need both votes for a quorum.
  Four nodes, where a quorum can leave one out, are beyond TLC with this grain of steps;
  the proofs cover any number. `MaxConfirmed` is 1 or 2 instead of 256, so that pruning
  happens.
- Swarm loop: two peers with up to two connections each, channels of one, two unfinished
  tasks, two counted requests, four events or commands; scores so small that two penalties
  ban and a reward is clamped. The code does not tell the peers apart;
  `FirstPeerFirst` leaves out the behaviours that begin with the second peer, which are
  the others with the peers exchanged. No fairness is assumed of events.
- Locks: the driver, its job and three tasks, which is as many as the cycle needs.
- `CHECK_DEADLOCK FALSE` where the bounded inputs (commands, bids, rounds, events) run out
  and the system then rightly waits.

### Fairness

- `Settlement`: time passes and the ticker fires (tokio's `interval`), tasks that can go on
  are scheduled, L1 answers a transaction one way or the other, and the operator sets a
  verifier and ends a pause. The last two matter for `WinsAreSettled` only, which fails in
  spite of them. An L1 endpoint that never answers would keep the actor waiting: nothing
  in the code limits that time.
- `Consensus`: none; its properties are about what a step may do.
- `SwarmLoop`: strong fairness of each branch of `select!`, which starts with a random
  branch each time, so that a branch that is ready again and again is taken; and of each
  task and of the loop at a bounded channel, whose waiters tokio serves in order. Weak
  fairness of the mutex, which is first come first served, and of the engine's receiver,
  which only spawns. None of the network, of `Lookup` and of the engine's commands.
- `StateLocks`: the ticker fires and a task that waits for no lock runs. `DriverGoesOn`
  fails although the runtime neglects nobody.

## Proofs

All theorems hold for every value of the constants that satisfies the assumptions named
below, and so without the bounds of the runs.

### Order book (`OrderBookProofs`)

| Theorem | Statement |
|---|---|
| `BookInvariant` | `Spec => []IndInv` |
| `BookTypes` | `Spec => []TypeOK` |
| `QueuesNeverStale` | `Spec => []QueuesMatchStore`: the `expect("Stale index in queue")` cannot fail |
| `BookNeverCrossed` | `Spec => []NotCrossed` |
| `OwnersCanCancel` | `Spec => []RestingOrdersCanBeCancelled` (which is about ids that are sent once) |
| `MatchingEnds` | `Spec => MatchingProgresses`: every iteration of the matching loop lowers the taker's quantity or removes a resting order |
| `BookKeepsPriority` | `Spec => KeepsPriceTimePriority`: the book implements `PriceTimeBook` |

The only assumption is `ConstantsAssumption` of `OrderBook` (prices and quantities are
naturals, `NoTaker` is no order).

None of the invariants is inductive alone. `QueuesMatchStore` needs `FreeIsVacant`: an
insertion must not take a slot that a queue still names, so the chain of vacant slots must
be exactly the slots without an order. `NotCrossed` needs that empty levels are removed
(part of `QueuesMatchStore`), because a taker rests only when no level matches.
`RestingOrdersCanBeCancelled` needs `FreshTaker`: the id about to be indexed has no entry
yet, so that no entry of a resting order is overwritten, and `QueuesMatchStore`, so that
the stale entries of `order_index` do no harm. `IndInv` is their conjunction; the run `book`
checks it before the proof does. One lemma per action shows that it is kept
(`StartPlaceKeeps` to `CancelKeeps`); they rest on three lemmas about the structure of the
book: a slot leaves it (`RemoveSlot`), a slot enters it (`InsertSlot`), a quantity changes
(`PartialFill`). `MatchingEnds` needs `RestingOrdersAreOpen` of it: a maker with quantity 0
would let an iteration pass without effect.

For the refinement, `StepsArePromised` takes the steps of the book one by one.
`Trade` and `CancelSelfTrade` are the interesting ones: the maker that the matching loop
meets is the front of the best line (`MeetsMaker`), and what `pop_front` and the slab do to
it is what the promise does to that line (`LineWithout`, `LineFilled`, `LineWith`) and nothing
to the others, because two queues never name the same slot (`QueuesMatchStore`). The orders
of a queue are cut out by `Retain`, of which `RetainCuts` says that it
removes one place and closes the gap. Initial states map to initial states, and a step
within a call that changes no line is a stutter.

### Consensus

For any number of nodes, rounds and restarts, any committee size and any elections:

| Theorem | Statement |
|---|---|
| `ConsensusTypeOK` | `Spec => []TypeOK` |
| `ConsensusInvariant` | `Spec => []ConsensusInv` |
| `CertificatesAreAlwaysValid` | `Spec => []CertificatesAreValid`: every certificate has a quorum of different signers, each of which voted |
| `BatchesAreConfirmedOnce` | `Spec => []ConfirmedOnce` |
| `QuorumsAreAlwaysNoticed` | `Spec => []QuorumsAreNoticed` |
| `CertifiedBatchesAreAlwaysHeld` | `Spec => []CertifiedBatchesAreHeld` |
| `NodesAlwaysMoveForward` | `Spec => NodesMoveForward`: each step that a driver starts is later than all before it, and certificates and confirmations only grow |

The assumption is `ConstantsAssumption` of `Consensus`: the nodes are finitely many and at
least one, sizes and bounds are naturals.

`CertificatesAreValid` is not inductive because `process_votes_for_batch` counts the votes
of a batch and not the voters. A node votes in three places: as the proposer, when it
handles a proposal, and when it stores the vote of another; only the last looks for an
earlier vote of the same voter. So what has to be excluded is that a node votes for its own
batch twice, as its proposer and as a follower, before the batch is processed (`NotBoth`).
It does not receive its own messages, but a peer may hand its batch back to it; then it
holds it already (`OwnBatches`) and does not vote again, unless it has restarted, and then
the batch is of an earlier boot and not in any job (`OwnJob`). With this a quorum of votes
is a quorum of voters (`QuorumOfVoters`), and since every vote held was sent or is the
node's own (`VoteFrom`), the signers did vote. `HeldInv` and `OnceInv` carry the two other
theorems: what a node voted for is pending or processed, and as long as
nothing had to be pruned the processed batches are the confirmed ones, each once.
`NoticedInv` is `QuorumsAreNoticed` with the exception made precise: a quorum that nobody
is to count is of a batch whose own job was aborted.

`ConsensusInv` is the conjunction with the types. `ConsensusSteps` has the invariant, what
each action changes, that a step of one node leaves the invariant of another alone, the
types, and the preservation by the driver, messages and the steps of jobs and tasks other
than counting; `ConsensusProofs` has restarts, counting and certificates, and the theorems
about the invariant. `ConsensusTypeOK` and `NodesAlwaysMoveForward` are in `ConsensusSteps`:
the latter follows from the types, from the fact that certificates grow with the view
they are for, and from `WorkStartsNothing`: only the driver makes a job that has not looked at
its round.

### Bindings: fills and depth (`FfiEngineProofs`)

| Theorem | Statement |
|---|---|
| `FfiKeepsTheBook` | `FfiSpec => Spec`: the bindings use the book as `OrderBook` says |
| `FillsAlwaysAddUp` | `FfiSpec => []FillsAddUp` |
| `FfiKeepsPriority` | `FfiSpec => KeepsPriceTimePriority` |
| `AnyDepthIsTheMarket` | between calls, `IsMarket(GetDepth(side, limit), side, limit)` for both sides and every limit |
| `DepthIsAlwaysTheMarket` | `FfiSpec => []DepthIsTheMarket`: the same for the limits of the run |

The assumptions are that of the book and `WidthAssumption` (a u64 has some number of values).

`FillsAddUp` compares what events report with what orders have left, so it needs that an id
which is sent once names one order (`IndInv`), and that nothing was reported of an id before
it was sent (`LedgerInv`).

`DepthIsTheMarket` follows from the structure of the book in one state (`DepthOfStructure`),
but compares recursions over data. `get_depth` adds up a queue in its order, modulo the
width of a u64, and `Wanted` adds up the set of the orders at the price (`MapThenSumSet`,
whose order is that of `CHOOSE`). The lemma `Induction`, from the well-foundedness of `<`,
is stated for a set `T` of naturals, so that the provers can use it: with it the recursive
functions exist (`SumExists`, `TotalIs`), the sum of a set does not depend on which element
is taken first (`SumOfAny`), and the two totals agree as long as they fit
(`TotalIsWanted`). The order of the levels comes from their ranks, the numbers of better
levels: two levels have different ranks, so that the ranks are all of `0 .. N - 1`, and
a level of a lower rank is better (`RanksAre`, `PricesAre`). That the queue of a level names
the orders at its price, each once, and that a price at which an order rests has a level is
`QueuesMatchStore`.

### The node (`TradingNodeProofs`, `TradingServiceProofs`)

For any commands and sizes of bundles, any channel and ring size, and any number of refused
writes, crashes, panics, restarts, saves and power failures:

| Theorem | Statement |
|---|---|
| `KeystoreIsSafe` | `Keys!Spec => [](Keys!KeystoreIsWhole /\ Keys!SavedKeystoreStays)` |
| `IdentityIsSafe` | `Keys!Spec => []Keys!IdentityIsKept` |
| `NodeKeepsKeys` | `NodeSpec => Keys!Spec`: the composition implements `KeyFiles` |
| `NodeKeystoreIsWhole`, `NodeKeystoreStays` | `NodeSpec => []KeystoreIsWhole`, `NodeSpec => []SavedKeystoreStays` |
| `NodeIdentityIsSafe` | `NodeSpec => []IdentityIsKept` |
| `MarketTypeOK`, `TheServiceTypeOK` | `NodeSpec => []TypeOK`, `NodeSpec => []ServiceTypeOK` |
| `TheLogLeads` | `NodeSpec => []LogLeadsBook` |
| `AnswersAlwaysSurvive` | `NodeSpec => []AnswersSurvive` |
| `NoCallIsEverForgotten` | `NodeSpec => []NoCallIsForgotten` |
| `TheFeedIsContiguous` | `NodeSpec => []FeedIsContiguous` |
| `TheFeedShowsTheBook` | `NodeSpec => []FeedShowsTheBook` |

`TheLogLeads`, `AnswersAlwaysSurvive` and `TheFeedShowsTheBook` are about behaviours in which
nothing was `lost`, see above; they say nothing after that.

The assumptions are `ProcessorAssumption`, `ServiceAssumption` and `NodeAssumption` (sizes
are naturals; the marks for no command, for garbage, for no file and for part of a file are
none of the values they stand beside).

- Key files. `KeystoreInv` says that a temporary file is whole and synced before it gets the
  name, and that what is under the name, in memory and on disk, is whole, synced and at
  least as new as the last save that returned. `IdentityInv` says that a key that was used
  is the one in the file, and that nobody is then about to make another.
- Log. `LogInv` says that file and buffer together are the pieces of whole entries
  (`Encodes`) and that these are the book, with the entry about to be executed. Then
  `read_all` returns exactly what was written (`EncodedIsRead`), which is what a restart
  needs to rebuild the same book. It holds as long as no crash met a refused write and none
  was cut off in a full buffer. `MarketInv`
  adds that only a process whose last write was refused has something in its buffer.
- Answers. `AnswersSurvive` is about the book, which a crash empties; `AnswersInv` states the
  same of the log, which stays. It also needs that the entries of the command in hand are
  the last ones and that it has not been answered: so an answer adds a whole block at the end.
- Calls. `CallsInv` is `NoCallIsForgotten` with the types: channel, actor and waiting
  calls change together at `Send`, `Take`, `Reply` and at a panic.
- Feed. `ViewInv` is `FeedIsContiguous` place by place. `FeedInv` says of the log what
  `FeedShowsTheBook` says of the book, for all that the process has published, and that
  nothing of the command in hand was published yet.

### Auctions and settlement (`SettlementProofs`)

For any number of bids, intents, channel places, crashes and transactions that fail, with
`SettlementAssumption`:

| Theorem | Statement |
|---|---|
| `SettlementTypeOK` | `Spec => []TypeOK` |
| `TheBestBidWins` | `Spec => []WinnersAreBest` |
| `NoOutcomeIsDropped` | `Spec => []EveryAuctionHasOneOutcome` |
| `OnlyWonIntentsAreResolved` | `Spec => []ResolvedIntentsWereWon` |

`resolve_auctions` picks the last entry of a map by amount; `WinnerIsHighest` shows that
there is one, with the types (an open auction has a bid). `WinnersInv` adds two things to
`WinnersAreBest`: the map of an open auction has the amounts of the bids made in it, no more and
no less, and the winners that wait for the channel won an auction that takes no more bids, so
that later bids for the intent cannot spoil them. `NoOutcomeIsDropped` is a count: a tick
takes every auction that is over once (`ResolveCounts`), and sending moves one event.
`ResolvedInv` follows an event to the contract: what is in the channel, in the hands of
the task or on its way to L1 was won, and an intent the registry knows was locked.

### P2P loop (`SwarmLoopProofs`)

| Theorem | Statement |
|---|---|
| `LowScoresAreAlwaysBanned` | `Spec => []LowScoresAreBanned` |
| `ConnectedPeersAreNeverPending` | `Spec => []ConnectedPeersAreNotPending` |
| `SwarmTypeOK` | `Spec => []TypeOK` |

For any peers, rewards, penalties and channel sizes within `ConstantsAssumption` of
`SwarmLoop`. The first rests on the range of scores (`IsScore`) and on what the two
operations do to a score that is in it (`PenaltyIsScore`, `RewardIsScore`).

`TypeOK` says more than types: the queue of the mutex holds exactly those that wait for it,
each once, and no more answers were given to libp2p than requests came. `LockInv` is the first part.
For the second, `CountInv` counts: a request that is counted is answered, has its answer in
the channel, or is owed by one task; the lemmas `TaskAdded`, `TaskMoved` and `TaskEnded` say
what the steps of a task do to the set of those that owe one.

### Only model-checked

- Liveness, which needs fairness and is out of reach of the prover: `AuctionsEnd`,
  `ActorReturns`, `LoopReturns`, `RequestsAreAnswered`, `FlagFollowsNetwork`.
- The six properties that the code does not keep (above) are refuted by TLC on an instance.

## Not modelled

- The mempool of the proposer: the node creates it empty and nothing adds to it. With it
  goes the effect of batches on the exchange, for which the bridge in `main.rs` has only a
  comment.
- Nodes that lie: invalid signatures and VRF proofs are rejected by library code, and
  equivocation is not part of what the modules describe.
- `premature_proposals`, which nothing fills, and the limit of 1000 seen hashes.
- `ban_until`, which is written and never read; the dials that Kademlia discoveries lead to,
  and listening addresses, which change nothing that is modelled.
- `subscribe_intent_mempool`, a stub whose stream is empty.
- ZK core and prover: arithmetic of a proof system, out of reach of TLC. Settlement uses
  only the answer of the verifier contract.
- Simulator and user client: I/O and library code. Transaction and address types,
  cryptography: encodings and wrappers without state.
- Argument parsing, metrics, the delay before the start, and the wiring of the p2p side in
  `main`.
