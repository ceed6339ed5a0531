# Verification of evm-dex-pool

`evm-dex-pool` keeps the state of many DEX pools in step with a chain: a collector
reads the pools' event logs (over RPC polling or websocket subscriptions) and
applies them, in order, to pool objects that then price swaps. This directory models
the collector and the pools in TLA+, checks them with TLC on small instances, and
proves with TLAPS, for every instance, what matters most of the websocket source, of the
updater with its handle, of the fee reader, and of the V2, Liquidity Book and V3 pools.

Paths below are relative to `src/src/`.

## 1. Inventory

| Part | State | Operations | Correct when |
|---|---|---|---|
| Event queue (`collector/event_queue.rs`) | bounded mpsc channel, window of recent keys (`recent_events`, `event_order`), `gaps`, `block_times` | `send` = `record` then channel, `claim`, `note_gap`, `take_gaps`, `get_all_available_events`, `record_block_time` | a key enters once within the window; a gap is visible no later than the log that ends it |
| Websocket listener (`collector/websocket_listener.rs`) | `FeedProgress` (subscribed_before, last_forwarded, gap_open), connection, heartbeat flag | `start` (reconnect loop), `connect_and_listen`, `subscribed`, `lagged`, `forwarding`, `stop` | every log a feed passed over lies in a gap it noted |
| Websocket block source (`collector/block_source.rs`) | `settler` (pending logs per block, `released_through`), `fill_floor`, `apply_only_through` | `bootstrap`, `fetch_gap`, `wait_until_rpc_passes`, `fill_gap`, `next_batch`, `BlockSettler::{add, take_ready}` | each log is handed on exactly once; what is priced is in chain order |
| Polling sources (`collector/block_source.rs`) | last block polled, pending-block hashes | `LatestBlockSource::next_batch`, `PendingBlockSource::next_batch` | blocks tile without hole or overlap; pending logs never reach the registry |
| Updater (`collector/unified_pool_updater.rs`) | cancel channel, source, fee reader | `start`: bootstrap, then batch by batch | cursor moves after the batch is applied; stops only between batches |
| Event processor (`collector/event_processor.rs`) | swap-event sender | `apply_events_to_registry`, `process_confirmed_events`, `process_pending_events` | speculative state never leaks into the registry |
| Handle (`collector/handle.rs`, `bootstrap.rs`) | updater task, listeners, mode | `stop`, `add_pools` (HTTP and websocket), `remove_pools` | all pools share one cursor after a restart; nothing is applied twice or skipped by it |
| Fee reader (`collector/fee_reader.rs`) | queue of pools, busy flag, sweep clock | `after_batch`, `plan_reads`, `read_fees` | a stale read never overwrites a newer fee |
| Registry (`registry.rs`) | pools, topics, `last_processed_block` | `add_pool`, `remove_pool`, `get_pool`, cursor | topics cover the pools; cursor covers what was applied |
| V3 pool (`v3/`) | price, tick, liquidity, tick map, fee and its source, swap-fee window | `apply_log`, `calculate_exact_input/output`, `v3_swap` | the tick map is the chain's; quotes end and never favour the trader |
| LB pool (`lb/`) | bins, active id, volatility references | `apply_log`, `simulate_swap_out/in` | bins and references equal the pair's, so a quote is what the pair pays |
| V2 and ERC-4626 pools (`v2/`, `erc4626/`) | reserves, or vault totals; fee | `apply_log`, `calculate_output/input`, `apply_swap` | quotes never lower the invariant; the stable iteration ends |
| Fetchers (`*/fetcher.rs`, `collector/pool_fetcher.rs`) | none kept | type and fee detection, discovery of ticks and bins | what is fetched is the chain's state at one block |
| Factories, bindings | none kept | tables | data |

How they interact: each listener task sends logs and notes gaps through a shared
`EventSender`; the updater task owns the queue's receiver inside its source, drains
it, reads the chain over RPC, and applies batches to pools in the registry, whose
locks and cursor the handle and the fee reader share. The only ordering between
listeners and updater is the queue's.

What is hard here: the queue fills while bootstrap catches up over RPC, so one log has
three ways into the pools; the websocket node and the RPC node disagree on the head;
subscriptions overflow and drop and resume at an unknown place; a gap can be seen
before the log that ends it; several feeds deliver the same logs in different orders
through a bounded duplicate window; reorgs retract logs; nodes answer short for their
newest block, and endpoints publish a block's logs in stages. `PROJECT.json` lists these
hazards at the lines where they bite.

## 2. Modules

    EventQueue            channel, duplicate window, gaps
      WebsocketFeed       + chain and listeners; FeedSpec: any consumer of the queue
        WebsocketBlockSource   + RPC node, bootstrap, settler, updater loop
          MCSource             instances for TLC
          SourceProofs         proofs about FeedSpec, and about the source: types, the feed
            DeliveryProofs     + nothing is applied twice, the cursor, nothing is lost

    Induction             induction as theorems about sets of indices; iteration

    ChainOrder            logs in chain order
    PoolReplay            abstract: a registry that replays the chain
    Updater               polling sources, updater loop, event processor, simulator
      CollectorHandle     + stop, add_pools, remove_pools; implements PoolReplay
        MCCollector
        CollectorProofs   proofs about CollectorHandle

    FeeReader             background fee reads against fee events
      FeeReaderProofs     proofs about it

    V3Math                tick and price arithmetic, tick search, the swap loop
      V3Pool              fetch, Mint/Burn/Swap logs, quotes
    SwapFees              the window of fees that swaps paid
        V3Proofs          proofs about V3Pool's Spec and about SwapFeesSpec
        MCV3              (both)

    LBPool                bins, volatility, quotes, the pair that emits the logs
        LBProofs          proofs about LBSpec
    V2Pool                constant product, stable curve, vault, fee detection
        V2Proofs          proofs about V2Spec
        MCReserves        (both)

Where a module holds a definition next to a copy marked as a mutant, or with a telling
suffix (`...Unbounded`, `...Again`), the copy is a plausible bug and no behaviour of the
specification: `PROJECT.json` lists which property notices each.

**EventQueue.** A log is its chain position, a natural number ordered like
`(block, transaction index, log index)`; `Block` and `BlockStart` relate positions to
blocks. The key `(transaction hash, log index)` names the same log, so a position
stands for its key too. `recorded` is a history variable: every key `record` accepted.

**WebsocketFeed.** One listener task per feed. `Subscribe` is `connect_and_listen` up to
its loop; a subscription starts with the logs its node has not published yet, which may
be up to `NodeLag` blocks behind the chain. `Receive` takes the next log, lets
`FeedProgress::forwarding` close the open gap and notes it; `RecordItem`/`SkipDuplicate`
and `SendItem` are the two halves of `EventSender::send`, between which other tasks run
(the window's locks are released before the channel send). `Lagged` drops all but the
newest `LogChannelSize` logs; `Disconnect` stands for every way a connection ends. A
retraction (`removed`) moves no progress. `covered` is a history variable.
`FeedSpec` closes the system with the most general consumer (drain, take gaps, put a gap
back, claim a key, drop the receiver); it is the abstract specification of the queue's
client.

**WebsocketBlockSource.** The consumer the code has: `bootstrap` in the steps between its
awaits (`latest`, `drain0`, `catchup`, `gaps0`, `fill0`, `claim0`, `apply0`), then
`next_batch` with the updater's handling of the batch (`drain`, `gaps`, `fill`, `claim`,
`ready`). The pools are abstracted to what order and multiplicity can corrupt: how often
each log was applied (Mint, Burn and bin changes add up) and which was applied last (Swap
and Sync set state outright). `RpcAnswers` is what `eth_getLogs` may return: everything
before the node's newest block, some subset of the newest block, nothing past it.

Abstractions worth knowing: a drain of the channel is one step; a gap's RPC batches are
fetched in one step and claimed one by one; applying a batch is one step, since no other
task reads the pools through the modelled state; `settle` is not a clock: a pending block
may be found quiet at any poll. `enrich_if_lb_pools_present` and `fetch_events_with_retry`
never return an error, so `next_batch` has no error path.

**ChainOrder.** `InOrder` lists a set of logs in increasing order, `Among` keeps the members
of a sequence that are in a set; `PoolReplay` and `Updater` share them. They are stated
through ranks because the libraries' `SetToSortSeq` and `SelectSeq` have no definition the
prover can expand. A log is a natural number ordered like its place on the chain, so a log
of an earlier block is smaller (`UpdaterAssumption`).

**PoolReplay.** What the collector promises whatever feeds it. A pool's state is the
sequence of logs applied to it, so a log lost, repeated or misplaced is another state; a
pool only moves forward along its own logs, and the cursor only to a block all pools have
reached. The promise is about the logs the pools are fed: `astray` is a history variable
with the logs that the *sources* lead astray, and of these nothing is promised.

**Updater.** `UnifiedPoolUpdater::start` with `PendingBlockSource` (`phase`) and
`LatestBlockSource` (`batches`). A batch is applied pool by pool, each under its lock
(`ApplyPool`; in hash-map order for `ApplyOnly`, by first log otherwise), its swap events
are sent one by one into a bounded channel (`SendSwap`), then the cursor moves
(`FinishBatch`). A pending batch is applied to clones (`modified`), taken at a pool's first
log, and moves no cursor. The cancel signal is seen between batches only.

Inputs are as bad as the code's comments say they get. `Answers` is `eth_getLogs` as in
`WebsocketBlockSource`: complete below the node's newest block, any part of the newest one;
`fetch_events_with_retry` repeats errors and takes a short answer. The websocket source is
an over-approximation of `WebsocketBlockSource`: `Bootstrap` drains any logs its feeds have
published, some of them behind later ones, and catches up over RPC to the first of them;
`WebsocketBatch` hands on any part of any published block, so a block may come in several
chunks, late, after a later block, or be skipped. Each log comes once per set of listeners
(`AppliedAtMostOnce` and `NothingLost` are what `WebsocketBlockSource` is checked for), and
again after `add_pools` has started new ones. A pending block holds any part of the block
after the head the node had at that moment.

`astray` grows only where a source does something of the kind: a short answer (the logs left
out, `YieldFetched`, `CatchUpRegistry`, `CatchUpMemory`), a chunk for a block at or before
the cursor, a block passed with logs still to come (`WebsocketBatch`), and what a bootstrap
applies out of order, passes by or falls back over (`BootStrays`). A loss, repetition or
swap of order by the handle, the updater or the event processor is not in it.

**CollectorHandle.** One action per stretch of `stop`, `add_pools_http` and `add_pools_ws`
between awaits. Over HTTP the updater runs on during the fetch, and either side may be
behind afterwards (`HttpCatchUp`); with websockets everything stops first. Fetches may
fail. `remove_pools` and the simulator interleave with all of it.

**FeeReader.** The chain is a sequence of blocks, each with one event of one pool or a
silent drift of a computed fee. A read plans from the pools as they are, reads at the
cursor's block (`Call`), and writes back pool by pool (`Write`); between the three, batches
are applied, pools removed and updaters replaced, whose reads run on (`tasks` is per
reader). `Fails` is three failed attempts, `Hangs`/`TimesOut` an endpoint that never
answers. `due` stands for `FULL_READ_INTERVAL`. Pools of the types whose fee never needs
a read are left out.

**V3Math, V3Pool, SwapFees.** The code's formulas, rounding for rounding, at a reduced
precision: 64 for 2^96, words of two ticks for 256, fees out of 100. The powers of the tick
base are a table of four bits, and `TickAtSqrtRatio` is the corrected logarithm's result
rather than its series. `RatioAssumption` says of the table what the code's satisfies: the
ratios of the ticks are positive and strictly increasing. The chain's positions are
external; `FetchPool` reads them through the bitmap (Uniswap and its forks, older Algebra)
or the three-level tree (Algebra Integral). Signed amounts of `v3_swap` are a direction and a natural number. `calls` holds
up to two quotes, the second depending on the first's answer. The check of a pool on its
own fee (`SwapFees`) shares no state with the price, so it is a module of its own.

**LBPool.** The pair's contract is modelled beside the local pool from its ABI as the
source ports it: a swap updates the references once and logs one `Swap` per bin; logs wait
in `lbLogs` until applied, at any later time. The protocol's share of a fee is folded into
the amounts of a log. v2.0 and v2.1 events differ in encoding only and share an action.

**V2Pool.** `v2` is the pool; `v2Calls` a simulation on a copy: quote, apply, sell back.
`FetchPair` is the fee detection of `fetch_v2_pool` for pairs of every convention. A vault
is fetched with zero totals and no fee, as `fetch_verio_ip_pool` has it; `vault` holds the
contract's own totals, out of which the amounts of its logs come. The pool's totals are
`V2Width` wide and wrap around (`Wrap`), since `apply_log` subtracts without looking.

Bounds (all constants): `MaxBlock` blocks mined, `MaxReorgs` logs retracted,
`MaxReconnects` subscriptions per feed, `MaxAdds` and `MaxRemovals` calls of the handle,
`MaxReaders` updaters, `MaxFailures` reads, `MaxPosition` liquidity of a range, `MaxSteps`
iterations of a quote that are followed (the run takes 17 for ticks -8..8: `V3QuotesEnd`
proves that more than `2 * MaxTick` cut nothing off), `LBMaxTime` and `LBMaxTxs`,
`V2MaxReserve` (the contract's totals of a vault; large enough for a few deposits and
withdrawals), `V2Width` (in place of 2^256, far above any product of the run that has not
wrapped), `V2MaxIterations`, `SwapFeeMaxSwaps`. `BootRpcLag = FALSE` restricts a run to
bootstraps during which the RPC node has passed the first queued block (the case in
which it is behind is the run `boot_rpc_behind`).

## 3. Runs

`source_single` (113 995 states): one URL, three logs in two blocks (the first of them at
a block's first position, two in one block), four blocks so that the RPC node can pass the
last log, two subscriptions, channel of 2, subscription buffer of 1, one block per
catch-up batch. It covers a reconnect or a lag before, during and after bootstrap, a feed
ahead of and behind the RPC node, and a full channel.

* `TypeOK`: in particular the channel stays within its capacity.
* `AppliedAtMostOnce`, `NothingLost`: catch-up, queue and gap fills together hand every
  log on, and only once.
* `GapsCoverLosses`: no loss goes unnoticed by a feed.
* `CursorCoversApplied`: a later replay from the cursor re-applies nothing.
* `PricedInChainOrder`: a block priced comes after everything applied.
* `ForwardedIsApplied` (liveness): a log taken in hand, or skipped and then passed, is
  applied in the end.

`source_pair`: two URLs (interchangeable, hence the symmetry), a window of one key so that
keys do fall out, a channel of 1, a reorg, and bootstrap's first RPC call failing
(`CHECK_DEADLOCK FALSE`: a failed updater and exhausted bounds leave nothing to do).

* `AppliedOncePerKey`: however keys fall out of the window, a log is applied at most as
  often as its key was accepted; `DedupWindow`: and a key is accepted again only after
  `MaxEvents` others.

`collector` (196 472 states): all three modes, with and without a simulator; two pools of one
type, a block with a log of each and another after it with one more of the first, three new blocks,
batches of two blocks, websocket nodes and a caller of `add_pools` up to one block ahead of
the RPC node, a swap channel of one, one `add_pools`, one removal. Deadlock is not
checked: a stopped collector at the last block has nothing to do.

* `ImplementsReplay` (refinement): through every stop, restart and `add_pools`, every log
  that the sources did not lead astray is in its pool once, in order, with no earlier one
  missing, and no cursor passes a pool.
* `PendingStaysSpeculative`, `ClonesInChainOrder`: the pending block reaches clones only,
  and a clone never has a log twice.
* `SimulatorSeesBatch`: an event in the channel tells its reader that every pool has what
  was brought through its block; `SwapsInPoolOrder`: a pool's events come in order, once.
* `CallsReturn`, `CatchesUp` (liveness): `stop` and `add_pools` return although the updater
  may wait on a full channel, and a polling collector reaches the head unless it is stopped
  (a websocket may stay silent; `ForwardedIsApplied` says which of its logs are applied).
* `HandleTypeOK`: in particular the channel stays within its capacity.

What these do not say, since the sources do not give it: that a block is priced whole (one
whose stages are further apart than the settle time is not, and `config.rs` says so); that
every log through the cursor is in its pool (a node's short answer for its newest block is
taken, and with an empty queue bootstrap sets the cursor to a block it leaves to the
subscription).

`fee_reader` (335 531 states): one pool, Algebra or Ramses, fetched or restored from a
snapshot, two new blocks, two updaters, a failed or hung read, a removal.

* `StaleClassificationIsQueued`: a classification a reconfiguration outran always has its
  pool queued or in a read; `DynamicFeesSettle`: so a computed fee is held in the end.
  Neither is claimed after a failed read or a restart: both forget queued pools.
* `NeedyPoolIsFound`: a pool left unknown outside the batch loop is found by a full pass;
  `QueuedPoolIsRead`: a queue is taken up whatever becomes of the running read.

`v3_pool` (334 491 states): three overlapping ranges on ticks -8..8, prices on ticks, in
between and on the upper end of a tick (after crossing down), fee 0 or 3%, inputs and
outputs from 1 to 13, every contract type.

* `MapMatchesPositions`: the local tick map against the positions, and against a fetch.
* `QuoteEnds`, `SwapLandsOnPool`: the loop ends, in a state the pool can be in.
* `InputSuffices`, `NoRoundTripGain`, `EdgesOnlyCost`: exact output asks for enough, a
  round trip gains nothing, a stop at a word edge never raises a quote.
* `QuotesFollowSwaps`: the pool refuses quotes exactly while its recent swaps say so.

`reserve_pools` (414 701 states): an LB pair of three bins with two sets of fee parameters,
three transactions over five time units, logs applied with any delay; V2, stable and vault
pools over small reserves with different decimals; pairs of every fee convention.
Transactions run out, so deadlock is not checked.

* `LBMatchesPair`: with its logs applied the pool is the pair: bins, references and all;
  `LBQuoteIsPaid`: so its quote at the block's time is what the pair pays.
* `LBInputSuffices`, `V2InputSuffices`, `ReservesNoRoundTripGain`, `SwapKeepsK`: roundings.
  A vault's round trip is claimed while its totals are there and have not wrapped.
* `V2TypeOK`: no reserve and no quote of a pair is negative; a vault's totals do wrap and are
  only within their width.
* `FetchedFeeIsCharged`: a pair that quotes itself is stored with the fee it charges, once
  its reserves are large enough for integer quotes to tell fees apart.
* `StableQuoteConverges`: Newton's iteration ends.

Six runs show where the code departs from what its comments say (`expect: violation`;
the quotes are in `PROJECT.json` under `findings`):

* `boot_rpc_behind`: `NothingLost` fails. Bootstrap's catch-up does not wait for the RPC
  node to pass the first queued block (gap fills do), so logs just before the first queued
  one can be missed.
* `start_block_reapplied`: `AppliedAtMostOnce` fails. With no new block since the pools
  were fetched and an empty queue, the floor is the start of the cursor block, and the
  first subscription's gap reaches back over logs the pools already include.
* `boot_retraction`: `RetractionNotApplied` fails. Bootstrap applies drained retractions.
* `pair_first_subscription`: `NothingLost` fails. With several URLs the gap between
  bootstrap and the first subscriptions is nobody's.
* `add_new_type`: `StatesConsistent` fails. `add_pools` over HTTP replays the new pools with
  the topics registered before it, so the first pool of a type misses what happened between
  its fetch and the cursor.
* `fee_stale`: `EventFeeIsCurrent` fails. A second read of an Algebra pool, in flight when
  the first classifies it as event-driven and untracks it, writes the fee of its block over
  the one a later `Fee` event set, and nothing reads the pool again.

Fairness (`FairSpec`, used by `source_single`): the updater task and a listener with a log
in hand run when they can (tokio tasks); blocks keep coming and the RPC node follows the
chain, which `wait_until_rpc_passes` relies on; a block that keeps being found pending is
found quiet at some poll, since `settle` is finite and arrivals are (strong fairness of
`HandOn`). Nothing is assumed of connections: a feed need not reconnect or receive.

Fairness of `collector`: the updater and a call of the handle go on (RPC calls are repeated
until answered or end the call), blocks keep coming, and the simulator reads its channel
until it drops the receiver, which it may do or not. Nobody has to call anything. Of
`fee_reader`: batches keep coming, the interval passes, a spawned read runs or times out.

## 4. Proofs

Constants are arbitrary up to the named assumptions: positions are positive naturals,
`Block` is monotone, `BlockStart(b)` precedes exactly the positions of blocks from `b` on,
sizes are positive, `Logs` is finite.

The first part of `SourceProofs` is about `FeedSpec`, for any number of feeds and any consumer:

* `FeedTypeCorrect`: `FeedTypeOK`.
* `DedupWindowHolds`: `DedupWindow` is not inductive; with `WindowIsSuffix` (the window is
  exactly the last keys accepted) it is. `RecordWindow` and `RecordDedup` are the two
  lemmas about `record`.
* `GapsCoverLossesHolds`: needs `NoSilentLoss`: while a subscription is live and no gap is
  open, everything before its next log was forwarded or retracted. `ReceiveCovers` is the
  step that matters: with a gap open the noted gap covers the loss, with none open there
  is no loss.

The second part is about the composed collector:

* `TypeCorrect`: `TypeOK`, with `ControlOK` as strengthening (what the program counter
  says of the floor, of the gaps in hand, of refetched logs). Minima and maxima over sets
  of positions are shown to exist from the well-foundedness of `<` (`MinMember`,
  `MaxMember`).
* `SourceImplementsFeed`: every step of the source is a consumer step of `FeedSpec` or a
  stutter of it, so `Spec => FeedSpec`.
* `SourceGapsCoverLosses`, `SourceDedupWindow` follow.

The last part of `V3Proofs` proves `QuotesFollowSwaps` of `SwapFeesSpec`, for every window, threshold
and set of fees. The property only counts, so the invariant is `WindowIsRecent`: the window
is as long as it can be, and its entry `i` says whether swap `Gone + i` was a miss, where
`Gone` is how many swaps have left it. `WindowStep` keeps it through `record_swap_fee`,
full window or not; `WindowCounts` shows that shifting by `Gone` is a bijection between the
misses in the window and those of the last swaps, so both counts are equal.

`DeliveryProofs` is about what the websocket source hands to the pools. `StageOK` says what
is in hand at each program counter.

* `CursorCoversAppliedHolds`. Before the loop the cursor is still the start block while logs
  are being applied, so `CursorInv` follows bootstrap: the pools are not past the block where
  the queue takes over. Hypothesis `FeedsNearHead`: no feed delivers a log from before the
  block the pools were fetched at. Without it the drained queue pulls the handover block, and
  the cursor bootstrap ends with, below what the pools include.
* `AppliedOncePerKeyHolds`. The invariant counts: from the floor on, applications, copies held
  by the source and copies in transit are together at most the keys accepted (`PaidByKeys`);
  before the floor the catch-up or the fetched state has the only copy (`OnceBeforeFloor`).
  Each action moves a copy from one account to the next, or `record` pays for a new one. No
  hypothesis: a log of the block the pools were fetched at that is not before the floor has
  the fetch as one more application, which is what `start_block_reapplied` shows.
* `TwiceAtStartOnlyHolds` adds that the window holds every key
  (`Cardinality(Logs) <= MaxEvents`); with `DedupWindow` a key is then accepted once, so such
  a log of the start block is applied at most twice, and every other at most once.

Its last part proves `NothingLostHolds`. `KeptInv` is the converse of the above: an accepted
key is a promise (its log was applied, is held or is coming, `KeysAreKept`); what a feed has
passed was taken, is being claimed, lies in a gap that will be filled or is in hand
(`PassedIsKept`); while a gap's logs are claimed each is taken or still to be claimed
(`FillIsKept`); the catch-up applied all it passed (`CaughtUp`); and what is retracted is off
the chain. Hypotheses: `FillReconnectGaps` (one URL) and `~BootRpcLag` (bootstrap's RPC node
has passed the first queued block). The runs `pair_first_subscription` and `boot_rpc_behind`
show that neither can be dropped.

`CollectorProofs` begins with what `InOrder` and `Among` return: a strictly increasing enumeration
of the set, unique, and compatible with concatenation when everything in one set precedes
everything in the other. No induction over sequences is needed: ranks are an injection
between finite sets of equal cardinality, hence onto.

The rest is about `CollectorHandle`, for any mode, pools, logs, batch size, lag,
channel capacity and number of calls, any short answers and any behaviour of the feeds. The constants satisfy `UpdaterAssumption`.

* `HandleTypeCorrect`. `HandleTypeOK` needs `RangesInv` (what a polling source has still to
  fetch is a chain of ranges that starts where the batch in hand ends), `BatchInv` (a
  confirmed batch lies in the blocks after the cursor, in order) and `HandleInv` (while pools
  are caught up the updater is stopped). Together they are `ControlInv`.
* `ImplementsReplayHolds`: the refinement of `PoolReplay`. But for what is astray, a registered
  pool is exactly at its `Level`, the block the batch or `add_pools` has brought it to
  (`RegistryInv`); so are fetched pools in memory (`MemoryInv`); the batch holds every log of
  its range for every registered pool (`WholeInv`), because no filter misses one
  (`FiltersInv`). `astray` only grows (`StraysGrow`), so what is `Faithful` stays so while
  other pools move (`UpdaterKept`, `HandleKept`). Hypothesis `TypesKnown`: every pool type is
  registered before the start, since otherwise `add_pools` over HTTP loses logs (run
  `add_new_type`).
* `SimulatorSeesBatchHolds` (with `TypesKnown`): what of a confirmed event's past is not astray
  lies in blocks through `SentThrough`, which every level has reached (`ChannelInv`).
* `PendingStaysSpeculativeHolds`, `SwapsInPoolOrderHolds`, `ClonesInChainOrderHolds` need no
  hypothesis: the first is the part of `RegistryInv` that bounds a pool from above, the second
  needs the events still to send (`OutboxInv`, `OrderInv`), the third that the pending logs
  still to apply come after what their clones hold (`ClonesInv`).

`V2Proofs` is about `V2Spec`, for all reserves, amounts and fees of a constant-product pool or
a vault. The invariant `V2Inv` says that the calls in hand are what the formulas give for the
pool (a fetched fee, a quote, an input with its quote, a quote taken, a quote sold back).
What is left is integer arithmetic:

* `SwapKeepsKHolds`, `NoRoundTripGainHolds`. A constant-product quote satisfies
  `out * (in + a) <= a * to` (`ProductRounding`), from which the product grows
  (`ProductKept`) and the way back returns no more than was paid (`NoGain`); a vault's quote
  is at most the ratio's share (`VaultRounding`, `WithdrawNoGain`, `DepositNoGain`).
* `V2InputSufficesHolds`: the `+ 1` of `calculate_input` outweighs every rounding of
  `calculate_output` (`InputBuys`).
* `FetchedFeeIsChargedHolds`. The pair's quote is less than one unit below the exact one
  (`QuoteLoss`); with `2 * r2 > 25 * basis` that moves the fee solved from it by less than
  half a unit (`SolvedExactly`, `RoundsTo`), for the probe of half the reserve and for the
  fourfold one (`HalfProbe`, `FourfoldProbe`), so both agree on the fee charged.
  `V2Assumption` says what the constants of `v2/fetcher.rs` satisfy: a sane fee is below the
  basis, and `getFee()`'s denominator divides it.
* `V2TypeOKHolds`, for constant-product pools: no subtraction of `apply_swap` goes below zero,
  on the pool or on a simulation's copy. Of a vault there is no such theorem, as its totals do
  wrap around; `NoRoundTripGainHolds` is about totals that have not.

`FetchedFeeIsCharged` and `V2InputSuffices` are proved as they stand, `SwapKeepsK` and
`ReservesNoRoundTripGain` for the pools that are not stable. A stable quote is where Newton's iteration stops, which is left to TLC.

`FeeReaderProofs` is about any number of pools, blocks, readers, failures and removals.

* `FeeReaderTypes`. `TypeInv` is `ScalarsInv` with `ChainInv` (only a plugin event, of an
  Algebra pool, changes whether swaps pay a computed fee), `BatchInv` and `TasksInv` (what
  each stage of each reader's task holds).
* `StaleClassificationRepaired`. `StaleClassificationIsQueued` speaks of the cursor between
  batches; `ClassifiedInv` of `Level`, the block the logs are applied through. A pool held as
  event-driven whose fee is computed waits for a read (`Waiting`) or the read in flight
  will classify it again (`Reclassifies`); and a read about to write an answer that a
  reconfiguration has outrun leaves its pool waiting. The second half is why a plugin event
  queues the pool also while a read is under way.

`LBProofs` is about `LBSpec`, for every set of bins with positive prices, fee parameters,
amounts and times (`LBAssumption`, `LBPriceAssumption`), and any number of waiting logs.

* `LBReplays`. `LBMatchesPair` speaks of an empty `lbLogs` only; `Following` of any: the
  waiting logs, applied one by one, turn the pool into the pair. The step that matters is a
  swap (`IsPairRun`): the pair updates its references once and logs a bin at a time, the pool
  updates them with every log, and the later updates change nothing, because the logs of a
  swap have one time stamp and `filter` is positive. A fetch finds the pair's bins by the
  tree's digits or by walking from the active bin (`Walks`, by induction on the number of
  bins not yet seen).
* `LBQuotes`: `simulate_swap_out` and the pair's swap are in lockstep, bin by bin (`Shadows`).
* `LBInputs`: `simulate_swap_in` and the quote of its result are in lockstep (`InStep`);
  each bin's input and fee, rounded up, cover the fee taken off (`Gross`, `FeeAmount`).
* `LBTypes`.

`V3Proofs` is about `V3Pool`'s `Spec`, for every precision, tick range, spacing, word and tree
size, positions, fee and amount. The sums over positions go by induction over finite sets
(`FiniteInduction`), the swap loop by induction over its iterations (`BoundedInduction`).

* `V3MapFollows`, `V3Types`. `PoolInv`: the pool is one that the chain's positions allow
  (`Pools(positions)`: net and gross of each tick are the accounts', the liquidity is that
  of the positions around its tick, the price lies within its tick, its upper end
  included), and so is every pool a caller was quoted of. A fetch by words or by the tree
  finds exactly the initialized ticks.
* `V3SwapsLand`: the loop stays in `SwapStates`. `compute_swap_step` ends between the price
  and its target, the search passes over no initialized tick (`EndsBelow`, `EndsAbove`), so
  the net liquidity added on the way is that of the positions the swap left and entered.
* `V3QuotesEnd`: each iteration but the last moves at least a tick on (`MovesOn`, `Onward`).
  Its hypothesis `MaxSteps > 2 * MaxTick` is about the model's bound, not about the code,
  whose loop has none; the run satisfies it.
* `V3InputSuffices`: the exact-output loop and the exact-input loop given its result are in
  step (`InStep`) until the second has given what was wanted (`Paired`). An input that covers
  a step's cost and fee makes the same step; one that ends before gives the rest.
* `V3NoRoundTripGain`. A step against a step of the way back does not work: the two may
  round and split differently. Instead, `Holds1` and `Holds0` are what the positions hold of
  each token at a price, functions of the price alone (`Holds0` sums reciprocals of
  prices, taken over a common multiple, `Reciprocals`, to stay in the integers). Each step
  takes in at least what one holding grows by and gives at most what the other shrinks by
  (`CoveredDown`, `CoveredUp`), the loop adds the steps up (`Traded`), and between two prices
  the holdings move opposite ways (`HoldsOpposed`). The way back
  is given no more of a token than its holding shrank by on the way out, so that holding does
  not end above where it began, hence the other not below: no more returns than was paid.

Induction. The library's induction theorems take an operator as a parameter and cannot be
used here; `Induction` states induction as facts about *sets* of indices, proved from the
well-foundedness of `<` (whose statement has none). A recursive function is first shown to
exist and to satisfy its equation (`IsIteration`, `IsSum`, `IsLoop`), then a property of all
its values is the claim that the set of good indices is everything.

The inductive invariants were checked with TLC before or beside their proofs: those of
`CollectorProofs` also on an instance with two pool types in which `TypesKnown` is false;
those of `LBProofs` and `V3Proofs` in a form TLC can evaluate (the replay of the waiting
logs computed where the invariant says that one exists).

Only model-checked:

* `ForwardedIsApplied`, `CallsReturn`, `CatchesUp`, `DynamicFeesSettle`, `NeedyPoolIsFound`,
  `QueuedPoolIsRead`: liveness under fairness is outside the prover's reach.
* `PricedInChainOrder`: shown for one feed and two blocks with logs. With a third one,
  next_batch's drain before its gaps (a hazard in `PROJECT.json` without a property) may
  let a gap's logs follow a block already settled, so it is not claimed for every instance.
* `EdgesOnlyCost`: compares a swap that stops at word edges with one that does not. Its proof
  needs a lemma on splitting a step in two, through several edges, for both roundings.
* `StableQuoteConverges`, and the stable pools' part of `V2TypeOK`, `SwapKeepsK` and
  `ReservesNoRoundTripGain`: they rest on where Newton's iteration in integers stops and how
  soon, for which the project has no argument that covers all reserves and decimals.

## 5. Not modelled

* Data: the tables of factory addresses and fees (`v2/factories.rs`, `lb/factories.rs`), ABI
  bindings, token information, topics as bytes; `lb/version.rs`, which tells an ABI.
* Pure I/O: chunking of multicalls and header requests, retries of a fetch, metrics and
  logging, the ping clock of a listener (it may end a connection at any time), `stop()` of a
  listener whose queue is gone.
* The queue's `next_event`, `get_events_batch`, `get_events_with_batching` and `has_event`
  (no caller in the collector), and `block_times`, whose effect is a log's timestamp.
* 256-bit widths: the reduced arithmetic shows roundings and control, not overflow, except in a
  vault's totals.
* `VerioIP` beside `ERC4626Standard`: it applies logs alike, and its `apply_swap` is not
  implemented. `pool/mock.rs`.
* What the collector could do about a listener whose updater has ended, and the wall-clock
  fallback for the time of an LB log whose header cannot be fetched.
* `None` answers of single calls within a fee read: a read fails as a whole.
* Orderings the websocket runs do not reach: three logged blocks with a gap fill between
  drains, two feeds' late chunks of one block, a transaction included again after a reorg
  (its key is the same). They are hazards without a property in `PROJECT.json`.

Worth proving next: `EdgesOnlyCost`; bounds under which `StableQuoteConverges`;
`PricedInChainOrder` for a source that takes the gaps before it drains.
