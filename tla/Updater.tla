------------------------------- MODULE Updater -------------------------------
(***************************************************************************)
(* UnifiedPoolUpdater (src/src/collector/unified_pool_updater.rs) with its   *)
(* three sources (block_source.rs) and the event processor                   *)
(* (event_processor.rs), the channel of swap events and the simulator that   *)
(* reads it.                                                                *)
(*                                                                         *)
(* The websocket source is abstracted from WebsocketBlockSource: bootstrap   *)
(* is one step, and next_batch hands on any part of any block its feeds have *)
(* published, in any order of blocks, each log once. `astray` records what   *)
(* the sources get wrong: logs an RPC answer left out, and logs the websocket *)
(* source brings late, out of order, or again.                              *)
(***************************************************************************)
EXTENDS Integers, FiniteSetsExt, SequencesExt, ChainOrder

CONSTANTS Pools, Logs, Absent,
          Block(_), PoolOf(_),
          TypeOf(_),           \* PoolType of a pool; stands for the type's topics
          IsSwap(_),           \* the log's topic is one of the profitable topics
          InitPools,           \* pools fetched into the registry before the start
          Modes,               \* collector modes the run starts in
          StartBlock, MaxBlock,\* first and (bound) last block of the chain
          MaxBlocksPerBatch,   \* CollectorConfig.max_blocks_per_batch
          RpcLag,              \* blocks between the RPC node and the websocket nodes
          SwapBuffer           \* capacity of the swap event channel

ASSUME UpdaterAssumption ==
    /\ IsFiniteSet(Pools) /\ IsFiniteSet(Logs)
    /\ Logs \subseteq Nat /\ Absent \notin Seq(Logs)
    /\ \A l \in Logs : Block(l) \in Nat /\ PoolOf(l) \in Pools /\ IsSwap(l) \in BOOLEAN
    /\ \A l, m \in Logs : Block(l) < Block(m) => l < m
    /\ InitPools \subseteq Pools
    /\ Modes \subseteq {"pending", "latest", "websocket"}
    /\ StartBlock \in Nat /\ MaxBlock \in Nat /\ StartBlock <= MaxBlock /\ RpcLag \in Nat
    /\ MaxBlocksPerBatch \in Nat \ {0} /\ SwapBuffer \in Nat \ {0}

VARIABLES mode,            \* the UpdaterMode the configuration asks for
          swapTx,          \* swap_event_tx is Some
          head,            \* newest block of the RPC node
          state,           \* PoolRegistry.by_address
          topics,          \* PoolRegistry.topics, as a set of pool types
          cursor,          \* PoolRegistry.last_processed_block
          upc,             \* where UnifiedPoolUpdater::start is
          cancel,          \* the cancel signal was sent, or its sender dropped
          srcTopics,       \* topics the source captured when it was built
          listen,          \* websocket: filter of the listeners, logs still to come
          phase,           \* PendingBlockSource.phase
          batches,         \* LatestBlockSource.batches, next one first
          batch,           \* the EventBatch in hand
          todo,            \* pools of the batch still to apply
          outbox,          \* swap events (or pending logs) still to handle
          modified,        \* modified_pools: clones of the pending batch
          swaps,           \* the channel of swap events
          open,            \* the simulator still holds the receiver
          astray           \* history: logs the sources did not bring as they should

config == <<mode, swapTx>>
registryVars == <<state, topics, cursor>>
sourceVars == <<srcTopics, listen, phase, batches>>
batchVars == <<batch, todo, outbox, modified>>
simVars == <<swaps, open>>
updaterVars == <<config, head, registryVars, upc, cancel, sourceVars, batchVars, simVars,
                 astray>>

Replay == INSTANCE PoolReplay WITH state <- state, cursor <- cursor, astray <- astray

Registered == {p \in Pools : state[p] # Absent}
Poll == [name |-> "PollBlockNumber"]
Confirmed(c, l) == [name |-> "ConfirmedBatches", current |-> c, latest |-> l]
FetchPending == [name |-> "FetchPending"]
NoBatch == [logs |-> <<>>, mode |-> "none", through |-> 0]
NoClones == [p \in Pools |-> Absent]

TypeOK ==
    /\ mode \in Modes /\ swapTx \in BOOLEAN
    /\ head \in StartBlock..MaxBlock /\ cursor \in 0..MaxBlock
    /\ mode # "websocket" => cursor \in StartBlock..head
    /\ state \in [Pools -> Seq(Logs) \cup {Absent}]
    /\ topics \subseteq {TypeOf(p) : p \in Pools} /\ srcTopics \subseteq topics
    /\ listen \in [addresses : SUBSET Pools, topics : SUBSET topics, left : SUBSET Logs]
    /\ upc \in {"boot", "next", "apply", "send", "pending", "pendsend", "stopped"}
    /\ cancel \in BOOLEAN
    /\ phase \in {Poll, FetchPending}
                 \cup [name : {"ConfirmedBatches"}, current : Nat, latest : Nat]
    /\ batches \in Seq(Nat \X Nat \X BOOLEAN)
    /\ batch \in [logs : Seq(Logs), through : Nat,
                  mode : {"none", "ApplyOnly", "ConfirmedWithSwaps", "Pending"}]
    /\ todo \subseteq Pools
    /\ outbox \in Seq(Logs)
    /\ modified \in [Pools -> Seq(Logs) \cup {Absent}]
    /\ swaps \in Seq(Logs \X {"confirmed", "pending"}) /\ Len(swaps) <= SwapBuffer
    /\ open \in BOOLEAN
    /\ astray \subseteq Logs

\* The logs of the addresses with one of the topics.
Matching(addresses, types, from, to) ==
    {l \in Logs : /\ Block(l) \in from..to
                  /\ PoolOf(l) \in addresses
                  /\ TypeOf(PoolOf(l)) \in types}

\* The chain's newest block, as far as a websocket node or a caller knows it.
Newest == Min({head + RpcLag, MaxBlock})

\* Listeners just started: their nodes are about where the RPC node is.
Listening(addresses, types) ==
    [addresses |-> addresses, topics |-> types,
     left |-> Matching(addresses, types, Max({head - RpcLag, 0}), MaxBlock)]

\* fetch_pools_into_registry has put the pools of InitPools, as of StartBlock,
\* and their types' topics into the registry; start_collector has started the
\* listeners, if any, built the updater and spawned it.
UpdaterInit ==
    /\ mode \in Modes /\ swapTx \in BOOLEAN
    /\ head = StartBlock /\ cursor = StartBlock
    /\ state = [p \in Pools |-> IF p \in InitPools THEN Replay!ChainState(p, StartBlock)
                                                   ELSE Absent]
    /\ topics = {TypeOf(p) : p \in InitPools} /\ srcTopics = topics
    /\ listen = Listening(InitPools, topics)
    /\ upc = IF mode = "websocket" THEN "boot" ELSE "next"
    /\ cancel = FALSE
    /\ phase = Poll /\ batches = <<>>
    /\ batch = NoBatch /\ todo = {} /\ outbox = <<>> /\ modified = NoClones
    /\ swaps = <<>> /\ open = swapTx
    /\ astray = {}

----------------------------------------------------------------------------
(* The RPC node. *)

Mine ==
    /\ head < MaxBlock
    /\ head' = head + 1
    /\ UNCHANGED <<config, registryVars, upc, cancel, sourceVars, batchVars, simVars, astray>>

\* What eth_getLogs may answer: all there is below the node's newest block, some
\* of its newest one, and nothing past it (block_source.rs: BlockSettler,
\* wait_until_rpc_passes). Errors and timeouts are asked again, a short answer
\* is taken (fetch_events_with_retry).
Answers(addresses, types, from, to) ==
    {S \in SUBSET Matching(addresses, types, from, to) :
        \A l \in Matching(addresses, types, from, to) :
            /\ Block(l) < head => l \in S
            /\ Block(l) > head => l \notin S}

BatchEnd(from, latest) == Min({from + MaxBlocksPerBatch - 1, latest})

----------------------------------------------------------------------------
(* next_batch. The select on the cancel signal drops its future, so it only  *)
(* goes on while the signal is not there.                                   *)

InNextBatch(m) == upc = "next" /\ ~cancel /\ mode = m

\* The batch goes to the processing its mode asks for.
Yield(logs, bmode, through) ==
    /\ batch' = [logs |-> logs, mode |-> bmode, through |-> through]
    /\ upc' = "apply"
    /\ todo' = {PoolOf(l) : l \in ToSet(logs)}
    /\ UNCHANGED <<config, head, registryVars, cancel, srcTopics, outbox, modified, simVars>>

OfPool(logs, p) == Among(logs, {l \in Logs : PoolOf(l) = p})

\* The range's logs as the node answers, for the registry's addresses.
YieldFetched(from, to, bmode) ==
    \E S \in Answers(Registered, srcTopics, from, to) :
        /\ Yield(InOrder(S), bmode, to)
        /\ astray' = astray \cup (Matching(Registered, srcTopics, from, to) \ S)
        /\ UNCHANGED listen

YieldPending(logs) ==
    /\ batch' = [logs |-> logs, mode |-> "Pending", through |-> 0]
    /\ upc' = "pending"
    /\ outbox' = logs
    /\ UNCHANGED <<config, head, registryVars, cancel, srcTopics, listen, todo, modified,
                   simVars, astray>>

PendingPoll ==
    /\ InNextBatch("pending") /\ phase = Poll
    /\ cursor + 1 <= head
    /\ phase' = Confirmed(cursor + 1, head)
    /\ UNCHANGED <<config, head, registryVars, upc, cancel, srcTopics, listen, batches,
                   batchVars, simVars, astray>>

PendingConfirmed ==
    /\ InNextBatch("pending") /\ phase.name = "ConfirmedBatches"
    /\ LET end == BatchEnd(phase.current, phase.latest) IN
           /\ phase' = IF end + 1 > phase.latest THEN FetchPending
                                                 ELSE Confirmed(end + 1, phase.latest)
           /\ YieldFetched(phase.current, end, "ApplyOnly")
    /\ UNCHANGED batches

\* The pending block is the one the node is building on its newest: any part of
\* what the chain will hold may be in it already.
PendingFetch ==
    /\ InNextBatch("pending") /\ phase = FetchPending
    /\ phase' = Poll
    /\ \/ Registered = {} /\ UNCHANGED <<config, head, registryVars, upc, cancel, srcTopics,
                                         listen, batchVars, simVars, astray>>
       \/ /\ Registered # {}
          /\ \E S \in SUBSET Matching(Registered, srcTopics, head + 1, head + 1) :
                 YieldPending(InOrder(S))
    /\ UNCHANGED batches

\* The ranges of a poll, as <<from, to, is_latest_single>>.
Tiles(from, latest) ==
    LET n == (latest - from) \div MaxBlocksPerBatch + 1
        first(i) == from + (i - 1) * MaxBlocksPerBatch
    IN [i \in 1..n |-> LET end == BatchEnd(first(i), latest)
                       IN <<first(i), end, end = latest /\ first(i) = end>>]

\* Mutant: a poll waits for two new blocks.
LatestPollLate ==
    /\ InNextBatch("latest") /\ batches = <<>>
    /\ cursor + 1 < head
    /\ batches' = Tiles(cursor + 1, head)
    /\ UNCHANGED <<config, head, registryVars, upc, cancel, srcTopics, listen, phase,
                   batchVars, simVars, astray>>

\* Mutant: the poll starts at the cursor.
LatestPollAgain ==
    /\ InNextBatch("latest") /\ batches = <<>>
    /\ cursor <= head
    /\ batches' = Tiles(cursor, head)
    /\ UNCHANGED <<config, head, registryVars, upc, cancel, srcTopics, listen, phase,
                   batchVars, simVars, astray>>

LatestPoll ==
    /\ InNextBatch("latest") /\ batches = <<>>
    /\ cursor + 1 <= head
    /\ batches' = Tiles(cursor + 1, head)
    /\ UNCHANGED <<config, head, registryVars, upc, cancel, srcTopics, listen, phase,
                   batchVars, simVars, astray>>

LatestBatch ==
    /\ InNextBatch("latest") /\ batches # <<>>
    /\ batches' = Tail(batches)
    /\ LET b == Head(batches) IN
           YieldFetched(b[1], b[2], IF b[3] THEN "ConfirmedWithSwaps" ELSE "ApplyOnly")
    /\ UNCHANGED phase

\* A set of logs applied to a pool's state in chain order.
Applied(s, p, logs) == s \o InOrder({l \in logs : PoolOf(l) = p})

\* fill_floor, as the logs before it: those before the earliest log drained, or,
\* with an empty queue, before the node's newest block.
BeforeFloor(drained) ==
    {l \in Logs : IF drained = {} THEN Block(l) < head ELSE l < Min(drained)}
FloorBlock(drained) == IF drained = {} THEN head ELSE Block(Min(drained))

\* The cursor bootstrap sets: the block of the last log drained.
BootCursor(drained) == IF drained = {} THEN head ELSE Block(Max(drained))

\* What goes wrong in a bootstrap: logs applied before or out of order, logs the
\* cursor passes that are not there yet, logs it is set back over.
BootStrays(drained, tail) ==
    LET through == BootCursor(drained) IN
    tail \cup {l \in drained : Block(l) <= cursor}
         \cup (Matching(listen.addresses, listen.topics, cursor + 1, through)
                   \ (drained \cup BeforeFloor(drained)))
         \cup {l \in Logs : through < Block(l) /\ Block(l) <= cursor}

\* WebsocketBlockSource::bootstrap, which the cancel signal does not reach. The
\* queue holds `drained`, gap fills included; `tail` is what of it came behind
\* later logs of another feed. The registry's pools catch up to the floor over
\* RPC, then take the drained logs; the listeners bring the rest from there on.
Bootstrap ==
    /\ upc = "boot"
    /\ \E drained \in SUBSET {l \in listen.left : Block(l) <= Newest} :
       \E tail \in SUBSET drained :
       \E S \in Answers(Registered, srcTopics, cursor + 1, FloorBlock(drained)) :
           LET asked == Matching(Registered, srcTopics, cursor + 1, FloorBlock(drained))
               before == BeforeFloor(drained)
           IN  /\ state' = [p \in Pools |->
                      IF state[p] = Absent THEN Absent
                      ELSE Applied(Applied(Applied(state[p], p, S \cap before),
                                           p, drained \ tail), p, tail)]
               /\ cursor' = BootCursor(drained)
               /\ listen' = [listen EXCEPT !.left = @ \ (drained \cup before)]
               /\ astray' = astray \cup ((asked \cap before) \ S) \cup BootStrays(drained, tail)
    /\ upc' = "next"
    /\ UNCHANGED <<config, head, topics, cancel, srcTopics, phase, batches, batchVars, simVars>>

\* get_block_number()? fails: the updater task ends.
BootstrapFails ==
    /\ upc = "boot"
    /\ upc' = "stopped"
    /\ UNCHANGED <<config, head, registryVars, cancel, sourceVars, batchVars, simVars, astray>>

\* WebsocketBlockSource::next_batch: the settler hands on what it has of a block,
\* once that was quiet for `settle` or a later block started; more of it comes
\* late, and a block may be skipped. It is priced unless a later block went on
\* before, or a gap fill brought it when it was over.
WebsocketBatch ==
    /\ InNextBatch("websocket")
    /\ \E b \in 0..Newest, filled \in BOOLEAN :
       \E S \in (SUBSET {l \in listen.left : Block(l) = b}) \ {{}} :
           /\ Yield(InOrder(S),
                    IF b < cursor \/ filled THEN "ApplyOnly" ELSE "ConfirmedWithSwaps",
                    Max({cursor, b}))
           /\ listen' = [listen EXCEPT !.left = @ \ S]
           /\ astray' = astray \cup
                  IF b <= cursor THEN S
                  ELSE Matching(listen.addresses, listen.topics, cursor + 1, b) \ S
    /\ UNCHANGED <<phase, batches>>

NextBatch == PendingPoll \/ PendingConfirmed \/ PendingFetch \/ LatestPoll \/ LatestBatch
             \/ WebsocketBatch

----------------------------------------------------------------------------
(* Processing a batch. *)

SwapsIn(logs) == Among(logs, {l \in Logs : IsSwap(l)})

\* Where a pool's first log is in the batch; pool_order follows it.
FirstAt(p) == Min({i \in DOMAIN batch.logs : PoolOf(batch.logs[i]) = p})

\* The pools apply_events_to_registry (a hash map: any order) and
\* process_confirmed_events (pool_order) may turn to next.
NextPools ==
    IF batch.mode = "ApplyOnly" THEN todo
    ELSE {p \in todo : \A q \in todo : FirstAt(p) <= FirstAt(q)}

\* One pool's logs under its write lock; a pool that is gone is skipped.
ApplyPool(p) ==
    /\ upc = "apply" /\ p \in NextPools
    /\ todo' = todo \ {p}
    /\ LET logs == OfPool(batch.logs, p) IN
           IF state[p] = Absent
           THEN UNCHANGED <<state, outbox>>
           ELSE /\ state' = [state EXCEPT ![p] = @ \o logs]
                /\ outbox' = IF batch.mode = "ConfirmedWithSwaps" /\ swapTx
                             THEN outbox \o SwapsIn(logs)
                             ELSE outbox
    /\ UNCHANGED <<config, head, topics, cursor, upc, cancel, sourceVars, batch, modified,
                   simVars, astray>>

\* Mutant: swap events go out while pools are still being applied.
AllAppliedEarly ==
    /\ upc = "apply" /\ outbox # <<>>
    /\ upc' = "send"
    /\ UNCHANGED <<config, head, registryVars, cancel, sourceVars, batchVars, simVars, astray>>

AllApplied ==
    /\ upc = "apply" /\ todo = {}
    /\ upc' = "send"
    /\ UNCHANGED <<config, head, registryVars, cancel, sourceVars, batchVars, simVars, astray>>

\* Mutants: a send that never waits, and one that waits for a dropped receiver.
SendToUnbounded(l, kind) == IF open THEN swaps' = Append(swaps, <<l, kind>>) ELSE UNCHANGED swaps
SendToOpenOnly(l, kind) == open /\ Len(swaps) < SwapBuffer /\ swaps' = Append(swaps, <<l, kind>>)

\* send_swap_event: waits while the channel is full; an error, once the
\* receiver is dropped, is only logged.
SendTo(l, kind) ==
    \/ open /\ Len(swaps) < SwapBuffer /\ swaps' = Append(swaps, <<l, kind>>)
    \/ ~open /\ UNCHANGED swaps

SendSwap ==
    /\ upc = "send" /\ outbox # <<>>
    /\ SendTo(Head(outbox), "confirmed")
    /\ outbox' = Tail(outbox)
    /\ UNCHANGED <<config, head, registryVars, upc, cancel, sourceVars, batch, todo, modified,
                   open, astray>>

\* Mutant: pending logs go into the registry's pool.
ApplyPendingInPlace ==
    /\ upc = "pending" /\ outbox # <<>> /\ swapTx
    /\ LET p == PoolOf(Head(outbox)) IN
           state' = IF state[p] = Absent THEN state
                    ELSE [state EXCEPT ![p] = Append(@, Head(outbox))]
    /\ outbox' = Tail(outbox)
    /\ UNCHANGED <<config, head, topics, cursor, upc, cancel, sourceVars, batch, todo, modified,
                   simVars, astray>>

\* process_pending_events: apply the log to the batch's clone of its pool; the
\* clone is taken at the pool's first log. A pool that is gone is skipped.
ApplyPending ==
    /\ upc = "pending" /\ outbox # <<>> /\ swapTx
    /\ LET l == Head(outbox)
           p == PoolOf(l)
           base == IF modified[p] # Absent THEN modified[p] ELSE state[p]
       IN \/ /\ base = Absent
             /\ outbox' = Tail(outbox)
             /\ UNCHANGED <<upc, modified>>
          \/ /\ base # Absent
             /\ modified' = [modified EXCEPT ![p] = Append(base, l)]
             /\ IF IsSwap(l) THEN upc' = "pendsend" /\ UNCHANGED outbox
                             ELSE outbox' = Tail(outbox) /\ UNCHANGED upc
    /\ UNCHANGED <<config, head, registryVars, cancel, sourceVars, batch, todo, simVars, astray>>

\* The swap event goes out with the shared map the later logs still change.
SendPending ==
    /\ upc = "pendsend"
    /\ SendTo(Head(outbox), "pending")
    /\ upc' = "pending"
    /\ outbox' = Tail(outbox)
    /\ UNCHANGED <<config, head, registryVars, cancel, sourceVars, batch, todo, modified, open,
                   astray>>

\* Mutant: the next pending batch finds the clones of the last one.
FinishBatchKeepsClones ==
    /\ \/ upc = "send" /\ outbox = <<>>
       \/ upc = "pending" /\ (outbox = <<>> \/ ~swapTx)
    /\ cursor' = IF batch.mode = "Pending" THEN cursor ELSE batch.through
    /\ upc' = "next"
    /\ batch' = NoBatch /\ outbox' = <<>>
    /\ UNCHANGED <<config, head, state, topics, cancel, sourceVars, todo, modified, simVars,
                   astray>>

\* After the batch: the cursor moves, except for a pending batch.
FinishBatch ==
    /\ \/ upc = "send" /\ outbox = <<>>
       \/ upc = "pending" /\ (outbox = <<>> \/ ~swapTx)
    /\ cursor' = IF batch.mode = "Pending" THEN cursor ELSE batch.through
    /\ upc' = "next"
    /\ batch' = NoBatch /\ outbox' = <<>> /\ modified' = NoClones
    /\ UNCHANGED <<config, head, state, topics, cancel, sourceVars, todo, simVars, astray>>

\* The biased select sees the cancel signal, between batches only.
UpdaterStops ==
    /\ upc = "next" /\ cancel
    /\ upc' = "stopped"
    /\ UNCHANGED <<config, head, registryVars, cancel, sourceVars, batchVars, simVars, astray>>

UpdaterStep ==
    \/ Bootstrap \/ BootstrapFails \/ NextBatch
    \/ \E p \in Pools : ApplyPool(p)
    \/ AllApplied \/ SendSwap \/ ApplyPending \/ SendPending \/ FinishBatch
    \/ UpdaterStops

----------------------------------------------------------------------------
(* The simulator at the other end of the channel (outside this crate). *)

Receive ==
    /\ open /\ swaps # <<>>
    /\ swaps' = Tail(swaps)
    /\ UNCHANGED <<config, head, registryVars, upc, cancel, sourceVars, batchVars, open, astray>>

DropReceiver ==
    /\ open
    /\ open' = FALSE /\ swaps' = <<>>
    /\ UNCHANGED <<config, head, registryVars, upc, cancel, sourceVars, batchVars, astray>>
=============================================================================
