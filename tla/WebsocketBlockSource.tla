------------------------ MODULE WebsocketBlockSource ------------------------
(***************************************************************************)
(* The websocket block source (WebsocketBlockSource and BlockSettler in      *)
(* src/src/collector/block_source.rs) driven by UnifiedPoolUpdater::start,   *)
(* consuming the event queue that the feeds fill.                           *)
(*                                                                         *)
(* Pool state is abstracted to what order and multiplicity can corrupt:      *)
(* `applied` counts how often each log went into the pools (Mint, Burn and   *)
(* LB bin changes add up), and `pool` is the last log applied (Swap and Sync *)
(* set the state outright).                                                 *)
(***************************************************************************)
EXTENDS WebsocketFeed, FiniteSetsExt, SequencesExt

CONSTANTS MaxBlocksPerBatch,  \* CollectorConfig.max_blocks_per_batch
          BootRpcLag,         \* the RPC node may be behind the feeds at bootstrap
          BootRpcFails        \* bootstrap's first RPC call may fail

ASSUME SourceAssumption ==
    /\ MaxBlocksPerBatch \in Nat
    /\ BootRpcLag \in BOOLEAN /\ BootRpcFails \in BOOLEAN
    /\ IsFiniteSet(Logs) /\ IsFiniteSet(Feeds)

\* CollectorConfig::fills_reconnect_gaps.
FillReconnectGaps == Cardinality(Feeds) = 1

VARIABLES pc,                  \* where bootstrap and the updater loop are
          rpcHead,             \* the RPC node's head
          cursor,              \* PoolRegistry.last_processed_block
          latest,              \* bootstrap: latest_block
          events,              \* bootstrap: the drained logs
          batch_start,         \* bootstrap: first block of the next catch-up batch
          refetched,           \* bootstrap: copies of logs that gap fills added
          filled,              \* bootstrap: a gap was filled
          floor,               \* fill_floor
          todo,                \* gaps taken and not handled yet
          fetched,             \* gap logs fetched and not claimed yet
          missed,              \* gap logs claimed
          pending,             \* BlockSettler.pending: copies held of each log
          released_through,    \* BlockSettler.released_through
          apply_only_through,  \* blocks over before a fill fetched them
          applied,             \* how often each log was applied to the pools
          pool                 \* the log applied last

bootVars == <<latest, events, batch_start, refetched, filled>>
fillVars == <<todo, fetched, missed>>
settlerVars == <<pending, released_through, apply_only_through>>
poolVars == <<cursor, applied, pool>>
sourceVars == <<pc, rpcHead, floor, bootVars, fillVars, settlerVars, poolVars>>
vars == <<feedVars, queueVars, sourceVars>>

BootPcs == {"latest", "drain0", "catchup", "gaps0", "fill0", "claim0", "apply0"}
LoopPcs == {"drain", "gaps", "fill", "claim", "ready"}

TypeOK ==
    /\ FeedTypeOK
    /\ pc \in BootPcs \cup LoopPcs \cup {"failed"}
    /\ rpcHead \in StartBlock..head
    /\ cursor \in Nat /\ latest \in Nat /\ batch_start \in Nat
    /\ events \in Seq(Item)
    /\ refetched \in [Logs -> Nat]
    /\ filled \in BOOLEAN
    /\ floor \in Nat
    /\ todo \in Seq(Gap)
    /\ fetched \in SUBSET Logs /\ missed \in SUBSET Logs
    /\ pending \in [Logs -> Nat]
    /\ released_through \in Nat /\ apply_only_through \in Nat
    /\ applied \in [Logs -> Nat]
    /\ pool \in Logs \cup {NoPosition}

\* The pools were fetched at StartBlock: their state has its logs already.
Init ==
    /\ FeedInit
    /\ pc = "latest"
    /\ rpcHead = StartBlock
    /\ cursor = StartBlock
    /\ latest = 0 /\ events = <<>> /\ batch_start = 0
    /\ refetched = [l \in Logs |-> 0] /\ filled = FALSE
    /\ floor = NoPosition
    /\ todo = <<>> /\ fetched = {} /\ missed = {}
    /\ pending = [l \in Logs |-> 0]
    /\ released_through = 0 /\ apply_only_through = 0
    /\ applied = [l \in Logs |-> IF Block(l) <= StartBlock THEN 1 ELSE 0]
    /\ pool = Max({l \in Logs : Block(l) <= StartBlock} \cup {NoPosition})

----------------------------------------------------------------------------
(* The RPC node. *)

RpcAdvance ==
    /\ rpcHead < head
    /\ rpcHead' = rpcHead + 1
    /\ UNCHANGED <<feedVars, queueVars, pc, floor, bootVars, fillVars, settlerVars,
                   poolVars>>

\* The chain's logs in a range of blocks.
LogsIn(from, to) == {l \in Logs \ orphaned : from <= Block(l) /\ Block(l) <= to}

\* What eth_getLogs may answer: nothing past the node's head, and of its newest
\* block possibly only some of the logs (block_source.rs: wait_until_rpc_passes).
RpcAnswers(from, to) ==
    {S \in SUBSET LogsIn(from, Min({to, rpcHead})) :
        LogsIn(from, Min({to, rpcHead - 1})) \subseteq S}

----------------------------------------------------------------------------
(* Applying logs to the pools. *)

Count(seq, l) == Cardinality({i \in DOMAIN seq : seq[i].log = l})

\* The set of logs S applied in chain order, each as often as copies says.
Apply(S, copies) ==
    /\ applied' = [l \in Logs |-> applied[l] + IF l \in S THEN copies[l] ELSE 0]
    /\ pool' = IF S = {} THEN pool ELSE Max(S)

----------------------------------------------------------------------------
(* bootstrap. *)

BootLatest ==
    /\ pc = "latest"
    /\ latest' = rpcHead
    /\ pc' = "drain0"
    /\ UNCHANGED <<feedVars, queueVars, rpcHead, floor, events, batch_start,
                   refetched, filled, fillVars, settlerVars, poolVars>>

\* get_block_number()? fails: bootstrap and the updater task end, the queue's
\* receiver goes with them, and the feeds go on.
BootLatestFails ==
    /\ BootRpcFails
    /\ pc = "latest"
    /\ pc' = "failed"
    /\ DropReceiver
    /\ UNCHANGED <<rpcHead, floor, bootVars, fillVars, settlerVars, poolVars>>

EventLogs(evs) == {evs[i].log : i \in DOMAIN evs}

\* Drain the queue; the earliest queued position bounds the RPC catch-up.
BootDrain ==
    /\ pc = "drain0"
    /\ events' = channel
    /\ floor' = IF channel = <<>> THEN BlockStart(latest) ELSE Min(EventLogs(channel))
    /\ batch_start' = cursor + 1
    /\ latest' = 0
    /\ pc' = "catchup"
    /\ Drain
    /\ UNCHANGED <<rpcHead, refetched, filled, fillVars, settlerVars, poolVars>>

\* Mutant: successive batches share a block.
OverlappingBatch(end) == end

\* catchup_batches: the batch after the one ending at `end`.
FollowingBatch(end) == end + 1

\* One batch of the catch-up over (cursor, floor's block]: fetched logs before
\* the floor are applied, the first one at or after it ends the catch-up. The
\* fetch is retried until it succeeds.
BootCatchUp ==
    /\ pc = "catchup"
    /\ batch_start <= Block(floor)
    /\ BootRpcLag \/ events = <<>> \/ rpcHead > Block(floor)
    /\ LET end == Min({batch_start + Max({MaxBlocksPerBatch, 1}) - 1, Block(floor)})
       IN  \E answer \in RpcAnswers(batch_start, end) :
              LET before == {l \in answer : l < floor}
              IN  /\ Apply(before, [l \in Logs |-> 1])
                  /\ IF before # answer \/ end = Block(floor)
                     THEN pc' = "gaps0" /\ batch_start' = 0
                     ELSE pc' = pc /\ batch_start' = FollowingBatch(end)
    /\ UNCHANGED <<feedVars, queueVars, rpcHead, floor, latest, events, refetched,
                   filled, fillVars, settlerVars, cursor>>

BootNothingToCatchUp ==
    /\ pc = "catchup"
    /\ batch_start > Block(floor)
    /\ pc' = "gaps0"
    /\ batch_start' = 0
    /\ UNCHANGED <<feedVars, queueVars, rpcHead, floor, latest, events, refetched,
                   filled, fillVars, settlerVars, poolVars>>

BootTakeGaps ==
    /\ pc = "gaps0"
    /\ TakeGaps
    /\ IF FillReconnectGaps /\ gaps # <<>>
       THEN todo' = gaps /\ pc' = "fill0"
       ELSE todo' = <<>> /\ pc' = "apply0"
    /\ UNCHANGED <<rpcHead, floor, bootVars, fetched, missed, settlerVars, poolVars>>

\* Nothing a fill would take lies in the gap: no wait, no fetch.
NothingIn(gap) ==
    \/ gap.before <= floor
    \/ gap.after # NoPosition /\ gap.before <= gap.after

\* The logs of the gap that fetch_gap keeps, once the RPC node is past it.
GapLogs(gap) ==
    {l \in LogsIn(Block(Max({gap.after, floor})), Block(gap.before)) :
        gap.after < l /\ l < gap.before /\ l >= floor}

\* fetch_gap up to the claims, for the first gap taken.
FetchGap ==
    /\ NothingIn(Head(todo)) \/ rpcHead > Block(Head(todo).before)
    /\ fetched' = IF NothingIn(Head(todo)) THEN {} ELSE GapLogs(Head(todo))

\* A gap whose closing log was drained is filled now ...
BootFillGap ==
    /\ pc = "fill0"
    /\ Head(todo).before \in EventLogs(events)
    /\ FetchGap
    /\ filled' = TRUE
    /\ pc' = "claim0"
    /\ UNCHANGED <<feedVars, queueVars, rpcHead, floor, latest, events, batch_start,
                   refetched, todo, missed, settlerVars, poolVars>>

\* Mutant: any other is dropped.
DropGap(gap) == UNCHANGED <<feedVars, queueVars>>

\* ... any other is left for next_batch.
LeaveGap(gap) == NoteAgain(gap)

BootLeaveGap ==
    /\ pc = "fill0"
    /\ Head(todo).before \notin EventLogs(events)
    /\ LeaveGap(Head(todo))
    /\ todo' = Tail(todo)
    /\ pc' = IF Tail(todo) = <<>> THEN "apply0" ELSE "fill0"
    /\ UNCHANGED <<rpcHead, floor, bootVars, fetched, missed, settlerVars, poolVars>>

\* fetch_gap claims each log: a key a feed has sent already is left to the feed.
ClaimNext ==
    /\ pc \in {"claim0", "claim"}
    /\ fetched # {}
    /\ LET l == Min(fetched)
       IN  /\ fetched' = fetched \ {l}
           /\ \/ Claim(l) /\ missed' = missed \cup {l}
              \/ Duplicate(l) /\ UNCHANGED <<feedVars, queueVars, missed>>
    /\ UNCHANGED <<pc, rpcHead, floor, bootVars, todo, settlerVars, poolVars>>

AsItem(l) == [log |-> l, removed |-> FALSE]

BootGapFilled ==
    /\ pc = "claim0"
    /\ fetched = {}
    /\ refetched' = [l \in Logs |-> refetched[l] + IF l \in missed THEN 1 ELSE 0]
    /\ missed' = {}
    /\ todo' = Tail(todo)
    /\ pc' = IF Tail(todo) = <<>> THEN "apply0" ELSE "fill0"
    /\ UNCHANGED <<feedVars, queueVars, rpcHead, floor, latest, events, batch_start, filled,
                   fetched, settlerVars, poolVars>>

\* Mutant: the cursor stays where the queue took over.
BootCursorAtFloor == Block(floor)

\* The logs bootstrap applies after the catch-up.
BootLogs == EventLogs(events) \cup {l \in Logs : refetched[l] > 0}

\* The block bootstrap leaves the pools at.
BootCursor == IF BootLogs = {} THEN Block(floor) ELSE Block(Max(BootLogs))

\* Apply the drained logs, retractions too, in chain order if a gap was filled
\* and in arrival order if not; then set the cursor and start the settler.
BootApply ==
    /\ pc = "apply0"
    /\ applied' = [l \in Logs |-> applied[l] + Count(events, l) + refetched[l]]
    /\ pool' = IF BootLogs = {} THEN pool
               ELSE IF filled THEN Max(BootLogs) ELSE Last(events).log
    /\ cursor' = BootCursor
    /\ released_through' = BootCursor
    /\ events' = <<>>
    /\ refetched' = [l \in Logs |-> 0]
    /\ filled' = FALSE
    /\ pc' = "drain"
    /\ UNCHANGED <<feedVars, queueVars, rpcHead, floor, latest, batch_start, fillVars,
                   pending, apply_only_through>>

----------------------------------------------------------------------------
(* next_batch, and the updater's handling of the batch. *)

\* BlockSettler::add of so many copies of each log.
SettlerAdd(copies) == pending' = [l \in Logs |-> pending[l] + copies[l]]

\* Copies of log l in the queue; the settler drops retractions.
Queued(l) == Cardinality({i \in DOMAIN channel : channel[i] = AsItem(l)})

\* Mutant: logs before the floor are taken again.
ArrivedAll == [l \in Logs |-> Queued(l)]

\* What a drain brings: logs before the floor were applied by bootstrap.
Arrived == [l \in Logs |-> IF l >= floor THEN Queued(l) ELSE 0]

\* Drain the queue into the settler.
LoopDrain ==
    /\ pc = "drain"
    /\ SettlerAdd(Arrived)
    /\ Drain
    /\ pc' = "gaps"
    /\ UNCHANGED <<rpcHead, floor, bootVars, fillVars, released_through,
                   apply_only_through, poolVars>>

LoopTakeGaps ==
    /\ pc = "gaps"
    /\ TakeGaps
    /\ IF FillReconnectGaps /\ gaps # <<>>
       THEN todo' = gaps /\ pc' = "fill"
       ELSE todo' = <<>> /\ pc' = "ready"
    /\ UNCHANGED <<rpcHead, floor, bootVars, fetched, missed, settlerVars, poolVars>>

LoopFillGap ==
    /\ pc = "fill"
    /\ FetchGap
    /\ pc' = "claim"
    /\ UNCHANGED <<feedVars, queueVars, rpcHead, floor, bootVars, todo, missed,
                   settlerVars, poolVars>>

\* fill_gap: the claimed logs join the settler, and no block up to the one that
\* ended the gap is priced any more.
LoopGapFilled ==
    /\ pc = "claim"
    /\ fetched = {}
    /\ SettlerAdd([l \in Logs |-> IF l \in missed THEN 1 ELSE 0])
    /\ apply_only_through' = Max({apply_only_through, Block(Head(todo).before)})
    /\ missed' = {}
    /\ todo' = Tail(todo)
    /\ pc' = IF Tail(todo) = <<>> THEN "ready" ELSE "fill"
    /\ UNCHANGED <<feedVars, queueVars, rpcHead, floor, bootVars, fetched,
                   released_through, poolVars>>

PendingBlocks == {Block(l) : l \in {m \in Logs : pending[m] > 0}}

ReadyBlock == Min(PendingBlocks)

ReadyLogs == {l \in Logs : pending[l] > 0 /\ Block(l) = ReadyBlock}

\* Mutant: every block is priced.
PricedAlways == TRUE

\* The processing mode of the block about to be handed on.
Priced ==
    /\ ReadyBlock >= released_through
    /\ ReadyBlock > apply_only_through

\* Mutant: the oldest block is complete only once a later one started.
OnlyOnceLaterStarted == Cardinality(PendingBlocks) > 1

\* The oldest block is complete: a later one started, or it was quiet for `settle`
\* (any time: the clock is left out).
BlockComplete == PendingBlocks # {}

\* take_ready: the oldest block leaves the settler.
TakeReady ==
    /\ pending' = [l \in Logs |-> IF l \in ReadyLogs THEN 0 ELSE pending[l]]
    /\ released_through' = Max({released_through, ReadyBlock})

\* next_batch hands on the oldest block, its logs in chain order; the updater
\* applies the batch and then moves the cursor.
HandOn ==
    /\ pc = "ready"
    /\ BlockComplete
    /\ TakeReady
    /\ Apply(ReadyLogs, pending)
    /\ cursor' = released_through'
    /\ pc' = "drain"
    /\ UNCHANGED <<feedVars, queueVars, rpcHead, floor, bootVars, fillVars,
                   apply_only_through>>

\* Nothing pending, or a single block that is not quiet yet: sleep and poll again.
NotSettled ==
    /\ pc = "ready"
    /\ Cardinality(PendingBlocks) <= 1
    /\ pc' = "drain"
    /\ UNCHANGED <<feedVars, queueVars, rpcHead, floor, bootVars, fillVars, settlerVars,
                   poolVars>>

----------------------------------------------------------------------------

Bootstrap ==
    \/ BootLatest \/ BootLatestFails \/ BootDrain \/ BootCatchUp
    \/ BootNothingToCatchUp \/ BootTakeGaps \/ BootFillGap \/ BootLeaveGap
    \/ BootGapFilled \/ BootApply

UpdaterLoop ==
    \/ LoopDrain \/ LoopTakeGaps \/ LoopFillGap \/ LoopGapFilled
    \/ HandOn \/ NotSettled

Source == Bootstrap \/ UpdaterLoop \/ ClaimNext

\* A step of the chain or of a listener; the source does not move.
Outside ==
    \/ Mine /\ UNCHANGED sourceVars
    \/ \E l \in Logs : Reorg(l) /\ UNCHANGED sourceVars
    \/ \E f \in Feeds : Subscribe(f) /\ UNCHANGED sourceVars
    \/ \E f \in Feeds : Disconnect(f) /\ UNCHANGED sourceVars
    \/ \E f \in Feeds : Lagged(f) /\ UNCHANGED sourceVars
    \/ \E f \in Feeds : Receive(f) /\ UNCHANGED sourceVars
    \/ \E f \in Feeds : ReceiveRetraction(f) /\ UNCHANGED sourceVars
    \/ \E f \in Feeds : RecordItem(f) /\ UNCHANGED sourceVars
    \/ \E f \in Feeds : SkipDuplicate(f) /\ UNCHANGED sourceVars
    \/ \E f \in Feeds : SendItem(f) /\ UNCHANGED sourceVars

Next == Outside \/ RpcAdvance \/ Source

Spec == Init /\ [][Next]_vars

\* The listener and updater tasks run whenever they can; blocks keep coming and
\* the RPC node follows; a pending block that stays quiet is ready at some poll,
\* as `settle` runs out. A feed need not reconnect nor receive anything.
FairSpec ==
    /\ Spec
    /\ WF_vars(Mine /\ UNCHANGED sourceVars)
    /\ WF_vars(RpcAdvance)
    /\ WF_vars(Source)
    /\ SF_vars(HandOn)
    /\ \A f \in Feeds :
           WF_vars((RecordItem(f) \/ SkipDuplicate(f) \/ SendItem(f)) /\ UNCHANGED sourceVars)

----------------------------------------------------------------------------

\* No log goes into the pools twice: not from the catch-up and the queue, not
\* from a gap fill and the feed, not from two feeds (block_source.rs: bootstrap,
\* fetch_gap, the floor in next_batch).
AppliedAtMostOnce == \A l \in Logs : applied[l] <= 1

\* Every key the queue accepts brings at most one application, on top of what the
\* pools were fetched with, and before the floor the catch-up or the fetch has
\* the only one: what a duplicate can do is bounded by the window of `record`.
AppliedOncePerKey ==
    \A l \in Logs :
        applied[l] <= IF l < floor THEN 1
                      ELSE (IF Block(l) <= StartBlock THEN 1 ELSE 0)
                           + Cardinality({i \in DOMAIN recorded : recorded[i] = l})

\* A copy of l is on its way to the pools: at the source, in the queue, in a
\* listener's hand, or in a gap that will be filled.
OnItsWay(l) ==
    \/ pending[l] > 0
    \/ l \in fetched \cup missed
    \/ \E i \in DOMAIN channel : channel[i] = AsItem(l)
    \/ \E f \in Feeds : stage[f] # "recv" /\ item[f] = AsItem(l)
    \/ /\ FillReconnectGaps
       /\ \E gap \in ToSet(gaps) \cup ToSet(todo) : gap.after < l /\ l < gap.before

\* A feed will still deliver l, or will note a gap over it.
StillToCome(l) ==
    \/ Block(l) > head
    \/ \E f \in Feeds :
           \/ up[f] /\ l >= next[f]
           \/ FillReconnectGaps /\ (up[f] => gap_open[f]) /\ l > last_forwarded[f]

\* Once bootstrap is over, every log of the chain has been applied, or is on its
\* way, or is still to come: none is lost for good (block_source.rs: bootstrap
\* and fill_gap; config.rs: "never lost").
NothingLost ==
    pc \in LoopPcs =>
        \A l \in Logs \ orphaned :
            applied[l] > 0 \/ (l >= floor /\ (OnItsWay(l) \/ StillToCome(l)))

\* Logs of a block handed on for pricing come after everything the pools have
\* seen (block_source.rs: the processing mode in next_batch).
PricedInChainOrder ==
    [][HandOn /\ Priced => \A l \in ReadyLogs : l > pool]_vars

\* A log that was retracted before any copy of it was in hand is never applied
\* (block_source.rs: BlockSettler::add, "would only corrupt them").
RetractionNotApplied ==
    [][\A l \in orphaned : applied'[l] > applied[l] =>
           pending[l] > 0 \/ AsItem(l) \in ToSet(events)]_vars

\* The pools are never ahead of the cursor, so a catch-up from the block after
\* it (handle.rs: catchup_registry_to_block) re-applies nothing.
CursorCoversApplied ==
    pc \in LoopPcs => \A l \in Logs : applied[l] > 0 => Block(l) <= cursor

\* A log that a feed took in hand, or that it lost and then forwarded a later
\* one, gets applied (config.rs: "applied late and logged, never lost").
ForwardedIsApplied ==
    \A l \in Logs : \A f \in Feeds :
        (\/ stage[f] # "recv" /\ item[f] = AsItem(l)
         \/ FillReconnectGaps /\ l <= last_forwarded[f])
            ~> (applied[l] > 0 \/ l \in orphaned \/ pc = "failed")
=============================================================================
