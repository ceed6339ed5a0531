------------------------------ MODULE FeeReader ------------------------------
(***************************************************************************)
(* The background reads of V3 fees (src/src/collector/fee_reader.rs) next to *)
(* the updater that applies fee events (v3/pool.rs, apply_log) and the       *)
(* registry's set of tracked pools (registry.rs).                           *)
(*                                                                         *)
(* On chain a swap of a pool pays the stored fee, or a fee computed on       *)
(* demand: `live` stands for an Algebra plugin's fee or a Ramses pool's      *)
(* currentFee(), `dynamic` for whether swaps pay it. Only the stored fee and *)
(* an Algebra pool's switch are announced by events.                        *)
(***************************************************************************)
EXTENDS Naturals, Sequences, FiniteSets, FiniteSetsExt

CONSTANTS Pools, Absent,
          MaxBlock,          \* bound: blocks
          MaxReaders,        \* bound: fee readers, one per updater started
          MaxFailures,       \* bound: reads that fail or time out
          MaxRemovals        \* bound: pools removed

ASSUME FeeReaderAssumption ==
    /\ IsFiniteSet(Pools)
    /\ MaxBlock \in Nat /\ MaxReaders \in Nat \ {0}
    /\ MaxFailures \in Nat /\ MaxRemovals \in Nat
    /\ Absent \notin [fee : 0..3, source : {"Unknown", "Events", "ReadFee", "ReadCurrentFee"}]

VARIABLES kind,       \* V3PoolType of each pool
          chain,      \* per block: its event, and the fees of the pools after it
          pools,      \* registry: fee held and FeeSource of a pool, or Absent
          tracked,    \* PoolRegistry.dynamic_fee_addresses
          cursor,     \* PoolRegistry.last_processed_block
          batch,      \* the updater's batch: its candidates, and its last block
          queued,     \* FeeReadSchedule.queued
          due,        \* FULL_READ_INTERVAL has passed since last_full_read
          reader,     \* the running updater's reader
          tasks,      \* the read each reader has in flight
          failures, removals

vars == <<kind, chain, pools, tracked, cursor, batch, queued, due, reader, tasks, failures,
          removals>>

Idle == [stage |-> "idle"]
NoBatch == [touched |-> {}, through |-> 0]
Newest == Len(chain)

\* What a swap of p pays after block b.
Paid(p, b) == LET f == chain[b].fees[p] IN IF f.dynamic THEN f.live ELSE f.stored

Sources == {"Unknown", "Events", "ReadFee", "ReadCurrentFee"}

TypeOK ==
    /\ kind \in [Pools -> {"AlgebraV3", "RamsesCL"}]
    /\ pools \in [Pools -> [fee : 0..3, source : Sources] \cup {Absent}]
    /\ tracked \subseteq Pools /\ queued \subseteq Pools
    /\ cursor \in 1..Newest
    /\ batch.touched \subseteq Pools /\ batch.through \in 0..Newest
    /\ due \in BOOLEAN
    /\ reader \in 1..MaxReaders
    /\ \A r \in 1..MaxReaders : tasks[r].stage \in {"idle", "plan", "call", "hung", "write"}
    /\ failures \in 0..MaxFailures /\ removals \in 0..MaxRemovals

Registered == {p \in Pools : pools[p] # Absent}

\* UniswapV3Pool::fee_needs_reading: every type here may need reads.
NeedsReading(pool) == pool.source # "Events"

\* classify_fee_source, on what a fetch reads at block b.
Classify(p, b) ==
    CASE kind[p] = "AlgebraV3" -> IF chain[b].fees[p].dynamic THEN "ReadFee" ELSE "Events"
      [] kind[p] = "RamsesCL"  -> IF chain[b].fees[p].dynamic THEN "ReadCurrentFee" ELSE "Events"

Fetched(p, b) == [fee |-> Paid(p, b), source |-> Classify(p, b)]

\* A pool is fetched, or restored from a snapshot: then its source is not known.
\* add_pool tracks it when its fee needs reading.
Init ==
    /\ kind \in [Pools -> {"AlgebraV3", "RamsesCL"}]
    /\ \E fees \in [Pools -> [stored : {0}, live : {2}, dynamic : BOOLEAN]] :
           chain = << [event |-> "none", pool |-> Absent, fees |-> fees] >>
    /\ \E restored \in SUBSET Pools :
           pools = [p \in Pools |-> IF p \in restored
                                    THEN [fee |-> Paid(p, 1), source |-> "Unknown"]
                                    ELSE Fetched(p, 1)]
    /\ tracked = {p \in Pools : NeedsReading(pools[p])}
    /\ cursor = 1 /\ batch = NoBatch /\ queued = {} /\ due = TRUE
    /\ reader = 1 /\ tasks = [r \in 1..MaxReaders |-> Idle]
    /\ failures = 0 /\ removals = 0

----------------------------------------------------------------------------
(* The chain: a block with one event of one pool, or with a live fee that    *)
(* drifts unannounced.                                                      *)

NewBlock(p, event, fees) ==
    /\ Newest < MaxBlock
    /\ chain' = Append(chain, [event |-> event, pool |-> p,
                               fees |-> [chain[Newest].fees EXCEPT ![p] = fees]])
    /\ UNCHANGED <<kind, pools, tracked, cursor, batch, queued, due, reader, tasks, failures,
                   removals>>

Now(p) == chain[Newest].fees[p]

SetFee(p) ==      \* Algebra Fee(uint16), Ramses FeeAdjustment
    NewBlock(p, "fee", [Now(p) EXCEPT !.stored = 1 - @])
Reconfigure(p) == \* Algebra PluginConfig, Plugin
    kind[p] = "AlgebraV3" /\ NewBlock(p, "plugin", [Now(p) EXCEPT !.dynamic = ~@])
Drift(p) ==
    Now(p).dynamic /\ NewBlock(p, "none", [Now(p) EXCEPT !.live = 5 - @])
Swap(p) ==
    NewBlock(p, "swap", Now(p))

----------------------------------------------------------------------------
(* The updater. *)

\* UniswapV3Pool::apply_log: a fee event is left alone where swaps pay a fee that is read; a
\* plugin change resets the source.
ApplyLog(pool, p, b) ==
    IF pool = Absent \/ chain[b].pool # p THEN pool
    ELSE CASE chain[b].event = "fee" /\ pool.source \notin {"ReadFee", "ReadCurrentFee"}
                  -> [pool EXCEPT !.fee = chain[b].fees[p].stored]
           [] chain[b].event = "plugin" -> [pool EXCEPT !.source = "Unknown"]
           [] OTHER -> pool

\* fee_read_candidates, before the batch is applied: a reconfigured pool is
\* tracked from here on.
Reconfigured(b) == IF chain[b].event = "plugin" THEN {chain[b].pool} ELSE {}
Candidates(b) ==
    Reconfigured(b) \cup {p \in tracked : chain[b].event # "none" /\ chain[b].pool = p}

ApplyBatch ==
    /\ batch = NoBatch /\ cursor < Newest
    /\ LET b == cursor + 1 IN
           /\ tracked' = tracked \cup Reconfigured(b)
           /\ batch' = [touched |-> Candidates(b), through |-> b]
           /\ pools' = [p \in Pools |-> ApplyLog(pools[p], p, b)]
    /\ UNCHANGED <<kind, chain, cursor, queued, due, reader, tasks, failures, removals>>

\* FeeReader::after_batch with FeeReadSchedule::next_read.
Busy == tasks[reader].stage # "idle"
SpawnRead(addresses) ==
    tasks' = [tasks EXCEPT ![reader] = [stage |-> "plan", addresses |-> addresses, full |-> due]]

AfterBatchDropsWhenBusy(touched) ==
    \/ Busy /\ UNCHANGED <<queued, due, tasks>>
    \/ ~Busy /\ queued' = {} /\ due' = FALSE /\ SpawnRead(touched \cup (IF due THEN tracked ELSE {}))

AfterBatch(touched) ==
    LET all == queued \cup touched
    IN \/ /\ Busy
          /\ queued' = all
          /\ UNCHANGED <<due, tasks>>
       \/ /\ ~Busy /\ due
          /\ queued' = {} /\ due' = FALSE
          /\ SpawnRead(all \cup tracked)
       \/ /\ ~Busy /\ ~due /\ all # {}
          /\ queued' = {} /\ UNCHANGED due
          /\ SpawnRead(all)
       \/ /\ ~Busy /\ ~due /\ all = {}
          /\ UNCHANGED <<queued, due, tasks>>

\* The cursor moves, then the reader learns of the batch.
FinishBatchAhead ==
    /\ batch # NoBatch
    /\ cursor' = batch.through + 1
    /\ AfterBatch(batch.touched)
    /\ batch' = NoBatch
    /\ UNCHANGED <<kind, chain, pools, tracked, reader, failures, removals>>

FinishBatch ==
    /\ batch # NoBatch
    /\ cursor' = batch.through
    /\ AfterBatch(batch.touched)
    /\ batch' = NoBatch
    /\ UNCHANGED <<kind, chain, pools, tracked, reader, failures, removals>>

\* A batch of blocks without logs of these pools.
QuietBatch ==
    /\ batch = NoBatch /\ cursor = Newest
    /\ AfterBatch({})
    /\ UNCHANGED <<kind, chain, pools, tracked, cursor, batch, reader, failures, removals>>

IntervalPasses ==
    /\ ~due /\ due' = TRUE
    /\ UNCHANGED <<kind, chain, pools, tracked, cursor, batch, queued, reader, tasks, failures, removals>>

\* The logs of blocks b..k, applied straight to the registry's pools.
AppliedThrough(pool, p, k) ==
    LET step[b \in cursor..k] == IF b = cursor THEN pool ELSE ApplyLog(step[b - 1], p, b)
    IN step[k]

\* add_pools or a restart: logs up to block k reach the pools outside the batch
\* loop, removed pools come back freshly fetched, and a new updater starts with
\* a reader of its own. A read of the old reader goes on.
Restart ==
    /\ batch = NoBatch /\ reader < MaxReaders
    /\ reader' = reader + 1 /\ queued' = {} /\ due' = TRUE
    /\ \E k \in cursor..Newest :
           /\ cursor' = k
           /\ pools' = [p \in Pools |-> IF pools[p] = Absent THEN Fetched(p, k)
                                        ELSE AppliedThrough(pools[p], p, k)]
           /\ tracked' = tracked \cup {p \in Pools \ Registered : NeedsReading(Fetched(p, k))}
    /\ UNCHANGED <<kind, chain, batch, tasks, failures, removals>>

\* PoolRegistry::remove_pool.
RemovePool(p) ==
    /\ pools[p] # Absent /\ removals < MaxRemovals
    /\ removals' = removals + 1
    /\ pools' = [pools EXCEPT ![p] = Absent]
    /\ tracked' = tracked \ {p}
    /\ UNCHANGED <<kind, chain, cursor, batch, queued, due, reader, tasks, failures>>

----------------------------------------------------------------------------
(* The spawned read. *)

\* pools_needing_reads: a full pass rescans the registry.
RescanTracked(task) == IF task.full THEN tracked \cap Registered ELSE {}
Rescan(task) ==
    IF task.full THEN {p \in Registered : NeedsReading(pools[p])} ELSE {}

\* plan_reads: which calls a pool's classification asks for.
WantFeeUnlessEvents(p) == kind[p] = "AlgebraV3" /\ pools[p].source # "Events"
WantFee(p) == kind[p] = "AlgebraV3"
WantConfig(p) == kind[p] = "AlgebraV3" /\ pools[p].source # "ReadFee"
WantCurrentFee(p) == kind[p] = "RamsesCL" /\ pools[p].source # "Events"

Plan(r) ==
    /\ tasks[r].stage = "plan"
    /\ LET needing == Rescan(tasks[r])
           wanted == {p \in (tasks[r].addresses \cup needing) \cap Registered :
                         WantFee(p) \/ WantCurrentFee(p)}
       IN /\ tracked' = tracked \cup needing
          /\ tasks' = [tasks EXCEPT ![r] =
                IF wanted = {} THEN Idle
                ELSE [stage |-> "call", wanted |-> wanted,
                      config |-> {p \in wanted : WantConfig(p)}]]
    /\ UNCHANGED <<kind, chain, pools, cursor, batch, queued, due, reader, failures, removals>>

\* The calls, at the last processed block (read_fee_calls, read_plugin_configs,
\* read_current_fees): currentFee() reverts where it does not exist.
Call(r) ==
    /\ tasks[r].stage = "call"
    /\ tasks' = [tasks EXCEPT ![r] = [stage |-> "write", wanted |-> tasks[r].wanted,
                                      config |-> tasks[r].config, block |-> cursor]]
    /\ UNCHANGED <<kind, chain, pools, tracked, cursor, batch, queued, due, reader, failures, removals>>

\* What a read at block b makes of pool p (read_fees, after its calls).
WriteBack(pool, p, b, config) ==
    LET dynamic == chain[b].fees[p].dynamic
    IN IF pool = Absent THEN Absent
       ELSE CASE kind[p] = "AlgebraV3" /\ config  -> [fee |-> Paid(p, b), source |-> Classify(p, b)]
              [] kind[p] = "AlgebraV3" /\ ~config -> [pool EXCEPT !.fee = Paid(p, b)]
              [] kind[p] = "RamsesCL" /\ dynamic  -> [fee |-> Paid(p, b), source |-> "ReadCurrentFee"]
              [] kind[p] = "RamsesCL" /\ ~dynamic /\ pool.source = "Unknown"
                                          -> [pool EXCEPT !.source = "Events"]
              [] OTHER -> pool

\* Tracking follows a classification just made.
Write(r) ==
    /\ tasks[r].stage = "write"
    /\ \E p \in tasks[r].wanted :
           LET t == tasks[r]
               pool == WriteBack(pools[p], p, t.block, p \in t.config)
               classified == /\ pool # Absent
                             /\ p \in t.config \/ (kind[p] = "RamsesCL" /\ pools[p].source = "Unknown")
           IN /\ pools' = [pools EXCEPT ![p] = pool]
              /\ tracked' = CASE classified /\ pool.source = "Events" -> tracked \ {p}
                              [] classified /\ pool.source = "ReadFee" -> tracked \cup {p}
                              [] OTHER -> tracked
              /\ tasks' = [tasks EXCEPT ![r] =
                               IF t.wanted = {p} THEN Idle
                               ELSE [t EXCEPT !.wanted = @ \ {p}]]
    /\ UNCHANGED <<kind, chain, cursor, batch, queued, due, reader, failures, removals>>

\* READ_ATTEMPTS failed: read_fees returns an error, the guard clears the busy
\* flag, and what the read was for is forgotten.
Fails(r) ==
    /\ tasks[r].stage = "call" /\ failures < MaxFailures
    /\ failures' = failures + 1
    /\ tasks' = [tasks EXCEPT ![r] = Idle]
    /\ UNCHANGED <<kind, chain, pools, tracked, cursor, batch, queued, due, reader, removals>>

\* An RPC endpoint that never answers.
Hangs(r) ==
    /\ tasks[r].stage = "call" /\ failures < MaxFailures
    /\ failures' = failures + 1
    /\ tasks' = [tasks EXCEPT ![r] = [stage |-> "hung"]]
    /\ UNCHANGED <<kind, chain, pools, tracked, cursor, batch, queued, due, reader, removals>>

\* READ_TIMEOUT drops the read, and the guard with it.
TimesOutBusy(r) == tasks[r].stage = "hung" /\ UNCHANGED vars
TimesOut(r) ==
    /\ tasks[r].stage = "hung"
    /\ tasks' = [tasks EXCEPT ![r] = Idle]
    /\ UNCHANGED <<kind, chain, pools, tracked, cursor, batch, queued, due, reader, failures, removals>>

----------------------------------------------------------------------------
Updating == ApplyBatch \/ FinishBatch \/ QuietBatch
Reading(r) == Plan(r) \/ Call(r) \/ Write(r) \/ TimesOut(r)

Next ==
    \/ \E p \in Pools : SetFee(p) \/ Reconfigure(p) \/ Drift(p) \/ Swap(p) \/ RemovePool(p)
    \/ Updating \/ IntervalPasses \/ Restart
    \/ \E r \in 1..MaxReaders : Reading(r) \/ Fails(r) \/ Hangs(r)

\* Batches keep coming, time passes, and a spawned read runs.
Spec ==
    /\ Init /\ [][Next]_vars
    /\ WF_vars(ApplyBatch) /\ WF_vars(FinishBatch) /\ WF_vars(QuietBatch)
    /\ WF_vars(IntervalPasses)
    /\ \A r \in 1..MaxReaders : WF_vars(Reading(r))

----------------------------------------------------------------------------
(* Properties. *)

ReadUnderWay == \E r \in 1..MaxReaders : tasks[r].stage # "idle"

\* A pool whose fee events announce keeps it current: with every batch applied,
\* and no read of the pool queued or any under way, the fee held is the stored one
\* (fee_reader.rs: "Algebra pools with DYNAMIC_FEE off emit Fee(uint16)").
EventFeeIsCurrent ==
    \A p \in Registered :
        /\ batch = NoBatch /\ ~ReadUnderWay /\ p \notin queued \cup tracked
        /\ pools[p].source = "Events" /\ ~chain[cursor].fees[p].dynamic
        => pools[p].fee = Paid(p, cursor)

\* Once the chain stays as it is, every pool whose plugin or currentFee() sets
\* the fee comes to hold that fee and keeps it, whatever reads were in flight
\* across reconfigurations: a stale classification written back is re-derived
\* from the queue (plan_reads). As long as no read fails and no updater is
\* replaced, which both drop queued work.
DynamicFeesSettle ==
    \/ <>(failures > 0 \/ reader > 1)
    \/ <>[](\A p \in Registered : Now(p).dynamic => pools[p].fee = Paid(p, Newest))

\* A pool left Unknown and untracked by a reconfiguration applied outside the
\* batch loop is found again by a full pass, through failed reads, hung reads
\* and restarts (pools_needing_reads).
NeedyPoolIsFound ==
    \A p \in Pools :
        (pools[p] # Absent /\ NeedsReading(pools[p]) /\ p \notin tracked)
            ~> (pools[p] = Absent \/ ~NeedsReading(pools[p]) \/ p \in tracked)

\* A pool touched while a read runs waits for the next read and no longer: the
\* running one ends, by its answer, its error or its timeout, and frees the
\* reader (BusyGuard).
QueuedPoolIsRead == \A p \in Pools : (p \in queued) ~> (p \notin queued)

\* A pool that swaps price at a fee being read, with no repair under way, is
\* never held as event-driven: a classification that a reconfiguration outran
\* still has its pool queued or in a read.
StaleClassificationIsQueued ==
    \A p \in Registered :
        /\ batch = NoBatch /\ failures = 0 /\ reader = 1
        /\ pools[p].source = "Events" /\ chain[cursor].fees[p].dynamic
        => p \in queued \/ ReadUnderWay
=============================================================================
