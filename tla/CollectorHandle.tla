--------------------------- MODULE CollectorHandle ---------------------------
(***************************************************************************)
(* CollectorHandle (src/src/collector/handle.rs): stop, add_pools over HTTP  *)
(* and with websockets, remove_pools, composed with the updater task, the    *)
(* chain and the simulator. stop and add_pools take &mut self, so one runs   *)
(* at a time; pools are removed from the shared registry at any moment.      *)
(***************************************************************************)
EXTENDS Updater

CONSTANTS MaxAdds,      \* bound: calls of add_pools
          MaxRemovals   \* bound: pools removed

ASSUME HandleAssumption == MaxAdds \in Nat /\ MaxRemovals \in Nat

VARIABLES hpc,          \* where the handle's call is
          adding,       \* addresses of the add_pools call that are new
          fetch_block,  \* the block its pools are fetched at
          mem,          \* its pools in memory, not registered yet
          adds, removals

handleVars == <<hpc, adding, fetch_block, mem, adds, removals>>
vars == <<updaterVars, handleVars>>

HandlePcs == {"idle", "fetch", "join", "catchup", "register", "stopping", "dropped",
              "wsjoin", "wscatchup", "wslisten", "wsfetch"}

HandleTypeOK ==
    /\ TypeOK
    /\ hpc \in HandlePcs
    /\ adding \subseteq Pools
    /\ fetch_block \in Nat
    /\ mem \in [Pools -> Seq(Logs) \cup {Absent}]
    /\ adds \in 0..MaxAdds /\ removals \in 0..MaxRemovals

Init ==
    /\ UpdaterInit
    /\ hpc = "idle" /\ adding = {} /\ fetch_block = 0 /\ mem = NoClones
    /\ adds = 0 /\ removals = 0

\* spawn_updater, UnifiedPoolUpdater::new: a source built from the registry as
\* it is now. start_block never moves the cursor back.
Spawn(start_block, types) ==
    /\ cursor' = Max({cursor, start_block})
    /\ srcTopics' = types
    /\ upc' = (IF mode = "websocket" THEN "boot" ELSE "next") /\ cancel' = FALSE
    /\ phase' = Poll /\ batches' = <<>>

\* register_pools_and_topics: add_pool for each, then their types' topics.
Register(pools) ==
    /\ state' = [p \in Pools |-> IF p \in pools THEN mem[p] ELSE state[p]]
    /\ topics' = topics \cup {TypeOf(p) : p \in pools}

----------------------------------------------------------------------------
(* stop_updater: send the signal, await the task. *)

SendCancel(next) ==
    /\ cancel' = TRUE
    /\ hpc' = next
    /\ UNCHANGED <<config, head, registryVars, upc, sourceVars, batchVars, simVars, astray>>

\* stop: listeners first, then the updater.
Stop ==
    /\ hpc = "idle"
    /\ SendCancel("stopping")
    /\ UNCHANGED <<adding, fetch_block, mem, adds, removals>>

StopReturns ==
    /\ hpc = "stopping" /\ upc = "stopped"
    /\ hpc' = "idle"
    /\ UNCHANGED <<updaterVars, adding, fetch_block, mem, adds, removals>>

\* Dropping the handle drops cancel_tx, which the updater takes as the signal.
DropHandle ==
    /\ hpc = "idle"
    /\ SendCancel("dropped")
    /\ UNCHANGED <<adding, fetch_block, mem, adds, removals>>

----------------------------------------------------------------------------
(* add_pools. *)

\* The addresses not in the registry; with none, the call returns at once. The
\* caller may have seen a block that the RPC node has not.
AddPools ==
    /\ hpc = "idle" /\ adds < MaxAdds
    /\ adds' = adds + 1
    /\ \E requested \in SUBSET Pools : adding' = requested \ Registered
    /\ adding' # {}
    /\ \E block_number \in StartBlock..Newest :
           IF mode = "websocket"
           THEN /\ fetch_block' = block_number
                /\ SendCancel("wsjoin")
           ELSE /\ fetch_block' = Max({block_number, cursor})
                /\ hpc' = "fetch"
                /\ UNCHANGED updaterVars
    /\ UNCHANGED <<mem, removals>>

\* fetch_pools_in_memory at a block the node has: all of them, or, when one fails
\* for good, none.
FetchInMemory ==
    /\ fetch_block <= head
    /\ mem' = [p \in Pools |-> IF p \in adding THEN Replay!ChainState(p, fetch_block)
                                               ELSE Absent]

\* Over HTTP the collector runs on during the fetch.
HttpFetched ==
    /\ hpc = "fetch"
    /\ FetchInMemory
    /\ SendCancel("join")
    /\ UNCHANGED <<adding, fetch_block, adds, removals>>

HttpFetchFails ==
    /\ hpc = "fetch"
    /\ hpc' = "idle" /\ adding' = {} /\ fetch_block' = 0
    /\ UNCHANGED <<updaterVars, mem, adds, removals>>

\* stop_updater has returned: the cursor is stable.
HttpJoined ==
    /\ hpc = "join" /\ upc = "stopped"
    /\ hpc' = "catchup"
    /\ UNCHANGED <<updaterVars, adding, fetch_block, mem, adds, removals>>

\* catchup_registry_to_block.
CatchUpRegistry(from, to) ==
    \E S \in Answers(Registered, topics, from, to) :
        /\ state' = [p \in Pools |-> IF state[p] = Absent THEN Absent
                                     ELSE Applied(state[p], p, S)]
        /\ astray' = astray \cup (Matching(Registered, topics, from, to) \ S)

\* Mutant: the fetch block's logs again.
CatchUpMemoryAgain(from, to) ==
    \E S \in Answers(adding, topics, from - 1, to) :
        /\ mem' = [p \in Pools |-> IF mem[p] = Absent THEN Absent ELSE Applied(mem[p], p, S)]
        /\ astray' = astray \cup (Matching(adding, topics, from, to) \ S)

\* apply_catchup_events_in_memory, with the topics the registry has so far.
CatchUpMemory(from, to) ==
    \E S \in Answers(adding, topics, from, to) :
        /\ mem' = [p \in Pools |-> IF mem[p] = Absent THEN Absent ELSE Applied(mem[p], p, S)]
        /\ astray' = astray \cup (Matching(adding, topics, from, to) \ S)

\* Whichever side is behind is caught up: cursor and fetch_block meet.
HttpCatchUp ==
    /\ hpc = "catchup"
    /\ hpc' = "register"
    /\ \/ /\ fetch_block > cursor
          /\ CatchUpRegistry(cursor + 1, fetch_block)
          /\ UNCHANGED mem
       \/ /\ fetch_block <= cursor
          /\ CatchUpMemory(fetch_block + 1, cursor)
          /\ UNCHANGED state
    /\ UNCHANGED <<config, head, topics, cursor, upc, cancel, sourceVars, batchVars, simVars,
                   adding, fetch_block, adds, removals>>

HttpRegister ==
    /\ hpc = "register"
    /\ Register(adding)
    /\ Spawn(Max({fetch_block, cursor}), topics')
    /\ hpc' = "idle" /\ adding' = {} /\ fetch_block' = 0 /\ mem' = NoClones
    /\ UNCHANGED <<config, head, listen, batchVars, simVars, astray, adds, removals>>

\* With websockets everything stops first, and the fetch comes last.
WsJoined ==
    /\ hpc = "wsjoin" /\ upc = "stopped"
    /\ fetch_block' = Max({fetch_block, cursor})
    /\ hpc' = "wscatchup"
    /\ UNCHANGED <<updaterVars, adding, mem, adds, removals>>

WsCatchUp ==
    /\ hpc = "wscatchup"
    /\ CatchUpRegistry(cursor + 1, fetch_block)
    /\ hpc' = "wslisten"
    /\ UNCHANGED <<config, head, topics, cursor, upc, cancel, sourceVars, batchVars, simVars,
                   adding, fetch_block, mem, adds, removals>>

\* Listeners for the old and the new addresses, with the topics so far.
WsListen ==
    /\ hpc = "wslisten"
    /\ listen' = Listening(Registered \cup adding, topics)
    /\ hpc' = "wsfetch"
    /\ UNCHANGED <<config, head, registryVars, upc, cancel, srcTopics, phase, batches,
                   batchVars, simVars, astray, adding, fetch_block, mem, adds, removals>>

\* The fetch fails: the updater starts again without the new pools.
WsFetchFails ==
    /\ hpc = "wsfetch"
    /\ Spawn(fetch_block, topics)
    /\ hpc' = "idle" /\ adding' = {} /\ fetch_block' = 0
    /\ UNCHANGED <<config, head, state, topics, listen, batchVars, simVars, astray, mem, adds,
                   removals>>

WsRegister ==
    /\ hpc = "wsfetch" /\ fetch_block <= head
    /\ state' = [p \in Pools |-> IF p \in adding THEN Replay!ChainState(p, fetch_block)
                                                 ELSE state[p]]
    /\ topics' = topics \cup {TypeOf(p) : p \in adding}
    /\ Spawn(fetch_block, topics')
    /\ hpc' = "idle" /\ adding' = {} /\ fetch_block' = 0
    /\ UNCHANGED <<config, head, listen, batchVars, simVars, astray, mem, adds, removals>>

----------------------------------------------------------------------------
\* remove_pools, PoolRegistry::remove_pool.
RemovePool ==
    /\ removals < MaxRemovals
    /\ removals' = removals + 1
    /\ \E p \in Registered : state' = [state EXCEPT ![p] = Absent]
    /\ UNCHANGED <<config, head, topics, cursor, upc, cancel, sourceVars, batchVars, simVars,
                   astray, hpc, adding, fetch_block, mem, adds>>

HandleStep ==
    \/ StopReturns \/ HttpFetched \/ HttpFetchFails \/ HttpJoined \/ HttpCatchUp
    \/ HttpRegister \/ WsJoined \/ WsCatchUp \/ WsListen \/ WsFetchFails \/ WsRegister

Running == UpdaterStep \/ Receive \/ Mine

Next ==
    \/ (Running \/ DropReceiver) /\ UNCHANGED handleVars
    \/ HandleStep \/ Stop \/ DropHandle \/ AddPools \/ RemovePool

Spec == Init /\ [][Next]_vars

\* Tokio runs a ready task; the simulator reads its channel until it drops it;
\* blocks keep coming; RPC calls are answered in the end.
FairSpec ==
    /\ Spec
    /\ WF_vars(UpdaterStep /\ UNCHANGED handleVars)
    /\ WF_vars(Receive /\ UNCHANGED handleVars)
    /\ WF_vars(Mine /\ UNCHANGED handleVars)
    /\ WF_vars(HandleStep)

----------------------------------------------------------------------------
(* Properties. *)

\* Whatever the mode, and through stop, restart, add_pools and remove_pools, the
\* registry replays what it is fed: every log that a source did not lead astray
\* is in its pool once, in order and with no earlier one missing, and no cursor
\* passes a pool (handle.rs, "keeping all pool states consistent"). That is, the
\* handle, the updater and the event processor lose, repeat and reorder nothing.
ImplementsReplay == Replay!ReplaySpec

\* handle.rs, CollectorHandle: add_pools registers pools "while keeping all pool
\* states consistent": at the cursor every pool has exactly its logs so far.
StatesConsistent == \A p \in Pools : Replay!Replayed(p)

\* Logs of the pending block never get into the registry: its pools hold nothing
\* past the cursor, the batch being applied and the block add_pools fetches at
\* (process_pending_events works on clones).
PendingStaysSpeculative ==
    mode = "pending" =>
        \A p \in Registered : \A l \in ToSet(state[p]) :
            Block(l) <= Max({cursor, batch.through, fetch_block})

\* A clone of the pending batch holds no log twice and none out of order, however
\* far the chain moved between the confirmed batch and the pending one.
ClonesInChainOrder ==
    \A p \in Pools : modified[p] # Absent =>
        \A i, j \in DOMAIN modified[p] : i < j => modified[p][i] < modified[p][j]

\* When the simulator finds a confirmed swap event in its channel, every
\* registered pool already has all that the sources brought through the block of
\* that event: no route is priced while a pool of the batch waits for its logs
\* (process_confirmed_events applies all logs before it sends the first event).
SimulatorSeesBatch ==
    \A i \in DOMAIN swaps : swaps[i][2] = "confirmed" =>
        \A p \in Registered : Replay!Reaches(state[p], p, Block(swaps[i][1]))

\* A log that the order of swap events depends on: over RPC every one, from the
\* websocket feeds those that did not come late, out of order or again.
Orderly(l) == mode # "websocket" \/ l \notin astray

\* Swap events of one pool reach the simulator in chain order and once, across
\* batches and restarts (events are grouped by pool, in order within each).
SwapsInPoolOrder ==
    LET rest == IF batch.mode = "Pending" THEN <<>> ELSE outbox
        all == swaps \o [i \in DOMAIN rest |-> <<rest[i], "confirmed">>]
    IN \A i, j \in DOMAIN all :
           /\ i < j /\ all[i][2] = "confirmed" /\ all[j][2] = "confirmed"
           /\ PoolOf(all[i][1]) = PoolOf(all[j][1])
           /\ Orderly(all[i][1]) /\ Orderly(all[j][1])
           => all[i][1] < all[j][1]

\* Every stop and add_pools call returns, even while the updater waits on a full
\* swap event channel (stop_updater awaits the task).
CallsReturn == (hpc \notin {"idle", "dropped"}) ~> (hpc = "idle")

\* Unless it is stopped for good, the polling collector reaches the newest block.
\* (A websocket may stay silent: what it brings is WebsocketBlockSource's.)
CatchesUp == mode # "websocket" => <>(cursor = MaxBlock) \/ <>[](upc = "stopped")
=============================================================================
