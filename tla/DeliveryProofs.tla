--------------------------- MODULE DeliveryProofs ---------------------------
(***************************************************************************)
(* What the websocket collector delivers to the pools, for any chain, any    *)
(* number of feeds and any interleaving: each accepted key brings at most    *)
(* one application, and the cursor covers what was applied. With one feed,   *)
(* whose gaps are filled, and an RPC node that bootstrap waits for, it loses *)
(* no log for good: not to a reconnect, an overflow, a duplicate, a reorg of *)
(* another log or the handover from the RPC catch-up to the queue, whatever  *)
(* the window and buffer sizes.                                             *)
(***************************************************************************)
EXTENDS SourceProofs

----------------------------------------------------------------------------
(* What is in hand where. *)

\* The queue has not been drained yet.
Undrained == {"latest", "drain0", "failed"}

\* What the program counter says of the work in hand: drained logs and refetched
\* ones are bootstrap's, gaps are in hand only while they are filled, fetched
\* and claimed logs only while they are claimed.
StageOK ==
    /\ pc \in Undrained \cup LoopPcs => events = <<>>
    /\ pc \in LoopPcs => \A l \in Logs : refetched[l] = 0
    /\ pc \notin {"fill0", "claim0", "fill", "claim"} => todo = <<>>
    /\ pc \notin {"claim0", "claim"} => fetched = {} /\ missed = {}
    /\ fetched \cap missed = {}
    /\ pc \in BootPcs => cursor = StartBlock
    /\ pc = "drain0" => latest >= StartBlock
    /\ pc \in Undrained => floor = NoPosition
    /\ pc # "failed" => receiver

StagedInv == SourceInv /\ StageOK

LEMMA StagedInit == Init => StagedInv
<1>. SUFFICES ASSUME Init PROVE StageOK
  BY InitInv DEF StagedInv
<1>. QED
  BY DEF Init, FeedInit, QueueInit, StageOK, Undrained, LoopPcs, BootPcs

LEMMA StagedNext == StagedInv /\ [Next]_vars => StagedInv'
<1>. SUFFICES ASSUME StagedInv, [Next]_vars PROVE StageOK'
  BY NextInv DEF StagedInv
<1>. USE DEF StageOK, Undrained, LoopPcs, BootPcs
<1>1. CASE Outside \/ UNCHANGED vars
  <2>1. UNCHANGED sourceVars /\ UNCHANGED receiver
    BY <1>1 DEF Outside, vars, Mine, Reorg, Subscribe, Disconnect, Lagged, Receive,
                ReceiveRetraction, RecordItem, SkipDuplicate, SendItem, queueVars
  <2>2. UNCHANGED <<pc, floor, latest, events, refetched, todo, fetched, missed, cursor, receiver>>
    BY <2>1 DEF sourceVars, bootVars, fillVars, poolVars
  <2>. QED
    BY <2>2 DEF StagedInv
<1>2. CASE RpcAdvance \/ BootLatest \/ BootLatestFails \/ BootNothingToCatchUp \/ NotSettled
  <2>1. UNCHANGED <<floor, events, refetched, todo, fetched, missed, cursor>>
    BY <1>2 DEF RpcAdvance, BootLatest, BootLatestFails, BootNothingToCatchUp, NotSettled,
                bootVars, fillVars, poolVars
  <2>2. \/ UNCHANGED <<pc, latest, receiver>>
        \/ pc = "latest" /\ pc' = "drain0" /\ latest' = rpcHead /\ UNCHANGED receiver
        \/ pc = "latest" /\ pc' = "failed" /\ UNCHANGED latest
        \/ pc = "catchup" /\ pc' = "gaps0" /\ UNCHANGED <<latest, receiver>>
        \/ pc = "ready" /\ pc' = "drain" /\ UNCHANGED <<latest, receiver>>
    BY <1>2 DEF RpcAdvance, BootLatest, BootLatestFails, BootNothingToCatchUp, NotSettled,
                bootVars, queueVars
  <2>3. rpcHead >= StartBlock
    BY FeedAssumption DEF StagedInv, SourceInv, TypeOK, FeedTypeOK
  <2>. QED
    BY <2>1, <2>2, <2>3 DEF StagedInv
<1>3. CASE BootDrain \/ BootCatchUp
  <2>1. UNCHANGED <<refetched, todo, fetched, missed, cursor, receiver>>
    BY <1>3 DEF BootDrain, BootCatchUp, Drain, fillVars, poolVars, queueVars
  <2>2. pc \in {"drain0", "catchup"} /\ pc' \in {"catchup", "gaps0"}
    BY <1>3 DEF BootDrain, BootCatchUp
  <2>. QED
    BY <2>1, <2>2 DEF StagedInv
<1>4. CASE BootTakeGaps \/ LoopTakeGaps
  <2>1. UNCHANGED <<floor, events, latest, refetched, fetched, missed, cursor, receiver>>
    BY <1>4 DEF BootTakeGaps, LoopTakeGaps, TakeGaps, bootVars, poolVars
  <2>2. \/ pc = "gaps0" /\ (pc' = "fill0" \/ (pc' = "apply0" /\ todo' = <<>>))
        \/ pc = "gaps" /\ (pc' = "fill" \/ (pc' = "ready" /\ todo' = <<>>))
    BY <1>4 DEF BootTakeGaps, LoopTakeGaps
  <2>. QED
    BY <2>1, <2>2 DEF StagedInv
<1>5. CASE BootFillGap \/ LoopFillGap
  <2>1. UNCHANGED <<floor, events, latest, refetched, todo, missed, cursor, receiver>>
    BY <1>5 DEF BootFillGap, LoopFillGap, bootVars, poolVars, queueVars
  <2>2. (pc = "fill0" /\ pc' = "claim0") \/ (pc = "fill" /\ pc' = "claim")
    BY <1>5 DEF BootFillGap, LoopFillGap
  <2>. QED
    BY <2>1, <2>2 DEF StagedInv
<1>6. CASE BootLeaveGap
  <2>1. UNCHANGED <<floor, events, latest, refetched, fetched, missed, cursor, receiver>>
    BY <1>6 DEF BootLeaveGap, LeaveGap, NoteAgain, bootVars, poolVars
  <2>2. pc = "fill0" /\ (pc' = "fill0" \/ (pc' = "apply0" /\ todo' = <<>>))
    BY <1>6 DEF BootLeaveGap
  <2>. QED
    BY <2>1, <2>2 DEF StagedInv
<1>7. CASE ClaimNext
  <2>1. UNCHANGED <<pc, floor, events, latest, refetched, todo, cursor, receiver>>
    BY <1>7 DEF ClaimNext, Claim, bootVars, poolVars, queueVars
  <2>2. fetched' = fetched \ {Min(fetched)} /\ missed' \subseteq missed \cup {Min(fetched)}
    BY <1>7 DEF ClaimNext
  <2>3. pc \in {"claim0", "claim"}
    BY <1>7 DEF ClaimNext
  <2>. QED
    BY <2>1, <2>2, <2>3 DEF StagedInv
<1>8. CASE BootGapFilled \/ LoopGapFilled
  <2>1. UNCHANGED <<floor, events, latest, fetched, cursor, receiver>>
    BY <1>8 DEF BootGapFilled, LoopGapFilled, bootVars, poolVars, queueVars
  <2>2. fetched = {} /\ missed' = {}
    BY <1>8 DEF BootGapFilled, LoopGapFilled
  <2>3. \/ pc = "claim0" /\ (pc' = "fill0" \/ (pc' = "apply0" /\ todo' = <<>>))
        \/ /\ pc = "claim" /\ (pc' = "fill" \/ (pc' = "ready" /\ todo' = <<>>))
           /\ UNCHANGED refetched
    BY <1>8 DEF BootGapFilled, LoopGapFilled, bootVars
  <2>. QED
    BY <2>1, <2>2, <2>3 DEF StagedInv
<1>9. CASE BootApply
  <2>1. UNCHANGED <<floor, latest, todo, fetched, missed, receiver>>
    BY <1>9 DEF BootApply, fillVars, queueVars
  <2>2. pc = "apply0" /\ pc' = "drain" /\ events' = <<>> /\ refetched' = [l \in Logs |-> 0]
    BY <1>9 DEF BootApply
  <2>. QED
    BY <2>1, <2>2 DEF StagedInv
<1>10. CASE LoopDrain \/ HandOn
  <2>1. UNCHANGED <<floor, events, latest, refetched, todo, fetched, missed, receiver>>
    BY <1>10 DEF LoopDrain, HandOn, Drain, bootVars, fillVars, queueVars
  <2>2. pc \in {"drain", "ready"} /\ pc' \in {"gaps", "drain"}
    BY <1>10 DEF LoopDrain, HandOn
  <2>. QED
    BY <2>1, <2>2 DEF StagedInv
<1>. QED
  BY <1>1, <1>2, <1>3, <1>4, <1>5, <1>6, <1>7, <1>8, <1>9, <1>10
     DEF Next, Source, Bootstrap, UpdaterLoop

----------------------------------------------------------------------------
(* The cursor. *)

\* The feeds push no log from before the block the pools were fetched at: their
\* nodes are at most one block behind it, or it has no log before it.
FeedsNearHead == NodeLag <= 1 \/ \A l \in Logs : Block(l) >= StartBlock

\* Whatever a feed has in hand, or will deliver, is of the block the pools were
\* fetched at or of a later one.
FeedFromStart ==
    /\ \A i \in DOMAIN channel : Block(channel[i].log) >= StartBlock
    /\ \A f \in Feeds : stage[f] # "recv" => Block(item[f].log) >= StartBlock
    /\ \A f \in Feeds : \A l \in owed[f] : Block(l) >= StartBlock
    /\ \A f \in Feeds : up[f] => \A l \in Logs : l >= next[f] => Block(l) >= StartBlock

\* A new subscription starts no earlier.
LEMMA SubscribeFromStart ==
    ASSUME FeedsNearHead, FeedTypeOK, NEW p \in SubscriptionStarts
    PROVE  \A l \in Logs : l >= p => Block(l) >= StartBlock
<1>. USE FeedAssumption DEF FeedTypeOK
<1>1. CASE p = BlockStart(head + 1)
  <2>1. head + 1 \in 0..(MaxBlock + 1)
    OBVIOUS
  <2>2. \A l \in Logs : p <= l <=> head + 1 <= Block(l)
    BY <1>1, <2>1, BlockStartAssumption
  <2>3. \A l \in Logs : l \in Nat /\ Block(l) \in Nat
    BY LogsAssumption, BlockAssumption
  <2>4. p \in Nat
    BY <1>1, <2>1, BlockStartAssumption
  <2>. QED
    BY <2>2, <2>3, <2>4
<1>2. CASE p \in Logs /\ Block(p) + NodeLag > head
  <2>1. \A l \in Logs : l \in Nat /\ Block(l) \in Nat
    BY LogsAssumption, BlockAssumption
  <2>2. Block(p) >= StartBlock
    BY <1>2, <2>1 DEF FeedsNearHead
  <2>3. \A l \in Logs : l >= p => Block(l) >= Block(p)
    BY <1>2, <2>1, BlockAssumption
  <2>. QED
    BY <1>2, <2>1, <2>2, <2>3
<1>. QED
  BY <1>1, <1>2 DEF SubscriptionStarts

LEMMA FeedFromStartNext ==
    ASSUME FeedsNearHead, FeedTypeOK, FeedFromStart, [FeedNext]_feedSpecVars
    PROVE  FeedFromStart'
<1>. USE DEF FeedFromStart
<1>0. channel \in Seq(Item)
  BY DEF FeedTypeOK, QueueTypeOK
<1>1. CASE Mine
  BY <1>1 DEF Mine, queueVars
<1>2. ASSUME NEW l \in Logs, Reorg(l) PROVE FeedFromStart'
  <2>1. UNCHANGED <<channel, stage, item, up, next>>
    BY <1>2 DEF Reorg, queueVars
  <2>2. Block(l) >= StartBlock
    BY <1>2, FeedAssumption DEF Reorg, FeedTypeOK
  <2>3. \A f \in Feeds : owed'[f] \subseteq owed[f] \cup {l}
    BY <1>2 DEF Reorg
  <2>. QED
    BY <2>1, <2>2, <2>3
<1>3. ASSUME NEW f \in Feeds, FeedStep(f) PROVE FeedFromStart'
  <2>1. CASE Subscribe(f)
    <3>1. PICK p \in SubscriptionStarts : next' = [next EXCEPT ![f] = p]
      BY <2>1 DEF Subscribe
    <3>2. \A l \in Logs : l >= p => Block(l) >= StartBlock
      BY SubscribeFromStart
    <3>3. UNCHANGED <<channel, stage, item, owed>>
      BY <2>1 DEF Subscribe, queueVars
    <3>4. \A g \in Feeds : g # f => up'[g] = up[g] /\ next'[g] = next[g]
      BY <2>1, <3>1 DEF Subscribe, FeedTypeOK
    <3>5. next'[f] = p
      BY <3>1 DEF FeedTypeOK
    <3>. QED
      BY <3>2, <3>3, <3>4, <3>5
  <2>2. CASE Disconnect(f)
    <3>1. UNCHANGED <<channel, stage, item>>
      BY <2>2 DEF Disconnect, queueVars
    <3>2. /\ ~up'[f]
          /\ \A g \in Feeds : g # f => up'[g] = up[g] /\ next'[g] = next[g]
          /\ \A g \in Feeds : owed'[g] \subseteq owed[g]
      BY <2>2 DEF Disconnect, FeedTypeOK
    <3>. QED
      BY <3>1, <3>2
  <2>3. CASE Lagged(f)
    <3>1. PICK l \in Upcoming(f) : next' = [next EXCEPT ![f] = l]
      BY <2>3 DEF Lagged
    <3>2. l >= next[f] /\ l \in Nat /\ next[f] \in Nat /\ next'[f] = l /\ up[f]
      BY <2>3, <3>1, LogsAssumption DEF Upcoming, Lagged, FeedTypeOK
    <3>3. \A m \in Logs : m \in Nat
      BY LogsAssumption
    <3>4. UNCHANGED <<channel, stage, item, owed, up>>
      BY <2>3 DEF Lagged, queueVars
    <3>5. \A g \in Feeds : g # f => next'[g] = next[g]
      BY <3>1 DEF FeedTypeOK
    <3>6. \A m \in Logs : m >= next'[f] => m >= next[f]
      BY <3>2, <3>3
    <3>. QED
      BY <3>2, <3>4, <3>5, <3>6
  <2>4. CASE Receive(f)
    <3>1. PICK l \in Upcoming(f) :
            /\ next' = [next EXCEPT ![f] = l + 1]
            /\ item' = [item EXCEPT ![f] = [log |-> l, removed |-> FALSE]]
      BY <2>4 DEF Receive
    <3>2. l \in Logs /\ l >= next[f] /\ l \in Nat /\ next[f] \in Nat /\ next'[f] = l + 1 /\ up[f]
      BY <2>4, <3>1, LogsAssumption DEF Upcoming, Receive, FeedTypeOK
    <3>3. \A m \in Logs : m \in Nat
      BY LogsAssumption
    <3>4. UNCHANGED <<channel, owed, up>> /\ stage' = [stage EXCEPT ![f] = "record"]
      BY <2>4 DEF Receive
    <3>5. \A g \in Feeds : g # f => /\ next'[g] = next[g] /\ item'[g] = item[g]
                                    /\ stage'[g] = stage[g]
      BY <3>1, <3>4 DEF FeedTypeOK
    <3>6. \A m \in Logs : m >= next'[f] => m >= next[f]
      BY <3>2, <3>3
    <3>7. item'[f].log = l
      BY <3>1 DEF FeedTypeOK
    <3>. QED
      BY <3>2, <3>4, <3>5, <3>6, <3>7
  <2>5. CASE ReceiveRetraction(f)
    <3>1. PICK l \in owed[f] :
            /\ owed' = [owed EXCEPT ![f] = @ \ {l}]
            /\ item' = [item EXCEPT ![f] = [log |-> l, removed |-> TRUE]]
      BY <2>5 DEF ReceiveRetraction
    <3>2. UNCHANGED <<channel, next, up>> /\ stage' = [stage EXCEPT ![f] = "record"]
      BY <2>5 DEF ReceiveRetraction, queueVars
    <3>3. item'[f].log = l /\ Block(l) >= StartBlock
      BY <3>1 DEF FeedTypeOK
    <3>4. \A g \in Feeds : /\ owed'[g] \subseteq owed[g]
                           /\ g # f => item'[g] = item[g] /\ stage'[g] = stage[g]
      BY <3>1, <3>2 DEF FeedTypeOK
    <3>. QED
      BY <3>2, <3>3, <3>4
  <2>6. CASE RecordItem(f)
    BY <2>6 DEF RecordItem, FeedTypeOK
  <2>7. CASE SkipDuplicate(f)
    BY <2>7 DEF SkipDuplicate, FeedTypeOK, queueVars
  <2>8. CASE SendItem(f)
    <3>1. UNCHANGED <<owed, next, up>>
      BY <2>8 DEF SendItem
    <3>2. \A g \in Feeds : stage'[g] # "recv" => stage[g] # "recv" /\ item'[g] = item[g]
      BY <2>8 DEF SendItem, FeedTypeOK
    <3>3. item[f] \in Item /\ Block(item[f].log) >= StartBlock
      BY <2>8 DEF SendItem, FeedTypeOK
    <3>4. channel' = channel \/ channel' = Append(channel, item[f])
      BY <2>8 DEF SendItem, ChannelSend
    <3>5. \A i \in DOMAIN channel' : Block(channel'[i].log) >= StartBlock
      <4>1. CASE channel' = channel
        BY <4>1
      <4>2. CASE channel' = Append(channel, item[f])
        BY <1>0, <3>3, <4>2
      <4>. QED
        BY <3>4, <4>1, <4>2
    <3>. QED
      BY <3>1, <3>2, <3>5
  <2>. QED
    BY <1>3, <2>1, <2>2, <2>3, <2>4, <2>5, <2>6, <2>7, <2>8 DEF FeedStep
<1>4. CASE Consumer
  <2>1. UNCHANGED <<stage, item, owed, up, next>>
    BY <1>4 DEF Consumer, Drain, TakeGaps, DropReceiver, Claim, NoteAgain, feedVars
  <2>2. channel' = channel \/ channel' = <<>>
    BY <1>4 DEF Consumer, Drain, DrainChannel, TakeGaps, DropReceiver, Claim, NoteAgain
  <2>. QED
    BY <2>1, <2>2
<1>5. CASE UNCHANGED feedSpecVars
  BY <1>5 DEF feedSpecVars, feedVars, queueVars
<1>. QED
  BY <1>1, <1>2, <1>3, <1>4, <1>5 DEF FeedNext, Environment
\* The drained logs and the pools while bootstrap runs: the pools are not past the
\* block where the queue takes over, which is not before the block they were
\* fetched at, and only a bootstrap that drained something refetches.
CursorInv ==
    /\ FeedFromStart
    /\ \A l \in EventLogs(events) : Block(l) >= StartBlock
    /\ events # <<>> => floor \in EventLogs(events)
    /\ events = <<>> => pc # "claim0" /\ \A l \in Logs : refetched[l] = 0
    /\ pc \in Undrained => \A l \in Logs : applied[l] > 0 => Block(l) <= StartBlock
    /\ pc \in BootPcs \ Undrained =>
           /\ StartBlock <= Block(floor)
           /\ \A l \in Logs : applied[l] > 0 => Block(l) <= Block(floor)
    /\ pc \in LoopPcs => cursor = released_through
    /\ CursorCoversApplied

\* Whatever precedes the floor is of its block or of an earlier one.
LEMMA BeforeFloor ==
    ASSUME NEW p \in Floors, NEW l \in Logs, l < p
    PROVE  Block(l) <= Block(p)
<1>1. l \in Nat /\ Block(l) \in Nat
  BY LogsAssumption, BlockAssumption
<1>2. CASE p \in Logs
  BY <1>1, <1>2, LogsAssumption, BlockAssumption
<1>3. ASSUME NEW b \in 0..MaxBlock, p = BlockStart(b) PROVE Block(l) <= Block(p)
  <2>1. b \in 0..(MaxBlock + 1) /\ b \in Nat
    BY FeedAssumption
  <2>2. p \in Nat /\ Block(p) = b /\ (p <= l <=> b <= Block(l))
    BY <1>3, <2>1, BlockStartAssumption
  <2>. QED
    BY <1>1, <2>1, <2>2
<1>. QED
  BY <1>2, <1>3 DEF Floors

\* The logs of a sequence of items are logs.
LEMMA EventLogsType ==
    ASSUME NEW evs \in Seq(Item)
    PROVE  /\ EventLogs(evs) \in SUBSET Logs
           /\ evs # <<>> => EventLogs(evs) # {}
           /\ evs = <<>> => EventLogs(evs) = {}
<1>1. \A i \in DOMAIN evs : evs[i] \in Item
  OBVIOUS
<1>2. \A it \in Item : it.log \in Logs
  BY DEF Item
<1>3. evs # <<>> => 1 \in DOMAIN evs
  OBVIOUS
<1>. QED
  BY <1>1, <1>2, <1>3 DEF EventLogs

\* The catch-up applies nothing from after the floor.
LEMMA CatchUpApplies ==
    ASSUME SourceInv, BootCatchUp
    PROVE  /\ \A l \in Logs : applied'[l] > 0 => applied[l] > 0 \/ Block(l) <= Block(floor)
           /\ pc = "catchup" /\ pc' \in {"catchup", "gaps0"}
<1>1. floor \in Floors
  BY DEF SourceInv, ControlOK, BootCatchUp
<1>2. \E before \in SUBSET Logs :
         /\ \A l \in before : l < floor
         /\ applied' = [l \in Logs |-> applied[l] + IF l \in before THEN 1 ELSE 0]
         /\ pc' \in {"catchup", "gaps0"}
  <2>. DEFINE end == Min({batch_start + Max({MaxBlocksPerBatch, 1}) - 1, Block(floor)})
  <2>1. PICK answer \in RpcAnswers(batch_start, end) :
          LET before == {l \in answer : l < floor}
          IN  /\ Apply(before, [l \in Logs |-> 1])
              /\ IF before # answer \/ end = Block(floor)
                 THEN pc' = "gaps0" /\ batch_start' = 0
                 ELSE pc' = pc /\ batch_start' = FollowingBatch(end)
    BY DEF BootCatchUp
  <2>2. {l \in answer : l < floor} \in SUBSET Logs
    BY DEF RpcAnswers, LogsIn
  <2>3. applied' = [l \in Logs |-> applied[l] + IF l \in {m \in answer : m < floor} THEN 1 ELSE 0]
    BY <2>1 DEF Apply
  <2>4. pc' \in {"catchup", "gaps0"}
    BY <2>1 DEF BootCatchUp
  <2>. QED
    BY <2>2, <2>3, <2>4
<1>3. \A l \in Logs : applied'[l] > 0 => applied[l] > 0 \/ l < floor
  BY <1>2 DEF SourceInv, TypeOK
<1>. QED
  BY <1>1, <1>2, <1>3, BeforeFloor DEF BootCatchUp

\* The queue takes over at a block that is not before the one of the pools.
LEMMA DrainedFloor ==
    ASSUME StagedInv, FeedFromStart, BootDrain
    PROVE  /\ events' = channel
           /\ channel # <<>> => floor' \in EventLogs(channel)
           /\ \A l \in EventLogs(channel) : Block(l) >= StartBlock
           /\ StartBlock <= Block(floor')
<1>1. channel \in Seq(Item)
  BY DEF StagedInv, SourceInv, TypeOK, FeedTypeOK, QueueTypeOK
<1>2. \A l \in EventLogs(channel) : Block(l) >= StartBlock
  BY DEF FeedFromStart, EventLogs
<1>3. CASE channel = <<>>
  <2>1. latest \in 0..(MaxBlock + 1) /\ latest >= StartBlock
    BY FeedAssumption DEF StagedInv, SourceInv, TypeOK, ControlOK, StageOK, BootDrain
  <2>2. Block(floor') = latest
    BY <1>3, <2>1, BlockStartAssumption DEF BootDrain
  <2>. QED
    BY <1>2, <1>3, <2>1, <2>2 DEF BootDrain
<1>4. CASE channel # <<>>
  <2>1. EventLogs(channel) \subseteq Nat /\ EventLogs(channel) # {}
    BY <1>1, <1>4, EventLogsType, LogsAssumption
  <2>2. floor' \in EventLogs(channel)
    BY <1>4, <2>1, MinMember DEF BootDrain
  <2>. QED
    BY <1>2, <1>4, <2>2, FeedAssumption DEF BootDrain
<1>. QED
  BY <1>3, <1>4

\* The cursor bootstrap sets covers what it applied.
LEMMA BootCursorCovers ==
    ASSUME StagedInv, CursorInv, BootApply
    PROVE  \A l \in Logs : applied'[l] > 0 => Block(l) <= cursor'
<1>1. pc = "apply0" /\ floor \in Floors /\ floor \in Nat /\ Block(floor) \in Nat
  BY FloorType DEF BootApply, StagedInv, SourceInv, ControlOK
<1>2. /\ events \in Seq(Item) /\ refetched \in [Logs -> Nat] /\ applied \in [Logs -> Nat]
      /\ \A l \in Logs : l \in Nat /\ Block(l) \in Nat
  BY LogsAssumption, BlockAssumption DEF StagedInv, SourceInv, TypeOK
<1>3. \A l \in Logs : applied[l] > 0 => Block(l) <= Block(floor)
  BY <1>1 DEF CursorInv, BootPcs, Undrained
<1>4. BootLogs \in SUBSET Logs
  BY <1>2, EventLogsType DEF BootLogs
<1>5. \A l \in Logs : l \notin EventLogs(events) => Count(events, l) = 0
  <2>1. \A l \in Logs : l \notin EventLogs(events) => {i \in DOMAIN events : events[i].log = l} = {}
    BY DEF EventLogs
  <2>. QED
    BY <2>1, FS_EmptySet DEF Count
<1>6. \A l \in Logs : applied'[l] > 0 => applied[l] > 0 \/ l \in BootLogs
  <2>1. \A l \in Logs : l \notin BootLogs => Count(events, l) = 0 /\ refetched[l] = 0
    BY <1>2, <1>5 DEF BootLogs
  <2>2. applied' = [l \in Logs |-> applied[l] + Count(events, l) + refetched[l]]
    BY DEF BootApply
  <2>. QED
    BY <1>2, <2>1, <2>2
<1>7. cursor' = IF BootLogs = {} THEN Block(floor) ELSE Block(Max(BootLogs))
  BY DEF BootApply, BootCursor
<1>8. CASE BootLogs = {}
  BY <1>3, <1>6, <1>7, <1>8
<1>9. CASE BootLogs # {}
  <2>1. IsFiniteSet(BootLogs) /\ BootLogs \subseteq Nat
    BY <1>2, <1>4, FS_Subset, SourceAssumption
  <2>2. Max(BootLogs) \in BootLogs /\ \A y \in BootLogs : Max(BootLogs) >= y
    BY <1>9, <2>1, MaxMember
  <2>3. Max(BootLogs) \in Logs /\ Max(BootLogs) \in Nat
    BY <1>2, <1>4, <2>2
  <2>4. \A y \in BootLogs : Block(y) <= Block(Max(BootLogs))
    BY <1>2, <1>4, <2>2, <2>3, BlockAssumption
  <2>5. floor \in BootLogs
    <3>1. events # <<>>
      BY <1>2, <1>9, EventLogsType DEF CursorInv, BootLogs
    <3>. QED
      BY <3>1 DEF CursorInv, BootLogs
  <2>6. Block(floor) <= Block(Max(BootLogs))
    BY <2>4, <2>5
  <2>. QED
    BY <1>1, <1>2, <1>3, <1>6, <1>7, <1>9, <2>3, <2>4, <2>6
<1>. QED
  BY <1>8, <1>9

\* So does the cursor a handed-on batch leaves.
LEMMA HandOnCovers ==
    ASSUME StagedInv, CursorInv, HandOn
    PROVE  \A l \in Logs : applied'[l] > 0 => Block(l) <= cursor'
<1>1. /\ pc = "ready" /\ PendingBlocks # {} /\ cursor' = Max({released_through, ReadyBlock})
      /\ applied' = [l \in Logs |-> applied[l] + IF l \in ReadyLogs THEN pending[l] ELSE 0]
  BY DEF HandOn, BlockComplete, TakeReady, Apply
<1>2. ReadyBlock \in Nat
  <2>1. PendingBlocks \subseteq Nat
    BY BlockAssumption DEF PendingBlocks
  <2>. QED
    BY <1>1, <2>1, MinMember DEF ReadyBlock
<1>3. /\ released_through \in Nat /\ pending \in [Logs -> Nat] /\ applied \in [Logs -> Nat]
      /\ cursor = released_through /\ \A l \in Logs : applied[l] > 0 => Block(l) <= cursor
      /\ \A l \in Logs : Block(l) \in Nat
  BY <1>1, BlockAssumption DEF StagedInv, SourceInv, TypeOK, CursorInv, CursorCoversApplied, LoopPcs
<1>4. cursor' \in Nat /\ cursor' >= released_through /\ cursor' >= ReadyBlock
  BY <1>1, <1>2, <1>3, MaxOfTwo
<1>5. \A l \in Logs : applied'[l] > 0 => applied[l] > 0 \/ l \in ReadyLogs
  BY <1>1, <1>3
<1>6. \A l \in ReadyLogs : Block(l) = ReadyBlock
  BY DEF ReadyLogs
<1>. QED
  BY <1>2, <1>3, <1>4, <1>5, <1>6

LEMMA CursorNext ==
    ASSUME FeedsNearHead, StagedInv, CursorInv, [Next]_vars
    PROVE  CursorInv'
<1>. USE DEF BootPcs, LoopPcs, Undrained
<1>0. FeedFromStart'
  BY FeedFromStartNext, NextIsFeedNext DEF StagedInv, SourceInv, TypeOK, CursorInv
<1>. DEFINE kept == <<events, floor, refetched, applied, cursor, released_through>>
<1>1. ASSUME UNCHANGED kept,
             \/ pc' = pc
             \/ pc' \in Undrained /\ pc \in Undrained
             \/ pc' \in BootPcs \ (Undrained \cup {"claim0"}) /\ pc \in BootPcs \ Undrained
             \/ pc' \in LoopPcs /\ pc \in LoopPcs
      PROVE  CursorInv'
  <2>1. CASE pc' = pc
    BY <1>0, <1>1, <2>1 DEF CursorInv, CursorCoversApplied
  <2>2. CASE pc' \in Undrained /\ pc \in Undrained
    BY <1>0, <1>1, <2>2 DEF CursorInv, CursorCoversApplied
  <2>3. CASE pc' \in BootPcs \ (Undrained \cup {"claim0"}) /\ pc \in BootPcs \ Undrained
    BY <1>0, <1>1, <2>3 DEF CursorInv, CursorCoversApplied
  <2>4. CASE pc' \in LoopPcs /\ pc \in LoopPcs
    BY <1>0, <1>1, <2>4 DEF CursorInv, CursorCoversApplied
  <2>. QED
    BY <1>1, <2>1, <2>2, <2>3, <2>4
<1>2. CASE Outside \/ UNCHANGED vars
  <2>1. UNCHANGED sourceVars
    BY <1>2 DEF Outside, vars
  <2>. QED
    BY <1>1, <2>1 DEF sourceVars, bootVars, settlerVars, poolVars
<1>3. CASE RpcAdvance \/ BootLatest \/ BootLatestFails \/ BootNothingToCatchUp \/ NotSettled
  <2>1. UNCHANGED kept
    BY <1>3 DEF RpcAdvance, BootLatest, BootLatestFails, BootNothingToCatchUp, NotSettled,
                bootVars, settlerVars, poolVars
  <2>2. \/ pc' = pc
        \/ pc = "latest" /\ pc' \in {"drain0", "failed"}
        \/ pc = "catchup" /\ pc' = "gaps0"
        \/ pc = "ready" /\ pc' = "drain"
    BY <1>3 DEF RpcAdvance, BootLatest, BootLatestFails, BootNothingToCatchUp, NotSettled
  <2>. QED
    BY <1>1, <2>1, <2>2
<1>4. CASE BootTakeGaps \/ LoopTakeGaps \/ LoopFillGap \/ BootLeaveGap \/ ClaimNext
           \/ LoopGapFilled \/ LoopDrain
  <2>1. UNCHANGED kept
    BY <1>4 DEF BootTakeGaps, LoopTakeGaps, LoopFillGap, BootLeaveGap, ClaimNext,
                LoopGapFilled, LoopDrain, bootVars, settlerVars, poolVars
  <2>2. \/ pc' = pc
        \/ pc \in {"gaps0", "fill0"} /\ pc' \in {"fill0", "apply0"}
        \/ pc \in LoopPcs /\ pc' \in LoopPcs
    BY <1>4 DEF BootTakeGaps, LoopTakeGaps, LoopFillGap, BootLeaveGap, ClaimNext,
                LoopGapFilled, LoopDrain
  <2>. QED
    BY <1>1, <2>1, <2>2
<1>5. CASE BootDrain
  <2>1. UNCHANGED <<refetched, applied, cursor, released_through>>
    BY <1>5 DEF BootDrain, settlerVars, poolVars
  <2>2. pc = "drain0" /\ pc' = "catchup" /\ events' = channel
    BY <1>5 DEF BootDrain
  <2>3. \A l \in Logs : applied[l] > 0 => Block(l) <= StartBlock
    BY <2>2 DEF CursorInv
  <2>4. Block(floor') \in Nat
    <3>1. floor' \in Floors
      BY <1>5, <2>2, NextInv DEF StagedInv, SourceInv, ControlOK
    <3>. QED
      BY <3>1, FloorType
  <2>5. \A l \in Logs : applied[l] > 0 => Block(l) <= Block(floor')
    BY <1>5, <2>3, <2>4, DrainedFloor, BlockAssumption, FeedAssumption DEF CursorInv
  <2>6. \A l \in Logs : refetched'[l] = 0
    <3>1. events = <<>>
      BY <2>2 DEF StagedInv, StageOK
    <3>. QED
      BY <2>1, <3>1 DEF CursorInv
  <2>7. FeedFromStart
    BY DEF CursorInv
  <2>. QED
    BY <1>0, <1>5, <2>1, <2>2, <2>5, <2>6, <2>7, DrainedFloor DEF CursorInv, CursorCoversApplied
<1>6. CASE BootCatchUp
  <2>1. UNCHANGED <<events, floor, refetched>>
    BY <1>6 DEF BootCatchUp
  <2>2. /\ \A l \in Logs : applied'[l] > 0 => applied[l] > 0 \/ Block(l) <= Block(floor)
        /\ pc = "catchup" /\ pc' \in {"catchup", "gaps0"}
    BY <1>6, CatchUpApplies DEF StagedInv
  <2>. QED
    BY <1>0, <2>1, <2>2 DEF CursorInv, CursorCoversApplied
<1>7. CASE BootFillGap
  <2>1. UNCHANGED kept
    BY <1>7 DEF BootFillGap, settlerVars, poolVars
  <2>2. pc = "fill0" /\ pc' = "claim0" /\ EventLogs(events) # {}
    BY <1>7 DEF BootFillGap
  <2>3. events # <<>>
    BY <2>2, EventLogsType DEF StagedInv, SourceInv, TypeOK
  <2>. QED
    BY <1>0, <2>1, <2>2, <2>3 DEF CursorInv, CursorCoversApplied
<1>8. CASE BootGapFilled
  <2>1. UNCHANGED <<events, floor, applied, cursor, released_through>>
    BY <1>8 DEF BootGapFilled, settlerVars, poolVars
  <2>2. pc = "claim0" /\ pc' \in {"fill0", "apply0"} /\ events # <<>>
    BY <1>8 DEF BootGapFilled, CursorInv
  <2>. QED
    BY <1>0, <2>1, <2>2 DEF CursorInv, CursorCoversApplied
<1>9. CASE BootApply
  <2>1. /\ pc = "apply0" /\ pc' = "drain" /\ events' = <<>> /\ refetched' = [l \in Logs |-> 0]
        /\ cursor' = released_through'
    BY <1>9 DEF BootApply
  <2>2. EventLogs(events') = {}
    BY <2>1 DEF EventLogs
  <2>3. CursorCoversApplied'
    BY <1>9, BootCursorCovers DEF CursorCoversApplied
  <2>. QED
    BY <1>0, <2>1, <2>2, <2>3 DEF CursorInv
<1>10. CASE HandOn
  <2>1. UNCHANGED <<events, floor, refetched>>
    BY <1>10 DEF HandOn, bootVars
  <2>2. pc = "ready" /\ pc' = "drain" /\ cursor' = released_through'
    BY <1>10 DEF HandOn
  <2>3. CursorCoversApplied'
    BY <1>10, HandOnCovers DEF CursorCoversApplied
  <2>. QED
    BY <1>0, <2>1, <2>2, <2>3 DEF CursorInv
<1>. QED
  BY <1>2, <1>3, <1>4, <1>5, <1>6, <1>7, <1>8, <1>9, <1>10
     DEF Next, Source, Bootstrap, UpdaterLoop

LEMMA CursorInit == Init => CursorInv
<1>. SUFFICES ASSUME Init PROVE CursorInv
  OBVIOUS
<1>1. FeedFromStart
  BY DEF Init, FeedInit, QueueInit, FeedFromStart
<1>2. /\ pc = "latest" /\ events = <<>> /\ \A l \in Logs : refetched[l] = 0
      /\ \A l \in Logs : applied[l] > 0 => Block(l) <= StartBlock
  BY DEF Init
<1>3. EventLogs(events) = {}
  BY <1>2 DEF EventLogs
<1>. QED
  BY <1>1, <1>2, <1>3 DEF CursorInv, CursorCoversApplied, BootPcs, LoopPcs, Undrained

\* Once bootstrap is over the cursor is never behind the pools, whatever the feeds
\* lose, repeat or reorder (handle.rs: catchup_registry_to_block re-applies nothing).
\* The hypothesis is needed: a feed that delivers a log from before the block the
\* pools were fetched at makes bootstrap's handover block, and its cursor, older.
THEOREM CursorCoversAppliedHolds ==
    ASSUME FeedsNearHead PROVE Spec => []CursorCoversApplied
<1>1. Init => StagedInv /\ CursorInv
  BY StagedInit, CursorInit
<1>2. StagedInv /\ CursorInv /\ [Next]_vars => (StagedInv /\ CursorInv)'
  BY StagedNext, CursorNext
<1>3. CursorInv => CursorCoversApplied
  BY DEF CursorInv
<1>. QED
  BY <1>1, <1>2, <1>3, PTL DEF Spec

----------------------------------------------------------------------------
(* Keys and copies. *)

\* How often log l is among the items evs, by its key, retractions included, is
\* Count(evs, l); how often its key is among the keys ks:
KeyCount(ks, l) == Cardinality({i \in DOMAIN ks : ks[i] = l})

\* How often the key of l was entered.
Keys(l) == KeyCount(recorded, l)

\* The listeners that entered the key of l and have yet to send it.
Sending(l) == {f \in Feeds : stage[f] = "send" /\ item[f].log = l}

\* Copies of l between `record` and the source.
Transit(l) == Count(channel, l) + Cardinality(Sending(l))

\* Copies of l the source has taken and not applied yet.
Held(l) == refetched[l] + pending[l] + Count(events, l) + (IF l \in missed THEN 1 ELSE 0)

LEMMA CountAppend ==
    ASSUME NEW s \in Seq(Item), NEW e \in Item, NEW l \in Logs
    PROVE  Count(Append(s, e), l) = Count(s, l) + (IF e.log = l THEN 1 ELSE 0)
<1>. DEFINE S == {i \in DOMAIN s : s[i].log = l}
            T == {i \in DOMAIN Append(s, e) : Append(s, e)[i].log = l}
<1>1. IsFiniteSet(S) /\ Cardinality(S) \in Nat /\ Len(s) + 1 \notin S
  <2>1. DOMAIN s = 1..Len(s) /\ Len(s) \in Nat
    OBVIOUS
  <2>2. IsFiniteSet(1..Len(s)) /\ S \in SUBSET (1..Len(s))
    BY <2>1, FS_Interval
  <2>3. Len(s) + 1 \notin S
    BY <2>1
  <2>. HIDE DEF S
  <2>. QED
    BY <2>2, <2>3, FS_Subset, FS_CardinalityType
<1>2. e.log = l => T = S \cup {Len(s) + 1}
  OBVIOUS
<1>3. e.log # l => T = S
  OBVIOUS
<1>4. Cardinality(S \cup {Len(s) + 1}) = Cardinality(S) + 1
  <2>. HIDE DEF S
  <2>. QED
    BY <1>1, FS_AddElement
<1>5. Cardinality(T) = Cardinality(S) + (IF e.log = l THEN 1 ELSE 0)
  <2>1. CASE e.log = l
    BY <1>2, <1>4, <2>1
  <2>2. CASE e.log # l
    <3>1. T = S
      BY <1>3, <2>2
    <3>. HIDE DEF S, T
    <3>. QED
      BY <1>1, <2>2, <3>1
  <2>. QED
    BY <2>1, <2>2
<1>. QED
  BY <1>5 DEF Count

LEMMA KeyCountAppend ==
    ASSUME NEW s \in Seq(Logs), NEW e \in Logs, NEW l \in Logs
    PROVE  KeyCount(Append(s, e), l) = KeyCount(s, l) + (IF e = l THEN 1 ELSE 0)
<1>. DEFINE S == {i \in DOMAIN s : s[i] = l}
            T == {i \in DOMAIN Append(s, e) : Append(s, e)[i] = l}
<1>1. IsFiniteSet(S) /\ Cardinality(S) \in Nat /\ Len(s) + 1 \notin S
  <2>1. DOMAIN s = 1..Len(s) /\ Len(s) \in Nat
    OBVIOUS
  <2>2. IsFiniteSet(1..Len(s)) /\ S \in SUBSET (1..Len(s))
    BY <2>1, FS_Interval
  <2>3. Len(s) + 1 \notin S
    BY <2>1
  <2>. HIDE DEF S
  <2>. QED
    BY <2>2, <2>3, FS_Subset, FS_CardinalityType
<1>2. e = l => T = S \cup {Len(s) + 1}
  OBVIOUS
<1>3. e # l => T = S
  OBVIOUS
<1>4. Cardinality(S \cup {Len(s) + 1}) = Cardinality(S) + 1
  <2>. HIDE DEF S
  <2>. QED
    BY <1>1, FS_AddElement
<1>5. Cardinality(T) = Cardinality(S) + (IF e = l THEN 1 ELSE 0)
  <2>1. CASE e = l
    BY <1>2, <1>4, <2>1
  <2>2. CASE e # l
    <3>1. T = S
      BY <1>3, <2>2
    <3>. HIDE DEF S, T
    <3>. QED
      BY <1>1, <2>2, <3>1
  <2>. QED
    BY <2>1, <2>2
<1>. QED
  BY <1>5 DEF KeyCount

LEMMA CountType == ASSUME NEW s \in Seq(Item), NEW l PROVE Count(s, l) \in Nat
<1>1. {i \in DOMAIN s : s[i].log = l} \subseteq DOMAIN s
  OBVIOUS
<1>. QED
  BY <1>1, OccurrenceType DEF Count

LEMMA KeyCountType == ASSUME NEW s \in Seq(Logs), NEW l PROVE KeyCount(s, l) \in Nat
<1>1. {i \in DOMAIN s : s[i] = l} \subseteq DOMAIN s
  OBVIOUS
<1>. QED
  BY <1>1, OccurrenceType DEF KeyCount

LEMMA SendingType ==
    ASSUME NEW l
    PROVE  IsFiniteSet(Sending(l)) /\ Cardinality(Sending(l)) \in Nat
<1>1. Sending(l) \in SUBSET Feeds
  BY DEF Sending
<1>. QED
  BY <1>1, SourceAssumption, FS_Subset, FS_CardinalityType

LEMMA CountEmpty == ASSUME NEW l PROVE Count(<<>>, l) = 0
<1>1. {i \in DOMAIN <<>> : <<>>[i].log = l} = {}
  OBVIOUS
<1>. QED
  BY <1>1, FS_EmptySet DEF Count

\* A step of the chain or of a listener puts no copy on its way without its key.
LEMMA EnvironmentKeys ==
    ASSUME FeedTypeOK, Environment, NEW l \in Logs
    PROVE  Transit(l)' + Keys(l) <= Transit(l) + Keys(l)'
<1>0. /\ channel \in Seq(Item) /\ recorded \in Seq(Logs)
      /\ Count(channel, l) \in Nat /\ Keys(l) \in Nat
      /\ Cardinality(Sending(l)) \in Nat /\ IsFiniteSet(Sending(l))
  <2>1. channel \in Seq(Item) /\ recorded \in Seq(Logs)
    BY DEF FeedTypeOK, QueueTypeOK
  <2>. QED
    BY <2>1, CountType, KeyCountType, SendingType DEF Keys
<1>1. ASSUME UNCHANGED <<channel, recorded>>, Sending(l)' = Sending(l)
      PROVE  Transit(l)' + Keys(l) <= Transit(l) + Keys(l)'
  BY <1>0, <1>1 DEF Transit, Keys
<1>2. CASE Mine \/ \E m \in Logs : Reorg(m)
  <2>1. UNCHANGED <<channel, recorded, stage, item>>
    BY <1>2 DEF Mine, Reorg, queueVars
  <2>. QED
    BY <1>1, <2>1 DEF Sending
<1>3. ASSUME NEW f \in Feeds, Subscribe(f) \/ Disconnect(f) \/ Lagged(f)
      PROVE  UNCHANGED <<channel, recorded>> /\ Sending(l)' = Sending(l)
  BY <1>3 DEF Subscribe, Disconnect, Lagged, queueVars, Sending
<1>4. ASSUME NEW f \in Feeds, Receive(f) \/ ReceiveRetraction(f)
      PROVE  UNCHANGED <<channel, recorded>> /\ Sending(l)' = Sending(l)
  <2>1. UNCHANGED <<channel, recorded>>
    BY <1>4 DEF Receive, ReceiveRetraction, queueVars
  <2>2. stage[f] = "recv" /\ stage'[f] = "record"
    BY <1>4 DEF Receive, ReceiveRetraction, FeedTypeOK
  <2>3. \A g \in Feeds : g # f => stage'[g] = stage[g] /\ item'[g] = item[g]
    BY <1>4 DEF Receive, ReceiveRetraction, FeedTypeOK
  <2>. QED
    BY <2>1, <2>2, <2>3 DEF Sending
<1>5. ASSUME NEW f \in Feeds, SkipDuplicate(f)
      PROVE  UNCHANGED <<channel, recorded>> /\ Sending(l)' = Sending(l)
  <2>1. UNCHANGED <<channel, recorded>>
    BY <1>5 DEF SkipDuplicate, queueVars
  <2>2. stage[f] = "record" /\ stage'[f] = "recv"
    BY <1>5 DEF SkipDuplicate, FeedTypeOK
  <2>3. \A g \in Feeds : g # f => stage'[g] = stage[g] /\ item'[g] = item[g]
    BY <1>5 DEF SkipDuplicate, FeedTypeOK
  <2>. QED
    BY <2>1, <2>2, <2>3 DEF Sending
<1>6. ASSUME NEW f \in Feeds, RecordItem(f)
      PROVE  Transit(l)' + Keys(l) <= Transit(l) + Keys(l)'
  <2>1. /\ UNCHANGED <<channel, item>> /\ recorded' = Append(recorded, item[f].log)
        /\ stage[f] = "record" /\ stage'[f] = "send" /\ item[f].log \in Logs
        /\ \A g \in Feeds : g # f => stage'[g] = stage[g]
    BY <1>6 DEF RecordItem, Record, FeedTypeOK, Item
  <2>2. Keys(l)' = Keys(l) + (IF item[f].log = l THEN 1 ELSE 0)
    BY <1>0, <2>1, KeyCountAppend DEF Keys
  <2>3. CASE item[f].log = l
    <3>1. Sending(l)' = Sending(l) \cup {f} /\ f \notin Sending(l)
      BY <2>1, <2>3 DEF Sending
    <3>2. Cardinality(Sending(l)') = Cardinality(Sending(l)) + 1
      BY <1>0, <3>1, FS_AddElement
    <3>. QED
      BY <1>0, <2>1, <2>2, <2>3, <3>2 DEF Transit
  <2>4. CASE item[f].log # l
    <3>1. Sending(l)' = Sending(l)
      BY <2>1, <2>4 DEF Sending
    <3>. QED
      BY <1>0, <2>1, <2>2, <2>4, <3>1 DEF Transit
  <2>. QED
    BY <2>3, <2>4
<1>7. ASSUME NEW f \in Feeds, SendItem(f)
      PROVE  Transit(l)' + Keys(l) <= Transit(l) + Keys(l)'
  <2>1. /\ UNCHANGED recorded /\ channel' \in {channel, Append(channel, item[f])}
        /\ stage[f] = "send" /\ stage'[f] = "recv" /\ item[f] \in Item
        /\ \A g \in Feeds : g # f => stage'[g] = stage[g] /\ item'[g] = item[g]
    BY <1>7 DEF SendItem, ChannelSend, FeedTypeOK
  <2>2. Count(channel', l) \in Nat
        /\ Count(channel', l) <= Count(channel, l) + (IF item[f].log = l THEN 1 ELSE 0)
    <3>1. CASE channel' = channel
      BY <1>0, <3>1
    <3>2. CASE channel' = Append(channel, item[f])
      <4>1. Count(channel', l) = Count(channel, l) + (IF item[f].log = l THEN 1 ELSE 0)
        BY <1>0, <2>1, <3>2, CountAppend
      <4>. QED
        BY <1>0, <4>1
    <3>. QED
      BY <2>1, <3>1, <3>2
  <2>3. CASE item[f].log = l
    <3>1. Sending(l)' = Sending(l) \ {f} /\ f \in Sending(l)
      BY <2>1, <2>3 DEF Sending
    <3>2. Cardinality(Sending(l)') = Cardinality(Sending(l)) - 1
      BY <1>0, <3>1, FS_RemoveElement
    <3>. QED
      BY <1>0, <2>1, <2>2, <2>3, <3>2 DEF Transit, Keys
  <2>4. CASE item[f].log # l
    <3>1. Sending(l)' = Sending(l)
      BY <2>1, <2>4 DEF Sending
    <3>. QED
      BY <1>0, <2>1, <2>2, <2>4, <3>1 DEF Transit, Keys
  <2>. QED
    BY <2>3, <2>4
<1>. QED
  BY <1>1, <1>2, <1>3, <1>4, <1>5, <1>6, <1>7 DEF Environment, FeedStep

----------------------------------------------------------------------------
(* Every application is paid for by a key. *)

\* What the pools were fetched with.
Initial(l) == IF Block(l) <= StartBlock THEN 1 ELSE 0

\* From the floor on, what was applied and what is on its way came with a key, or
\* with the pools when they were fetched.
PaidByKeys ==
    \A l \in Logs : l >= floor =>
        applied[l] + Held(l) + Transit(l) <= Initial(l) + Keys(l)

\* Before it, the catch-up or the fetched state has the only copy.
OnceBeforeFloor ==
    \A l \in Logs : l < floor =>
        /\ applied[l] <= 1 /\ refetched[l] = 0 /\ pending[l] = 0
        /\ l \notin fetched /\ l \notin missed /\ l \notin EventLogs(events)

\* The rest of the inductive invariant: what bootstrap has not reached.
NotReached ==
    /\ pc \notin LoopPcs => \A l \in Logs : pending[l] = 0
    /\ pc \in Undrained =>
           \A l \in Logs : /\ refetched[l] = 0
                           /\ applied[l] = Initial(l)
    /\ pc = "catchup" =>
           /\ batch_start > StartBlock
           /\ \A l \in Logs : Block(l) >= batch_start => applied[l] = 0

KeyInv == PaidByKeys /\ OnceBeforeFloor /\ NotReached

LEMMA KeyTypes ==
    ASSUME SourceInv, NEW l \in Logs
    PROVE  /\ Keys(l) \in Nat /\ Transit(l) \in Nat /\ Held(l) \in Nat
           /\ Count(events, l) \in Nat /\ Count(channel, l) \in Nat
           /\ Cardinality(Sending(l)) \in Nat
           /\ refetched[l] \in Nat /\ pending[l] \in Nat /\ applied[l] \in Nat
           /\ floor \in Nat /\ l \in Nat /\ Block(l) \in Nat /\ Initial(l) \in 0..1
<1>1. /\ channel \in Seq(Item) /\ recorded \in Seq(Logs) /\ events \in Seq(Item)
      /\ refetched[l] \in Nat /\ pending[l] \in Nat /\ applied[l] \in Nat
      /\ floor \in Nat /\ l \in Nat /\ Block(l) \in Nat
  BY LogsAssumption, BlockAssumption
     DEF SourceInv, TypeOK, FeedTypeOK, QueueTypeOK
<1>2. /\ Count(events, l) \in Nat /\ Count(channel, l) \in Nat /\ Keys(l) \in Nat
      /\ Cardinality(Sending(l)) \in Nat
  BY <1>1, CountType, KeyCountType, SendingType DEF Keys
<1>3. Held(l) \in Nat
  <2>1. refetched[l] \in Nat /\ pending[l] \in Nat /\ Count(events, l) \in Nat
    BY <1>1, <1>2
  <2>2. (IF l \in missed THEN 1 ELSE 0) \in Nat
    OBVIOUS
  <2>. QED
    BY <2>1, <2>2 DEF Held
<1>4. Initial(l) \in 0..1
  BY DEF Initial
<1>. QED
  BY <1>1, <1>2, <1>3, <1>4 DEF Transit

\* The same after a step.
LEMMA KeyTypesNext ==
    ASSUME SourceInv', NEW l \in Logs
    PROVE  Keys(l)' \in Nat /\ Transit(l)' \in Nat
<1>1. channel' \in Seq(Item) /\ recorded' \in Seq(Logs)
  BY DEF SourceInv, TypeOK, FeedTypeOK, QueueTypeOK
<1>2. Count(channel', l) \in Nat /\ KeyCount(recorded', l) \in Nat
  BY <1>1, CountType, KeyCountType
<1>3. Cardinality(Sending(l)') \in Nat
  <2>1. Sending(l)' \in SUBSET Feeds
    BY DEF Sending
  <2>. QED
    BY <2>1, SourceAssumption, FS_Subset, FS_CardinalityType
<1>. QED
  BY <1>2, <1>3 DEF Transit, Keys

\* From the floor on, blocks are not before the floor's.
LEMMA FromFloor ==
    ASSUME NEW p \in Floors, NEW l \in Logs, l >= p
    PROVE  Block(l) >= Block(p)
<1>1. l \in Nat /\ Block(l) \in Nat
  BY LogsAssumption, BlockAssumption
<1>2. CASE p \in Logs
  BY <1>1, <1>2, LogsAssumption, BlockAssumption
<1>3. ASSUME NEW b \in 0..MaxBlock, p = BlockStart(b) PROVE Block(l) >= Block(p)
  <2>1. b \in 0..(MaxBlock + 1) /\ b \in Nat
    BY FeedAssumption
  <2>2. p \in Nat /\ Block(p) = b /\ (p <= l <=> b <= Block(l))
    BY <1>3, <2>1, BlockStartAssumption
  <2>. QED
    BY <1>1, <2>1, <2>2
<1>. QED
  BY <1>2, <1>3 DEF Floors

\* Only the environment moved.
LEMMA OutsideKeys ==
    ASSUME SourceInv, KeyInv, SourceInv', Outside
    PROVE  KeyInv'
<1>1. Environment /\ UNCHANGED sourceVars
  BY DEF Outside, Environment, FeedStep
<1>2. UNCHANGED <<pc, floor, batch_start, events, refetched, fetched, missed, pending, applied>>
  BY <1>1 DEF sourceVars, bootVars, fillVars, settlerVars, poolVars
<1>3. FeedTypeOK
  BY DEF SourceInv, TypeOK
<1>4. ASSUME NEW l \in Logs, l >= floor'
      PROVE  applied'[l] + Held(l)' + Transit(l)' <= Initial(l) + Keys(l)'
  <2>1. /\ Keys(l) \in Nat /\ Transit(l) \in Nat /\ Held(l) \in Nat /\ applied[l] \in Nat
        /\ Initial(l) \in 0..1
        /\ Keys(l)' \in Nat /\ Transit(l)' \in Nat
    BY KeyTypes, KeyTypesNext
  <2>2. Transit(l)' + Keys(l) <= Transit(l) + Keys(l)'
    BY <1>1, <1>3, EnvironmentKeys
  <2>3. Held(l)' = Held(l)
    BY <1>2 DEF Held
  <2>4. applied[l] + Held(l) + Transit(l) <= Initial(l) + Keys(l)
    BY <1>2, <1>4 DEF KeyInv, PaidByKeys
  <2>. QED
    BY <1>2, <2>1, <2>2, <2>3, <2>4
<1>5. PaidByKeys'
  BY <1>4 DEF PaidByKeys, Initial
<1>6. OnceBeforeFloor' /\ NotReached'
  BY <1>2 DEF KeyInv, OnceBeforeFloor, NotReached
<1>. QED
  BY <1>5, <1>6 DEF KeyInv

\* The source moved its program counter and nothing else that counts; what it
\* fetched, if anything, lies from the floor on.
LEMMA IdleKeys ==
    ASSUME SourceInv, KeyInv,
           UNCHANGED <<channel, recorded, stage, item, floor, events, refetched, missed,
                       pending, applied>>,
           \A l \in fetched' : l >= floor \/ l \in fetched,
           pc' \notin Undrained => pc \notin Undrained,
           pc' \notin LoopPcs => pc \notin LoopPcs,
           pc' \in Undrained => pc \in Undrained,
           pc' = "catchup" => pc = pc' /\ batch_start' = batch_start
    PROVE  KeyInv'
<1>1. PaidByKeys'
  BY DEF KeyInv, PaidByKeys, Initial, Held, Transit, Keys, Sending
<1>2. NotReached'
  BY DEF KeyInv, NotReached, Initial
<1>3. ASSUME NEW l \in Logs, l < floor PROVE l \notin fetched'
  <2>1. l \notin fetched
    BY <1>3 DEF KeyInv, OnceBeforeFloor
  <2>2. ~(l >= floor)
    BY <1>3, KeyTypes
  <2>. QED
    BY <2>1, <2>2
<1>4. OnceBeforeFloor'
  BY <1>3 DEF KeyInv, OnceBeforeFloor
<1>. QED
  BY <1>1, <1>2, <1>4 DEF KeyInv

LEMMA BootDrainKeys ==
    ASSUME StagedInv, KeyInv, StagedInv', BootDrain
    PROVE  KeyInv'
<1>1. /\ pc = "drain0" /\ pc' = "catchup" /\ events = <<>> /\ events' = channel
      /\ channel' = <<>> /\ batch_start' = StartBlock + 1 /\ floor = NoPosition
      /\ UNCHANGED <<recorded, stage, item, refetched, fetched, missed, pending, applied>>
  BY DEF BootDrain, Drain, DrainChannel, feedVars, fillVars, settlerVars, poolVars,
         StagedInv, StageOK, BootPcs, Undrained
<1>2. fetched = {} /\ missed = {} /\ \A l \in Logs : pending[l] = 0 /\ refetched[l] = 0
  BY <1>1 DEF StagedInv, StageOK, KeyInv, NotReached, LoopPcs, Undrained
<1>3. \A l \in Logs : applied[l] = Initial(l)
  BY <1>1 DEF KeyInv, NotReached, Undrained
<1>4. StartBlock \in Nat /\ \A l \in Logs : Block(l) \in Nat /\ l \in Nat
  BY BlockAssumption, LogsAssumption, FeedAssumption
<1>5. channel \in Seq(Item) /\ floor' \in Nat
  BY DEF StagedInv, SourceInv, TypeOK, FeedTypeOK, QueueTypeOK
<1>6. \A l \in EventLogs(channel) : l >= floor'
  <2>1. CASE channel = <<>>
    BY <1>5, <2>1, EventLogsType
  <2>2. CASE channel # <<>>
    <3>1. EventLogs(channel) \subseteq Nat /\ EventLogs(channel) # {}
      BY <1>5, <2>2, EventLogsType, LogsAssumption
    <3>2. floor' = Min(EventLogs(channel))
      BY <2>2 DEF BootDrain
    <3>. QED
      BY <1>5, <3>1, <3>2, MinMember
  <2>. QED
    BY <2>1, <2>2
<1>7. NotReached'
  BY <1>1, <1>2, <1>3, <1>4 DEF NotReached, Initial, Undrained, LoopPcs
<1>8. OnceBeforeFloor'
  BY <1>1, <1>2, <1>3, <1>4, <1>5, <1>6 DEF OnceBeforeFloor, Initial
<1>9. ASSUME NEW l \in Logs
      PROVE  applied'[l] + Held(l)' + Transit(l)' <= Initial(l) + Keys(l)'
  <2>1. applied[l] + Held(l) + Transit(l) <= Initial(l) + Keys(l)
    BY <1>1, <1>4 DEF KeyInv, PaidByKeys, NoPosition
  <2>2. Held(l) = 0
    BY <1>1, <1>2, CountEmpty DEF Held
  <2>3. Held(l)' = Count(channel, l)
    <3>1. Count(channel, l) \in Nat
      BY <1>5, CountType
    <3>. QED
      BY <1>1, <1>2, <3>1 DEF Held
  <2>4. Transit(l)' = Cardinality(Sending(l))
    <3>1. Cardinality(Sending(l)) \in Nat /\ Sending(l)' = Sending(l)
      BY <1>1, SendingType DEF Sending
    <3>. QED
      BY <1>1, <3>1, CountEmpty DEF Transit
  <2>5. Keys(l)' = Keys(l) /\ applied'[l] = applied[l]
    BY <1>1 DEF Keys
  <2>6. Transit(l) = Count(channel, l) + Cardinality(Sending(l))
    BY DEF Transit
  <2>. QED
    BY <2>1, <2>2, <2>3, <2>4, <2>5, <2>6, KeyTypes DEF StagedInv
<1>. QED
  BY <1>7, <1>8, <1>9 DEF KeyInv, PaidByKeys, Initial

\* A batch of the catch-up applies only logs no earlier batch did.
LEMMA CatchUpKeys ==
    ASSUME StagedInv, KeyInv, BootCatchUp
    PROVE  KeyInv'
<1>1. /\ pc = "catchup" /\ batch_start <= Block(floor)
      /\ UNCHANGED <<channel, recorded, stage, item, floor, events, refetched, fetched,
                     missed, pending>>
  BY DEF BootCatchUp, feedVars, queueVars, fillVars, settlerVars
<1>. DEFINE end == Min({batch_start + Max({MaxBlocksPerBatch, 1}) - 1, Block(floor)})
<1>2. PICK answer \in RpcAnswers(batch_start, end) :
        LET before == {l \in answer : l < floor}
        IN  /\ Apply(before, [l \in Logs |-> 1])
            /\ IF before # answer \/ end = Block(floor)
               THEN pc' = "gaps0" /\ batch_start' = 0
               ELSE pc' = pc /\ batch_start' = FollowingBatch(end)
  BY DEF BootCatchUp
<1>. DEFINE before == {l \in answer : l < floor}
<1>3. /\ applied \in [Logs -> Nat] /\ batch_start \in Nat /\ floor \in Nat
      /\ Block(floor) \in Nat /\ rpcHead \in Nat /\ StartBlock \in Nat
      /\ \A l \in Logs : l \in Nat /\ Block(l) \in Nat
  <2>1. floor \in Floors
    BY <1>1 DEF StagedInv, SourceInv, ControlOK
  <2>. QED
    BY <2>1, FloorType, LogsAssumption, BlockAssumption, FeedAssumption
       DEF StagedInv, SourceInv, TypeOK, FeedTypeOK
<1>4. end \in Nat /\ end >= batch_start
  <2>1. Max({MaxBlocksPerBatch, 1}) \in Nat /\ Max({MaxBlocksPerBatch, 1}) >= 1
    BY MaxOfTwo, SourceAssumption
  <2>2. batch_start + Max({MaxBlocksPerBatch, 1}) - 1 \in Nat
        /\ batch_start + Max({MaxBlocksPerBatch, 1}) - 1 >= batch_start
    BY <1>3, <2>1
  <2>3. end \in {batch_start + Max({MaxBlocksPerBatch, 1}) - 1, Block(floor)}
    BY <1>3, <2>2, MinOfTwo
  <2>. QED
    BY <1>1, <1>3, <2>2, <2>3
<1>5. \A l \in before : l \in Logs /\ l < floor /\ batch_start <= Block(l) /\ Block(l) <= end
  <2>. DEFINE last == Min({end, rpcHead})
  <2>1. last \in Nat /\ last <= end
    <3>1. {end, rpcHead} \subseteq Nat /\ {end, rpcHead} # {}
      BY <1>3, <1>4
    <3>2. last \in {end, rpcHead} /\ \A y \in {end, rpcHead} : last <= y
      BY <3>1, MinMember
    <3>. QED
      BY <3>1, <3>2
  <2>2. answer \subseteq LogsIn(batch_start, last)
    BY DEF RpcAnswers
  <2>3. \A l \in answer : l \in Logs /\ batch_start <= Block(l) /\ Block(l) <= last
    BY <2>2 DEF LogsIn
  <2>. HIDE DEF last, end
  <2>4. ASSUME NEW l \in answer PROVE l \in Logs /\ batch_start <= Block(l) /\ Block(l) <= end
    <3>1. l \in Logs /\ batch_start <= Block(l) /\ Block(l) <= last
      BY <2>3
    <3>2. Block(l) \in Nat
      BY <1>3, <3>1
    <3>. QED
      BY <1>4, <2>1, <3>1, <3>2
  <2>. QED
    BY <2>4
<1>6. /\ \A l \in before : applied[l] = 0 /\ applied'[l] = 1
      /\ \A l \in Logs : l \notin before => applied'[l] = applied[l]
  <2>1. applied' = [l \in Logs |-> applied[l] + IF l \in before THEN [m \in Logs |-> 1][l] ELSE 0]
    BY <1>2 DEF Apply
  <2>2. \A l \in before : l \in Logs /\ applied[l] = 0
    BY <1>1, <1>5 DEF KeyInv, NotReached
  <2>. HIDE DEF before
  <2>. QED
    BY <1>3, <2>1, <2>2
<1>7. PaidByKeys'
  <2>1. \A l \in Logs : l >= floor => l \notin before
    BY <1>3
  <2>. HIDE DEF before
  <2>. QED
    BY <1>1, <1>6, <2>1 DEF KeyInv, PaidByKeys, Initial, Held, Transit, Keys, Sending
<1>8. OnceBeforeFloor'
  <2>1. \A l \in Logs : applied'[l] <= 1 \/ applied'[l] = applied[l]
    <3>. HIDE DEF before
    <3>. QED
      BY <1>6
  <2>. QED
    BY <1>1, <2>1 DEF KeyInv, OnceBeforeFloor
<1>9. NotReached'
  <2>1. /\ batch_start > StartBlock
        /\ (\A l \in Logs : Block(l) >= batch_start => applied[l] = 0)
        /\ \A l \in Logs : pending[l] = 0
    BY <1>1 DEF KeyInv, NotReached, Undrained, LoopPcs
  <2>2. pc' = "gaps0" \/ (pc' = "catchup" /\ batch_start' = end + 1)
    BY <1>1, <1>2 DEF FollowingBatch
  <2>3. \A l \in Logs : Block(l) >= end + 1 => applied'[l] = 0
    <3>1. ASSUME NEW l \in Logs, Block(l) >= end + 1 PROVE l \notin before /\ Block(l) >= batch_start
      <4>. HIDE DEF end
      <4>1. Block(l) >= batch_start /\ ~(Block(l) <= end)
        BY <1>3, <1>4, <3>1
      <4>. HIDE DEF before
      <4>. QED
        BY <1>5, <4>1
    <3>. HIDE DEF before, end
    <3>. QED
      BY <1>6, <2>1, <3>1
  <2>. HIDE DEF end
  <2>. QED
    BY <1>1, <1>3, <1>4, <2>1, <2>2, <2>3 DEF NotReached, Undrained, LoopPcs
<1>. QED
  BY <1>7, <1>8, <1>9 DEF KeyInv

LEMMA ClaimKeys ==
    ASSUME StagedInv, KeyInv, ClaimNext
    PROVE  KeyInv'
<1>1. /\ UNCHANGED <<channel, stage, item, pc, floor, batch_start, events, refetched, pending,
                     applied>>
      /\ pc \in {"claim0", "claim"}
  BY DEF ClaimNext, Claim, feedVars, queueVars, bootVars, settlerVars, poolVars
<1>2. fetched \subseteq Logs /\ fetched # {} /\ recorded \in Seq(Logs)
  BY DEF ClaimNext, StagedInv, SourceInv, TypeOK, FeedTypeOK, QueueTypeOK
<1>. DEFINE c == Min(fetched)
<1>3. c \in fetched /\ c \in Logs
  BY <1>2, MinMember, LogsAssumption
<1>4. fetched' = fetched \ {c} /\ c \notin missed
  BY <1>3 DEF ClaimNext, StagedInv, StageOK
<1>5. \/ missed' = missed \cup {c} /\ recorded' = Append(recorded, c)
      \/ UNCHANGED <<missed, recorded>>
  BY DEF ClaimNext, Claim, Record, queueVars
<1>. HIDE DEF c
<1>6. NotReached'
  BY <1>1 DEF KeyInv, NotReached
<1>7. OnceBeforeFloor'
  BY <1>1, <1>3, <1>4, <1>5 DEF KeyInv, OnceBeforeFloor
<1>8. ASSUME NEW l \in Logs, l >= floor
      PROVE  applied'[l] + Held(l)' + Transit(l)' <= Initial(l) + Keys(l)'
  <2>1. applied[l] + Held(l) + Transit(l) <= Initial(l) + Keys(l)
    BY <1>8 DEF KeyInv, PaidByKeys
  <2>2. Transit(l)' = Transit(l) /\ applied'[l] = applied[l]
    BY <1>1 DEF Transit, Sending
  <2>3. CASE UNCHANGED <<missed, recorded>>
    BY <1>1, <2>1, <2>2, <2>3 DEF Held, Keys
  <2>4. CASE missed' = missed \cup {c} /\ recorded' = Append(recorded, c)
    <3>1. Keys(l)' = Keys(l) + (IF c = l THEN 1 ELSE 0)
      BY <1>2, <1>3, <2>4, KeyCountAppend DEF Keys
    <3>2. CASE l = c
      <4>1. Held(l)' = Held(l) + 1
        <5>1. l \notin missed /\ l \in missed'
          BY <1>4, <2>4, <3>2
        <5>. QED
          BY <1>1, <5>1, KeyTypes DEF Held, StagedInv
      <4>. QED
        BY <2>1, <2>2, <3>1, <3>2, <4>1, KeyTypes DEF StagedInv
    <3>3. CASE l # c
      <4>1. Held(l)' = Held(l)
        BY <1>1, <2>4, <3>3 DEF Held
      <4>. QED
        BY <2>1, <2>2, <3>1, <3>3, <4>1, KeyTypes DEF StagedInv
    <3>. QED
      BY <3>2, <3>3
  <2>. QED
    BY <1>5, <2>3, <2>4
<1>9. PaidByKeys'
  BY <1>1, <1>8 DEF PaidByKeys, Initial
<1>. QED
  BY <1>6, <1>7, <1>9 DEF KeyInv

\* Claimed logs move on: at bootstrap to the refetched ones, later to the settler.
LEMMA GapFilledKeys ==
    ASSUME StagedInv, KeyInv, BootGapFilled \/ LoopGapFilled
    PROVE  KeyInv'
<1>1. /\ UNCHANGED <<channel, recorded, stage, item, floor, events, fetched, applied>>
      /\ missed' = {}
      /\ \/ pc = "claim0" /\ pc' \in {"fill0", "apply0"}
         \/ pc = "claim" /\ pc' \in {"fill", "ready"}
  BY DEF BootGapFilled, LoopGapFilled, feedVars, queueVars, bootVars, poolVars
<1>2. refetched \in [Logs -> Nat] /\ pending \in [Logs -> Nat]
  BY DEF StagedInv, SourceInv, TypeOK
<1>3. \/ /\ pc = "claim0" /\ pending' = pending
         /\ \A l \in Logs : refetched'[l] = refetched[l] + (IF l \in missed THEN 1 ELSE 0)
      \/ /\ pc = "claim" /\ refetched' = refetched
         /\ \A l \in Logs : pending'[l] = pending[l] + (IF l \in missed THEN 1 ELSE 0)
  BY <1>2 DEF BootGapFilled, LoopGapFilled, SettlerAdd, settlerVars, bootVars
<1>4. ASSUME NEW l \in Logs PROVE Held(l)' = Held(l)
  <2>1. Held(l)' = refetched'[l] + pending'[l] + Count(events, l)
    <3>1. Held(l)' = refetched'[l] + pending'[l] + Count(events, l) + 0
      BY <1>1 DEF Held
    <3>2. refetched'[l] \in Nat /\ pending'[l] \in Nat /\ Count(events, l) \in Nat
      BY <1>2, <1>3, KeyTypes DEF StagedInv
    <3>. QED
      BY <3>1, <3>2
  <2>2. Count(events, l) \in Nat /\ refetched[l] \in Nat /\ pending[l] \in Nat
    BY KeyTypes DEF StagedInv
  <2>3. CASE l \in missed
    BY <1>3, <2>1, <2>2, <2>3 DEF Held
  <2>4. CASE l \notin missed
    BY <1>3, <2>1, <2>2, <2>4 DEF Held
  <2>. QED
    BY <2>3, <2>4
<1>5. PaidByKeys'
  BY <1>1, <1>4 DEF KeyInv, PaidByKeys, Initial, Transit, Keys, Sending
<1>6. OnceBeforeFloor'
  <2>1. \A l \in Logs : l \notin missed => refetched'[l] = refetched[l] /\ pending'[l] = pending[l]
    BY <1>2, <1>3
  <2>. QED
    BY <1>1, <2>1 DEF KeyInv, OnceBeforeFloor
<1>7. NotReached'
  BY <1>1, <1>3 DEF KeyInv, NotReached, Undrained, LoopPcs
<1>. QED
  BY <1>5, <1>6, <1>7 DEF KeyInv

\* Bootstrap applies what it holds.
LEMMA BootApplyKeys ==
    ASSUME StagedInv, KeyInv, BootApply
    PROVE  KeyInv'
<1>1. /\ UNCHANGED <<channel, recorded, stage, item, floor, fetched, missed, pending>>
      /\ pc = "apply0" /\ pc' = "drain" /\ events' = <<>>
      /\ refetched' = [l \in Logs |-> 0]
      /\ applied' = [l \in Logs |-> applied[l] + Count(events, l) + refetched[l]]
  BY DEF BootApply, feedVars, queueVars, fillVars
<1>2. missed = {} /\ fetched = {}
  BY <1>1 DEF StagedInv, StageOK
<1>3. EventLogs(events') = {}
  BY <1>1 DEF EventLogs
<1>4. ASSUME NEW l \in Logs PROVE applied'[l] + Held(l)' = applied[l] + Held(l)
  <2>1. Held(l)' = pending[l]
    <3>1. Held(l)' = 0 + pending[l] + Count(<<>>, l) + 0
      BY <1>1, <1>2 DEF Held
    <3>. QED
      BY <3>1, CountEmpty, KeyTypes DEF StagedInv
  <2>2. Held(l) = refetched[l] + pending[l] + Count(events, l) + 0
    BY <1>2 DEF Held
  <2>3. applied'[l] = applied[l] + Count(events, l) + refetched[l]
    BY <1>1
  <2>. QED
    BY <2>1, <2>2, <2>3, KeyTypes DEF StagedInv
<1>5. PaidByKeys'
  BY <1>1, <1>4 DEF KeyInv, PaidByKeys, Initial, Transit, Keys, Sending
<1>6. \A l \in Logs : l \notin EventLogs(events) => Count(events, l) = 0
  <2>1. \A l \in Logs : l \notin EventLogs(events) => {i \in DOMAIN events : events[i].log = l} = {}
    BY DEF EventLogs
  <2>. QED
    BY <2>1, FS_EmptySet DEF Count
<1>7. OnceBeforeFloor'
  <2>1. ASSUME NEW l \in Logs, l < floor
        PROVE  applied'[l] = applied[l] /\ applied[l] <= 1 /\ pending[l] = 0
    <3>1. l \notin EventLogs(events) /\ refetched[l] = 0 /\ applied[l] <= 1 /\ pending[l] = 0
      BY <2>1 DEF KeyInv, OnceBeforeFloor
    <3>2. Count(events, l) = 0 /\ applied[l] \in Nat
      BY <1>6, <3>1, KeyTypes DEF StagedInv
    <3>. QED
      BY <1>1, <3>1, <3>2
  <2>. QED
    BY <1>1, <1>2, <1>3, <2>1 DEF OnceBeforeFloor
<1>8. NotReached'
  BY <1>1 DEF KeyInv, NotReached, Undrained, LoopPcs
<1>. QED
  BY <1>5, <1>7, <1>8 DEF KeyInv

\* A drain moves what is queued from the floor on into the settler.
LEMMA LoopDrainKeys ==
    ASSUME StagedInv, KeyInv, LoopDrain
    PROVE  KeyInv'
<1>1. /\ UNCHANGED <<recorded, stage, item, floor, events, refetched, fetched, missed, applied>>
      /\ pc = "drain" /\ pc' = "gaps" /\ channel' = <<>>
      /\ pending' = [l \in Logs |-> pending[l] + Arrived[l]]
  BY DEF LoopDrain, Drain, DrainChannel, SettlerAdd, feedVars, bootVars, fillVars, poolVars
<1>2. channel \in Seq(Item)
  BY DEF StagedInv, SourceInv, TypeOK, FeedTypeOK, QueueTypeOK
<1>3. ASSUME NEW l \in Logs PROVE Queued(l) \in Nat /\ Queued(l) <= Count(channel, l)
  <2>. DEFINE S == {i \in DOMAIN channel : channel[i].log = l}
              T == {i \in DOMAIN channel : channel[i] = AsItem(l)}
  <2>1. T \in SUBSET S
    BY DEF AsItem
  <2>2. IsFiniteSet(S)
    <3>1. DOMAIN channel = 1..Len(channel) /\ Len(channel) \in Nat
      BY <1>2
    <3>2. IsFiniteSet(1..Len(channel)) /\ S \in SUBSET (1..Len(channel))
      BY <3>1, FS_Interval
    <3>. HIDE DEF S
    <3>. QED
      BY <3>2, FS_Subset
  <2>3. Cardinality(T) \in Nat /\ Cardinality(T) <= Cardinality(S)
    <3>. HIDE DEF S, T
    <3>. QED
      BY <2>1, <2>2, FS_Subset, FS_CardinalityType
  <2>. QED
    BY <2>3 DEF Queued, Count
<1>4. ASSUME NEW l \in Logs
      PROVE  pending'[l] = IF l >= floor THEN pending[l] + Queued(l) ELSE pending[l]
  BY <1>1, <1>3, KeyTypes DEF Arrived, StagedInv
<1>5. ASSUME NEW l \in Logs, l >= floor
      PROVE  applied'[l] + Held(l)' + Transit(l)' <= Initial(l) + Keys(l)'
  <2>1. applied[l] + Held(l) + Transit(l) <= Initial(l) + Keys(l)
    BY <1>5 DEF KeyInv, PaidByKeys
  <2>2. Held(l)' = Held(l) + Queued(l)
    <3>1. /\ Held(l)' = refetched[l] + pending'[l] + Count(events, l) + (IF l \in missed THEN 1 ELSE 0)
          /\ pending'[l] = pending[l] + Queued(l)
      BY <1>1, <1>4, <1>5 DEF Held
    <3>2. /\ refetched[l] \in Nat /\ pending[l] \in Nat /\ Count(events, l) \in Nat
          /\ Queued(l) \in Nat
      BY <1>3, KeyTypes DEF StagedInv
    <3>3. CASE l \in missed
      BY <3>1, <3>2, <3>3 DEF Held
    <3>4. CASE l \notin missed
      BY <3>1, <3>2, <3>4 DEF Held
    <3>. QED
      BY <3>3, <3>4
  <2>3. Transit(l)' = Cardinality(Sending(l))
    <3>1. Cardinality(Sending(l)) \in Nat /\ Sending(l)' = Sending(l)
      BY <1>1, SendingType DEF Sending
    <3>. QED
      BY <1>1, <3>1, CountEmpty DEF Transit
  <2>4. Keys(l)' = Keys(l) /\ applied'[l] = applied[l]
    BY <1>1 DEF Keys
  <2>5. Transit(l) = Count(channel, l) + Cardinality(Sending(l))
    BY DEF Transit
  <2>. QED
    BY <1>3, <2>1, <2>2, <2>3, <2>4, <2>5, KeyTypes DEF StagedInv
<1>6. PaidByKeys'
  BY <1>1, <1>5 DEF PaidByKeys, Initial
<1>7. ASSUME NEW l \in Logs, l < floor PROVE pending'[l] = 0
  <2>1. ~(l >= floor)
    BY <1>7, KeyTypes DEF StagedInv
  <2>. QED
    BY <1>4, <1>7, <2>1 DEF KeyInv, OnceBeforeFloor
<1>8. OnceBeforeFloor'
  BY <1>1, <1>7 DEF KeyInv, OnceBeforeFloor
<1>9. NotReached'
  BY <1>1 DEF KeyInv, NotReached, Undrained, LoopPcs
<1>. QED
  BY <1>6, <1>8, <1>9 DEF KeyInv

\* A handed-on block leaves the settler for the pools.
LEMMA HandOnKeys ==
    ASSUME StagedInv, KeyInv, HandOn
    PROVE  KeyInv'
<1>1. /\ UNCHANGED <<channel, recorded, stage, item, floor, events, refetched, fetched, missed>>
      /\ pc = "ready" /\ pc' = "drain"
      /\ applied' = [l \in Logs |-> applied[l] + IF l \in ReadyLogs THEN pending[l] ELSE 0]
      /\ pending' = [l \in Logs |-> IF l \in ReadyLogs THEN 0 ELSE pending[l]]
  BY DEF HandOn, TakeReady, Apply, feedVars, queueVars, bootVars, fillVars
<1>2. ASSUME NEW l \in Logs
      PROVE  /\ applied'[l] + pending'[l] = applied[l] + pending[l]
             /\ pending[l] = 0 => pending'[l] = 0 /\ applied'[l] = applied[l]
  <2>1. applied[l] \in Nat /\ pending[l] \in Nat
    BY KeyTypes DEF StagedInv
  <2>2. CASE l \in ReadyLogs
    BY <1>1, <2>1, <2>2
  <2>3. CASE l \notin ReadyLogs
    BY <1>1, <2>1, <2>3
  <2>. QED
    BY <2>2, <2>3
<1>3. ASSUME NEW l \in Logs PROVE applied'[l] + Held(l)' = applied[l] + Held(l)
  <2>1. /\ applied[l] \in Nat /\ pending[l] \in Nat /\ refetched[l] \in Nat
        /\ Count(events, l) \in Nat /\ applied'[l] \in Nat /\ pending'[l] \in Nat
    BY <1>1, KeyTypes DEF StagedInv
  <2>2. Held(l)' = refetched[l] + pending'[l] + Count(events, l) + (IF l \in missed THEN 1 ELSE 0)
    BY <1>1 DEF Held
  <2>3. CASE l \in missed
    BY <1>2, <2>1, <2>2, <2>3 DEF Held
  <2>4. CASE l \notin missed
    BY <1>2, <2>1, <2>2, <2>4 DEF Held
  <2>. QED
    BY <2>3, <2>4
<1>4. PaidByKeys'
  BY <1>1, <1>3 DEF KeyInv, PaidByKeys, Initial, Transit, Keys, Sending
<1>5. OnceBeforeFloor'
  BY <1>1, <1>2 DEF KeyInv, OnceBeforeFloor
<1>6. NotReached'
  BY <1>1 DEF KeyInv, NotReached, Undrained, LoopPcs
<1>. QED
  BY <1>4, <1>5, <1>6 DEF KeyInv

LEMMA KeyNext ==
    ASSUME StagedInv, KeyInv, StagedInv', [Next]_vars
    PROVE  KeyInv'
<1>. USE DEF BootPcs, LoopPcs, Undrained
<1>1. CASE Outside
  BY <1>1, OutsideKeys DEF StagedInv
<1>2. CASE UNCHANGED vars
  <2>1. UNCHANGED <<channel, recorded, stage, item, floor, events, refetched, missed,
                    pending, applied, fetched, pc, batch_start>>
    BY <1>2 DEF vars, feedVars, queueVars, sourceVars, bootVars, fillVars, settlerVars, poolVars
  <2>. QED
    BY <2>1, IdleKeys DEF StagedInv
<1>3. CASE RpcAdvance \/ BootLatest \/ BootLatestFails \/ BootNothingToCatchUp \/ NotSettled
  <2>1. UNCHANGED <<channel, recorded, stage, item, floor, events, refetched, missed,
                    pending, applied, fetched>>
    BY <1>3 DEF RpcAdvance, BootLatest, BootLatestFails, BootNothingToCatchUp, NotSettled,
                DropReceiver, feedVars, queueVars, bootVars, fillVars, settlerVars, poolVars
  <2>2. \/ pc' = pc /\ batch_start' = batch_start
        \/ pc = "latest" /\ pc' \in {"drain0", "failed"}
        \/ pc = "catchup" /\ pc' = "gaps0"
        \/ pc = "ready" /\ pc' = "drain"
    BY <1>3 DEF RpcAdvance, BootLatest, BootLatestFails, BootNothingToCatchUp, NotSettled, bootVars
  <2>. QED
    BY <2>1, <2>2, IdleKeys DEF StagedInv
<1>4. CASE BootTakeGaps \/ LoopTakeGaps \/ BootLeaveGap
  <2>1. UNCHANGED <<channel, recorded, stage, item, floor, events, refetched, missed,
                    pending, applied, fetched>>
    BY <1>4 DEF BootTakeGaps, LoopTakeGaps, TakeGaps, BootLeaveGap, LeaveGap, NoteAgain,
                feedVars, bootVars, settlerVars, poolVars
  <2>2. \/ pc \in {"gaps0", "fill0"} /\ pc' \in {"fill0", "apply0"}
        \/ pc = "gaps" /\ pc' \in {"fill", "ready"}
    BY <1>4 DEF BootTakeGaps, LoopTakeGaps, BootLeaveGap
  <2>. QED
    BY <2>1, <2>2, IdleKeys DEF StagedInv
<1>5. CASE BootFillGap \/ LoopFillGap
  <2>1. UNCHANGED <<channel, recorded, stage, item, floor, events, refetched, missed,
                    pending, applied>>
    BY <1>5 DEF BootFillGap, LoopFillGap, feedVars, queueVars, bootVars, settlerVars, poolVars
  <2>2. (pc = "fill0" /\ pc' = "claim0") \/ (pc = "fill" /\ pc' = "claim")
    BY <1>5 DEF BootFillGap, LoopFillGap
  <2>3. \A l \in fetched' : l >= floor
    BY <1>5 DEF BootFillGap, LoopFillGap, FetchGap, GapLogs
  <2>. QED
    BY <2>1, <2>2, <2>3, IdleKeys DEF StagedInv
<1>. QED
  BY <1>1, <1>2, <1>3, <1>4, <1>5, BootDrainKeys, CatchUpKeys, ClaimKeys, GapFilledKeys,
     BootApplyKeys, LoopDrainKeys, HandOnKeys
     DEF Next, Source, Bootstrap, UpdaterLoop

LEMMA KeyInit == Init => KeyInv
<1>. SUFFICES ASSUME Init PROVE KeyInv
  OBVIOUS
<1>1. /\ pc = "latest" /\ events = <<>> /\ missed = {} /\ fetched = {} /\ floor = 0
      /\ channel = <<>> /\ recorded = <<>>
      /\ \A l \in Logs : refetched[l] = 0 /\ pending[l] = 0
      /\ \A l \in Logs : applied[l] = Initial(l)
      /\ \A f \in Feeds : stage[f] = "recv"
  BY DEF Init, FeedInit, QueueInit, NoPosition, Initial
<1>2. EventLogs(events) = {}
  BY <1>1 DEF EventLogs
<1>3. \A l \in Logs : l \in Nat /\ Block(l) \in Nat
  BY LogsAssumption, BlockAssumption
<1>4. ASSUME NEW l \in Logs
      PROVE  applied[l] + Held(l) + Transit(l) <= Initial(l) + Keys(l)
  <2>1. Held(l) = 0 /\ applied[l] = Initial(l) /\ Initial(l) \in 0..1
    BY <1>1, CountEmpty DEF Held, Initial
  <2>2. Sending(l) = {}
    BY <1>1 DEF Sending
  <2>3. Transit(l) = 0
    BY <1>1, <2>2, CountEmpty, FS_EmptySet DEF Transit
  <2>4. Keys(l) \in Nat
    <3>1. <<>> \in Seq(Logs)
      OBVIOUS
    <3>. QED
      BY <1>1, <3>1, KeyCountType DEF Keys
  <2>. QED
    BY <2>1, <2>3, <2>4
<1>5. OnceBeforeFloor
  BY <1>1, <1>2, <1>3 DEF OnceBeforeFloor
<1>6. NotReached
  BY <1>1 DEF NotReached, Undrained, LoopPcs
<1>. QED
  BY <1>4, <1>5, <1>6 DEF KeyInv, PaidByKeys

DeliveryInv == StagedInv /\ KeyInv

LEMMA DeliveryStep ==
    /\ Init => DeliveryInv
    /\ DeliveryInv /\ [Next]_vars => DeliveryInv'
<1>1. Init => DeliveryInv
  BY StagedInit, KeyInit DEF DeliveryInv
<1>2. ASSUME DeliveryInv, [Next]_vars PROVE DeliveryInv'
  <2>1. StagedInv'
    BY <1>2, StagedNext DEF DeliveryInv
  <2>. QED
    BY <1>2, <2>1, KeyNext DEF DeliveryInv
<1>. QED
  BY <1>1, <1>2

\* A log before the floor is applied at most once; any other at most once per key
\* that `record` accepted, be it a feed's or a gap fill's, and once with the pools
\* when they were fetched: no copy is applied twice on the way through queue,
\* bootstrap, gap fill and settler.
THEOREM AppliedOncePerKeyHolds == Spec => []AppliedOncePerKey
<1>1. DeliveryInv => AppliedOncePerKey
  <2>. SUFFICES ASSUME DeliveryInv, NEW l \in Logs
                PROVE  applied[l] <= IF l < floor THEN 1 ELSE Initial(l) + Keys(l)
    BY DEF AppliedOncePerKey, Initial, Keys, KeyCount
  <2>1. /\ Block(l) \in Nat /\ l \in Nat /\ floor \in Nat
        /\ applied[l] \in Nat /\ Held(l) \in Nat /\ Transit(l) \in Nat /\ Keys(l) \in Nat
        /\ Initial(l) \in 0..1
    BY KeyTypes DEF DeliveryInv, StagedInv
  <2>2. CASE l < floor
    BY <2>1, <2>2 DEF DeliveryInv, KeyInv, OnceBeforeFloor
  <2>3. CASE ~(l < floor)
    <3>1. applied[l] + Held(l) + Transit(l) <= Initial(l) + Keys(l)
      BY <2>1, <2>3 DEF DeliveryInv, KeyInv, PaidByKeys
    <3>. QED
      BY <2>1, <2>3, <3>1
  <2>. QED
    BY <2>2, <2>3
<1>. QED
  BY <1>1, DeliveryStep, PTL DEF Spec

\* A window that can hold every key lets no key in twice: a repeat would leave
\* MaxEvents + 1 different keys between the two.
LEMMA NoRepeat ==
    ASSUME FeedTypeOK, DedupWindow, Cardinality(Logs) <= MaxEvents
    PROVE  \A i, j \in 1..Len(recorded) : recorded[i] = recorded[j] => i = j
<1>1. recorded \in Seq(Logs) /\ Len(recorded) \in Nat /\ MaxEvents \in Nat
  BY QueueAssumption DEF FeedTypeOK, QueueTypeOK
<1>2. ASSUME NEW i \in 1..Len(recorded), NEW j \in 1..Len(recorded),
             i < j, recorded[i] = recorded[j]
      PROVE  FALSE
  <2>1. i + MaxEvents < j
    BY <1>1, <1>2 DEF DedupWindow
  <2>. DEFINE S == i..(i + MaxEvents)
              f == [k \in S |-> recorded[k]]
  <2>2. \A k \in S : k \in 1..Len(recorded)
    BY <1>1, <2>1
  <2>3. f \in [S -> Logs]
    BY <1>1, <2>2
  <2>4. IsFiniteSet(S) /\ Cardinality(S) = MaxEvents + 1
    <3>1. i \in Int /\ i + MaxEvents \in Int /\ ~(i > i + MaxEvents)
      BY <1>1
    <3>2. (i + MaxEvents) - i + 1 = MaxEvents + 1
      BY <1>1
    <3>. QED
      BY <3>1, <3>2, FS_Interval
  <2>5. IsFiniteSet(Logs) /\ Cardinality(Logs) \in Nat
    BY SourceAssumption, FS_CardinalityType
  <2>6. \E x, y \in S : x # y /\ f[x] = f[y]
    <3>. HIDE DEF S, f
    <3>. QED
      BY <1>1, <2>3, <2>4, <2>5, FS_PigeonHole
  <2>7. PICK x \in S, y \in S : x # y /\ f[x] = f[y]
    BY <2>6
  <2>8. recorded[x] = recorded[y] /\ x \in Nat /\ y \in Nat
    BY <1>1, <2>7
  <2>9. x < y => y - x <= MaxEvents
    BY <1>1, <2>8
  <2>10. y < x => x - y <= MaxEvents
    BY <1>1, <2>8
  <2>11. x \in 1..Len(recorded) /\ y \in 1..Len(recorded)
    BY <2>2
  <2>. HIDE DEF S, f
  <2>. QED
    BY <2>7, <2>8, <2>9, <2>10, <2>11 DEF DedupWindow
<1>3. ASSUME NEW i \in 1..Len(recorded), NEW j \in 1..Len(recorded), recorded[i] = recorded[j]
      PROVE  i = j
  <2>1. ~(i < j) /\ ~(j < i)
    BY <1>2, <1>3
  <2>. QED
    BY <1>1, <2>1
<1>. QED
  BY <1>3

\* Nothing goes into the pools twice but a log of the blocks they were fetched with,
\* which the queue may bring once more (run start_block_reapplied).
TwiceAtStartOnly ==
    \A l \in Logs : applied[l] <= IF l >= floor /\ Block(l) <= StartBlock THEN 2 ELSE 1

\* While the window can hold every key, no log after the start goes into the pools
\* twice: not from the catch-up and the queue, not from a gap fill and a feed, not
\* from two feeds, for any feeds, lag and reorgs. An older one goes in at most once
\* more (block_source.rs: bootstrap, fetch_gap, the floor in next_batch).
THEOREM TwiceAtStartOnlyHolds ==
    ASSUME Cardinality(Logs) <= MaxEvents
    PROVE  Spec => []TwiceAtStartOnly
<1>1. ASSUME TypeOK, DedupWindow, AppliedOncePerKey, NEW l \in Logs
      PROVE  applied[l] <= IF l >= floor /\ Block(l) <= StartBlock THEN 2 ELSE 1
  <2>. DEFINE S == {i \in DOMAIN recorded : recorded[i] = l}
  <2>1. recorded \in Seq(Logs) /\ applied[l] \in Nat
    BY <1>1 DEF TypeOK, FeedTypeOK, QueueTypeOK
  <2>2. \A i, j \in S : i = j
    <3>1. \A i, j \in 1..Len(recorded) : recorded[i] = recorded[j] => i = j
      BY <1>1, NoRepeat DEF TypeOK
    <3>. QED
      BY <2>1, <3>1
  <2>3. Cardinality(S) \in Nat /\ Cardinality(S) <= 1
    <3>1. CASE S = {}
      <4>. HIDE DEF S
      <4>. QED
        BY <3>1, FS_EmptySet
    <3>2. CASE S # {}
      <4>1. PICK i \in S : TRUE
        BY <3>2
      <4>2. S = {i}
        BY <2>2, <4>1
      <4>3. Cardinality({i}) = 1
        BY FS_Singleton
      <4>. HIDE DEF S
      <4>. QED
        BY <4>2, <4>3
    <3>. QED
      BY <3>1, <3>2
  <2>4. l < floor => applied[l] <= 1
    BY <1>1 DEF AppliedOncePerKey
  <2>5. ~(l < floor) => applied[l] <= (IF Block(l) <= StartBlock THEN 1 ELSE 0) + Cardinality(S)
    BY <1>1 DEF AppliedOncePerKey
  <2>6. l \in Nat /\ floor \in Nat
    BY <1>1, LogsAssumption DEF TypeOK
  <2>. HIDE DEF S
  <2>. QED
    BY <2>1, <2>3, <2>4, <2>5, <2>6
<1>2. TypeOK /\ DedupWindow /\ AppliedOncePerKey => TwiceAtStartOnly
  BY <1>1 DEF TwiceAtStartOnly
<1>. QED
  BY <1>2, TypeCorrect, SourceDedupWindow, AppliedOncePerKeyHolds, PTL

----------------------------------------------------------------------------
(* The inductive invariant. *)

\* The source has l, or had it and applied it.
Has(l) ==
    \/ applied[l] > 0 \/ pending[l] > 0 \/ refetched[l] > 0
    \/ l \in missed \/ l \in EventLogs(events)

\* A copy of l whose key was entered is on its way to the source.
Coming(l) ==
    \/ \E i \in DOMAIN channel : channel[i] = AsItem(l)
    \/ \E f \in Feeds : stage[f] = "send" /\ item[f] = AsItem(l)

Took(l) == Has(l) \/ Coming(l)

\* A gap that will be filled holds l.
InGap(l) == \E gap \in ToSet(gaps) \cup ToSet(todo) : gap.after < l /\ l < gap.before

\* A listener is about to enter the key of l.
AtHand(f, l) == stage[f] = "record" /\ item[f] = AsItem(l)

\* The source's part of the chain: what a reorg has not removed, from the floor on.
Live == {l \in Logs \ orphaned : l >= floor}

\* What is retracted is off the chain.
RetractedIsOrphaned ==
    /\ \A f \in Feeds : owed[f] \subseteq orphaned
    /\ \A f \in Feeds : stage[f] # "recv" /\ item[f].removed => item[f].log \in orphaned
    /\ \A i \in DOMAIN channel : channel[i].removed => channel[i].log \in orphaned

\* An entered key is a promise: its log was taken.
KeysAreKept ==
    \A l \in Live : (\E i \in DOMAIN recorded : recorded[i] = l) => Took(l)

\* What a feed has passed was taken, is being claimed, lies in a gap or is in hand.
PassedIsKept ==
    \A l \in Live : \A f \in Feeds : l <= last_forwarded[f] =>
        Took(l) \/ l \in fetched \/ InGap(l) \/ AtHand(f, l)

\* While a gap's logs are claimed, each of them is taken or still to be claimed.
FillIsKept ==
    pc \in {"claim0", "claim"} =>
        \A l \in Live : Head(todo).after < l /\ l < Head(todo).before =>
            Took(l) \/ l \in fetched

\* Before the floor the catch-up applied every log it passed.
CaughtUp ==
    /\ \A l \in Logs \ orphaned :
           l < floor /\ (pc = "catchup" => Block(l) < batch_start) => applied[l] > 0
    /\ pc \in Undrained => \A l \in Logs : Block(l) <= StartBlock => applied[l] > 0
    /\ pc = "drain0" => latest <= rpcHead
    /\ pc = "catchup" /\ events = <<>> =>
           Block(floor) <= rpcHead /\ floor = BlockStart(Block(floor))

KeptInv == RetractedIsOrphaned /\ KeysAreKept /\ PassedIsKept /\ FillIsKept /\ CaughtUp

\* A source that never started (its first RPC call failed) delivers nothing.
LossInv == StagedInv /\ DedupInv /\ GapInv /\ (pc # "failed" => KeptInv)

----------------------------------------------------------------------------
(* What was taken stays taken. *)

\* A log among some items is counted there.
LEMMA CountPositive ==
    ASSUME NEW s \in Seq(Item), NEW l \in EventLogs(s)
    PROVE  Count(s, l) \in Nat /\ Count(s, l) > 0
<1>. DEFINE S == {i \in DOMAIN s : s[i].log = l}
<1>1. S # {}
  BY DEF EventLogs
<1>2. IsFiniteSet(S)
  <2>1. DOMAIN s = 1..Len(s) /\ Len(s) \in Nat
    OBVIOUS
  <2>2. IsFiniteSet(1..Len(s)) /\ S \in SUBSET (1..Len(s))
    BY <2>1, FS_Interval
  <2>. HIDE DEF S
  <2>. QED
    BY <2>2, FS_Subset
<1>3. Cardinality(S) \in Nat /\ Cardinality(S) # 0
  <2>. HIDE DEF S
  <2>. QED
    BY <1>1, <1>2, FS_EmptySet, FS_CardinalityType
<1>. HIDE DEF S
<1>4. Count(s, l) = Cardinality(S)
  BY DEF Count, S
<1>. QED
  BY <1>3, <1>4

LEMMA QueuedPositive ==
    ASSUME channel \in Seq(Item), NEW l \in Logs,
           \E i \in DOMAIN channel : channel[i] = AsItem(l)
    PROVE  Queued(l) \in Nat /\ Queued(l) > 0
<1>. DEFINE S == {i \in DOMAIN channel : channel[i] = AsItem(l)}
<1>1. S # {}
  OBVIOUS
<1>2. IsFiniteSet(S)
  <2>1. DOMAIN channel = 1..Len(channel) /\ Len(channel) \in Nat
    OBVIOUS
  <2>2. IsFiniteSet(1..Len(channel)) /\ S \in SUBSET (1..Len(channel))
    BY <2>1, FS_Interval
  <2>. HIDE DEF S
  <2>. QED
    BY <2>2, FS_Subset
<1>3. Cardinality(S) \in Nat /\ Cardinality(S) # 0
  <2>. HIDE DEF S
  <2>. QED
    BY <1>1, <1>2, FS_EmptySet, FS_CardinalityType
<1>. HIDE DEF S
<1>4. Queued(l) = Cardinality(S)
  BY DEF Queued, S
<1>. QED
  BY <1>3, <1>4

\* An item is a log or its retraction.
LEMMA ItemCases ==
    ASSUME NEW it \in Item
    PROVE  it.log \in Logs /\ (it = AsItem(it.log) \/ it.removed)
  BY DEF Item, AsItem

\* A step of the chain or of a listener loses no copy on its way.
LEMMA ComingStays ==
    ASSUME FeedTypeOK, receiver, Environment, NEW l \in Logs, Coming(l)
    PROVE  Coming(l)'
<1>1. channel \in Seq(Item)
  BY DEF FeedTypeOK, QueueTypeOK
<1>2. CASE Mine \/ \E m \in Logs : Reorg(m)
  BY <1>2 DEF Mine, Reorg, queueVars, Coming
<1>3. ASSUME NEW f \in Feeds, FeedStep(f), ~SendItem(f) PROVE Coming(l)'
  <2>1. UNCHANGED channel
    BY <1>3 DEF FeedStep, Subscribe, Disconnect, Lagged, Receive, ReceiveRetraction,
                RecordItem, SkipDuplicate, queueVars
  <2>2. \A g \in Feeds : stage[g] = "send" => stage'[g] = "send" /\ item'[g] = item[g]
    <3>1. CASE Subscribe(f) \/ Disconnect(f) \/ Lagged(f)
      BY <3>1 DEF Subscribe, Disconnect, Lagged
    <3>2. CASE Receive(f) \/ ReceiveRetraction(f)
      BY <3>2 DEF Receive, ReceiveRetraction, FeedTypeOK
    <3>3. CASE RecordItem(f) \/ SkipDuplicate(f)
      BY <3>3 DEF RecordItem, SkipDuplicate, FeedTypeOK
    <3>. QED
      BY <1>3, <3>1, <3>2, <3>3 DEF FeedStep
  <2>. QED
    BY <2>1, <2>2 DEF Coming
<1>4. ASSUME NEW f \in Feeds, SendItem(f) PROVE Coming(l)'
  <2>1. item[f] \in Item /\ channel' = Append(channel, item[f])
    BY <1>4 DEF SendItem, ChannelSend, FeedTypeOK
  <2>2. \A g \in Feeds : g # f => stage'[g] = stage[g] /\ item'[g] = item[g]
    BY <1>4 DEF SendItem, FeedTypeOK
  <2>3. \A i \in DOMAIN channel : i \in DOMAIN channel' /\ channel'[i] = channel[i]
    BY <1>1, <2>1
  <2>4. Len(channel) + 1 \in DOMAIN channel' /\ channel'[Len(channel) + 1] = item[f]
    BY <1>1, <2>1
  <2>5. CASE \E i \in DOMAIN channel : channel[i] = AsItem(l)
    BY <2>3, <2>5 DEF Coming
  <2>6. ASSUME NEW g \in Feeds, stage[g] = "send", item[g] = AsItem(l) PROVE Coming(l)'
    BY <2>2, <2>4, <2>6 DEF Coming
  <2>. QED
    BY <2>5, <2>6 DEF Coming
<1>. QED
  BY <1>2, <1>3, <1>4 DEF Environment

\* No step of the collector loses a log it took, save by failing altogether.
LEMMA TookStays ==
    ASSUME StagedInv, [Next]_vars, pc' # "failed", NEW l \in Logs, l >= floor', Took(l)
    PROVE  Took(l)'
<1>. USE DEF Undrained, LoopPcs, BootPcs
<1>1. /\ channel \in Seq(Item) /\ events \in Seq(Item)
      /\ refetched \in [Logs -> Nat] /\ pending \in [Logs -> Nat] /\ applied \in [Logs -> Nat]
  BY DEF StagedInv, SourceInv, TypeOK, FeedTypeOK, QueueTypeOK
<1>2. ASSUME UNCHANGED <<channel, stage, item>>, Has(l) => Has(l)' PROVE Took(l)'
  BY <1>2 DEF Took, Coming
<1>3. CASE Outside
  <2>1. Environment /\ UNCHANGED sourceVars
    BY <1>3 DEF Outside, Environment, FeedStep
  <2>2. UNCHANGED <<pc, events, refetched, missed, pending, applied>>
    BY <2>1 DEF sourceVars, bootVars, fillVars, settlerVars, poolVars
  <2>3. Has(l) => Has(l)'
    BY <2>2 DEF Has
  <2>4. Coming(l) => Coming(l)'
    BY <2>1, <2>2, ComingStays DEF StagedInv, SourceInv, TypeOK, StageOK
  <2>. QED
    BY <2>3, <2>4 DEF Took
<1>4. CASE RpcAdvance \/ BootLatest \/ BootLatestFails \/ BootNothingToCatchUp \/ NotSettled
           \/ BootTakeGaps \/ LoopTakeGaps \/ BootFillGap \/ LoopFillGap \/ BootLeaveGap
  <2>1. UNCHANGED <<channel, stage, item, events, refetched, missed, pending, applied>>
    BY <1>4 DEF RpcAdvance, BootLatest, BootLatestFails, BootNothingToCatchUp, NotSettled,
                BootTakeGaps, LoopTakeGaps, TakeGaps, BootFillGap, LoopFillGap, BootLeaveGap,
                LeaveGap, NoteAgain, DropReceiver, feedVars, queueVars, bootVars, fillVars,
                settlerVars, poolVars
  <2>. QED
    BY <1>2, <2>1 DEF Has
<1>5. CASE UNCHANGED vars
  <2>1. UNCHANGED <<channel, stage, item, events, refetched, missed, pending, applied>>
    BY <1>5 DEF vars, feedVars, queueVars, sourceVars, bootVars, fillVars, settlerVars, poolVars
  <2>. QED
    BY <1>2, <2>1 DEF Has
<1>6. CASE BootDrain
  <2>1. /\ UNCHANGED <<stage, item, refetched, missed, pending, applied>>
        /\ events' = channel /\ events = <<>>
    BY <1>6 DEF BootDrain, Drain, feedVars, fillVars, settlerVars, poolVars, StagedInv, StageOK
  <2>2. EventLogs(events) = {}
    BY <2>1 DEF EventLogs
  <2>3. CASE Has(l)
    BY <2>1, <2>2, <2>3 DEF Took, Has
  <2>4. CASE \E i \in DOMAIN channel : channel[i] = AsItem(l)
    <3>1. l \in EventLogs(events')
      BY <2>1, <2>4 DEF EventLogs, AsItem
    <3>. QED
      BY <3>1 DEF Took, Has
  <2>5. CASE \E f \in Feeds : stage[f] = "send" /\ item[f] = AsItem(l)
    BY <2>1, <2>5 DEF Took, Coming
  <2>. QED
    BY <2>3, <2>4, <2>5 DEF Took, Coming
<1>7. CASE BootCatchUp
  <2>1. UNCHANGED <<channel, stage, item, events, refetched, missed, pending>>
    BY <1>7 DEF BootCatchUp, feedVars, queueVars, fillVars, settlerVars
  <2>2. \E S : applied' = [m \in Logs |-> applied[m] + IF m \in S THEN [k \in Logs |-> 1][m] ELSE 0]
    BY <1>7 DEF BootCatchUp, Apply
  <2>3. applied[l] > 0 => applied'[l] > 0
    BY <1>1, <2>2
  <2>. QED
    BY <1>2, <2>1, <2>3 DEF Has
<1>8. CASE ClaimNext
  <2>1. /\ UNCHANGED <<channel, stage, item, events, refetched, pending, applied>>
        /\ missed \subseteq missed'
    BY <1>8 DEF ClaimNext, Claim, feedVars, queueVars, bootVars, settlerVars, poolVars
  <2>. QED
    BY <1>2, <2>1 DEF Has
<1>9. CASE BootGapFilled
  <2>1. /\ UNCHANGED <<channel, stage, item, events, pending, applied>>
        /\ refetched' = [m \in Logs |-> refetched[m] + IF m \in missed THEN 1 ELSE 0]
    BY <1>9 DEF BootGapFilled, feedVars, queueVars, settlerVars, poolVars
  <2>2. refetched[l] > 0 \/ l \in missed => refetched'[l] > 0
    BY <1>1, <2>1
  <2>. QED
    BY <1>2, <2>1, <2>2 DEF Has
<1>10. CASE LoopGapFilled
  <2>1. /\ UNCHANGED <<channel, stage, item, events, refetched, applied>>
        /\ pending' = [m \in Logs |-> pending[m] + [k \in Logs |-> IF k \in missed THEN 1 ELSE 0][m]]
    BY <1>10 DEF LoopGapFilled, SettlerAdd, feedVars, queueVars, bootVars, poolVars
  <2>2. pending[l] > 0 \/ l \in missed => pending'[l] > 0
    BY <1>1, <2>1
  <2>. QED
    BY <1>2, <2>1, <2>2 DEF Has
<1>11. CASE BootApply
  <2>1. /\ UNCHANGED <<channel, stage, item, pending, missed>>
        /\ applied' = [m \in Logs |-> applied[m] + Count(events, m) + refetched[m]]
    BY <1>11 DEF BootApply, feedVars, queueVars, fillVars
  <2>2. Count(events, l) \in Nat /\ (l \in EventLogs(events) => Count(events, l) > 0)
    BY <1>1, CountType, CountPositive
  <2>3. applied[l] > 0 \/ refetched[l] > 0 \/ l \in EventLogs(events) => applied'[l] > 0
    BY <1>1, <2>1, <2>2
  <2>. QED
    BY <1>2, <2>1, <2>3 DEF Has
<1>12. CASE LoopDrain
  <2>1. /\ UNCHANGED <<stage, item, events, refetched, missed, applied, floor>>
        /\ pending' = [m \in Logs |-> pending[m] + Arrived[m]]
    BY <1>12 DEF LoopDrain, SettlerAdd, Drain, feedVars, bootVars, fillVars, poolVars
  <2>2. Queued(l) \in Nat
    <3>1. {i \in DOMAIN channel : channel[i] = AsItem(l)} \subseteq DOMAIN channel
      OBVIOUS
    <3>. QED
      BY <1>1, <3>1, OccurrenceType DEF Queued
  <2>3. pending'[l] = pending[l] + Queued(l)
    BY <2>1 DEF Arrived
  <2>4. CASE Has(l)
    <3>1. pending[l] > 0 => pending'[l] > 0
      BY <1>1, <2>2, <2>3
    <3>. QED
      BY <2>1, <2>4, <3>1 DEF Took, Has
  <2>5. CASE \E i \in DOMAIN channel : channel[i] = AsItem(l)
    <3>1. Queued(l) > 0
      BY <1>1, <2>5, QueuedPositive
    <3>2. pending'[l] > 0
      BY <1>1, <2>2, <2>3, <3>1
    <3>. QED
      BY <3>2 DEF Took, Has
  <2>6. CASE \E f \in Feeds : stage[f] = "send" /\ item[f] = AsItem(l)
    BY <2>1, <2>6 DEF Took, Coming
  <2>. QED
    BY <2>4, <2>5, <2>6 DEF Took, Coming
<1>13. CASE HandOn
  <2>1. /\ UNCHANGED <<channel, stage, item, events, refetched, missed>>
        /\ applied' = [m \in Logs |-> applied[m] + IF m \in ReadyLogs THEN pending[m] ELSE 0]
        /\ pending' = [m \in Logs |-> IF m \in ReadyLogs THEN 0 ELSE pending[m]]
    BY <1>13 DEF HandOn, Apply, TakeReady, feedVars, queueVars, bootVars, fillVars
  <2>2. applied[l] > 0 \/ pending[l] > 0 => applied'[l] > 0 \/ pending'[l] > 0
    BY <1>1, <2>1
  <2>. QED
    BY <1>2, <2>1, <2>2 DEF Has
<1>. QED
  BY <1>3, <1>4, <1>5, <1>6, <1>7, <1>8, <1>9, <1>10, <1>11, <1>12, <1>13
     DEF Next, Source, Bootstrap, UpdaterLoop

----------------------------------------------------------------------------
(* Each part of the invariant is kept. *)

\* Retractions come from the chain only.
LEMMA RetractedNext ==
    ASSUME FeedTypeOK, RetractedIsOrphaned, [FeedNext]_feedSpecVars
    PROVE  RetractedIsOrphaned'
<1>. USE DEF RetractedIsOrphaned
<1>0. channel \in Seq(Item)
  BY DEF FeedTypeOK, QueueTypeOK
<1>1. CASE Mine
  BY <1>1 DEF Mine, queueVars
<1>2. ASSUME NEW l \in Logs, Reorg(l) PROVE RetractedIsOrphaned'
  <2>1. /\ UNCHANGED <<channel, stage, item>> /\ orphaned' = orphaned \cup {l}
        /\ \A f \in Feeds : owed'[f] \subseteq owed[f] \cup {l}
    BY <1>2 DEF Reorg, queueVars
  <2>. QED
    BY <2>1
<1>3. ASSUME NEW f \in Feeds, FeedStep(f) PROVE RetractedIsOrphaned'
  <2>1. CASE Subscribe(f) \/ Disconnect(f) \/ Lagged(f)
    <3>1. UNCHANGED <<channel, stage, item, orphaned>>
      BY <2>1 DEF Subscribe, Disconnect, Lagged, queueVars
    <3>2. \A g \in Feeds : owed'[g] \subseteq owed[g]
      BY <2>1 DEF Subscribe, Disconnect, Lagged, FeedTypeOK
    <3>. QED
      BY <3>1, <3>2
  <2>2. CASE Receive(f)
    <3>1. PICK l \in Upcoming(f) : item' = [item EXCEPT ![f] = [log |-> l, removed |-> FALSE]]
      BY <2>2 DEF Receive
    <3>2. UNCHANGED <<channel, orphaned, owed>> /\ stage' = [stage EXCEPT ![f] = "record"]
      BY <2>2 DEF Receive
    <3>3. ~item'[f].removed
      BY <3>1 DEF FeedTypeOK
    <3>4. \A g \in Feeds : g # f => stage'[g] = stage[g] /\ item'[g] = item[g]
      BY <3>1, <3>2 DEF FeedTypeOK
    <3>. QED
      BY <3>2, <3>3, <3>4
  <2>3. CASE ReceiveRetraction(f)
    <3>1. PICK l \in owed[f] :
            /\ owed' = [owed EXCEPT ![f] = @ \ {l}]
            /\ item' = [item EXCEPT ![f] = [log |-> l, removed |-> TRUE]]
      BY <2>3 DEF ReceiveRetraction
    <3>2. UNCHANGED <<channel, orphaned>> /\ stage' = [stage EXCEPT ![f] = "record"]
      BY <2>3 DEF ReceiveRetraction, queueVars
    <3>3. item'[f].log = l /\ l \in orphaned
      BY <3>1 DEF FeedTypeOK
    <3>4. \A g \in Feeds : /\ owed'[g] \subseteq owed[g]
                           /\ g # f => item'[g] = item[g] /\ stage'[g] = stage[g]
      BY <3>1, <3>2 DEF FeedTypeOK
    <3>. QED
      BY <3>2, <3>3, <3>4
  <2>4. CASE RecordItem(f)
    BY <2>4 DEF RecordItem, FeedTypeOK
  <2>5. CASE SkipDuplicate(f)
    BY <2>5 DEF SkipDuplicate, FeedTypeOK, queueVars
  <2>6. CASE SendItem(f)
    <3>1. UNCHANGED <<owed, orphaned>>
      BY <2>6 DEF SendItem
    <3>2. \A g \in Feeds : stage'[g] # "recv" => stage[g] # "recv" /\ item'[g] = item[g]
      BY <2>6 DEF SendItem, FeedTypeOK
    <3>3. item[f] \in Item /\ (item[f].removed => item[f].log \in orphaned)
      BY <2>6 DEF SendItem, FeedTypeOK
    <3>4. \A i \in DOMAIN channel' : channel'[i].removed => channel'[i].log \in orphaned
      <4>1. CASE channel' = channel
        BY <4>1
      <4>2. CASE channel' = Append(channel, item[f])
        BY <1>0, <3>3, <4>2
      <4>. QED
        BY <2>6, <4>1, <4>2 DEF SendItem, ChannelSend
    <3>. QED
      BY <3>1, <3>2, <3>4
  <2>. QED
    BY <1>3, <2>1, <2>2, <2>3, <2>4, <2>5, <2>6 DEF FeedStep
<1>4. CASE Consumer
  <2>1. UNCHANGED <<stage, item, owed, orphaned>>
    BY <1>4 DEF Consumer, Drain, TakeGaps, DropReceiver, Claim, NoteAgain, feedVars
  <2>2. channel' = channel \/ channel' = <<>>
    BY <1>4 DEF Consumer, Drain, DrainChannel, TakeGaps, DropReceiver, Claim, NoteAgain
  <2>. QED
    BY <2>1, <2>2
<1>5. CASE UNCHANGED feedSpecVars
  BY <1>5 DEF feedSpecVars, feedVars, queueVars
<1>. QED
  BY <1>1, <1>2, <1>3, <1>4, <1>5 DEF FeedNext, Environment

\* The keys in the window were entered.
LEMMA WindowRecorded ==
    ASSUME FeedTypeOK, WindowIsSuffix, NEW l \in Logs, Duplicate(l)
    PROVE  \E i \in DOMAIN recorded : recorded[i] = l
<1>1. event_order \in Seq(Logs) /\ recorded \in Seq(Logs) /\ MaxEvents \in Nat
  BY QueueAssumption DEF FeedTypeOK, QueueTypeOK
<1>2. PICK i \in DOMAIN event_order : event_order[i] = l
  BY DEF Duplicate
<1>3. /\ i \in 1..Len(event_order) /\ Len(event_order) <= Len(recorded)
      /\ Len(event_order) \in Nat /\ Len(recorded) \in Nat
  BY <1>1, <1>2 DEF WindowIsSuffix
<1>4. recorded[Len(recorded) - Len(event_order) + i] = l
  BY <1>2, <1>3 DEF WindowIsSuffix
<1>5. Len(recorded) - Len(event_order) + i \in DOMAIN recorded
  BY <1>1, <1>3
<1>. QED
  BY <1>4, <1>5

\* The floor is set once; reorgs only take logs away.
LEMMA LiveShrinks ==
    ASSUME StagedInv, [Next]_vars
    PROVE  Live' \subseteq Live
<1>1. orphaned \subseteq orphaned'
  <2>1. [FeedNext]_feedSpecVars
    BY NextIsFeedNext DEF StagedInv
  <2>2. CASE Environment
    BY <2>2 DEF Environment, Mine, Reorg, FeedStep, Subscribe, Disconnect, Lagged, Receive,
                ReceiveRetraction, RecordItem, SkipDuplicate, SendItem
  <2>3. CASE Consumer
    BY <2>3 DEF Consumer, Drain, TakeGaps, DropReceiver, Claim, NoteAgain, feedVars
  <2>. QED
    BY <2>1, <2>2, <2>3 DEF FeedNext, feedSpecVars, feedVars
<1>2. floor' = floor \/ floor = NoPosition
  <2>1. CASE BootDrain
    BY <2>1 DEF BootDrain, StagedInv, StageOK, Undrained
  <2>2. CASE Outside \/ UNCHANGED vars
    BY <2>2 DEF Outside, vars, sourceVars
  <2>3. CASE ~BootDrain /\ (RpcAdvance \/ Source)
    BY <2>3 DEF Source, Bootstrap, UpdaterLoop, RpcAdvance, BootLatest, BootLatestFails,
                BootCatchUp, BootNothingToCatchUp, BootTakeGaps, BootFillGap, BootLeaveGap,
                BootGapFilled, BootApply, LoopDrain, LoopTakeGaps, LoopFillGap, LoopGapFilled,
                HandOn, NotSettled, ClaimNext
  <2>. QED
    BY <2>1, <2>2, <2>3 DEF Next
<1>3. \A l \in Logs : l >= NoPosition
  BY LogsAssumption DEF NoPosition
<1>. QED
  BY <1>1, <1>2, <1>3 DEF Live

\* A key that enters comes with its log.
LEMMA KeysKeptNext ==
    ASSUME StagedInv, RetractedIsOrphaned, KeysAreKept, [Next]_vars, pc' # "failed"
    PROVE  KeysAreKept'
<1>. SUFFICES ASSUME NEW l \in Live', \E i \in DOMAIN recorded' : recorded'[i] = l
              PROVE  Took(l)'
  BY DEF KeysAreKept
<1>1. l \in Logs /\ l \in Live /\ l >= floor' /\ l \notin orphaned'
  BY LiveShrinks DEF Live
<1>2. Took(l) => Took(l)'
  BY <1>1, TookStays
<1>3. FeedTypeOK /\ recorded \in Seq(Logs)
  BY DEF StagedInv, SourceInv, TypeOK, FeedTypeOK, QueueTypeOK
<1>4. ASSUME NEW c \in Logs, recorded' = Append(recorded, c), c # l PROVE Took(l)'
  <2>1. \E i \in DOMAIN recorded : recorded[i] = l
    BY <1>3, <1>4
  <2>. QED
    BY <1>1, <1>2, <2>1 DEF KeysAreKept
<1>5. ASSUME UNCHANGED recorded PROVE Took(l)'
  BY <1>1, <1>2, <1>5 DEF KeysAreKept
<1>6. ASSUME NEW f \in Feeds, RecordItem(f) PROVE Took(l)'
  <2>1. /\ item[f] \in Item /\ stage[f] = "record" /\ stage'[f] = "send" /\ item' = item
        /\ recorded' = Append(recorded, item[f].log) /\ orphaned' = orphaned
    BY <1>3, <1>6 DEF RecordItem, Record, FeedTypeOK
  <2>2. CASE item[f].log = l
    <3>1. item[f] = AsItem(l)
      BY <1>1, <2>1, <2>2, ItemCases DEF RetractedIsOrphaned
    <3>. QED
      BY <2>1, <3>1 DEF Took, Coming
  <2>3. CASE item[f].log # l
    BY <1>4, <2>1, <2>3, ItemCases
  <2>. QED
    BY <2>2, <2>3
<1>7. CASE ClaimNext
  <2>1. fetched \subseteq Logs /\ fetched # {}
    BY <1>7 DEF ClaimNext, StagedInv, SourceInv, TypeOK
  <2>2. Min(fetched) \in Logs
    BY <2>1, MinMember, LogsAssumption
  <2>3. \/ recorded' = Append(recorded, Min(fetched)) /\ Min(fetched) \in missed'
        \/ UNCHANGED recorded
    BY <1>7 DEF ClaimNext, Claim, Record, queueVars
  <2>4. CASE l = Min(fetched) /\ Min(fetched) \in missed'
    BY <2>4 DEF Took, Has
  <2>. QED
    BY <1>4, <1>5, <2>2, <2>3, <2>4
<1>8. CASE Outside /\ ~(\E f \in Feeds : RecordItem(f))
  <2>1. UNCHANGED recorded
    BY <1>8 DEF Outside, Mine, Reorg, Subscribe, Disconnect, Lagged, Receive,
                ReceiveRetraction, SkipDuplicate, SendItem, queueVars
  <2>. QED
    BY <1>5, <2>1
<1>9. CASE UNCHANGED vars \/ ((RpcAdvance \/ Source) /\ ~ClaimNext)
  <2>1. UNCHANGED recorded
    BY <1>9 DEF vars, Source, Bootstrap, UpdaterLoop, RpcAdvance, BootLatest, BootLatestFails,
                BootDrain, BootCatchUp, BootNothingToCatchUp, BootTakeGaps, BootFillGap,
                BootLeaveGap, BootGapFilled, BootApply, LoopDrain, LoopTakeGaps, LoopFillGap,
                LoopGapFilled, HandOn, NotSettled, Drain, TakeGaps, DropReceiver, LeaveGap,
                NoteAgain, queueVars
  <2>. QED
    BY <1>5, <2>1
<1>. QED
  BY <1>6, <1>7, <1>8, <1>9 DEF Next, Outside

----------------------------------------------------------------------------
(* Gaps. *)

LEMMA AppendParts ==
    ASSUME NEW T, NEW s \in Seq(T), NEW e \in T
    PROVE  ToSet(s) \subseteq ToSet(Append(s, e)) /\ e \in ToSet(Append(s, e))
<1>1. \A i \in DOMAIN s : i \in DOMAIN Append(s, e) /\ Append(s, e)[i] = s[i]
  OBVIOUS
<1>2. Len(s) + 1 \in DOMAIN Append(s, e) /\ Append(s, e)[Len(s) + 1] = e
  OBVIOUS
<1>. QED
  BY <1>1, <1>2 DEF ToSet

LEMMA TailParts ==
    ASSUME NEW T, NEW s \in Seq(T), s # <<>>, NEW e \in ToSet(s)
    PROVE  e = Head(s) \/ e \in ToSet(Tail(s))
<1>1. PICK i \in DOMAIN s : e = s[i]
  BY DEF ToSet
<1>2. CASE i = 1
  BY <1>1, <1>2
<1>3. CASE i # 1
  <2>1. i - 1 \in DOMAIN Tail(s) /\ Tail(s)[i - 1] = s[i]
    BY <1>1, <1>3
  <2>. QED
    BY <1>1, <2>1 DEF ToSet
<1>. QED
  BY <1>2, <1>3

\* A gap leaves the source's hands only when it is filled.
LEMMA InGapStays ==
    ASSUME FillReconnectGaps, StagedInv, [Next]_vars, ~BootGapFilled, ~LoopGapFilled,
           NEW l \in Logs, InGap(l)
    PROVE  InGap(l)'
<1>1. PICK gap \in ToSet(gaps) \cup ToSet(todo) : gap.after < l /\ l < gap.before
  BY DEF InGap
<1>2. SUFFICES gap \in ToSet(gaps') \cup ToSet(todo')
  BY <1>1 DEF InGap
<1>3. gaps \in Seq(Gap) /\ todo \in Seq(Gap)
  BY DEF StagedInv, SourceInv, TypeOK, FeedTypeOK, QueueTypeOK
<1>4. CASE BootTakeGaps \/ LoopTakeGaps
  <2>1. pc \in {"gaps0", "gaps"} /\ (IF gaps # <<>> THEN todo' = gaps ELSE todo' = <<>>)
    BY <1>4 DEF BootTakeGaps, LoopTakeGaps
  <2>2. todo = <<>>
    BY <2>1 DEF StagedInv, StageOK
  <2>3. todo' = gaps /\ ToSet(todo) = {}
    BY <2>1, <2>2 DEF ToSet
  <2>. QED
    BY <1>1, <2>3
<1>5. CASE BootLeaveGap
  <2>1. todo' = Tail(todo) /\ gaps' = Append(gaps, Head(todo)) /\ pc = "fill0"
    BY <1>5 DEF BootLeaveGap, LeaveGap, NoteAgain, NoteGap
  <2>2. todo # <<>> /\ Head(todo) \in Gap
    BY <2>1, TodoTail DEF StagedInv, SourceInv, ControlOK
  <2>3. ToSet(gaps) \subseteq ToSet(gaps') /\ Head(todo) \in ToSet(gaps')
    BY <1>3, <2>1, <2>2, AppendParts
  <2>4. gap \in ToSet(todo) => gap = Head(todo) \/ gap \in ToSet(todo')
    BY <1>3, <2>1, <2>2, TailParts
  <2>. QED
    BY <1>1, <2>3, <2>4
<1>6. ASSUME NEW f \in Feeds, Receive(f), UNCHANGED sourceVars
      PROVE  gap \in ToSet(gaps') \cup ToSet(todo')
  <2>1. PICK m \in Upcoming(f) :
          IF gap_open[f] THEN NoteGap(GapBefore(f, m)) ELSE UNCHANGED gaps
    BY <1>6 DEF Receive
  <2>2. GapBefore(f, m) \in Gap
    BY DEF Upcoming, GapBefore, Gap, StagedInv, SourceInv, TypeOK, FeedTypeOK
  <2>3. ToSet(gaps) \subseteq ToSet(gaps')
    BY <1>3, <2>1, <2>2, AppendParts DEF NoteGap
  <2>4. todo' = todo
    BY <1>6 DEF sourceVars, fillVars
  <2>. QED
    BY <1>1, <2>3, <2>4
<1>7. CASE Outside /\ ~(\E f \in Feeds : Receive(f))
  <2>1. UNCHANGED <<gaps, todo>>
    BY <1>7 DEF Outside, Mine, Reorg, Subscribe, Disconnect, Lagged, ReceiveRetraction,
                RecordItem, SkipDuplicate, SendItem, queueVars, sourceVars, fillVars
  <2>. QED
    BY <1>1, <2>1
<1>8. CASE \/ UNCHANGED vars \/ RpcAdvance \/ BootLatest \/ BootLatestFails \/ BootDrain
           \/ BootCatchUp \/ BootNothingToCatchUp \/ BootFillGap \/ BootApply \/ LoopDrain
           \/ LoopFillGap \/ HandOn \/ NotSettled \/ ClaimNext
  <2>1. UNCHANGED <<gaps, todo>>
    BY <1>8 DEF vars, queueVars, sourceVars, fillVars, RpcAdvance, BootLatest, BootLatestFails,
                BootDrain, BootCatchUp, BootNothingToCatchUp, BootFillGap, BootApply,
                LoopDrain, LoopFillGap, HandOn, NotSettled, ClaimNext, Drain, DropReceiver,
                Claim
  <2>. QED
    BY <1>1, <2>1
<1>. QED
  BY <1>4, <1>5, <1>6, <1>7, <1>8 DEF Next, Outside, Source, Bootstrap, UpdaterLoop

\* A log in hand stays there until its key is entered or found.
LEMMA AtHandStays ==
    ASSUME FeedTypeOK, [FeedNext]_feedSpecVars, NEW f \in Feeds, NEW l \in Logs, AtHand(f, l),
           ~RecordItem(f), ~SkipDuplicate(f)
    PROVE  AtHand(f, l)'
<1>1. CASE Mine \/ \E m \in Logs : Reorg(m)
  BY <1>1 DEF Mine, Reorg, AtHand
<1>2. ASSUME NEW g \in Feeds, FeedStep(g), g # f PROVE AtHand(f, l)'
  <2>1. stage'[f] = stage[f] /\ item'[f] = item[f]
    <3>1. CASE Subscribe(g) \/ Disconnect(g) \/ Lagged(g)
      BY <3>1 DEF Subscribe, Disconnect, Lagged
    <3>2. CASE Receive(g) \/ ReceiveRetraction(g)
      BY <1>2, <3>2 DEF Receive, ReceiveRetraction, FeedTypeOK
    <3>3. CASE RecordItem(g) \/ SkipDuplicate(g) \/ SendItem(g)
      BY <1>2, <3>3 DEF RecordItem, SkipDuplicate, SendItem, FeedTypeOK
    <3>. QED
      BY <1>2, <3>1, <3>2, <3>3 DEF FeedStep
  <2>. QED
    BY <2>1 DEF AtHand
<1>3. CASE FeedStep(f)
  BY <1>3 DEF FeedStep, Subscribe, Disconnect, Lagged, Receive, ReceiveRetraction,
              SendItem, AtHand
<1>4. CASE Consumer \/ UNCHANGED feedSpecVars
  BY <1>4 DEF Consumer, Drain, TakeGaps, DropReceiver, Claim, NoteAgain, feedSpecVars,
              feedVars, AtHand
<1>. QED
  BY <1>1, <1>2, <1>3, <1>4 DEF FeedNext, Environment

\* Logs to claim are claimed one by one, or left to a feed that has the key.
LEMMA FetchedStays ==
    ASSUME StagedInv, DedupInv, KeysAreKept, [Next]_vars, pc' # "failed",
           NEW l \in Live', l \in fetched
    PROVE  l \in fetched' \/ Took(l)'
<1>1. l \in Logs /\ l >= floor' /\ l \in Live
  BY LiveShrinks DEF Live
<1>2. CASE ClaimNext
  <2>1. fetched' = fetched \ {Min(fetched)}
    BY <1>2 DEF ClaimNext
  <2>2. CASE l = Min(fetched)
    <3>1. Duplicate(l) \/ l \in missed'
      BY <1>2, <2>2 DEF ClaimNext
    <3>2. CASE l \in missed'
      BY <3>2 DEF Took, Has
    <3>3. CASE Duplicate(l)
      <4>1. \E i \in DOMAIN recorded : recorded[i] = l
        BY <1>1, <3>3, WindowRecorded DEF DedupInv
      <4>. QED
        BY <1>1, <4>1, TookStays DEF KeysAreKept
    <3>. QED
      BY <3>1, <3>2, <3>3
  <2>. QED
    BY <2>1, <2>2
<1>3. CASE ~ClaimNext /\ ~BootFillGap /\ ~LoopFillGap
  <2>1. fetched' = fetched
    BY <1>3 DEF Next, Outside, Source, Bootstrap, UpdaterLoop, vars, sourceVars, fillVars,
                RpcAdvance, BootLatest, BootLatestFails, BootDrain, BootCatchUp,
                BootNothingToCatchUp, BootTakeGaps, BootLeaveGap, BootGapFilled, BootApply,
                LoopDrain, LoopTakeGaps, LoopGapFilled, HandOn, NotSettled
  <2>. QED
    BY <2>1
<1>4. CASE BootFillGap \/ LoopFillGap
  BY <1>4 DEF BootFillGap, LoopFillGap, StagedInv, StageOK
<1>. QED
  BY <1>2, <1>3, <1>4

\* What a listener passes over it notes as a gap, or a reorg took it.
LEMMA ReceivePasses ==
    ASSUME FeedTypeOK, NoSilentLoss, NEW f \in Feeds, Receive(f),
           NEW l \in Logs \ orphaned, l <= last_forwarded'[f], ~(l <= last_forwarded[f])
    PROVE  AtHand(f, l)' \/ \E gap \in ToSet(gaps') : gap.after < l /\ l < gap.before
<1>1. PICK m \in Upcoming(f) :
        /\ \A k \in Upcoming(f) : m <= k
        /\ IF gap_open[f] THEN NoteGap(GapBefore(f, m)) ELSE UNCHANGED gaps
        /\ last_forwarded' = AdvanceForwarded(f, m)
        /\ item' = [item EXCEPT ![f] = [log |-> m, removed |-> FALSE]]
  BY DEF Receive
<1>2. /\ m \in Logs /\ Block(m) <= head /\ head \in Nat
      /\ m \in Nat /\ l \in Nat /\ Block(m) \in Nat /\ Block(l) \in Nat
      /\ last_forwarded[f] \in Nat /\ next[f] \in Nat
  <2>1. \A k \in Logs : k \in Nat /\ Block(k) \in Nat
    BY LogsAssumption, BlockAssumption
  <2>2. m \in Logs /\ Block(m) <= head
    BY DEF Upcoming
  <2>3. last_forwarded[f] \in Logs \cup {0} /\ next[f] \in Nat /\ head \in Nat
    BY FeedAssumption DEF FeedTypeOK, NoPosition
  <2>. QED
    BY <2>1, <2>2, <2>3
<1>3. last_forwarded[f] < l /\ l <= m
  <2>1. last_forwarded'[f] = IF last_forwarded[f] < m THEN m ELSE last_forwarded[f]
    BY <1>1 DEF AdvanceForwarded, FeedTypeOK
  <2>. QED
    BY <1>2, <2>1
<1>4. CASE l = m
  <2>1. stage'[f] = "record" /\ item'[f] = AsItem(l)
    BY <1>1, <1>4 DEF Receive, FeedTypeOK, AsItem
  <2>. QED
    BY <2>1 DEF AtHand
<1>5. CASE l < m /\ gap_open[f]
  <2>1. gaps' = Append(gaps, GapBefore(f, m)) /\ gaps \in Seq(Gap)
    BY <1>1, <1>5 DEF NoteGap, FeedTypeOK, QueueTypeOK
  <2>2. GapBefore(f, m) \in Gap /\ GapBefore(f, m).after = last_forwarded[f]
        /\ GapBefore(f, m).before = m
    BY <1>2 DEF GapBefore, Gap, FeedTypeOK
  <2>3. GapBefore(f, m) \in ToSet(gaps')
    BY <2>1, <2>2, AppendParts
  <2>. QED
    BY <1>3, <1>5, <2>2, <2>3
<1>6. CASE l < m /\ ~gap_open[f]
  <2>1. CASE l < next[f]
    BY <1>6, <2>1 DEF NoSilentLoss, Receive
  <2>2. CASE l >= next[f]
    <3>1. Block(l) <= head
      BY <1>2, <1>6, BlockAssumption
    <3>2. l \in Upcoming(f)
      BY <2>2, <3>1 DEF Upcoming
    <3>. QED
      BY <1>1, <1>2, <1>6, <3>2
  <2>. QED
    BY <1>2, <2>1, <2>2
<1>. QED
  BY <1>2, <1>3, <1>4, <1>5, <1>6

LEMMA PassedNext ==
    ASSUME FillReconnectGaps, StagedInv, DedupInv, GapInv, KeptInv, [Next]_vars, pc' # "failed"
    PROVE  PassedIsKept'
<1>. SUFFICES ASSUME NEW l \in Live', NEW f \in Feeds, l <= last_forwarded'[f]
              PROVE  Took(l)' \/ l \in fetched' \/ InGap(l)' \/ AtHand(f, l)'
  BY DEF PassedIsKept
<1>1. l \in Logs /\ l \in Live /\ l >= floor' /\ l \notin orphaned
  BY LiveShrinks DEF Live
<1>2. FeedTypeOK /\ [FeedNext]_feedSpecVars
  BY NextIsFeedNext DEF StagedInv, SourceInv, TypeOK
<1>3. CASE l <= last_forwarded[f]
  <2>1. Took(l) \/ l \in fetched \/ InGap(l) \/ AtHand(f, l)
    BY <1>1, <1>3 DEF KeptInv, PassedIsKept
  <2>2. CASE Took(l)
    BY <1>1, <2>2, TookStays
  <2>3. CASE l \in fetched
    BY <2>3, FetchedStays DEF KeptInv
  <2>4. CASE InGap(l)
    <3>1. CASE BootGapFilled \/ LoopGapFilled
      <4>1. fetched = {} /\ todo' = Tail(todo) /\ gaps' = gaps /\ pc \in {"claim0", "claim"}
        BY <3>1 DEF BootGapFilled, LoopGapFilled, queueVars
      <4>2. todo \in Seq(Gap) /\ todo # <<>>
        BY <4>1 DEF StagedInv, SourceInv, TypeOK, ControlOK
      <4>3. PICK gap \in ToSet(gaps) \cup ToSet(todo) : gap.after < l /\ l < gap.before
        BY <2>4 DEF InGap
      <4>4. CASE gap = Head(todo)
        <5>1. Took(l)
          BY <1>1, <4>1, <4>3, <4>4 DEF KeptInv, FillIsKept
        <5>. QED
          BY <1>1, <5>1, TookStays
      <4>5. CASE gap # Head(todo)
        <5>1. gap \in ToSet(gaps') \cup ToSet(todo')
          BY <4>1, <4>2, <4>3, <4>5, TailParts
        <5>. QED
          BY <4>3, <5>1 DEF InGap
      <4>. QED
        BY <4>4, <4>5
    <3>2. CASE ~BootGapFilled /\ ~LoopGapFilled
      BY <1>1, <2>4, <3>2, InGapStays
    <3>. QED
      BY <3>1, <3>2
  <2>5. CASE AtHand(f, l)
    <3>1. CASE RecordItem(f)
      <4>1. stage'[f] = "send" /\ item'[f] = AsItem(l)
        BY <1>2, <2>5, <3>1 DEF RecordItem, AtHand, FeedTypeOK
      <4>. QED
        BY <4>1 DEF Took, Coming
    <3>2. CASE SkipDuplicate(f)
      <4>1. Duplicate(l)
        BY <2>5, <3>2 DEF SkipDuplicate, AtHand, AsItem
      <4>2. \E i \in DOMAIN recorded : recorded[i] = l
        BY <1>1, <1>2, <4>1, WindowRecorded DEF DedupInv
      <4>. QED
        BY <1>1, <4>2, TookStays DEF KeptInv, KeysAreKept
    <3>3. CASE ~RecordItem(f) /\ ~SkipDuplicate(f)
      BY <1>1, <1>2, <2>5, <3>3, AtHandStays
    <3>. QED
      BY <3>1, <3>2, <3>3
  <2>. QED
    BY <2>1, <2>2, <2>3, <2>4, <2>5
<1>4. CASE ~(l <= last_forwarded[f])
  <2>1. Receive(f)
    <3>1. ASSUME NEW g \in Feeds, FeedStep(g), ~Receive(f)
          PROVE  last_forwarded'[f] = last_forwarded[f]
      <4>1. CASE Receive(g)
        <5>1. g # f
          BY <3>1, <4>1
        <5>2. \E m \in Upcoming(g) : last_forwarded' = AdvanceForwarded(g, m)
          BY <4>1 DEF Receive
        <5>. QED
          BY <1>2, <5>1, <5>2 DEF AdvanceForwarded, FeedTypeOK
      <4>2. CASE ~Receive(g)
        BY <3>1, <4>2 DEF FeedStep, Subscribe, Disconnect, Lagged, ReceiveRetraction,
                          RecordItem, SkipDuplicate, SendItem
      <4>. QED
        BY <4>1, <4>2
    <3>2. CASE Mine \/ \E m \in Logs : Reorg(m)
      BY <1>4, <3>2 DEF Mine, Reorg
    <3>3. CASE Consumer \/ UNCHANGED feedSpecVars
      BY <1>4, <3>3 DEF Consumer, Drain, TakeGaps, DropReceiver, Claim, NoteAgain,
                        feedSpecVars, feedVars
    <3>. QED
      BY <1>2, <1>4, <3>1, <3>2, <3>3 DEF FeedNext, Environment
  <2>2. AtHand(f, l)' \/ \E gap \in ToSet(gaps') : gap.after < l /\ l < gap.before
    BY <1>1, <1>2, <1>4, <2>1, ReceivePasses DEF GapInv
  <2>. QED
    BY <2>2 DEF InGap
<1>. QED
  BY <1>3, <1>4

\* A fill fetches every live log of its gap.
LEMMA FetchGapTakes ==
    ASSUME SourceInv, BootFillGap \/ LoopFillGap, NEW l \in Live,
           Head(todo).after < l, l < Head(todo).before
    PROVE  l \in fetched'
<1>. DEFINE gap == Head(todo)
<1>1. pc \in {"fill0", "fill"}
  BY DEF BootFillGap, LoopFillGap
<1>2. gap \in Gap /\ floor \in Floors
  BY <1>1, TodoTail DEF SourceInv, ControlOK
<1>3. fetched' = IF NothingIn(gap) THEN {} ELSE GapLogs(gap)
  BY DEF BootFillGap, LoopFillGap, FetchGap
<1>. HIDE DEF gap
<1>4. gap.after < l /\ l < gap.before
  BY DEF gap
<1>5. /\ gap.after \in Logs \cup {NoPosition} /\ gap.before \in Logs
      /\ gap.after \in Nat /\ gap.before \in Nat /\ l \in Nat /\ floor \in Nat
      /\ Block(l) \in Nat /\ l \in Logs \ orphaned /\ l >= floor
  <2>1. gap.after \in Logs \cup {NoPosition} /\ gap.before \in Logs
    BY <1>2 DEF Gap
  <2>2. NoPosition \in Nat /\ \A m \in Logs : m \in Nat /\ Block(m) \in Nat
    BY LogsAssumption, BlockAssumption DEF NoPosition
  <2>3. l \in Logs \ orphaned /\ l >= floor
    BY DEF Live
  <2>. QED
    BY <1>2, <2>1, <2>2, <2>3, FloorType
<1>6. ~NothingIn(gap)
  BY <1>4, <1>5 DEF NothingIn
<1>7. Block(l) <= Block(gap.before)
  BY <1>4, <1>5, BlockAssumption
<1>8. Block(Max({gap.after, floor})) <= Block(l)
  <2>1. Max({gap.after, floor}) \in {gap.after, floor} /\ Max({gap.after, floor}) >= floor
    BY <1>5, MaxOfTwo
  <2>2. CASE Max({gap.after, floor}) = floor
    <3>1. Block(floor) <= Block(l)
      BY <1>2, <1>5, FromFloor, FloorType
    <3>. QED
      BY <2>2, <3>1
  <2>3. CASE Max({gap.after, floor}) = gap.after /\ gap.after # floor
    <3>1. gap.after \in Logs
      BY <1>5, <2>1, <2>3 DEF NoPosition
    <3>2. Block(gap.after) <= Block(l)
      BY <1>4, <1>5, <3>1, BlockAssumption
    <3>. QED
      BY <2>3, <3>2
  <2>. QED
    BY <2>1, <2>2, <2>3
<1>. QED
  BY <1>3, <1>4, <1>5, <1>6, <1>7, <1>8 DEF GapLogs, LogsIn

LEMMA FillNext ==
    ASSUME StagedInv, DedupInv, KeptInv, [Next]_vars, pc' # "failed"
    PROVE  FillIsKept'
<1>. SUFFICES ASSUME pc' \in {"claim0", "claim"}, NEW l \in Live',
                     Head(todo').after < l, l < Head(todo').before
              PROVE  Took(l)' \/ l \in fetched'
  BY DEF FillIsKept
<1>1. l \in Logs /\ l \in Live /\ l >= floor'
  BY LiveShrinks DEF Live
<1>2. CASE BootFillGap \/ LoopFillGap
  <2>1. todo' = todo
    BY <1>2 DEF BootFillGap, LoopFillGap
  <2>. QED
    BY <1>1, <1>2, <2>1, FetchGapTakes DEF StagedInv
<1>3. CASE ~BootFillGap /\ ~LoopFillGap
  <2>1. pc' = pc /\ todo' = todo
    <3>1. CASE Outside \/ UNCHANGED vars \/ RpcAdvance \/ ClaimNext
      BY <3>1 DEF Outside, vars, sourceVars, fillVars, RpcAdvance, ClaimNext
    <3>2. CASE Bootstrap \/ UpdaterLoop
      BY <1>3, <3>2 DEF Bootstrap, UpdaterLoop, BootLatest, BootLatestFails, BootDrain,
                BootCatchUp, BootNothingToCatchUp, BootTakeGaps, BootLeaveGap, BootGapFilled,
                BootApply, LoopDrain, LoopTakeGaps, LoopGapFilled, HandOn, NotSettled
    <3>. QED
      BY <3>1, <3>2 DEF Next, Source
  <2>2. Took(l) \/ l \in fetched
    BY <1>1, <2>1 DEF KeptInv, FillIsKept
  <2>3. CASE Took(l)
    BY <1>1, <2>3, TookStays
  <2>4. CASE l \in fetched
    BY <2>4, FetchedStays DEF KeptInv
  <2>. QED
    BY <2>2, <2>3, <2>4
<1>. QED
  BY <1>2, <1>3

----------------------------------------------------------------------------
(* The catch-up. *)

\* A batch applies every live log of its blocks that precedes the floor: the RPC
\* node answers in full for blocks it has passed.
LEMMA CatchUpCaughtUp ==
    ASSUME ~BootRpcLag, StagedInv, CaughtUp, BootCatchUp
    PROVE  CaughtUp'
<1>1. /\ pc = "catchup" /\ batch_start <= Block(floor)
      /\ events = <<>> \/ rpcHead > Block(floor)
      /\ UNCHANGED <<orphaned, rpcHead, floor, events, latest>>
  BY DEF BootCatchUp, feedVars
<1>. DEFINE end == Min({batch_start + Max({MaxBlocksPerBatch, 1}) - 1, Block(floor)})
<1>2. PICK answer \in RpcAnswers(batch_start, end) :
        LET before == {l \in answer : l < floor}
        IN  /\ Apply(before, [l \in Logs |-> 1])
            /\ IF before # answer \/ end = Block(floor)
               THEN pc' = "gaps0" /\ batch_start' = 0
               ELSE pc' = pc /\ batch_start' = FollowingBatch(end)
  BY DEF BootCatchUp
<1>. DEFINE before == {l \in answer : l < floor}
<1>3. /\ applied \in [Logs -> Nat] /\ batch_start \in Nat /\ floor \in Nat /\ floor \in Floors
      /\ Block(floor) \in Nat /\ rpcHead \in Nat
      /\ \A l \in Logs : l \in Nat /\ Block(l) \in Nat
  <2>1. floor \in Floors
    BY <1>1 DEF StagedInv, SourceInv, ControlOK
  <2>. QED
    BY <2>1, FloorType, LogsAssumption, BlockAssumption, FeedAssumption
       DEF StagedInv, SourceInv, TypeOK, FeedTypeOK
<1>4. end \in Nat /\ end >= batch_start /\ end <= Block(floor)
  <2>1. Max({MaxBlocksPerBatch, 1}) \in Nat /\ Max({MaxBlocksPerBatch, 1}) >= 1
    BY MaxOfTwo, SourceAssumption
  <2>. DEFINE far == batch_start + Max({MaxBlocksPerBatch, 1}) - 1
  <2>2. far \in Nat /\ far >= batch_start
    BY <1>3, <2>1
  <2>3. end \in {far, Block(floor)} /\ \A y \in {far, Block(floor)} : end <= y
    <3>1. {far, Block(floor)} \subseteq Nat /\ {far, Block(floor)} # {}
      BY <1>3, <2>2
    <3>. HIDE DEF far
    <3>. QED
      BY <3>1, MinMember DEF far
  <2>. QED
    BY <1>1, <1>3, <2>2, <2>3
<1>. HIDE DEF end
<1>5. \A l \in answer : l \in Logs /\ Block(l) <= end
  <2>. DEFINE last == Min({end, rpcHead})
  <2>1. last \in Nat /\ last <= end
    <3>1. {end, rpcHead} \subseteq Nat /\ {end, rpcHead} # {}
      BY <1>3, <1>4
    <3>2. last \in {end, rpcHead} /\ \A y \in {end, rpcHead} : last <= y
      BY <3>1, MinMember
    <3>. QED
      BY <3>1, <3>2
  <2>2. answer \subseteq LogsIn(batch_start, last)
    BY DEF RpcAnswers
  <2>3. \A l \in answer : l \in Logs /\ Block(l) <= last
    BY <2>2 DEF LogsIn
  <2>. HIDE DEF last
  <2>4. ASSUME NEW l \in answer PROVE l \in Logs /\ Block(l) <= end
    <3>1. l \in Logs /\ Block(l) <= last
      BY <2>3
    <3>2. Block(l) \in Nat
      BY <1>3, <3>1
    <3>. QED
      BY <1>4, <2>1, <3>1, <3>2
  <2>. QED
    BY <2>4
<1>6. ASSUME NEW l \in Logs \ orphaned, l < floor, batch_start <= Block(l), Block(l) <= end
      PROVE  l \in before
  <2>1. Block(l) < rpcHead /\ Block(l) \in Nat
    <3>1. Block(l) \in Nat /\ Block(l) <= Block(floor)
      BY <1>3, <1>6, BeforeFloor
    <3>2. CASE rpcHead > Block(floor)
      BY <1>3, <3>1, <3>2
    <3>3. CASE events = <<>>
      <4>1. Block(floor) <= rpcHead /\ floor = BlockStart(Block(floor))
        BY <1>1, <3>3 DEF CaughtUp
      <4>2. Block(floor) \in 0..(MaxBlock + 1)
        BY <1>1, <1>3, <4>1, FeedAssumption DEF StagedInv, SourceInv, TypeOK, FeedTypeOK
      <4>3. floor <= l <=> Block(floor) <= Block(l)
        BY <4>1, <4>2, BlockStartAssumption
      <4>. QED
        BY <1>3, <1>6, <3>1, <4>1, <4>3
    <3>. QED
      BY <1>1, <3>2, <3>3
  <2>. DEFINE full == Min({end, rpcHead - 1})
  <2>2. full \in {end, rpcHead - 1}
    <3>1. rpcHead - 1 \in Nat
      BY <1>3, <2>1
    <3>. QED
      BY <1>4, <3>1, MinOfTwo
  <2>3. Block(l) <= full
    BY <1>3, <1>4, <1>6, <2>1, <2>2
  <2>4. LogsIn(batch_start, full) \subseteq answer
    BY DEF RpcAnswers
  <2>5. l \in LogsIn(batch_start, full)
    <3>. HIDE DEF full
    <3>. QED
      BY <1>6, <2>3 DEF LogsIn
  <2>. QED
    BY <1>6, <2>4, <2>5
<1>7. \A l \in Logs : applied[l] > 0 \/ l \in before => applied'[l] > 0
  <2>1. applied' = [l \in Logs |-> applied[l] + IF l \in before THEN [m \in Logs |-> 1][l] ELSE 0]
    BY <1>2 DEF Apply
  <2>. HIDE DEF before
  <2>. QED
    BY <1>3, <2>1
<1>8. ASSUME NEW l \in Logs \ orphaned, l < floor, Block(l) <= end PROVE applied'[l] > 0
  <2>1. CASE Block(l) < batch_start
    BY <1>1, <1>7, <1>8, <2>1 DEF CaughtUp
  <2>2. CASE batch_start <= Block(l)
    BY <1>6, <1>7, <1>8, <2>2
  <2>. QED
    BY <1>3, <2>1, <2>2
<1>9. \/ pc' = "gaps0" /\ end = Block(floor)
      \/ pc' = "catchup" /\ batch_start' = end + 1
  <2>1. CASE before # answer
    <3>1. PICK m \in answer : ~(m < floor)
      BY <2>1
    <3>2. m \in Logs /\ Block(m) <= end /\ m >= floor
      BY <1>3, <1>5, <3>1
    <3>3. Block(m) >= Block(floor)
      BY <1>3, <3>2, FromFloor
    <3>4. end = Block(floor)
      BY <1>3, <1>4, <3>2, <3>3
    <3>5. pc' = "gaps0"
      BY <1>2, <2>1
    <3>. QED
      BY <3>4, <3>5
  <2>2. CASE before = answer
    BY <1>1, <1>2, <2>2 DEF FollowingBatch
  <2>. QED
    BY <2>1, <2>2
<1>10. ASSUME NEW l \in Logs \ orphaned, l < floor, pc' = "catchup" => Block(l) < batch_start'
       PROVE  applied'[l] > 0
  <2>1. Block(l) \in Nat /\ Block(l) <= Block(floor)
    BY <1>3, <1>10, BeforeFloor
  <2>2. Block(l) <= end
    BY <1>3, <1>4, <1>9, <1>10, <2>1
  <2>. QED
    BY <1>8, <1>10, <2>2
<1>. QED
  BY <1>1, <1>9, <1>10 DEF CaughtUp, Undrained

LEMMA CaughtUpNext ==
    ASSUME ~BootRpcLag, StagedInv, CaughtUp, [Next]_vars, pc' # "failed"
    PROVE  CaughtUp'
<1>. USE DEF Undrained
<1>0. /\ orphaned \subseteq orphaned' /\ rpcHead \in Nat /\ rpcHead' \in Nat /\ rpcHead <= rpcHead'
      /\ applied \in [Logs -> Nat]
  <2>1. orphaned \subseteq orphaned'
    <3>1. [FeedNext]_feedSpecVars
      BY NextIsFeedNext DEF StagedInv
    <3>2. CASE Environment
      BY <3>2 DEF Environment, Mine, Reorg, FeedStep, Subscribe, Disconnect, Lagged, Receive,
                  ReceiveRetraction, RecordItem, SkipDuplicate, SendItem
    <3>3. CASE Consumer
      BY <3>3 DEF Consumer, Drain, TakeGaps, DropReceiver, Claim, NoteAgain, feedVars
    <3>. QED
      BY <3>1, <3>2, <3>3 DEF FeedNext, feedSpecVars, feedVars
  <2>2. rpcHead' = rpcHead \/ rpcHead' = rpcHead + 1
    BY DEF Next, Outside, Source, Bootstrap, UpdaterLoop, vars, sourceVars, RpcAdvance,
           BootLatest, BootLatestFails, BootDrain, BootCatchUp, BootNothingToCatchUp,
           BootTakeGaps, BootFillGap, BootLeaveGap, BootGapFilled, BootApply, LoopDrain,
           LoopTakeGaps, LoopFillGap, LoopGapFilled, HandOn, NotSettled, ClaimNext
  <2>3. rpcHead \in Nat /\ applied \in [Logs -> Nat]
    BY FeedAssumption DEF StagedInv, SourceInv, TypeOK, FeedTypeOK
  <2>. QED
    BY <2>1, <2>2, <2>3
<1>1. ASSUME UNCHANGED <<floor, applied, pc, batch_start, latest, events>> PROVE CaughtUp'
  <2>1. pc = "drain0" => latest \in Nat
    BY DEF StagedInv, SourceInv, TypeOK
  <2>2. pc = "catchup" => Block(floor) \in Nat
    BY FloorType DEF StagedInv, SourceInv, ControlOK
  <2>. QED
    BY <1>0, <1>1, <2>1, <2>2 DEF CaughtUp
<1>2. ASSUME UNCHANGED floor, pc' \notin Undrained \cup {"catchup"},
             pc \notin Undrained \cup {"catchup"},
             \A l \in Logs : applied[l] > 0 => applied'[l] > 0
      PROVE  CaughtUp'
  BY <1>0, <1>2 DEF CaughtUp
<1>3. CASE Outside \/ UNCHANGED vars \/ RpcAdvance
  <2>1. UNCHANGED <<floor, applied, pc, batch_start, latest, events>>
    BY <1>3 DEF Outside, vars, RpcAdvance, sourceVars, bootVars, poolVars
  <2>. QED
    BY <1>1, <2>1
<1>4. CASE BootLatest
  <2>1. /\ UNCHANGED <<floor, applied, rpcHead, orphaned>> /\ latest' = rpcHead
        /\ pc = "latest" /\ pc' = "drain0"
    BY <1>4 DEF BootLatest, poolVars, feedVars
  <2>. QED
    BY <1>0, <2>1 DEF CaughtUp
<1>5. CASE BootDrain
  <2>1. /\ UNCHANGED <<applied, rpcHead, orphaned>> /\ pc = "drain0" /\ pc' = "catchup"
        /\ events' = channel /\ batch_start' = StartBlock + 1
        /\ channel = <<>> => floor' = BlockStart(latest)
    BY <1>5 DEF BootDrain, Drain, poolVars, feedVars, StagedInv, StageOK, BootPcs
  <2>2. \A l \in Logs : Block(l) < StartBlock + 1 => applied[l] > 0
    <3>1. \A l \in Logs : Block(l) \in Nat
      BY BlockAssumption
    <3>. QED
      BY <2>1, <3>1, FeedAssumption DEF CaughtUp
  <2>3. channel = <<>> => Block(floor') <= rpcHead /\ floor' = BlockStart(Block(floor'))
    <3>1. latest \in 0..(MaxBlock + 1) /\ latest <= rpcHead
      BY <2>1, FeedAssumption DEF CaughtUp, StagedInv, SourceInv, TypeOK, ControlOK
    <3>2. Block(BlockStart(latest)) = latest
      BY <3>1, BlockStartAssumption
    <3>. QED
      BY <2>1, <3>1, <3>2
  <2>. QED
    BY <2>1, <2>2, <2>3 DEF CaughtUp
<1>6. CASE BootCatchUp
  BY <1>6, CatchUpCaughtUp
<1>7. CASE BootNothingToCatchUp
  <2>1. /\ UNCHANGED <<floor, applied, orphaned>> /\ pc = "catchup" /\ pc' = "gaps0"
        /\ batch_start > Block(floor)
    BY <1>7 DEF BootNothingToCatchUp, poolVars, feedVars
  <2>2. floor \in Floors /\ Block(floor) \in Nat /\ batch_start \in Nat
    BY <2>1, FloorType DEF StagedInv, SourceInv, ControlOK, TypeOK
  <2>3. \A l \in Logs : l < floor => Block(l) < batch_start
    <3>1. \A l \in Logs : Block(l) \in Nat
      BY BlockAssumption
    <3>2. \A l \in Logs : l < floor => Block(l) <= Block(floor)
      BY <2>2, BeforeFloor
    <3>. QED
      BY <2>1, <2>2, <3>1, <3>2
  <2>. QED
    BY <2>1, <2>3 DEF CaughtUp
<1>8. CASE \/ BootTakeGaps \/ BootFillGap \/ BootLeaveGap \/ BootGapFilled \/ LoopDrain
           \/ LoopTakeGaps \/ LoopFillGap \/ LoopGapFilled \/ NotSettled \/ ClaimNext
  <2>1. UNCHANGED <<floor, applied>>
    BY <1>8 DEF BootTakeGaps, BootFillGap, BootLeaveGap, BootGapFilled, LoopDrain,
                LoopTakeGaps, LoopFillGap, LoopGapFilled, NotSettled, ClaimNext, poolVars
  <2>2. pc' \notin Undrained \cup {"catchup"} /\ pc \notin Undrained \cup {"catchup"}
    BY <1>8 DEF BootTakeGaps, BootFillGap, BootLeaveGap, BootGapFilled, LoopDrain,
                LoopTakeGaps, LoopFillGap, LoopGapFilled, NotSettled, ClaimNext
  <2>. QED
    BY <1>2, <2>1, <2>2
<1>9. CASE BootApply
  <2>1. /\ UNCHANGED floor /\ pc = "apply0" /\ pc' = "drain"
        /\ applied' = [l \in Logs |-> applied[l] + Count(events, l) + refetched[l]]
    BY <1>9 DEF BootApply
  <2>2. \A l \in Logs : Count(events, l) \in Nat /\ refetched[l] \in Nat
    BY KeyTypes DEF StagedInv
  <2>3. \A l \in Logs : applied[l] > 0 => applied'[l] > 0
    BY <1>0, <2>1, <2>2
  <2>. QED
    BY <1>2, <2>1, <2>3
<1>10. CASE HandOn
  <2>1. /\ UNCHANGED floor /\ pc = "ready" /\ pc' = "drain"
        /\ applied' = [l \in Logs |-> applied[l] + IF l \in ReadyLogs THEN pending[l] ELSE 0]
    BY <1>10 DEF HandOn, Apply
  <2>2. \A l \in Logs : pending[l] \in Nat
    BY KeyTypes DEF StagedInv
  <2>3. \A l \in Logs : applied[l] > 0 => applied'[l] > 0
    BY <1>0, <2>1, <2>2
  <2>. QED
    BY <1>2, <2>1, <2>3
<1>. QED
  BY <1>3, <1>4, <1>5, <1>6, <1>7, <1>8, <1>9, <1>10
     DEF Next, Source, Bootstrap, UpdaterLoop, BootLatestFails

----------------------------------------------------------------------------

LEMMA LossInit == Init => LossInv
<1>. SUFFICES ASSUME Init PROVE LossInv
  OBVIOUS
<1>1. StagedInv
  BY StagedInit
<1>2. FeedInit /\ FeedTypeOK
  BY FeedInitType DEF Init
<1>3. DedupInv
  <2>1. event_order = <<>> /\ recorded = <<>>
    BY <1>2 DEF FeedInit, QueueInit
  <2>2. WindowIsSuffix
    BY <2>1, QueueAssumption DEF WindowIsSuffix
  <2>3. DedupWindow
    BY <2>1 DEF DedupWindow
  <2>. QED
    BY <1>2, <2>2, <2>3 DEF DedupInv
<1>4. GapInv
  <2>1. GapsCoverLosses
    BY <1>2, LogsAssumption DEF FeedInit, GapsCoverLosses, NoPosition
  <2>2. NoSilentLoss
    BY <1>2 DEF FeedInit, NoSilentLoss
  <2>. QED
    BY <1>2, <2>1, <2>2 DEF GapInv
<1>5. RetractedIsOrphaned /\ KeysAreKept
  BY <1>2 DEF FeedInit, QueueInit, RetractedIsOrphaned, KeysAreKept
<1>6. PassedIsKept
  <2>1. \A l \in Logs : ~(l <= NoPosition)
    BY LogsAssumption DEF NoPosition
  <2>. QED
    BY <1>2, <2>1 DEF FeedInit, PassedIsKept, Live
<1>7. FillIsKept /\ CaughtUp
  <2>1. \A l \in Logs : ~(l < NoPosition)
    BY LogsAssumption DEF NoPosition
  <2>. QED
    BY <2>1 DEF Init, FillIsKept, CaughtUp, Undrained
<1>. QED
  BY <1>1, <1>3, <1>4, <1>5, <1>6, <1>7 DEF LossInv, KeptInv

LEMMA LossNext ==
    ASSUME FillReconnectGaps, ~BootRpcLag, LossInv, [Next]_vars
    PROVE  LossInv'
<1>1. StagedInv'
  BY StagedNext DEF LossInv
<1>2. [FeedNext]_feedSpecVars
  BY NextIsFeedNext DEF LossInv, StagedInv
<1>3. DedupInv' /\ GapInv'
  BY <1>2, DedupNext, GapNext DEF LossInv
<1>4. ASSUME pc' # "failed" PROVE KeptInv'
  <2>1. pc # "failed"
    BY <1>4 DEF Next, Outside, Source, Bootstrap, UpdaterLoop, vars, sourceVars, RpcAdvance,
           BootLatest, BootLatestFails, BootDrain, BootCatchUp, BootNothingToCatchUp,
           BootTakeGaps, BootFillGap, BootLeaveGap, BootGapFilled, BootApply, LoopDrain,
           LoopTakeGaps, LoopFillGap, LoopGapFilled, HandOn, NotSettled, ClaimNext
  <2>2. StagedInv /\ DedupInv /\ GapInv /\ KeptInv /\ FeedTypeOK
    BY <2>1 DEF LossInv, StagedInv, SourceInv, TypeOK
  <2>3. RetractedIsOrphaned'
    BY <1>2, <2>2, RetractedNext DEF KeptInv
  <2>4. KeysAreKept'
    BY <1>4, <2>2, KeysKeptNext DEF KeptInv
  <2>5. PassedIsKept'
    BY <1>4, <2>2, PassedNext
  <2>6. FillIsKept'
    BY <1>4, <2>2, FillNext
  <2>7. CaughtUp'
    BY <1>4, <2>2, CaughtUpNext DEF KeptInv
  <2>. QED
    BY <2>3, <2>4, <2>5, <2>6, <2>7 DEF KeptInv
<1>. QED
  BY <1>1, <1>3, <1>4 DEF LossInv

\* With one feed, and a bootstrap that waits for the RPC node, every log the chain
\* keeps is applied, on its way or still to come once bootstrap is over: none is
\* lost to a reconnect, an overflow, a duplicate or the handover (block_source.rs:
\* bootstrap, fill_gap; config.rs: "never lost"). Both hypotheses are needed: with
\* several feeds no gap is filled, and bootstrap does not wait for an RPC node that
\* is behind the queue.
THEOREM NothingLostHolds ==
    ASSUME FillReconnectGaps, ~BootRpcLag PROVE Spec => []NothingLost
<1>1. ASSUME LossInv, pc \in LoopPcs, NEW l \in Logs \ orphaned, ~(applied[l] > 0)
      PROVE  l >= floor /\ (OnItsWay(l) \/ StillToCome(l))
  <2>1. StagedInv /\ GapInv /\ KeptInv /\ FeedTypeOK
    BY <1>1 DEF LossInv, LoopPcs, StagedInv, SourceInv, TypeOK
  <2>2. l \in Nat /\ floor \in Nat
    BY <2>1, KeyTypes DEF StagedInv
  <2>3. l >= floor
    BY <1>1, <2>1, <2>2 DEF KeptInv, CaughtUp, LoopPcs
  <2>4. PICK f : Feeds = {f}
    BY SourceAssumption, FS_Singleton DEF FillReconnectGaps
  <2>5. f \in Feeds /\ last_forwarded[f] \in Nat /\ next[f] \in Nat
    <3>1. f \in Feeds /\ NoPosition \in Nat
      BY <2>4 DEF NoPosition
    <3>. QED
      BY <2>1, <3>1, LogsAssumption DEF FeedTypeOK
  <2>6. CASE l <= last_forwarded[f]
    <3>1. Took(l) \/ l \in fetched \/ InGap(l) \/ AtHand(f, l)
      BY <2>1, <2>3, <2>5, <2>6 DEF KeptInv, PassedIsKept, Live
    <3>2. refetched[l] = 0 /\ events = <<>>
      BY <1>1, <2>1 DEF StagedInv, StageOK
    <3>3. l \notin EventLogs(events)
      BY <3>2 DEF EventLogs
    <3>4. Took(l) => OnItsWay(l)
      BY <1>1, <3>2, <3>3 DEF Took, Has, Coming, OnItsWay
    <3>5. InGap(l) \/ AtHand(f, l) \/ l \in fetched => OnItsWay(l)
      BY <2>5 DEF InGap, AtHand, OnItsWay
    <3>. QED
      BY <2>3, <3>1, <3>4, <3>5
  <2>7. CASE ~(l <= last_forwarded[f])
    <3>1. l > last_forwarded[f]
      BY <2>2, <2>5, <2>7
    <3>2. CASE up[f] => gap_open[f]
      BY <2>3, <2>5, <3>1, <3>2 DEF StillToCome
    <3>3. CASE up[f] /\ ~gap_open[f]
      <4>1. l >= next[f]
        BY <1>1, <2>1, <2>2, <2>5, <2>7, <3>3 DEF GapInv, NoSilentLoss
      <4>. QED
        BY <2>3, <2>5, <3>3, <4>1 DEF StillToCome
    <3>. QED
      BY <3>2, <3>3
  <2>. QED
    BY <2>6, <2>7
<1>2. LossInv => NothingLost
  BY <1>1 DEF NothingLost
<1>3. LossInv /\ [Next]_vars => LossInv'
  BY LossNext
<1>. QED
  BY <1>2, <1>3, LossInit, PTL DEF Spec
=============================================================================
