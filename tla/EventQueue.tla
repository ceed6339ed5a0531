---------------------------- MODULE EventQueue ----------------------------
(***************************************************************************)
(* The queue between the websocket listeners and the block source          *)
(* (src/src/collector/event_queue.rs): a bounded channel of logs, the      *)
(* window of recently seen keys that drops duplicates, and the gaps the     *)
(* listeners noted.                                                        *)
(*                                                                         *)
(* A log is its chain position: a natural number ordered the way            *)
(* (block, transaction index, log index) is. Its key (transaction hash,     *)
(* log index) names the same log, so a position also stands for its key.    *)
(***************************************************************************)
EXTENDS Integers, Sequences

CONSTANTS Logs,           \* positions of the registered pools' logs on the chain
          Block(_),       \* block number of a position
          BlockStart(_),  \* position (b, 0, 0) of a block
          BufferSize,     \* capacity of the mpsc channel (1000 in the code)
          MaxEvents       \* keys kept against duplicates (1000 in the code)

\* The position that precedes every log: `None` of Option<LogPosition>.
NoPosition == 0

ASSUME LogsAssumption == Logs \subseteq Nat \ {NoPosition}

\* Positions of a later block come after positions of an earlier one.
ASSUME BlockAssumption ==
    /\ \A l \in Logs : Block(l) \in Nat
    /\ \A l, m \in Logs : l <= m => Block(l) <= Block(m)

ASSUME QueueAssumption == BufferSize \in Nat \ {0} /\ MaxEvents \in Nat \ {0}

VARIABLES channel,      \* EventSender.inner / EventQueue.receiver: logs in transit
          receiver,     \* the source still holds the receiver
          event_order,  \* keys of recent_events, oldest first
          gaps,         \* gaps noted and not taken yet
          recorded      \* history: every key `record` entered, in order

queueVars == <<channel, receiver, event_order, gaps, recorded>>

\* A log as a feed delivers it; `removed` marks a reorg's retraction.
Item == [log : Logs, removed : BOOLEAN]

\* Logs lost after position `after` (NoPosition: none forwarded yet) and
\* before `before`.
Gap == [after : Logs \cup {NoPosition}, before : Logs]

QueueTypeOK ==
    /\ channel \in Seq(Item)
    /\ Len(channel) <= BufferSize
    /\ receiver \in BOOLEAN
    /\ event_order \in Seq(Logs)
    /\ gaps \in Seq(Gap)
    /\ recorded \in Seq(Logs)

QueueInit ==
    /\ channel = <<>>
    /\ receiver = TRUE
    /\ event_order = <<>>
    /\ gaps = <<>>
    /\ recorded = <<>>

----------------------------------------------------------------------------

\* `record` finds the key in recent_events.
Duplicate(l) == \E i \in DOMAIN event_order : event_order[i] = l

\* Mutant: the window is pruned after the key went in, one key too early.
RecordPrunedEarly(l) ==
    /\ event_order' = LET order == Append(event_order, l)
                      IN  IF Len(order) >= MaxEvents THEN Tail(order) ELSE order
    /\ recorded' = Append(recorded, l)

\* `record` of a key that is not in the window: the oldest key makes room.
Record(l) ==
    /\ event_order' = Append(IF Len(event_order) >= MaxEvents
                             THEN Tail(event_order) ELSE event_order, l)
    /\ recorded' = Append(recorded, l)

\* Mutant: the channel is not bounded.
ChannelSendUnbounded(item) ==
    channel' = IF receiver THEN Append(channel, item) ELSE channel

\* The channel half of `send`: waits while the channel is full, fails (and the
\* log is gone) once the receiver is dropped.
ChannelSend(item) ==
    \/ /\ receiver
       /\ Len(channel) < BufferSize
       /\ channel' = Append(channel, item)
    \/ /\ ~receiver
       /\ UNCHANGED channel

\* `note_gap`.
NoteGap(gap) == gaps' = Append(gaps, gap)

\* `get_all_available_events`: everything in the channel, without waiting.
DrainChannel == channel' = <<>>

\* `take_gaps`.
TakeAllGaps == gaps' = <<>>

----------------------------------------------------------------------------

\* recent_events and event_order agree and stay within max_events: the window
\* is exactly the newest keys entered, as many as fit.
WindowIsSuffix ==
    /\ Len(event_order) = IF Len(recorded) < MaxEvents THEN Len(recorded) ELSE MaxEvents
    /\ \A i \in 1..Len(event_order) :
           event_order[i] = recorded[Len(recorded) - Len(event_order) + i]

\* A key that `record` accepts is accepted again only after MaxEvents other
\* keys went in between (event_queue.rs: record, "checking for duplicates").
DedupWindow ==
    \A i, j \in 1..Len(recorded) :
        i < j /\ j - i <= MaxEvents => recorded[i] # recorded[j]
=============================================================================
