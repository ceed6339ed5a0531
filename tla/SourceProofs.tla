---------------------------- MODULE SourceProofs ----------------------------
(***************************************************************************)
(* Proofs about the listeners and the event queue, for every number of       *)
(* feeds, logs and blocks, every buffer and window size, and any consumer    *)
(* that FeedSpec allows. The websocket block source is one of these          *)
(* consumers, so they hold of the whole collector; and the collector keeps   *)
(* its type invariant.                                                      *)
(***************************************************************************)
EXTENDS WebsocketBlockSource, FiniteSetTheorems, TLAPS

feedSpecVars == <<feedVars, queueVars>>

----------------------------------------------------------------------------
(* The event queue. *)

\* What `record` does to the window and to the history when the key is new.
LEMMA RecordType ==
    ASSUME NEW l \in Logs, event_order \in Seq(Logs), recorded \in Seq(Logs), Record(l)
    PROVE  event_order' \in Seq(Logs) /\ recorded' \in Seq(Logs)
<1>1. CASE Len(event_order) >= MaxEvents
  <2>1. event_order # <<>>
    BY <1>1, QueueAssumption
  <2>2. Tail(event_order) \in Seq(Logs)
    BY <2>1
  <2>. QED
    BY <1>1, <2>2 DEF Record
<1>2. CASE ~(Len(event_order) >= MaxEvents)
  BY <1>2 DEF Record
<1>. QED
  BY <1>1, <1>2

\* The window stays the newest keys entered.
LEMMA RecordWindow ==
    ASSUME NEW l \in Logs, event_order \in Seq(Logs), recorded \in Seq(Logs),
           WindowIsSuffix, Record(l)
    PROVE  WindowIsSuffix'
<1>. DEFINE n == Len(recorded)
            k == Len(event_order)
<1>1. n \in Nat /\ k \in Nat /\ MaxEvents \in Nat /\ MaxEvents > 0
  BY QueueAssumption
<1>2. recorded' = Append(recorded, l) /\ Len(recorded') = n + 1
  BY DEF Record
<1>3. CASE k >= MaxEvents
  <2>1. k = MaxEvents /\ n >= k
    BY <1>1, <1>3 DEF WindowIsSuffix
  <2>2. event_order # <<>>
    BY <2>1, <1>1
  <2>3. /\ Tail(event_order) \in Seq(Logs)
        /\ Len(Tail(event_order)) = k - 1
        /\ \A i \in 1..(k - 1) : Tail(event_order)[i] = event_order[i + 1]
    BY <2>2
  <2>4. /\ event_order' = Append(Tail(event_order), l)
        /\ Len(event_order') = k
    BY <2>3, <1>1, <1>3 DEF Record
  <2>5. ASSUME NEW i \in 1..k
        PROVE  event_order'[i] = recorded'[(n + 1) - k + i]
    <3>1. CASE i = k
      <4>1. event_order'[i] = l
        BY <3>1, <2>4, <2>3, <1>1
      <4>2. recorded'[(n + 1) - k + i] = l
        BY <3>1, <1>1, <1>2
      <4>. QED
        BY <4>1, <4>2
    <3>2. CASE i < k
      <4>1. i \in 1..(k - 1) /\ i + 1 \in 1..k
        BY <3>2, <1>1
      <4>2. event_order'[i] = event_order[i + 1]
        BY <4>1, <2>3, <2>4
      <4>3. event_order[i + 1] = recorded[n - k + (i + 1)]
        BY <4>1 DEF WindowIsSuffix
      <4>4. (n + 1) - k + i \in 1..n /\ (n + 1) - k + i = n - k + (i + 1)
        BY <3>2, <2>1, <1>1
      <4>5. recorded'[(n + 1) - k + i] = recorded[(n + 1) - k + i]
        BY <4>4, <1>2
      <4>. QED
        BY <4>2, <4>3, <4>4, <4>5
    <3>. QED
      BY <3>1, <3>2, <1>1
  <2>6. Len(event_order') = IF Len(recorded') < MaxEvents THEN Len(recorded') ELSE MaxEvents
    BY <2>1, <2>4, <1>1, <1>2
  <2>. QED
    BY <2>4, <2>5, <2>6, <1>2 DEF WindowIsSuffix
<1>4. CASE ~(k >= MaxEvents)
  <2>1. n = k /\ n < MaxEvents
    BY <1>1, <1>4 DEF WindowIsSuffix
  <2>2. event_order' = Append(event_order, l) /\ Len(event_order') = k + 1
    BY <1>4 DEF Record
  <2>3. ASSUME NEW i \in 1..(k + 1)
        PROVE  event_order'[i] = recorded'[(n + 1) - (k + 1) + i]
    <3>1. (n + 1) - (k + 1) + i = i
      BY <2>1, <1>1
    <3>2. CASE i = k + 1
      BY <3>1, <3>2, <2>1, <2>2, <1>2, <1>1
    <3>3. CASE i <= k
      <4>1. event_order'[i] = event_order[i] /\ recorded'[i] = recorded[i]
        BY <3>3, <2>1, <2>2, <1>2, <1>1
      <4>2. event_order[i] = recorded[n - k + i] /\ n - k + i = i
        BY <3>3, <2>1, <1>1 DEF WindowIsSuffix
      <4>. QED
        BY <3>1, <4>1, <4>2
    <3>. QED
      BY <3>2, <3>3, <1>1
  <2>4. Len(event_order') = IF Len(recorded') < MaxEvents THEN Len(recorded') ELSE MaxEvents
    BY <2>1, <2>2, <1>1, <1>2
  <2>. QED
    BY <2>2, <2>3, <2>4, <1>2 DEF WindowIsSuffix
<1>. QED
  BY <1>3, <1>4

\* A key outside the window was not among the newest MaxEvents keys.
LEMMA RecordDedup ==
    ASSUME NEW l \in Logs, event_order \in Seq(Logs), recorded \in Seq(Logs),
           WindowIsSuffix, DedupWindow, ~Duplicate(l), Record(l)
    PROVE  DedupWindow'
<1>. DEFINE n == Len(recorded)
            k == Len(event_order)
<1>1. n \in Nat /\ k \in Nat /\ MaxEvents \in Nat /\ MaxEvents > 0
  BY QueueAssumption
<1>2. recorded' = Append(recorded, l) /\ Len(recorded') = n + 1
  BY DEF Record
<1>3. SUFFICES ASSUME NEW i \in 1..(n + 1), NEW j \in 1..(n + 1),
                      i < j, j - i <= MaxEvents
               PROVE  recorded'[i] # recorded'[j]
  BY <1>2 DEF DedupWindow
<1>4. i \in 1..n /\ recorded'[i] = recorded[i]
  BY <1>1, <1>2, <1>3
<1>5. CASE j <= n
  <2>1. recorded'[j] = recorded[j]
    BY <1>1, <1>2, <1>5
  <2>. QED
    BY <1>1, <1>3, <1>4, <1>5, <2>1 DEF DedupWindow
<1>6. CASE j = n + 1
  <2>1. recorded'[j] = l
    BY <1>1, <1>2, <1>6
  <2>2. i - (n - k) \in 1..k
    BY <1>1, <1>3, <1>4, <1>6 DEF WindowIsSuffix
  <2>3. event_order[i - (n - k)] = recorded[n - k + (i - (n - k))]
    BY <2>2 DEF WindowIsSuffix
  <2>4. n - k + (i - (n - k)) = i
    BY <1>1, <1>4
  <2>5. event_order[i - (n - k)] # l
    BY <2>2 DEF Duplicate
  <2>. QED
    BY <1>4, <2>1, <2>3, <2>4, <2>5
<1>. QED
  BY <1>1, <1>3, <1>5, <1>6

----------------------------------------------------------------------------
(* Type correctness. *)

LEMMA FeedInitType == FeedInit => FeedTypeOK
<1>. SUFFICES ASSUME FeedInit PROVE FeedTypeOK
  OBVIOUS
<1>1. QueueTypeOK
  BY QueueAssumption DEF FeedInit, QueueInit, QueueTypeOK
<1>2. head \in StartBlock..MaxBlock
  BY FeedAssumption DEF FeedInit
<1>. QED
  BY <1>1, <1>2 DEF FeedInit, FeedTypeOK, Stages, NoPosition

\* A step of a listener keeps the type invariant.
LEMMA FeedStepType ==
    ASSUME FeedTypeOK, NEW f \in Feeds, FeedStep(f)
    PROVE  FeedTypeOK'
<1>. USE LogsAssumption DEF FeedTypeOK, NoPosition
<1>1. CASE Subscribe(f)
  <2>1. SubscriptionStarts \subseteq Nat
    <3>1. head + 1 \in 0..(MaxBlock + 1)
      BY FeedAssumption
    <3>. QED
      BY <3>1, BlockStartAssumption DEF SubscriptionStarts
  <2>2. PICK p \in SubscriptionStarts : next' = [next EXCEPT ![f] = p]
    BY <1>1 DEF Subscribe
  <2>3. next' \in [Feeds -> Nat]
    BY <2>1, <2>2
  <2>. QED
    BY <1>1, <2>3 DEF Subscribe, OpenGap, queueVars, QueueTypeOK
<1>2. CASE Disconnect(f)
  BY <1>2 DEF Disconnect, queueVars, QueueTypeOK
<1>3. CASE Lagged(f)
  <2>1. PICK l \in Upcoming(f) : next' = [next EXCEPT ![f] = l]
    BY <1>3 DEF Lagged
  <2>2. next' \in [Feeds -> Nat]
    BY <2>1 DEF Upcoming
  <2>. QED
    BY <1>3, <2>2 DEF Lagged, OpenGap, queueVars, QueueTypeOK
<1>4. CASE Receive(f)
  <2>1. PICK l \in Upcoming(f) :
          /\ IF gap_open[f] THEN NoteGap(GapBefore(f, l)) ELSE UNCHANGED gaps
          /\ last_forwarded' = AdvanceForwarded(f, l)
          /\ next' = [next EXCEPT ![f] = l + 1]
          /\ item' = [item EXCEPT ![f] = [log |-> l, removed |-> FALSE]]
          /\ covered' = [covered EXCEPT ![f] = @ \cup {l} \cup
                 {m \in Logs : gap_open[f] /\ last_forwarded[f] < m /\ m < l}]
    BY <1>4 DEF Receive
  <2>2. l \in Logs /\ l \in Nat
    BY DEF Upcoming
  <2>3. next' \in [Feeds -> Nat]
    BY <2>1, <2>2
  <2>4. last_forwarded' \in [Feeds -> Logs \cup {NoPosition}]
    BY <2>1, <2>2 DEF AdvanceForwarded
  <2>5. [log |-> l, removed |-> FALSE] \in Item
    BY <2>2 DEF Item
  <2>6. gaps' \in Seq(Gap)
    <3>1. GapBefore(f, l) \in Gap
      BY <2>2 DEF GapBefore, Gap
    <3>2. gaps \in Seq(Gap)
      BY DEF QueueTypeOK
    <3>3. gaps' = Append(gaps, GapBefore(f, l)) \/ gaps' = gaps
      BY <2>1 DEF NoteGap
    <3>. HIDE DEF FeedTypeOK
    <3>. QED
      BY <3>1, <3>2, <3>3
  <2>7. covered' \in [Feeds -> SUBSET Logs]
    BY <2>1, <2>2
  <2>8. QueueTypeOK'
    BY <1>4, <2>6 DEF Receive, QueueTypeOK
  <2>9. item' \in [Feeds -> Item \cup {NoItem}] /\ item'[f] \in Item
    BY <2>1, <2>5
  <2>10. stage' = [stage EXCEPT ![f] = "record"] /\ stage' \in [Feeds -> Stages]
    BY <1>4 DEF Receive, Stages
  <2>11. \A g \in Feeds : stage'[g] # "recv" => item'[g] \in Item
    BY <2>1, <2>9, <2>10
  <2>. QED
    BY <1>4, <2>3, <2>4, <2>7, <2>8, <2>9, <2>10, <2>11 DEF Receive
<1>5. CASE ReceiveRetraction(f)
  <2>1. PICK l \in owed[f] :
          /\ owed' = [owed EXCEPT ![f] = @ \ {l}]
          /\ item' = [item EXCEPT ![f] = [log |-> l, removed |-> TRUE]]
    BY <1>5 DEF ReceiveRetraction
  <2>2. [log |-> l, removed |-> TRUE] \in Item
    BY DEF Item
  <2>3. item' \in [Feeds -> Item \cup {NoItem}] /\ item'[f] \in Item
    BY <2>1, <2>2
  <2>4. stage' = [stage EXCEPT ![f] = "record"] /\ stage' \in [Feeds -> Stages]
    BY <1>5 DEF ReceiveRetraction, Stages
  <2>5. \A g \in Feeds : stage'[g] # "recv" => item'[g] \in Item
    BY <2>1, <2>3, <2>4
  <2>6. owed' \in [Feeds -> SUBSET Logs]
    BY <2>1
  <2>. QED
    BY <1>5, <2>3, <2>4, <2>5, <2>6 DEF ReceiveRetraction, queueVars, QueueTypeOK
<1>6. CASE RecordItem(f)
  <2>1. item[f].log \in Logs
    BY <1>6 DEF RecordItem, Item
  <2>2. event_order' \in Seq(Logs) /\ recorded' \in Seq(Logs)
    BY <1>6, <2>1, RecordType DEF RecordItem, QueueTypeOK
  <2>3. QueueTypeOK'
    BY <1>6, <2>2 DEF RecordItem, QueueTypeOK
  <2>4. stage' \in [Feeds -> Stages]
    BY <1>6 DEF RecordItem, Stages
  <2>5. \A g \in Feeds : stage'[g] # "recv" => item'[g] \in Item
    BY <1>6 DEF RecordItem
  <2>. QED
    BY <1>6, <2>3, <2>4, <2>5 DEF RecordItem
<1>7. CASE SkipDuplicate(f)
  <2>1. /\ stage' \in [Feeds -> Stages]
        /\ item' \in [Feeds -> Item \cup {NoItem}]
        /\ \A g \in Feeds : stage'[g] # "recv" => item'[g] \in Item
    BY <1>7 DEF SkipDuplicate, Stages
  <2>. QED
    BY <1>7, <2>1 DEF SkipDuplicate, queueVars, QueueTypeOK
<1>8. CASE SendItem(f)
  <2>1. item[f] \in Item
    BY <1>8 DEF SendItem
  <2>2. channel' \in Seq(Item) /\ Len(channel') <= BufferSize
    <3>1. channel \in Seq(Item) /\ Len(channel) <= BufferSize
      BY DEF QueueTypeOK
    <3>2. CASE Len(channel) < BufferSize /\ channel' = Append(channel, item[f])
      <4>. HIDE DEF FeedTypeOK
      <4>. QED
        BY <2>1, <3>1, <3>2, QueueAssumption
    <3>3. CASE channel' = channel
      BY <3>1, <3>3
    <3>. QED
      BY <1>8, <3>2, <3>3 DEF SendItem, ChannelSend
  <2>3. /\ stage' \in [Feeds -> Stages]
        /\ item' \in [Feeds -> Item \cup {NoItem}]
        /\ \A g \in Feeds : stage'[g] # "recv" => item'[g] \in Item
    BY <1>8 DEF SendItem, Stages
  <2>. QED
    BY <1>8, <2>2, <2>3 DEF SendItem, QueueTypeOK
<1>. QED
  BY <1>1, <1>2, <1>3, <1>4, <1>5, <1>6, <1>7, <1>8 DEF FeedStep

\* So does every step of FeedSpec.
LEMMA FeedNextType == FeedTypeOK /\ [FeedNext]_feedSpecVars => FeedTypeOK'
<1>. SUFFICES ASSUME FeedTypeOK, [FeedNext]_feedSpecVars PROVE FeedTypeOK'
  OBVIOUS
<1>1. CASE Mine
  BY <1>1, FeedAssumption DEF Mine, FeedTypeOK, QueueTypeOK, queueVars
<1>2. ASSUME NEW l \in Logs, Reorg(l) PROVE FeedTypeOK'
  BY <1>2 DEF Reorg, FeedTypeOK, QueueTypeOK, queueVars
<1>3. ASSUME NEW f \in Feeds, FeedStep(f) PROVE FeedTypeOK'
  BY <1>3, FeedStepType
<1>4. CASE Drain
  BY <1>4, QueueAssumption DEF Drain, DrainChannel, FeedTypeOK, QueueTypeOK, feedVars
<1>5. CASE TakeGaps
  BY <1>5 DEF TakeGaps, TakeAllGaps, FeedTypeOK, QueueTypeOK, feedVars
<1>6. CASE DropReceiver
  BY <1>6 DEF DropReceiver, FeedTypeOK, QueueTypeOK, feedVars
<1>7. ASSUME NEW l \in Logs, Claim(l) PROVE FeedTypeOK'
  <2>1. event_order' \in Seq(Logs) /\ recorded' \in Seq(Logs)
    BY <1>7, RecordType DEF Claim, FeedTypeOK, QueueTypeOK
  <2>. QED
    BY <1>7, <2>1 DEF Claim, FeedTypeOK, QueueTypeOK, feedVars
<1>8. ASSUME NEW gap \in Gap, NoteAgain(gap) PROVE FeedTypeOK'
  <2>1. gaps' \in Seq(Gap)
    BY <1>8 DEF NoteAgain, NoteGap, FeedTypeOK, QueueTypeOK
  <2>. QED
    BY <1>8, <2>1 DEF NoteAgain, FeedTypeOK, QueueTypeOK, feedVars
<1>9. CASE UNCHANGED feedSpecVars
  BY <1>9 DEF feedSpecVars, FeedTypeOK, QueueTypeOK, feedVars, queueVars
<1>. QED
  BY <1>1, <1>2, <1>3, <1>4, <1>5, <1>6, <1>7, <1>8, <1>9
     DEF FeedNext, Environment, Consumer

\* The queue and the listeners stay within their types; in particular the channel
\* never holds more than BufferSize logs.
THEOREM FeedTypeCorrect == FeedSpec => []FeedTypeOK
<1>1. FeedInit => FeedTypeOK
  BY FeedInitType
<1>2. FeedTypeOK /\ [FeedNext]_<<feedVars, queueVars>> => FeedTypeOK'
  BY FeedNextType DEF feedSpecVars
<1>. QED
  BY <1>1, <1>2, PTL DEF FeedSpec

----------------------------------------------------------------------------
(* The window against duplicates. *)

DedupInv == FeedTypeOK /\ WindowIsSuffix /\ DedupWindow

LEMMA DedupNext == DedupInv /\ [FeedNext]_feedSpecVars => DedupInv'
<1>. SUFFICES ASSUME DedupInv, [FeedNext]_feedSpecVars PROVE DedupInv'
  OBVIOUS
<1>1. SUFFICES WindowIsSuffix' /\ DedupWindow'
  BY FeedNextType DEF DedupInv
<1>2. event_order \in Seq(Logs) /\ recorded \in Seq(Logs)
  BY DEF DedupInv, FeedTypeOK, QueueTypeOK
<1>3. ASSUME NEW l \in Logs, ~Duplicate(l), Record(l)
      PROVE  WindowIsSuffix' /\ DedupWindow'
  BY <1>2, <1>3, RecordWindow, RecordDedup DEF DedupInv
<1>4. CASE UNCHANGED <<event_order, recorded>>
  BY <1>4 DEF DedupInv, WindowIsSuffix, DedupWindow
<1>5. ASSUME NEW f \in Feeds, RecordItem(f) PROVE WindowIsSuffix' /\ DedupWindow'
  <2>1. item[f].log \in Logs
    BY <1>5 DEF RecordItem, DedupInv, FeedTypeOK, Item
  <2>. QED
    BY <1>3, <1>5, <2>1 DEF RecordItem
<1>6. ASSUME NEW f \in Feeds, FeedStep(f), ~RecordItem(f)
      PROVE  UNCHANGED <<event_order, recorded>>
  BY <1>6 DEF FeedStep, Subscribe, Disconnect, Lagged, Receive, ReceiveRetraction,
              SkipDuplicate, SendItem, queueVars
<1>7. CASE Environment
  <2>1. CASE Mine
    BY <1>4, <2>1 DEF Mine, queueVars
  <2>2. ASSUME NEW l \in Logs, Reorg(l) PROVE UNCHANGED <<event_order, recorded>>
    BY <2>2 DEF Reorg, queueVars
  <2>. QED
    BY <1>4, <1>5, <1>6, <1>7, <2>1, <2>2 DEF Environment
<1>8. CASE Consumer
  <2>1. ASSUME NEW l \in Logs, Claim(l) PROVE WindowIsSuffix' /\ DedupWindow'
    BY <1>3, <2>1 DEF Claim
  <2>2. CASE Drain \/ TakeGaps \/ DropReceiver \/ \E gap \in Gap : NoteAgain(gap)
    BY <1>4, <2>2 DEF Drain, TakeGaps, DropReceiver, NoteAgain
  <2>. QED
    BY <1>8, <2>1, <2>2 DEF Consumer
<1>9. CASE UNCHANGED feedSpecVars
  BY <1>4, <1>9 DEF feedSpecVars, queueVars
<1>. QED
  BY <1>7, <1>8, <1>9 DEF FeedNext

\* However many feeds send and whatever the consumer claims, a key enters the
\* queue again only after MaxEvents other keys did (event_queue.rs: record).
THEOREM DedupWindowHolds == FeedSpec => []DedupWindow
<1>1. FeedInit => DedupInv
  <2>. SUFFICES ASSUME FeedInit PROVE DedupInv
    OBVIOUS
  <2>1. event_order = <<>> /\ recorded = <<>>
    BY DEF FeedInit, QueueInit
  <2>2. WindowIsSuffix
    BY <2>1, QueueAssumption DEF WindowIsSuffix
  <2>3. DedupWindow
    BY <2>1 DEF DedupWindow
  <2>. QED
    BY <2>2, <2>3, FeedInitType DEF DedupInv
<1>2. DedupInv /\ [FeedNext]_<<feedVars, queueVars>> => DedupInv'
  BY DedupNext DEF feedSpecVars
<1>3. DedupInv => DedupWindow
  BY DEF DedupInv
<1>. QED
  BY <1>1, <1>2, <1>3, PTL DEF FeedSpec

----------------------------------------------------------------------------
(* Gap coverage. *)

\* The inductive invariant: GapsCoverLosses needs to know that, while no gap is
\* open, the subscription has skipped nothing after last_forwarded.
GapInv == FeedTypeOK /\ GapsCoverLosses /\ NoSilentLoss

\* What a listener, live and without an open gap, has passed over it forwarded.
LEMMA ReceiveCovers ==
    ASSUME FeedTypeOK, GapsCoverLosses, NoSilentLoss, NEW f \in Feeds, Receive(f)
    PROVE  GapsCoverLosses' /\ NoSilentLoss'
<1>1. PICK l \in Upcoming(f) :
        /\ \A m \in Upcoming(f) : l <= m
        /\ last_forwarded' = AdvanceForwarded(f, l)
        /\ next' = [next EXCEPT ![f] = l + 1]
        /\ covered' = [covered EXCEPT ![f] = @ \cup {l} \cup
               {m \in Logs : gap_open[f] /\ last_forwarded[f] < m /\ m < l}]
  BY DEF Receive
<1>2. l \in Logs /\ l \in Nat /\ Block(l) <= head /\ l >= next[f]
  BY LogsAssumption DEF Upcoming
<1>3. /\ Logs \subseteq Nat
      /\ last_forwarded[f] \in Nat /\ next[f] \in Nat /\ head \in Nat
  <2>1. Logs \subseteq Nat /\ NoPosition \in Nat
    BY LogsAssumption DEF NoPosition
  <2>2. last_forwarded[f] \in Logs \cup {NoPosition} /\ next[f] \in Nat
    BY DEF FeedTypeOK
  <2>3. head \in Nat
    BY FeedAssumption DEF FeedTypeOK
  <2>. QED
    BY <2>1, <2>2, <2>3
<1>4. last_forwarded'[f] = IF last_forwarded[f] < l THEN l ELSE last_forwarded[f]
  BY <1>1 DEF AdvanceForwarded, FeedTypeOK
<1>5. /\ \A g \in Feeds : g # f => last_forwarded'[g] = last_forwarded[g]
      /\ \A g \in Feeds : g # f => next'[g] = next[g] /\ covered'[g] = covered[g]
      /\ next'[f] = l + 1
      /\ covered'[f] = covered[f] \cup {l} \cup
             {m \in Logs : gap_open[f] /\ last_forwarded[f] < m /\ m < l}
  BY <1>1 DEF AdvanceForwarded, FeedTypeOK
<1>6. UNCHANGED <<head, orphaned, up>>
  BY DEF Receive
<1>7. ASSUME NEW m \in Logs, m <= last_forwarded'[f]
      PROVE  m \in covered'[f] \cup orphaned
  <2>1. CASE m <= last_forwarded[f]
    BY <1>5, <2>1 DEF GapsCoverLosses
  <2>2. CASE m = l
    BY <1>5, <2>2
  <2>3. CASE last_forwarded[f] < m /\ m < l
    <3>1. CASE gap_open[f]
      BY <1>5, <2>3, <3>1
    <3>2. CASE ~gap_open[f]
      <4>1. CASE m < next[f]
        BY <1>3, <2>3, <3>2, <4>1 DEF NoSilentLoss, Receive
      <4>2. CASE m >= next[f]
        <5>1. Block(m) <= Block(l) /\ Block(m) \in Nat /\ Block(l) \in Nat
          BY <1>2, <1>3, <2>3, BlockAssumption
        <5>2. Block(m) <= head
          BY <1>2, <1>3, <5>1
        <5>3. m \notin Upcoming(f)
          BY <1>1, <1>2, <1>3, <2>3
        <5>. QED
          BY <4>2, <5>2, <5>3 DEF Upcoming
      <4>. QED
        BY <1>3, <4>1, <4>2
    <3>. QED
      BY <3>1, <3>2
  <2>. QED
    BY <1>2, <1>3, <1>4, <1>7, <2>1, <2>2, <2>3
<1>8. GapsCoverLosses'
  BY <1>5, <1>6, <1>7 DEF GapsCoverLosses
<1>9. ASSUME NEW m \in Logs, m < next'[f] PROVE m <= last_forwarded'[f]
  BY <1>2, <1>3, <1>4, <1>5, <1>9
<1>10. \A g \in Feeds : g # f => gap_open'[g] = gap_open[g]
  BY DEF Receive, FeedTypeOK
<1>11. NoSilentLoss'
  BY <1>5, <1>6, <1>9, <1>10 DEF NoSilentLoss
<1>. QED
  BY <1>8, <1>11

LEMMA GapNext == GapInv /\ [FeedNext]_feedSpecVars => GapInv'
<1>. SUFFICES ASSUME GapInv, [FeedNext]_feedSpecVars PROVE GapInv'
  OBVIOUS
<1>. DEFINE progress == <<up, next, gap_open, last_forwarded, covered, orphaned>>
<1>1. SUFFICES GapsCoverLosses' /\ NoSilentLoss'
  BY FeedNextType DEF GapInv
<1>2. CASE UNCHANGED progress
  BY <1>2 DEF GapInv, GapsCoverLosses, NoSilentLoss
<1>3. ASSUME NEW l \in Logs, Reorg(l) PROVE GapsCoverLosses' /\ NoSilentLoss'
  BY <1>3 DEF Reorg, GapInv, GapsCoverLosses, NoSilentLoss
<1>4. ASSUME NEW f \in Feeds, Subscribe(f) \/ Lagged(f)
      PROVE  GapsCoverLosses' /\ NoSilentLoss'
  <2>1. UNCHANGED <<last_forwarded, covered, orphaned>>
    BY <1>4 DEF Subscribe, Lagged
  <2>2. gap_open'[f]
    BY <1>4 DEF Subscribe, Lagged, OpenGap, GapInv, FeedTypeOK
  <2>3. \A g \in Feeds : g # f => up'[g] = up[g] /\ gap_open'[g] = gap_open[g]
                                  /\ next'[g] = next[g]
    BY <1>4 DEF Subscribe, Lagged, OpenGap, GapInv, FeedTypeOK
  <2>. QED
    BY <2>1, <2>2, <2>3 DEF GapInv, GapsCoverLosses, NoSilentLoss
<1>5. ASSUME NEW f \in Feeds, Disconnect(f) PROVE GapsCoverLosses' /\ NoSilentLoss'
  <2>1. UNCHANGED <<last_forwarded, covered, orphaned, gap_open>>
    BY <1>5 DEF Disconnect
  <2>2. ~up'[f]
    BY <1>5 DEF Disconnect, GapInv, FeedTypeOK
  <2>3. \A g \in Feeds : g # f => up'[g] = up[g] /\ next'[g] = next[g]
    BY <1>5 DEF Disconnect, GapInv, FeedTypeOK
  <2>. QED
    BY <2>1, <2>2, <2>3 DEF GapInv, GapsCoverLosses, NoSilentLoss
<1>6. ASSUME NEW f \in Feeds, Receive(f) PROVE GapsCoverLosses' /\ NoSilentLoss'
  BY <1>6, ReceiveCovers DEF GapInv
<1>7. ASSUME NEW f \in Feeds,
             ReceiveRetraction(f) \/ RecordItem(f) \/ SkipDuplicate(f) \/ SendItem(f)
      PROVE  UNCHANGED progress
  BY <1>7 DEF ReceiveRetraction, RecordItem, SkipDuplicate, SendItem
<1>8. CASE Environment
  <2>1. CASE Mine
    BY <1>2, <2>1 DEF Mine
  <2>. QED
    BY <1>2, <1>3, <1>4, <1>5, <1>6, <1>7, <1>8, <2>1 DEF Environment, FeedStep
<1>9. CASE Consumer
  BY <1>2, <1>9 DEF Consumer, Drain, TakeGaps, DropReceiver, Claim, NoteAgain, feedVars
<1>10. CASE UNCHANGED feedSpecVars
  BY <1>2, <1>10 DEF feedSpecVars, feedVars
<1>. QED
  BY <1>8, <1>9, <1>10 DEF FeedNext

\* However often a feed reconnects, lags or falls behind, every log up to the
\* newest one it forwarded was forwarded or noted in a gap (FeedProgress).
THEOREM GapsCoverLossesHolds == FeedSpec => []GapsCoverLosses
<1>1. FeedInit => GapInv
  <2>. SUFFICES ASSUME FeedInit PROVE GapInv
    OBVIOUS
  <2>1. GapsCoverLosses
    BY LogsAssumption DEF FeedInit, GapsCoverLosses, NoPosition
  <2>2. NoSilentLoss
    BY DEF FeedInit, NoSilentLoss
  <2>. QED
    BY <2>1, <2>2, FeedInitType DEF GapInv
<1>2. GapInv /\ [FeedNext]_<<feedVars, queueVars>> => GapInv'
  BY GapNext DEF feedSpecVars
<1>3. GapInv => GapsCoverLosses
  BY DEF GapInv
<1>. QED
  BY <1>1, <1>2, <1>3, PTL DEF FeedSpec

----------------------------------------------------------------------------
(* Minima and maxima. *)

\* A set of naturals that is not empty has a least member.
LEMMA MinMember ==
    ASSUME NEW S, S \subseteq Nat, S # {}
    PROVE  Min(S) \in S /\ \A y \in S : Min(S) <= y
<1>. DEFINE less == OpToRel(<, Nat)
<1>1. \E x \in S : \A y \in S : ~(<<y, x>> \in less)
  <2>1. IsWellFoundedOn(less, Nat)
    BY NatLessThanWellFounded
  <2>. HIDE DEF less
  <2>. QED
    BY <2>1, WFMin
<1>2. \A x, y \in Nat : y < x => <<y, x>> \in less
  BY DEF OpToRel
<1>3. \E x \in S : \A y \in S : x <= y
  <2>. HIDE DEF less
  <2>1. PICK x \in S : \A y \in S : ~(<<y, x>> \in less)
    BY <1>1
  <2>2. \A y \in S : ~(y < x)
    BY <1>2, <2>1
  <2>. QED
    BY <2>2
<1>. QED
  BY <1>3 DEF Min

\* A finite set of naturals that is not empty has a greatest member: take one
\* with the fewest members above it.
LEMMA MaxMember ==
    ASSUME NEW S, S \subseteq Nat, S # {}, IsFiniteSet(S)
    PROVE  Max(S) \in S /\ \A y \in S : Max(S) >= y
<1>. DEFINE Above(x) == {y \in S : y > x}
            Counts == {Cardinality(Above(x)) : x \in S}
<1>1. \A x \in S : IsFiniteSet(Above(x)) /\ Cardinality(Above(x)) \in Nat
  <2>1. \A x \in S : Above(x) \in SUBSET S
    OBVIOUS
  <2>. QED
    BY <2>1, FS_Subset, FS_CardinalityType
<1>2. Counts \subseteq Nat /\ Counts # {}
  BY <1>1
<1>3. PICK x \in S : \A y \in S : Cardinality(Above(x)) <= Cardinality(Above(y))
  <2>. HIDE DEF Above
  <2>1. Min(Counts) \in Counts /\ \A c \in Counts : Min(Counts) <= c
    <3>. HIDE DEF Counts
    <3>. QED
      BY <1>2, MinMember
  <2>. QED
    BY <2>1
<1>4. ASSUME NEW y \in S, ~(x >= y) PROVE FALSE
  <2>1. y \in Above(x) /\ Above(y) \in SUBSET Above(x) /\ y \notin Above(y)
    <3>1. x \in Nat /\ y \in Nat /\ y > x
      BY <1>4
    <3>2. \A z \in S : z > y => z > x
      BY <3>1
    <3>3. ~(y > y)
      BY <3>1
    <3>. QED
      BY <3>1, <3>2, <3>3
  <2>2. /\ Cardinality(Above(y)) <= Cardinality(Above(x))
        /\ Cardinality(Above(x)) = Cardinality(Above(y)) => Above(x) = Above(y)
    <3>. HIDE DEF Above
    <3>. QED
      BY <1>1, <2>1, FS_Subset
  <2>3. Cardinality(Above(x)) = Cardinality(Above(y))
    <3>. HIDE DEF Above
    <3>. QED
      BY <1>1, <1>3, <2>2
  <2>. HIDE DEF Above
  <2>. QED
    BY <2>1, <2>2, <2>3
<1>5. \E z \in S : \A y \in S : z >= y
  BY <1>4
<1>. QED
  BY <1>5 DEF Max

\* The larger of two naturals.
LEMMA MaxOfTwo ==
    ASSUME NEW a \in Nat, NEW b \in Nat
    PROVE  Max({a, b}) \in {a, b} /\ Max({a, b}) >= a /\ Max({a, b}) >= b
<1>1. {a, b} \subseteq Nat /\ {a, b} # {}
  OBVIOUS
<1>2. IsFiniteSet({a, b})
  <2>1. IsFiniteSet({a}) /\ IsFiniteSet({b})
    BY FS_Singleton
  <2>2. {a, b} = {a} \cup {b}
    OBVIOUS
  <2>. QED
    BY <2>1, <2>2, FS_Union
<1>. QED
  BY <1>1, <1>2, MaxMember

LEMMA MinOfTwo == ASSUME NEW a \in Nat, NEW b \in Nat PROVE Min({a, b}) \in {a, b}
  BY {a, b} \subseteq Nat, {a, b} # {}, MinMember

\* How often a log occurs in a sequence is a natural number.
LEMMA OccurrenceType ==
    ASSUME NEW T, NEW s \in Seq(T), NEW I, I \subseteq DOMAIN s
    PROVE  Cardinality(I) \in Nat
<1>1. DOMAIN s = 1..Len(s) /\ Len(s) \in Nat
  OBVIOUS
<1>2. IsFiniteSet(1..Len(s))
  BY <1>1, FS_Interval
<1>. QED
  BY <1>1, <1>2, FS_Subset, FS_CardinalityType

----------------------------------------------------------------------------
(* The inductive invariant. *)

\* Where bootstrap hands over to the queue: a queued log or the start of a block.
Floors == Logs \cup {BlockStart(b) : b \in 0..MaxBlock}

\* What the program counter says of the data: the floor is set once the queue is
\* drained, a fill has its gap at hand, and only fills refetch.
ControlOK ==
    /\ latest <= MaxBlock
    /\ pc \notin {"latest", "drain0", "failed"} => floor \in Floors
    /\ pc \in {"fill0", "claim0", "fill", "claim"} => todo # <<>>
    /\ pc = "claim0" => filled
    /\ (\E l \in Logs : refetched[l] > 0) => filled

SourceInv == TypeOK /\ ControlOK

\* A floor is a position of some block.
LEMMA FloorType == \A p \in Floors : p \in Nat /\ Block(p) \in Nat
<1>1. ASSUME NEW b \in 0..MaxBlock PROVE BlockStart(b) \in Nat /\ Block(BlockStart(b)) \in Nat
  <2>1. b \in 0..(MaxBlock + 1) /\ b \in Nat
    BY FeedAssumption
  <2>. QED
    BY <2>1, BlockStartAssumption
<1>. QED
  BY <1>1, LogsAssumption, BlockAssumption DEF Floors

\* The greatest of some logs is one of them.
LEMMA MaxLog ==
    ASSUME NEW S \in SUBSET Logs, S # {}
    PROVE  Max(S) \in S
<1>1. IsFiniteSet(S)
  BY FS_Subset, SourceAssumption
<1>. QED
  BY <1>1, MaxMember, LogsAssumption

LEMMA InitInv == Init => SourceInv
<1>. SUFFICES ASSUME Init PROVE SourceInv
  OBVIOUS
<1>1. FeedTypeOK
  BY FeedInitType DEF Init
<1>2. pool \in Logs \cup {NoPosition}
  <2>. DEFINE S == {l \in Logs : Block(l) <= StartBlock}
  <2>1. S \in SUBSET Logs
    OBVIOUS
  <2>2. IsFiniteSet(S \cup {NoPosition})
    <3>. HIDE DEF S
    <3>. QED
      BY <2>1, SourceAssumption, FS_Subset, FS_Singleton, FS_Union
  <2>3. S \cup {NoPosition} \subseteq Nat
    <3>1. Logs \subseteq Nat /\ NoPosition \in Nat
      BY LogsAssumption DEF NoPosition
    <3>. QED
      BY <3>1
  <2>4. Max(S \cup {NoPosition}) \in S \cup {NoPosition}
    <3>. HIDE DEF S
    <3>. QED
      BY <2>2, <2>3, MaxMember
  <2>. QED
    BY <2>4 DEF Init
<1>3. rpcHead \in StartBlock..head /\ cursor \in Nat
  BY FeedAssumption DEF Init, FeedInit
<1>4. /\ refetched \in [Logs -> Nat] /\ pending \in [Logs -> Nat]
      /\ applied \in [Logs -> Nat]
  BY DEF Init
<1>5. TypeOK
  <2>1. /\ pc \in BootPcs
        /\ latest \in Nat /\ batch_start \in Nat /\ floor \in Nat
        /\ released_through \in Nat /\ apply_only_through \in Nat
    BY DEF Init, BootPcs, NoPosition
  <2>2. events = <<>> /\ todo = <<>> /\ filled = FALSE /\ fetched = {} /\ missed = {}
    BY DEF Init
  <2>3. events \in Seq(Item) /\ todo \in Seq(Gap)
    BY <2>2
  <2>4. fetched \in SUBSET Logs /\ missed \in SUBSET Logs /\ filled \in BOOLEAN
    BY <2>2
  <2>. QED
    BY <1>1, <1>2, <1>3, <1>4, <2>1, <2>3, <2>4 DEF TypeOK
<1>6. ControlOK
  BY FeedAssumption DEF Init, ControlOK
<1>. QED
  BY <1>5, <1>6 DEF SourceInv

----------------------------------------------------------------------------
(* The source is a consumer of the queue. *)

\* Steps that leave the queue and the listeners alone.
Internal ==
    \/ BootLatest \/ BootCatchUp \/ BootNothingToCatchUp \/ BootFillGap
    \/ BootGapFilled \/ BootApply \/ LoopFillGap \/ LoopGapFilled
    \/ HandOn \/ NotSettled \/ RpcAdvance

LEMMA InternalStutters == Internal => UNCHANGED feedSpecVars
BY DEF Internal, BootLatest, BootCatchUp, BootNothingToCatchUp, BootFillGap,
       BootGapFilled, BootApply, LoopFillGap, LoopGapFilled, HandOn, NotSettled,
       RpcAdvance, feedSpecVars

\* Every step of the collector is a step of FeedSpec or leaves its variables alone.
LEMMA NextIsFeedNext == SourceInv /\ [Next]_vars => [FeedNext]_feedSpecVars
<1>. SUFFICES ASSUME SourceInv, [Next]_vars PROVE [FeedNext]_feedSpecVars
  OBVIOUS
<1>1. CASE Outside
  <2>1. Environment
    BY <1>1 DEF Outside, Environment, FeedStep
  <2>. QED
    BY <2>1 DEF FeedNext
<1>2. CASE Internal
  BY <1>2, InternalStutters
<1>3. CASE BootLatestFails \/ BootDrain \/ LoopDrain \/ BootTakeGaps \/ LoopTakeGaps
  <2>1. DropReceiver \/ Drain \/ TakeGaps
    BY <1>3 DEF BootLatestFails, BootDrain, LoopDrain, BootTakeGaps, LoopTakeGaps
  <2>. QED
    BY <2>1 DEF FeedNext, Consumer
<1>4. CASE BootLeaveGap
  <2>1. todo \in Seq(Gap) /\ todo # <<>>
    BY <1>4 DEF BootLeaveGap, SourceInv, TypeOK, ControlOK
  <2>2. Head(todo) \in Gap
    BY <2>1
  <2>3. NoteAgain(Head(todo))
    BY <1>4 DEF BootLeaveGap, LeaveGap
  <2>. QED
    BY <2>2, <2>3 DEF FeedNext, Consumer
<1>5. CASE ClaimNext
  <2>1. fetched \subseteq Logs /\ fetched # {}
    BY <1>5 DEF ClaimNext, SourceInv, TypeOK
  <2>2. Min(fetched) \in Logs
    BY <2>1, MinMember, LogsAssumption
  <2>3. Claim(Min(fetched)) \/ UNCHANGED <<feedVars, queueVars>>
    BY <1>5 DEF ClaimNext
  <2>. QED
    BY <2>2, <2>3 DEF FeedNext, Consumer, feedSpecVars
<1>6. CASE UNCHANGED vars
  BY <1>6 DEF vars, feedSpecVars
<1>. QED
  BY <1>1, <1>2, <1>3, <1>4, <1>5, <1>6
     DEF Next, Source, Bootstrap, UpdaterLoop, Internal

----------------------------------------------------------------------------
(* Steps of the source keep the invariant. *)

\* Adding naturals to the counts of some logs leaves counts.
LEMMA CountsType ==
    ASSUME NEW c \in [Logs -> Nat], NEW S, NEW n \in [Logs -> Nat]
    PROVE  [l \in Logs |-> c[l] + IF l \in S THEN n[l] ELSE 0] \in [Logs -> Nat]
OBVIOUS

\* Applying some logs keeps the types of what it changes.
LEMMA ApplyType ==
    ASSUME TypeOK, NEW S \in SUBSET Logs, NEW n \in [Logs -> Nat],
           applied' = [l \in Logs |-> applied[l] + IF l \in S THEN n[l] ELSE 0],
           pool' = IF S = {} THEN pool ELSE Max(S)
    PROVE  applied' \in [Logs -> Nat] /\ pool' \in Logs \cup {NoPosition}
<1>1. applied' \in [Logs -> Nat]
  BY CountsType DEF TypeOK
<1>2. CASE S = {}
  BY <1>1, <1>2 DEF TypeOK
<1>3. CASE S # {}
  <2>1. Max(S) \in Logs
    BY <1>3, MaxLog
  <2>. QED
    BY <1>1, <1>3, <2>1
<1>. QED
  BY <1>2, <1>3

LEMMA CatchUpInv ==
    ASSUME SourceInv, FeedTypeOK', BootCatchUp
    PROVE  SourceInv'
<1>1. floor \in Floors /\ Block(floor) \in Nat
  BY FloorType DEF SourceInv, ControlOK, BootCatchUp
<1>. DEFINE end == Min({batch_start + Max({MaxBlocksPerBatch, 1}) - 1, Block(floor)})
<1>2. end \in Nat
  <2>1. Max({MaxBlocksPerBatch, 1}) \in Nat /\ Max({MaxBlocksPerBatch, 1}) >= 1
    BY MaxOfTwo, SourceAssumption
  <2>2. batch_start + Max({MaxBlocksPerBatch, 1}) - 1 \in Nat
    BY <2>1 DEF SourceInv, TypeOK
  <2>. QED
    BY <1>1, <2>2, MinOfTwo
<1>3. PICK answer \in RpcAnswers(batch_start, end) :
        LET before == {l \in answer : l < floor}
        IN  /\ Apply(before, [l \in Logs |-> 1])
            /\ IF before # answer \/ end = Block(floor)
               THEN pc' = "gaps0" /\ batch_start' = 0
               ELSE pc' = pc /\ batch_start' = FollowingBatch(end)
  BY DEF BootCatchUp
<1>4. answer \subseteq Logs
  BY DEF RpcAnswers, LogsIn
<1>. DEFINE before == {l \in answer : l < floor}
            ones == [l \in Logs |-> 1]
<1>5. applied' \in [Logs -> Nat] /\ pool' \in Logs \cup {NoPosition}
  <2>1. before \in SUBSET Logs /\ ones \in [Logs -> Nat]
    BY <1>4
  <2>2. /\ applied' = [l \in Logs |-> applied[l] + IF l \in before THEN ones[l] ELSE 0]
        /\ pool' = IF before = {} THEN pool ELSE Max(before)
    BY <1>3 DEF Apply
  <2>. HIDE DEF before, ones
  <2>. QED
    BY <2>1, <2>2, ApplyType DEF SourceInv
<1>6. /\ batch_start' \in Nat
      /\ pc' \in {"gaps0", "catchup"}
  <2>1. pc = "catchup"
    BY DEF BootCatchUp
  <2>2. \/ pc' = "gaps0" /\ batch_start' = 0
        \/ pc' = pc /\ batch_start' = FollowingBatch(end)
    BY <1>3
  <2>. HIDE DEF end
  <2>. QED
    BY <1>2, <2>1, <2>2 DEF FollowingBatch
<1>7. UNCHANGED <<head, rpcHead, floor, latest, events, refetched, filled, todo, fetched,
                  missed, pending, released_through, apply_only_through, cursor>>
  BY DEF BootCatchUp, feedVars, fillVars, settlerVars
<1>8. TypeOK'
  BY <1>5, <1>6, <1>7 DEF SourceInv, TypeOK, BootPcs
<1>9. ControlOK'
  BY <1>1, <1>6, <1>7 DEF SourceInv, ControlOK
<1>. QED
  BY <1>8, <1>9 DEF SourceInv

LEMMA BootDrainInv ==
    ASSUME SourceInv, FeedTypeOK', BootDrain
    PROVE  SourceInv'
<1>. DEFINE firsts == EventLogs(channel)
<1>1. channel \in Seq(Item)
  BY DEF SourceInv, TypeOK, FeedTypeOK, QueueTypeOK
<1>2. firsts \subseteq Logs
  <2>1. \A i \in DOMAIN channel : channel[i] \in Item
    BY <1>1
  <2>2. \A it \in Item : it.log \in Logs
    BY DEF Item
  <2>. QED
    BY <2>1, <2>2 DEF EventLogs
<1>3. floor' \in Floors
  <2>1. CASE channel = <<>>
    <3>1. latest \in 0..MaxBlock
      BY FeedAssumption DEF SourceInv, TypeOK, ControlOK
    <3>. QED
      BY <2>1, <3>1 DEF BootDrain, Floors
  <2>2. CASE channel # <<>>
    <3>1. 1 \in DOMAIN channel
      BY <1>1, <2>2
    <3>2. firsts # {}
      BY <3>1 DEF EventLogs
    <3>3. firsts \subseteq Nat
      BY <1>2, LogsAssumption
    <3>4. Min(firsts) \in Logs
      <4>. HIDE DEF firsts
      <4>. QED
        BY <1>2, <3>2, <3>3, MinMember
    <3>. QED
      BY <2>2, <3>4 DEF BootDrain, Floors
  <2>. QED
    BY <2>1, <2>2
<1>4. UNCHANGED <<head, rpcHead, refetched, filled, todo, fetched, missed, pending,
                  released_through, apply_only_through, cursor, applied, pool>>
  BY DEF BootDrain, Drain, feedVars, fillVars, settlerVars, poolVars
<1>5. /\ pc = "drain0" /\ pc' = "catchup" /\ latest' = 0
      /\ batch_start' = cursor + 1 /\ events' = channel
  BY DEF BootDrain
<1>6. floor' \in Nat
  BY <1>3, FloorType
<1>7. TypeOK'
  BY <1>1, <1>4, <1>5, <1>6 DEF SourceInv, TypeOK, BootPcs
<1>8. ControlOK'
  BY <1>3, <1>4, <1>5, FeedAssumption DEF SourceInv, ControlOK
<1>. QED
  BY <1>7, <1>8 DEF SourceInv

\* The rest of a list of gaps in hand.
LEMMA TodoTail ==
    ASSUME TypeOK, todo # <<>>
    PROVE  Tail(todo) \in Seq(Gap) /\ Head(todo) \in Gap
<1>1. todo \in Seq(Gap)
  BY DEF TypeOK
<1>. QED
  BY <1>1

\* Taking gaps, at bootstrap and in the loop.
LEMMA TakeGapsInv ==
    ASSUME SourceInv, FeedTypeOK', BootTakeGaps \/ LoopTakeGaps
    PROVE  SourceInv'
<1>1. UNCHANGED <<head, rpcHead, floor, latest, events, batch_start, refetched, filled,
                  fetched, missed, pending, released_through, apply_only_through,
                  cursor, applied, pool>>
  BY DEF BootTakeGaps, LoopTakeGaps, TakeGaps, feedVars, bootVars, settlerVars, poolVars
<1>2. \/ todo' = gaps /\ gaps # <<>> /\ pc' \in {"fill0", "fill"}
      \/ todo' = <<>> /\ pc' \in {"apply0", "ready"}
  BY DEF BootTakeGaps, LoopTakeGaps
<1>3. gaps \in Seq(Gap)
  BY DEF SourceInv, TypeOK, FeedTypeOK, QueueTypeOK
<1>4. todo' \in Seq(Gap)
  <2>1. CASE todo' = gaps
    BY <1>3, <2>1
  <2>2. CASE todo' = <<>>
    BY <2>2
  <2>. QED
    BY <1>2, <2>1, <2>2
<1>5. pc \in {"gaps0", "gaps"}
  BY DEF BootTakeGaps, LoopTakeGaps
<1>6. TypeOK'
  BY <1>1, <1>2, <1>4 DEF SourceInv, TypeOK, BootPcs, LoopPcs
<1>7. ControlOK'
  BY <1>1, <1>2, <1>5 DEF SourceInv, ControlOK
<1>. QED
  BY <1>6, <1>7 DEF SourceInv

\* Fetching a gap, and leaving one for later.
LEMMA FillGapInv ==
    ASSUME SourceInv, FeedTypeOK', BootFillGap \/ LoopFillGap \/ BootLeaveGap
    PROVE  SourceInv'
<1>1. todo # <<>> /\ pc \in {"fill0", "fill"}
  BY DEF BootFillGap, LoopFillGap, BootLeaveGap, SourceInv, ControlOK
<1>2. UNCHANGED <<head, rpcHead, floor, latest, events, batch_start, refetched, missed,
                  pending, released_through, apply_only_through, cursor, applied, pool>>
  BY DEF BootFillGap, LoopFillGap, BootLeaveGap, LeaveGap, NoteAgain, feedVars, bootVars,
         settlerVars, poolVars
<1>3. CASE BootFillGap \/ LoopFillGap
  <2>1. fetched' \subseteq Logs
    BY <1>3 DEF BootFillGap, LoopFillGap, FetchGap, GapLogs, LogsIn
  <2>2. /\ todo' = todo
        /\ \/ pc' = "claim0" /\ filled' = TRUE
           \/ pc' = "claim" /\ filled' = filled
    BY <1>3 DEF BootFillGap, LoopFillGap, bootVars
  <2>3. TypeOK'
    BY <1>2, <2>1, <2>2 DEF SourceInv, TypeOK, BootPcs, LoopPcs
  <2>4. ControlOK'
    BY <1>1, <1>2, <2>2 DEF SourceInv, ControlOK
  <2>. QED
    BY <2>3, <2>4 DEF SourceInv
<1>4. CASE BootLeaveGap
  <2>1. /\ todo' = Tail(todo)
        /\ pc' = IF Tail(todo) = <<>> THEN "apply0" ELSE "fill0"
        /\ UNCHANGED <<filled, fetched>>
    BY <1>4 DEF BootLeaveGap, bootVars
  <2>2. todo' \in Seq(Gap)
    BY <1>1, <2>1, TodoTail DEF SourceInv
  <2>3. TypeOK'
    BY <1>2, <2>1, <2>2 DEF SourceInv, TypeOK, BootPcs
  <2>4. ControlOK'
    BY <1>1, <1>2, <2>1 DEF SourceInv, ControlOK
  <2>. QED
    BY <2>3, <2>4 DEF SourceInv
<1>. QED
  BY <1>3, <1>4

LEMMA ClaimNextInv ==
    ASSUME SourceInv, FeedTypeOK', ClaimNext
    PROVE  SourceInv'
<1>1. UNCHANGED <<head, pc, rpcHead, floor, latest, events, batch_start, refetched,
                  filled, todo, pending, released_through, apply_only_through, cursor,
                  applied, pool>>
  BY DEF ClaimNext, Claim, feedVars, bootVars, settlerVars, poolVars
<1>2. fetched \subseteq Logs /\ fetched # {} /\ missed \subseteq Logs
  BY DEF ClaimNext, SourceInv, TypeOK
<1>3. Min(fetched) \in Logs
  BY <1>2, MinMember, LogsAssumption
<1>4. fetched' \subseteq Logs /\ missed' \subseteq Logs
  BY <1>2, <1>3 DEF ClaimNext
<1>5. TypeOK'
  BY <1>1, <1>4 DEF SourceInv, TypeOK
<1>6. ControlOK'
  BY <1>1 DEF SourceInv, ControlOK
<1>. QED
  BY <1>5, <1>6 DEF SourceInv

\* A filled gap: its claimed logs are counted, the next gap is up.
LEMMA GapFilledInv ==
    ASSUME SourceInv, FeedTypeOK', BootGapFilled \/ LoopGapFilled
    PROVE  SourceInv'
<1>1. todo # <<>> /\ pc \in {"claim0", "claim"}
  BY DEF BootGapFilled, LoopGapFilled, SourceInv, ControlOK
<1>2. Tail(todo) \in Seq(Gap) /\ Head(todo) \in Gap
  BY <1>1, TodoTail DEF SourceInv
<1>3. UNCHANGED <<head, rpcHead, floor, latest, events, batch_start, filled, fetched,
                  released_through, cursor, applied, pool>>
  BY DEF BootGapFilled, LoopGapFilled, feedVars, bootVars, settlerVars, poolVars
<1>4. todo' = Tail(todo) /\ missed' = {}
  BY DEF BootGapFilled, LoopGapFilled
<1>5. /\ pc' \in {"fill0", "fill", "apply0", "ready"}
      /\ pc' \in {"fill0", "fill"} => todo' # <<>>
  BY <1>4 DEF BootGapFilled, LoopGapFilled
<1>6. refetched' \in [Logs -> Nat] /\ pending' \in [Logs -> Nat]
  <2>1. refetched \in [Logs -> Nat] /\ pending \in [Logs -> Nat]
    BY DEF SourceInv, TypeOK
  <2>2. CASE BootGapFilled
    BY <2>1, <2>2 DEF BootGapFilled, settlerVars
  <2>3. CASE LoopGapFilled
    BY <2>1, <2>3 DEF LoopGapFilled, SettlerAdd, bootVars
  <2>. QED
    BY <2>2, <2>3
<1>7. apply_only_through' \in Nat
  <2>1. Block(Head(todo).before) \in Nat
    BY <1>2, BlockAssumption DEF Gap
  <2>2. apply_only_through \in Nat
    BY DEF SourceInv, TypeOK
  <2>3. \/ apply_only_through' = Max({apply_only_through, Block(Head(todo).before)})
        \/ apply_only_through' = apply_only_through
    BY DEF BootGapFilled, LoopGapFilled, settlerVars
  <2>. QED
    BY <2>1, <2>2, <2>3, MaxOfTwo
<1>8. (\E l \in Logs : refetched'[l] > 0) => filled'
  BY DEF BootGapFilled, LoopGapFilled, SourceInv, ControlOK, bootVars
<1>9. TypeOK'
  BY <1>2, <1>3, <1>4, <1>5, <1>6, <1>7 DEF SourceInv, TypeOK, BootPcs, LoopPcs
<1>10. ControlOK'
  BY <1>1, <1>3, <1>5, <1>8 DEF SourceInv, ControlOK
<1>. QED
  BY <1>9, <1>10 DEF SourceInv

LEMMA BootApplyInv ==
    ASSUME SourceInv, FeedTypeOK', BootApply
    PROVE  SourceInv'
<1>1. pc = "apply0" /\ floor \in Floors /\ Block(floor) \in Nat
  BY FloorType DEF BootApply, SourceInv, ControlOK
<1>2. events \in Seq(Item) /\ refetched \in [Logs -> Nat] /\ applied \in [Logs -> Nat]
  BY DEF SourceInv, TypeOK
<1>3. EventLogs(events) \subseteq Logs
  <2>1. \A i \in DOMAIN events : events[i] \in Item
    BY <1>2
  <2>2. \A it \in Item : it.log \in Logs
    BY DEF Item
  <2>. QED
    BY <2>1, <2>2 DEF EventLogs
<1>4. BootLogs \in SUBSET Logs
  BY <1>3 DEF BootLogs
<1>5. BootLogs # {} => Max(BootLogs) \in Logs
  BY <1>4, MaxLog
<1>6. BootCursor \in Nat
  BY <1>1, <1>5, BlockAssumption DEF BootCursor
<1>7. applied' \in [Logs -> Nat]
  <2>1. \A l \in Logs : Count(events, l) \in Nat
    <3>1. \A l \in Logs : {i \in DOMAIN events : events[i].log = l} \subseteq DOMAIN events
      OBVIOUS
    <3>. QED
      BY <1>2, <3>1, OccurrenceType DEF Count
  <2>. QED
    BY <1>2, <2>1 DEF BootApply
<1>8. pool' \in Logs \cup {NoPosition}
  <2>1. CASE BootLogs = {}
    BY <2>1 DEF BootApply, SourceInv, TypeOK
  <2>2. CASE BootLogs # {} /\ filled
    BY <1>5, <2>2 DEF BootApply
  <2>3. CASE BootLogs # {} /\ ~filled
    <3>1. EventLogs(events) # {}
      BY <2>3 DEF BootLogs, SourceInv, ControlOK
    <3>2. Len(events) \in DOMAIN events
      BY <1>2, <3>1 DEF EventLogs
    <3>3. Last(events).log \in Logs
      BY <1>3, <3>2 DEF Last, EventLogs
    <3>. QED
      BY <2>3, <3>3 DEF BootApply
  <2>. QED
    BY <2>1, <2>2, <2>3
<1>9. UNCHANGED <<head, rpcHead, floor, latest, batch_start, todo, fetched, missed,
                  pending, apply_only_through>>
  BY DEF BootApply, feedVars, fillVars
<1>10. /\ cursor' = BootCursor /\ released_through' = BootCursor /\ pc' = "drain"
       /\ events' = <<>> /\ refetched' = [l \in Logs |-> 0] /\ filled' = FALSE
  BY DEF BootApply
<1>11. events' \in Seq(Item) /\ refetched' \in [Logs -> Nat]
  BY <1>10
<1>12. TypeOK'
  BY <1>6, <1>7, <1>8, <1>9, <1>10, <1>11 DEF SourceInv, TypeOK, LoopPcs
<1>13. ControlOK'
  BY <1>1, <1>9, <1>10 DEF SourceInv, ControlOK
<1>. QED
  BY <1>12, <1>13 DEF SourceInv

LEMMA LoopDrainInv ==
    ASSUME SourceInv, FeedTypeOK', LoopDrain
    PROVE  SourceInv'
<1>1. UNCHANGED <<head, rpcHead, floor, latest, events, batch_start, refetched, filled,
                  todo, fetched, missed, released_through, apply_only_through, cursor,
                  applied, pool>>
  BY DEF LoopDrain, Drain, feedVars, bootVars, fillVars, poolVars
<1>2. pc = "drain" /\ pc' = "gaps"
  BY DEF LoopDrain
<1>3. pending' \in [Logs -> Nat]
  <2>1. channel \in Seq(Item) /\ pending \in [Logs -> Nat]
    BY DEF SourceInv, TypeOK, FeedTypeOK, QueueTypeOK
  <2>2. \A l \in Logs : Queued(l) \in Nat
    <3>1. \A l \in Logs : {i \in DOMAIN channel : channel[i] = AsItem(l)} \subseteq DOMAIN channel
      OBVIOUS
    <3>. QED
      BY <2>1, <3>1, OccurrenceType DEF Queued
  <2>3. Arrived \in [Logs -> Nat]
    BY <2>2 DEF Arrived
  <2>. QED
    BY <2>1, <2>3 DEF LoopDrain, SettlerAdd
<1>4. TypeOK'
  BY <1>1, <1>2, <1>3 DEF SourceInv, TypeOK, LoopPcs
<1>5. ControlOK'
  BY <1>1, <1>2 DEF SourceInv, ControlOK
<1>. QED
  BY <1>4, <1>5 DEF SourceInv

LEMMA HandOnInv ==
    ASSUME SourceInv, FeedTypeOK', HandOn
    PROVE  SourceInv'
<1>1. UNCHANGED <<head, rpcHead, floor, latest, events, batch_start, refetched, filled,
                  todo, fetched, missed, apply_only_through>>
  BY DEF HandOn, feedVars, bootVars, fillVars
<1>2. pc = "ready" /\ pc' = "drain" /\ PendingBlocks # {}
  BY DEF HandOn, BlockComplete
<1>3. pending \in [Logs -> Nat] /\ released_through \in Nat
  BY DEF SourceInv, TypeOK
<1>4. ReadyBlock \in Nat
  <2>1. PendingBlocks \subseteq Nat
    BY BlockAssumption DEF PendingBlocks
  <2>. QED
    BY <1>2, <2>1, MinMember DEF ReadyBlock
<1>5. released_through' \in Nat /\ cursor' = released_through'
  BY <1>3, <1>4, MaxOfTwo DEF HandOn, TakeReady
<1>6. pending' \in [Logs -> Nat]
  BY <1>3 DEF HandOn, TakeReady
<1>7. applied' \in [Logs -> Nat] /\ pool' \in Logs \cup {NoPosition}
  <2>1. ReadyLogs \in SUBSET Logs
    BY DEF ReadyLogs
  <2>2. /\ applied' = [l \in Logs |-> applied[l] + IF l \in ReadyLogs THEN pending[l] ELSE 0]
        /\ pool' = IF ReadyLogs = {} THEN pool ELSE Max(ReadyLogs)
    BY DEF HandOn, Apply
  <2>. QED
    BY <1>3, <2>1, <2>2, ApplyType DEF SourceInv
<1>8. TypeOK'
  BY <1>1, <1>2, <1>5, <1>6, <1>7 DEF SourceInv, TypeOK, LoopPcs
<1>9. ControlOK'
  BY <1>1, <1>2 DEF SourceInv, ControlOK
<1>. QED
  BY <1>8, <1>9 DEF SourceInv

----------------------------------------------------------------------------

LEMMA NextInv == SourceInv /\ [Next]_vars => SourceInv'
<1>. SUFFICES ASSUME SourceInv, [Next]_vars PROVE SourceInv'
  OBVIOUS
<1>1. FeedTypeOK'
  BY NextIsFeedNext, FeedNextType DEF SourceInv, TypeOK
<1>2. ASSUME UNCHANGED sourceVars, head' \in Nat, head' >= head PROVE SourceInv'
  <2>1. rpcHead' \in StartBlock..head'
    BY <1>2, FeedAssumption DEF sourceVars, SourceInv, TypeOK, FeedTypeOK
  <2>2. UNCHANGED <<pc, floor, latest, events, batch_start, refetched, filled, todo,
                    fetched, missed, pending, released_through, apply_only_through,
                    cursor, applied, pool>>
    BY <1>2 DEF sourceVars, bootVars, fillVars, settlerVars, poolVars
  <2>3. TypeOK'
    BY <1>1, <2>1, <2>2 DEF SourceInv, TypeOK
  <2>4. ControlOK'
    BY <2>2 DEF SourceInv, ControlOK
  <2>. QED
    BY <2>3, <2>4 DEF SourceInv
<1>3. CASE Outside
  <2>1. UNCHANGED sourceVars
    BY <1>3 DEF Outside
  <2>2. head' = head \/ head' = head + 1
    BY <1>3 DEF Outside, Mine, Reorg, Subscribe, Disconnect, Lagged, Receive,
                ReceiveRetraction, RecordItem, SkipDuplicate, SendItem
  <2>3. head \in Nat
    BY FeedAssumption DEF SourceInv, TypeOK, FeedTypeOK
  <2>. QED
    BY <1>2, <2>1, <2>2, <2>3
<1>4. CASE RpcAdvance
  <2>1. UNCHANGED <<head, pc, floor, latest, events, batch_start, refetched, filled, todo,
                    fetched, missed, pending, released_through, apply_only_through,
                    cursor, applied, pool>>
    BY <1>4 DEF RpcAdvance, feedVars, bootVars, fillVars, settlerVars, poolVars
  <2>2. rpcHead' \in StartBlock..head'
    BY <1>4, <2>1, FeedAssumption DEF RpcAdvance, SourceInv, TypeOK, FeedTypeOK
  <2>3. TypeOK'
    BY <1>1, <2>1, <2>2 DEF SourceInv, TypeOK
  <2>4. ControlOK'
    BY <2>1 DEF SourceInv, ControlOK
  <2>. QED
    BY <2>3, <2>4 DEF SourceInv
<1>5. CASE BootLatest
  <2>1. UNCHANGED <<head, rpcHead, floor, events, batch_start, refetched, filled, todo,
                    fetched, missed, pending, released_through, apply_only_through,
                    cursor, applied, pool>>
    BY <1>5 DEF BootLatest, feedVars, fillVars, settlerVars, poolVars
  <2>2. latest' = rpcHead /\ pc = "latest" /\ pc' = "drain0"
    BY <1>5 DEF BootLatest
  <2>3. latest' \in Nat /\ latest' <= MaxBlock
    BY <2>2, FeedAssumption DEF SourceInv, TypeOK, FeedTypeOK
  <2>4. TypeOK'
    BY <1>1, <2>1, <2>2, <2>3 DEF SourceInv, TypeOK, BootPcs
  <2>5. ControlOK'
    BY <2>1, <2>2, <2>3 DEF SourceInv, ControlOK
  <2>. QED
    BY <2>4, <2>5 DEF SourceInv
<1>6. CASE BootLatestFails \/ BootNothingToCatchUp \/ NotSettled
  <2>1. UNCHANGED <<head, rpcHead, floor, latest, events, refetched, filled, todo,
                    fetched, missed, pending, released_through, apply_only_through,
                    cursor, applied, pool>>
    BY <1>6 DEF BootLatestFails, BootNothingToCatchUp, NotSettled, DropReceiver,
                feedVars, bootVars, fillVars, settlerVars, poolVars
  <2>2. batch_start' \in Nat
    BY <1>6 DEF BootLatestFails, BootNothingToCatchUp, NotSettled, bootVars,
                SourceInv, TypeOK
  <2>3. \/ pc' = "failed"
        \/ pc = "catchup" /\ pc' = "gaps0"
        \/ pc = "ready" /\ pc' = "drain"
    BY <1>6 DEF BootLatestFails, BootNothingToCatchUp, NotSettled
  <2>4. TypeOK'
    BY <1>1, <2>1, <2>2, <2>3 DEF SourceInv, TypeOK, BootPcs, LoopPcs
  <2>5. ControlOK'
    BY <2>1, <2>3 DEF SourceInv, ControlOK
  <2>. QED
    BY <2>4, <2>5 DEF SourceInv
<1>7. CASE UNCHANGED vars
  <2>1. UNCHANGED sourceVars /\ head' = head
    BY <1>7 DEF vars, feedVars
  <2>2. head \in Nat
    BY FeedAssumption DEF SourceInv, TypeOK, FeedTypeOK
  <2>. QED
    BY <1>2, <2>1, <2>2
<1>. QED
  BY <1>1, <1>3, <1>4, <1>5, <1>6, <1>7, CatchUpInv, BootDrainInv, TakeGapsInv,
     FillGapInv, ClaimNextInv, GapFilledInv, BootApplyInv, LoopDrainInv, HandOnInv
     DEF Next, Source, Bootstrap, UpdaterLoop

\* The collector keeps its types: the channel within BufferSize, the RPC node
\* never ahead of the chain, counts natural, and the source's choices (a minimum
\* of the queued positions, of the pending blocks, of the logs to claim) defined.
THEOREM TypeCorrect == Spec => []TypeOK
<1>1. Init => SourceInv
  BY InitInv
<1>2. SourceInv /\ [Next]_vars => SourceInv'
  BY NextInv
<1>3. SourceInv => TypeOK
  BY DEF SourceInv
<1>. QED
  BY <1>1, <1>2, <1>3, PTL DEF Spec

\* The collector implements the general specification of queue and listeners:
\* bootstrap and next_batch use the queue only as FeedSpec allows.
THEOREM SourceImplementsFeed == Spec => FeedSpec
<1>1. Init => SourceInv /\ FeedInit
  BY InitInv DEF Init
<1>2. SourceInv /\ [Next]_vars => SourceInv'
  BY NextInv
<1>3. SourceInv /\ [Next]_vars => [FeedNext]_<<feedVars, queueVars>>
  BY NextIsFeedNext DEF feedSpecVars
<1>. QED
  BY <1>1, <1>2, <1>3, PTL DEF Spec, FeedSpec

\* With bootstrap and the updater loop as the consumer, too, every log a feed
\* passed over is in a gap it noted (websocket_listener.rs: FeedProgress).
THEOREM SourceGapsCoverLosses == Spec => []GapsCoverLosses
  BY SourceImplementsFeed, GapsCoverLossesHolds, PTL

\* Keys that fetch_gap claims and keys that feeds send share one window: none of
\* them enters twice within MaxEvents keys (event_queue.rs: record).
THEOREM SourceDedupWindow == Spec => []DedupWindow
  BY SourceImplementsFeed, DedupWindowHolds, PTL
=============================================================================
