--------------------------- MODULE WebsocketFeed ---------------------------
(***************************************************************************)
(* The websocket listeners (src/src/collector/websocket_listener.rs), the   *)
(* chain they follow and their end of the event queue. Each feed is one     *)
(* listener task: it subscribes, forwards logs one at a time (note the gap   *)
(* the log closes, enter its key, send it), loses logs when its             *)
(* subscription overflows or its connection ends, and subscribes again.     *)
(*                                                                         *)
(* FeedSpec lets the queue's consumer drain, take gaps, claim keys and drop  *)
(* the receiver at any moment; WebsocketBlockSource is the consumer the      *)
(* code has.                                                               *)
(***************************************************************************)
EXTENDS EventQueue, FiniteSets

CONSTANTS Feeds,           \* the configured websocket URLs
          StartBlock,      \* the block the chain has reached when the feeds start
          MaxBlock,        \* bound: the last block mined
          MaxReorgs,       \* bound: logs orphaned by reorgs
          MaxReconnects,   \* bound: subscriptions of one feed
          NodeLag,         \* blocks a feed's node may be behind the chain
          LogChannelSize   \* logs the subscription buffers (LOG_CHANNEL_SIZE)

ASSUME FeedAssumption ==
    /\ StartBlock \in Nat /\ MaxBlock \in Nat /\ StartBlock <= MaxBlock
    /\ MaxReorgs \in Nat /\ MaxReconnects \in Nat
    /\ NodeLag \in Nat /\ LogChannelSize \in Nat \ {0}

\* BlockStart(b) is at or before every position of block b.
ASSUME BlockStartAssumption ==
    \A b \in 0..(MaxBlock + 1) :
        /\ BlockStart(b) \in Nat
        /\ Block(BlockStart(b)) = b
        /\ \A l \in Logs : BlockStart(b) <= l <=> b <= Block(l)

VARIABLES head,            \* newest block of the chain
          orphaned,        \* logs a reorg took off the chain
          up,              \* the feed has a live subscription
          next,            \* the subscription delivers logs from this position on
          owed,            \* retractions the subscription has still to deliver
          last_forwarded,  \* FeedProgress.last_forwarded
          gap_open,        \* FeedProgress.gap_open
          stage,           \* where the listener loop is with the log in hand
          item,            \* the log in hand
          reconnects,      \* subscriptions so far
          covered          \* history: logs the feed forwarded or noted in a gap

feedVars == <<head, orphaned, up, next, owed, last_forwarded, gap_open, stage,
              item, reconnects, covered>>

Stages == {"recv", "record", "send"}

NoItem == [log |-> NoPosition, removed |-> FALSE]

FeedTypeOK ==
    /\ QueueTypeOK
    /\ head \in StartBlock..MaxBlock
    /\ orphaned \subseteq Logs
    /\ up \in [Feeds -> BOOLEAN]
    /\ next \in [Feeds -> Nat]
    /\ owed \in [Feeds -> SUBSET Logs]
    /\ last_forwarded \in [Feeds -> Logs \cup {NoPosition}]
    /\ gap_open \in [Feeds -> BOOLEAN]
    /\ stage \in [Feeds -> Stages]
    /\ item \in [Feeds -> Item \cup {NoItem}]
    /\ \A f \in Feeds : stage[f] # "recv" => item[f] \in Item
    /\ reconnects \in [Feeds -> Nat]
    /\ covered \in [Feeds -> SUBSET Logs]

FeedInit ==
    /\ QueueInit
    /\ head = StartBlock
    /\ orphaned = {}
    /\ up = [f \in Feeds |-> FALSE]
    /\ next = [f \in Feeds |-> NoPosition]
    /\ owed = [f \in Feeds |-> {}]
    /\ last_forwarded = [f \in Feeds |-> NoPosition]
    /\ gap_open = [f \in Feeds |-> FALSE]
    /\ stage = [f \in Feeds |-> "recv"]
    /\ item = [f \in Feeds |-> NoItem]
    /\ reconnects = [f \in Feeds |-> 0]
    /\ covered = [f \in Feeds |-> {}]

----------------------------------------------------------------------------
(* The chain. *)

Mine ==
    /\ head < MaxBlock
    /\ head' = head + 1
    /\ UNCHANGED <<orphaned, up, next, owed, last_forwarded, gap_open, stage, item,
                   reconnects, covered, queueVars>>

\* A reorg takes a log of the newest block off the chain; the node tells every
\* live log subscription that is past it, also one that started after it.
Reorg(l) ==
    /\ Cardinality(orphaned) < MaxReorgs
    /\ l \notin orphaned
    /\ Block(l) = head
    /\ orphaned' = orphaned \cup {l}
    /\ owed' = [f \in Feeds |-> IF up[f] /\ l < next[f] THEN owed[f] \cup {l} ELSE owed[f]]
    /\ UNCHANGED <<head, up, next, last_forwarded, gap_open, stage, item, reconnects,
                   covered, queueVars>>

----------------------------------------------------------------------------
(* A listener. *)

\* What the subscription has yet to deliver.
Upcoming(f) == {l \in Logs \ orphaned : l >= next[f] /\ Block(l) <= head}

\* Where a new subscription may start: with the logs its node has not published.
SubscriptionStarts ==
    {BlockStart(head + 1)} \cup {l \in Logs : Block(l) + NodeLag > head}

\* Mutant: a first subscription opens no gap.
OpenGapUnlessFirst(f) == [gap_open EXCEPT ![f] = @ \/ reconnects[f] > 0]

\* FeedProgress::subscribed and FeedProgress::lagged.
OpenGap(f) == [gap_open EXCEPT ![f] = TRUE]

\* connect_and_listen up to its loop: the subscription starts at the current
\* block, so whatever came before is lost.
Subscribe(f) ==
    /\ ~up[f]
    /\ reconnects[f] < MaxReconnects
    /\ \E p \in SubscriptionStarts : next' = [next EXCEPT ![f] = p]
    /\ up' = [up EXCEPT ![f] = TRUE]
    /\ gap_open' = OpenGap(f)
    /\ reconnects' = [reconnects EXCEPT ![f] = @ + 1]
    /\ UNCHANGED <<head, orphaned, owed, last_forwarded, stage, item, covered, queueVars>>

\* The connection ends: subscription closed, heartbeat gave up or stalled. What
\* it had not delivered is lost.
Disconnect(f) ==
    /\ up[f]
    /\ stage[f] = "recv"
    /\ up' = [up EXCEPT ![f] = FALSE]
    /\ next' = [next EXCEPT ![f] = NoPosition]
    /\ owed' = [owed EXCEPT ![f] = {}]
    /\ UNCHANGED <<head, orphaned, last_forwarded, gap_open, stage, item, reconnects,
                   covered, queueVars>>

\* The subscription overflows: only its newest LogChannelSize logs remain.
Lagged(f) ==
    /\ up[f]
    /\ stage[f] = "recv"
    /\ \E l \in Upcoming(f) :
           /\ \E m \in Upcoming(f) : m < l
           /\ Cardinality({m \in Upcoming(f) : m >= l}) >= LogChannelSize
           /\ next' = [next EXCEPT ![f] = l]
    /\ gap_open' = OpenGap(f)
    /\ UNCHANGED <<head, orphaned, up, owed, last_forwarded, stage, item, reconnects,
                   covered, queueVars>>

\* FeedProgress::forwarding: the gap that log l closes.
GapBefore(f, l) == [after |-> last_forwarded[f], before |-> l]

\* FeedProgress::forwarding: last_forwarded never goes back.
AdvanceForwarded(f, l) == [last_forwarded EXCEPT ![f] = IF @ < l THEN l ELSE @]

\* The loop takes a log off the subscription: forwarding, then note_gap.
Receive(f) ==
    /\ up[f]
    /\ stage[f] = "recv"
    /\ \E l \in Upcoming(f) :
           /\ \A m \in Upcoming(f) : l <= m
           /\ IF gap_open[f] THEN NoteGap(GapBefore(f, l)) ELSE UNCHANGED gaps
           /\ gap_open' = [gap_open EXCEPT ![f] = FALSE]
           /\ last_forwarded' = AdvanceForwarded(f, l)
           /\ next' = [next EXCEPT ![f] = l + 1]
           /\ item' = [item EXCEPT ![f] = [log |-> l, removed |-> FALSE]]
           /\ covered' = [covered EXCEPT ![f] = @ \cup {l} \cup
                  {m \in Logs : gap_open[f] /\ last_forwarded[f] < m /\ m < l}]
    /\ stage' = [stage EXCEPT ![f] = "record"]
    /\ UNCHANGED <<head, orphaned, up, owed, reconnects, channel, receiver,
                   event_order, recorded>>

\* The loop takes a retraction off the subscription: it moves no progress and
\* closes no gap, and is sent on like a log.
ReceiveRetraction(f) ==
    /\ up[f]
    /\ stage[f] = "recv"
    /\ \E l \in owed[f] :
           /\ owed' = [owed EXCEPT ![f] = @ \ {l}]
           /\ item' = [item EXCEPT ![f] = [log |-> l, removed |-> TRUE]]
    /\ stage' = [stage EXCEPT ![f] = "record"]
    /\ UNCHANGED <<head, orphaned, up, next, last_forwarded, gap_open, reconnects,
                   covered, queueVars>>

\* EventSender::send enters the key and goes on to the channel ...
RecordItem(f) ==
    /\ stage[f] = "record"
    /\ ~Duplicate(item[f].log)
    /\ Record(item[f].log)
    /\ stage' = [stage EXCEPT ![f] = "send"]
    /\ UNCHANGED <<head, orphaned, up, next, owed, last_forwarded, gap_open, item,
                   reconnects, covered, channel, receiver, gaps>>

\* ... or returns, the key being there already.
SkipDuplicate(f) ==
    /\ stage[f] = "record"
    /\ Duplicate(item[f].log)
    /\ stage' = [stage EXCEPT ![f] = "recv"]
    /\ item' = [item EXCEPT ![f] = NoItem]
    /\ UNCHANGED <<head, orphaned, up, next, owed, last_forwarded, gap_open,
                   reconnects, covered, queueVars>>

SendItem(f) ==
    /\ stage[f] = "send"
    /\ ChannelSend(item[f])
    /\ stage' = [stage EXCEPT ![f] = "recv"]
    /\ item' = [item EXCEPT ![f] = NoItem]
    /\ UNCHANGED <<head, orphaned, up, next, owed, last_forwarded, gap_open,
                   reconnects, covered, receiver, event_order, gaps, recorded>>

FeedStep(f) ==
    \/ Subscribe(f) \/ Disconnect(f) \/ Lagged(f)
    \/ Receive(f) \/ ReceiveRetraction(f)
    \/ RecordItem(f) \/ SkipDuplicate(f) \/ SendItem(f)

Environment == Mine \/ (\E l \in Logs : Reorg(l)) \/ (\E f \in Feeds : FeedStep(f))

----------------------------------------------------------------------------
(* The consumer, at its most general. *)

Drain ==
    /\ DrainChannel
    /\ UNCHANGED <<feedVars, receiver, event_order, gaps, recorded>>

TakeGaps ==
    /\ TakeAllGaps
    /\ UNCHANGED <<feedVars, channel, receiver, event_order, recorded>>

\* A gap the consumer took and puts back.
NoteAgain(gap) ==
    /\ NoteGap(gap)
    /\ UNCHANGED <<feedVars, channel, receiver, event_order, recorded>>

\* `claim`: the consumer enters the key of a log it fetched itself.
Claim(l) ==
    /\ ~Duplicate(l)
    /\ Record(l)
    /\ UNCHANGED <<feedVars, channel, receiver, gaps>>

DropReceiver ==
    /\ receiver
    /\ receiver' = FALSE
    /\ UNCHANGED <<feedVars, channel, event_order, gaps, recorded>>

Consumer ==
    \/ Drain \/ TakeGaps \/ DropReceiver
    \/ \E l \in Logs : Claim(l)
    \/ \E gap \in Gap : NoteAgain(gap)

FeedNext == Environment \/ Consumer

FeedSpec == FeedInit /\ [][FeedNext]_<<feedVars, queueVars>>

----------------------------------------------------------------------------

\* Every log up to the newest one a feed forwarded was forwarded by it or lies
\* in a gap it noted, unless a reorg removed it: no loss goes unnoticed
\* (websocket_listener.rs: FeedProgress).
GapsCoverLosses ==
    \A f \in Feeds : \A m \in Logs :
        m <= last_forwarded[f] => m \in covered[f] \cup orphaned

\* While no gap is open, a live subscription goes on from where the feed is.
NoSilentLoss ==
    \A f \in Feeds : up[f] /\ ~gap_open[f] =>
        \A m \in Logs : m < next[f] => m <= last_forwarded[f] \/ m \in orphaned
=============================================================================
