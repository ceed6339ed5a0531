----------------------------- MODULE PoolReplay -----------------------------
(***************************************************************************)
(* What the collector promises of the pool registry, whatever feeds it: a    *)
(* registered pool holds the chain's logs of that pool, each once, in order  *)
(* and without a hole, and the block cursor only moves to a block every      *)
(* registered pool has reached.                                             *)
(*                                                                         *)
(* A pool's state is the sequence of logs applied to it since its creation:  *)
(* a log lost, applied twice or out of order is a different state.          *)
(*                                                                         *)
(* The promise is no better than what the pools are fed. `astray` holds the   *)
(* logs that a node left out of an answer, or that a source handed on with   *)
(* the wrong block or in the wrong order; of these nothing is promised, and  *)
(* of all others everything is.                                             *)
(***************************************************************************)
EXTENDS SequencesExt, ChainOrder

CONSTANTS Pools, Logs, Absent,
          Block(_),    \* the block of a log; logs are numbered in chain order
          PoolOf(_)    \* the pool that emitted a log

VARIABLES state,       \* PoolRegistry.by_address: a pool's state, or Absent
          cursor,      \* PoolRegistry.last_processed_block
          astray       \* history: logs the sources did not bring as they should

\* The logs of pool p in the given blocks, in chain order.
LogsOf(p, from, to) ==
    InOrder({l \in Logs : PoolOf(l) = p /\ Block(l) \in from..to})

\* The state of pool p on chain at the end of block b.
ChainState(p, b) == LogsOf(p, 0, b)

\* s holds every log of p through block b.
Reaches(s, p, b) ==
    \A l \in Logs \ astray : PoolOf(l) = p /\ Block(l) <= b => l \in ToSet(s)

\* s is logs of p in chain order, each once, with none missing before another.
OnChain(s, p) ==
    /\ \A i \in DOMAIN s : PoolOf(s[i]) = p
    /\ \A i, j \in DOMAIN s :
           i < j /\ s[i] \notin astray /\ s[j] \notin astray => s[i] < s[j]
    /\ \A i \in DOMAIN s : s[i] \notin astray =>
           \A l \in Logs \ astray : PoolOf(l) = p /\ l <= s[i] => l \in ToSet(s)

Replayed(p) == state[p] # Absent => OnChain(state[p], p) /\ Reaches(state[p], p, cursor)

ReplayInit == \A p \in Pools : state[p] = Absent \/ state[p] = ChainState(p, cursor)

\* A pool's state is extended, or it appears, or it goes away.
Moves(p) == state[p] # Absent /\ state'[p] # Absent => IsPrefix(state[p], state'[p])

\* What the cursor may be set back over is what the sources bring again.
ReplayNext ==
    /\ \A p \in Pools : Moves(p) /\ Replayed(p)'
    /\ astray \subseteq astray'
    /\ \A l \in Logs : cursor' < Block(l) /\ Block(l) <= cursor => l \in astray'

ReplaySpec == ReplayInit /\ [][ReplayNext]_<<state, cursor, astray>>
=============================================================================
