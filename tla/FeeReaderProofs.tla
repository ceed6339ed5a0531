--------------------------- MODULE FeeReaderProofs ---------------------------
(***************************************************************************)
(* Proofs about FeeReader: its types, and that a classification which a      *)
(* reconfiguration has outrun is always about to be derived again.           *)
(***************************************************************************)
EXTENDS FeeReader, Induction

----------------------------------------------------------------------------
(* The inductive invariant. *)

FeeRecords == [stored : 0..1, live : 2..3, dynamic : BOOLEAN]
Blocks == [event : {"none", "fee", "plugin", "swap"}, pool : Pools \cup {Absent},
           fees : [Pools -> FeeRecords]]
PoolRecords == [fee : 0..3, source : Sources]

\* Whether swaps of p pay a computed fee after block b.
Dynamic(p, b) == chain[b].fees[p].dynamic

\* Only a plugin event, of an Algebra pool, changes what swaps pay.
ChainInv ==
    /\ chain \in Seq(Blocks) /\ Newest >= 1
    /\ \A b \in 2..Newest :
           /\ chain[b].pool \in Pools
           /\ chain[b].event = "plugin" => kind[chain[b].pool] = "AlgebraV3"
           /\ \A p \in Pools : Dynamic(p, b) # Dynamic(p, b - 1)
                                   => chain[b].event = "plugin" /\ chain[b].pool = p
    /\ \A p \in Pools : kind[p] = "RamsesCL" => \A b \in 1..Newest : Dynamic(p, b) = Dynamic(p, 1)

\* The batch under way is the block after the cursor, and a pool it reconfigures is
\* among its candidates.
BatchInv ==
    /\ batch \in [touched : SUBSET Pools, through : Nat]
    /\ cursor \in 1..Newest
    /\ batch # NoBatch => /\ batch.through = cursor + 1 /\ batch.through <= Newest
                          /\ Reconfigured(batch.through) \subseteq batch.touched

\* A read has what its stage needs, and a reader to come has none in flight.
Plans == [stage : {"plan"}, addresses : SUBSET Pools, full : BOOLEAN]
Calls == [stage : {"call"}, wanted : SUBSET Pools, config : SUBSET Pools]
Writes == [stage : {"write"}, wanted : SUBSET Pools, config : SUBSET Pools, block : Nat]
TasksInv ==
    /\ tasks \in [1..MaxReaders -> {Idle, [stage |-> "hung"]} \cup Plans \cup Calls \cup Writes]
    /\ \A r \in 1..MaxReaders : /\ tasks[r].stage = "write" => tasks[r].block \in 1..cursor
                                /\ r > reader => tasks[r] = Idle

ScalarsInv ==
    /\ kind \in [Pools -> {"AlgebraV3", "RamsesCL"}]
    /\ pools \in [Pools -> PoolRecords \cup {Absent}]
    /\ tracked \subseteq Pools /\ queued \subseteq Pools
    /\ due \in BOOLEAN
    /\ reader \in 1..MaxReaders
    /\ failures \in 0..MaxFailures /\ removals \in 0..MaxRemovals

TypeInv == ScalarsInv /\ ChainInv /\ BatchInv /\ TasksInv

\* The block the pools' logs are applied through.
Level == IF batch = NoBatch THEN cursor ELSE batch.through

\* A pool waits for the next read.
Waiting(p) == p \in queued \cup batch.touched

\* The read in flight will classify the pool again.
Reclassifies(t, p) ==
    \/ t.stage = "plan" /\ p \in t.addresses
    \/ t.stage = "call" /\ p \in t.wanted \cap t.config
    \/ t.stage = "write" /\ p \in t.wanted \cap t.config

\* With one reader and no failure: a wrong classification is about to be derived
\* again, and an answer that a reconfiguration has outrun leaves its pool waiting.
ClassifiedInv ==
    failures = 0 /\ reader = 1 =>
        \A p \in Pools :
            /\ pools[p] # Absent /\ pools[p].source = "Events" /\ Dynamic(p, Level)
                   => /\ kind[p] = "AlgebraV3"
                      /\ Waiting(p) \/ Reclassifies(tasks[1], p)
            /\ tasks[1].stage = "write" /\ p \in tasks[1].wanted \cap tasks[1].config
                   => Dynamic(p, tasks[1].block) = Dynamic(p, Level) \/ Waiting(p)
            /\ tasks[1].stage \in {"call", "write"} /\ p \in tasks[1].config
                   => kind[p] = "AlgebraV3"

FeeInv == TypeInv /\ ClassifiedInv

----------------------------------------------------------------------------
(* Types of what the operators return. *)

LEMMA AppendFacts ==
    ASSUME NEW S, NEW s \in Seq(S), NEW e \in S
    PROVE  /\ Append(s, e) \in Seq(S) /\ Len(Append(s, e)) = Len(s) + 1
           /\ Append(s, e)[Len(s) + 1] = e
           /\ \A i \in 1..Len(s) : Append(s, e)[i] = s[i]
OBVIOUS

LEMMA ChainTypes ==
    ASSUME ChainInv, NEW b \in 1..Newest, NEW p \in Pools
    PROVE  /\ Newest \in Nat /\ chain[b] \in Blocks /\ chain[b].fees[p] \in FeeRecords
           /\ Dynamic(p, b) \in BOOLEAN /\ Paid(p, b) \in 0..3
<1>1. Newest \in Nat /\ chain[b] \in Blocks
  BY DEF ChainInv, Newest
<1>2. chain[b].fees[p] \in FeeRecords
  BY <1>1 DEF Blocks
<1>. DEFINE f == chain[b].fees[p]
<1>3. f.stored \in 0..1 /\ f.live \in 2..3 /\ f.dynamic \in BOOLEAN
  BY <1>2 DEF FeeRecords
<1>4. Paid(p, b) = f.stored \/ Paid(p, b) = f.live
  BY Zenon DEF Paid
<1>5. Paid(p, b) \in 0..3
  <2>. HIDE DEF f
  <2>. QED
    BY <1>3, <1>4
<1>. QED
  BY <1>1, <1>2, <1>3, <1>5 DEF Dynamic

LEMMA ClassifyType ==
    ASSUME ChainInv, kind \in [Pools -> {"AlgebraV3", "RamsesCL"}],
           NEW b \in 1..Newest, NEW p \in Pools
    PROVE  /\ Classify(p, b) \in Sources \ {"Unknown"}
           /\ Classify(p, b) = "Events" <=> ~Dynamic(p, b)
           /\ Fetched(p, b) \in PoolRecords /\ Fetched(p, b) # Absent
           /\ Fetched(p, b).source = Classify(p, b)
<1>1. kind[p] = "AlgebraV3" \/ kind[p] = "RamsesCL"
  OBVIOUS
<1>2. /\ Classify(p, b) \in Sources \ {"Unknown"}
      /\ Classify(p, b) = "Events" <=> ~Dynamic(p, b)
  BY <1>1 DEF Classify, Sources, Dynamic
<1>3. Fetched(p, b) \in PoolRecords /\ Fetched(p, b).source = Classify(p, b)
  BY <1>2, ChainTypes DEF Fetched, PoolRecords
<1>4. Fetched(p, b) # Absent
  BY <1>3, FeeReaderAssumption DEF PoolRecords, Sources
<1>. QED
  BY <1>2, <1>3, <1>4

\* apply_log keeps a pool a pool.
LEMMA ApplyLogType ==
    ASSUME ChainInv, NEW b \in 1..Newest, NEW p \in Pools, NEW pool \in PoolRecords \cup {Absent}
    PROVE  /\ pool = Absent => ApplyLog(pool, p, b) = Absent
           /\ pool # Absent => /\ ApplyLog(pool, p, b) \in PoolRecords
                               /\ ApplyLog(pool, p, b) # Absent
           /\ pool # Absent /\ chain[b].event = "plugin" /\ chain[b].pool = p
                  => ApplyLog(pool, p, b).source = "Unknown"
           /\ pool # Absent /\ ApplyLog(pool, p, b).source # "Unknown"
                  => ApplyLog(pool, p, b).source = pool.source
<1>1. CASE pool = Absent
  BY <1>1 DEF ApplyLog
<1>2. CASE pool # Absent
  <2>1. pool \in PoolRecords /\ chain[b].fees[p].stored \in 0..3
    BY <1>2, ChainTypes DEF FeeRecords
  <2>2. CASE chain[b].pool # p
    <3>1. ApplyLog(pool, p, b) = pool
      BY <2>2 DEF ApplyLog
    <3>. QED
      BY <1>2, <2>1, <2>2, <3>1
  <2>3. CASE /\ chain[b].pool = p /\ chain[b].event = "fee"
             /\ pool.source \notin {"ReadFee", "ReadCurrentFee"}
    <3>1. ApplyLog(pool, p, b) = [pool EXCEPT !.fee = chain[b].fees[p].stored]
      BY <1>2, <2>3 DEF ApplyLog
    <3>2. ApplyLog(pool, p, b) \in PoolRecords /\ ApplyLog(pool, p, b).source = pool.source
      BY <2>1, <3>1 DEF PoolRecords
    <3>3. ApplyLog(pool, p, b) # Absent
      BY <3>2, FeeReaderAssumption DEF PoolRecords, Sources
    <3>. QED
      BY <1>2, <2>3, <3>2, <3>3
  <2>4. CASE chain[b].pool = p /\ chain[b].event = "plugin"
    <3>1. ApplyLog(pool, p, b) = [pool EXCEPT !.source = "Unknown"]
      BY <1>2, <2>4 DEF ApplyLog
    <3>2. ApplyLog(pool, p, b) \in PoolRecords /\ ApplyLog(pool, p, b).source = "Unknown"
      BY <2>1, <3>1 DEF PoolRecords, Sources
    <3>3. ApplyLog(pool, p, b) # Absent
      BY <3>2, FeeReaderAssumption DEF PoolRecords, Sources
    <3>. QED
      BY <1>2, <2>4, <3>2, <3>3
  <2>5. CASE /\ chain[b].pool = p /\ chain[b].event # "plugin"
             /\ ~(chain[b].event = "fee" /\ pool.source \notin {"ReadFee", "ReadCurrentFee"})
    <3>1. ApplyLog(pool, p, b) = pool
      BY <1>2, <2>5 DEF ApplyLog
    <3>. QED
      BY <1>2, <2>1, <2>5, <3>1
  <2>. QED
    BY <2>2, <2>3, <2>4, <2>5
<1>. QED
  BY <1>1, <1>2

\* Applying several blocks: the steps exist, and each is a pool.
Stepping(pool, p, m) ==
    {f \in [cursor..(cursor + m) -> PoolRecords] :
        \A b \in cursor..(cursor + m) :
            f[b] = IF b = cursor THEN pool ELSE ApplyLog(f[b - 1], p, b)}

LEMMA StepsExist ==
    ASSUME ChainInv, cursor \in 1..Newest, NEW p \in Pools, NEW pool \in PoolRecords
    PROVE  \A m \in Nat : cursor + m <= Newest => Stepping(pool, p, m) # {}
<1>. DEFINE S == {m \in Nat : cursor + m <= Newest => Stepping(pool, p, m) # {}}
<1>0. cursor \in Nat /\ Newest \in Nat /\ pool # Absent
  BY FeeReaderAssumption DEF ChainInv, Newest, PoolRecords, Sources
<1>1. 0 \in S
  <2>. DEFINE f == [b \in cursor..(cursor + 0) |-> pool]
  <2>1. f \in Stepping(pool, p, 0)
    BY <1>0 DEF Stepping
  <2>. QED
    BY <2>1
<1>2. ASSUME NEW m \in Nat, m \in S PROVE m + 1 \in S
  <2>. SUFFICES ASSUME cursor + (m + 1) <= Newest PROVE Stepping(pool, p, m + 1) # {}
    OBVIOUS
  <2>1. PICK f : f \in Stepping(pool, p, m)
    BY <1>0, <1>2
  <2>2. /\ f \in [cursor..(cursor + m) -> PoolRecords]
        /\ \A b \in cursor..(cursor + m) :
               f[b] = IF b = cursor THEN pool ELSE ApplyLog(f[b - 1], p, b)
    BY <2>1 DEF Stepping
  <2>. DEFINE n == cursor + (m + 1)
              next == ApplyLog(f[n - 1], p, n)
              g == [b \in cursor..n |-> IF b = n THEN next ELSE f[b]]
  <2>3. n \in 1..Newest /\ n - 1 \in cursor..(cursor + m) /\ n # cursor
        /\ cursor..n = (cursor..(cursor + m)) \cup {n} /\ n \notin cursor..(cursor + m)
    BY <1>0
  <2>. HIDE DEF n
  <2>4. f[n - 1] \in PoolRecords /\ f[n - 1] # Absent
    BY <2>2, <2>3, FeeReaderAssumption DEF PoolRecords, Sources
  <2>5. next \in PoolRecords
    BY <2>3, <2>4, ApplyLogType
  <2>. HIDE DEF next
  <2>6. g \in [cursor..n -> PoolRecords]
    BY <2>2, <2>3, <2>5
  <2>7. \A b \in cursor..n : g[b] = IF b = cursor THEN pool ELSE ApplyLog(g[b - 1], p, b)
    <3>. TAKE b \in cursor..n
    <3>1. CASE b = n
      <4>1. g[n] = next /\ g[n - 1] = f[n - 1]
        BY <2>3
      <4>. QED
        BY <2>3, <3>1, <4>1 DEF next
    <3>2. CASE b # n
      <4>1. b \in cursor..(cursor + m) /\ g[b] = f[b]
        BY <2>3, <3>2
      <4>2. b # cursor => b - 1 \in cursor..(cursor + m) /\ b - 1 # n /\ b - 1 \in cursor..n
        BY <1>0, <2>3, <4>1
      <4>3. b # cursor => g[b - 1] = f[b - 1]
        BY <4>2
      <4>. QED
        BY <2>2, <4>1, <4>3
    <3>. QED
      BY <3>1, <3>2
  <2>8. g \in Stepping(pool, p, m + 1)
    <3>1. cursor + (m + 1) = n
      BY DEF n
    <3>. HIDE DEF g
    <3>. QED
      BY <2>6, <2>7, <3>1 DEF Stepping
  <2>. QED
    BY <2>8
<1>3. \A m \in Nat : m \in S
  <2>. HIDE DEF S
  <2>. QED
    BY <1>1, <1>2, Induction
<1>. QED
  BY <1>3

\* add_pools' catch-up leaves a pool a pool.
LEMMA AppliedThroughType ==
    ASSUME ChainInv, cursor \in 1..Newest, NEW p \in Pools, NEW pool \in PoolRecords,
           NEW k \in cursor..Newest
    PROVE  AppliedThrough(pool, p, k) \in PoolRecords
<1>. DEFINE step[b \in cursor..k] == IF b = cursor THEN pool ELSE ApplyLog(step[b - 1], p, b)
            IsStep(f) == f = [b \in cursor..k |-> IF b = cursor THEN pool
                                                  ELSE ApplyLog(f[b - 1], p, b)]
<1>0. cursor \in Nat /\ k \in Nat /\ k - cursor \in Nat /\ cursor + (k - cursor) = k
      /\ cursor + (k - cursor) <= Newest
  BY DEF ChainInv, Newest
<1>1. AppliedThrough(pool, p, k) = step[k]
  BY DEF AppliedThrough
<1>2. step = CHOOSE f : IsStep(f)
  OBVIOUS
<1>3. PICK f : f \in Stepping(pool, p, k - cursor)
  BY <1>0, StepsExist
<1>4. /\ f \in [cursor..k -> PoolRecords]
      /\ \A b \in cursor..k : f[b] = IF b = cursor THEN pool ELSE ApplyLog(f[b - 1], p, b)
  BY <1>0, <1>3 DEF Stepping
<1>5. IsStep(f)
  BY <1>4
<1>6. IsStep(step)
  <2>. HIDE DEF IsStep, step
  <2>. QED
    BY <1>2, <1>5
<1>7. \A b \in cursor..k : step[b] = IF b = cursor THEN pool ELSE ApplyLog(step[b - 1], p, b)
  <2>. HIDE DEF step
  <2>. QED
    BY <1>6
<1>. HIDE DEF step, IsStep
<1>. DEFINE S == {m \in Nat : cursor + m <= k => step[cursor + m] \in PoolRecords}
<1>8. 0 \in S
  BY <1>0, <1>7
<1>9. ASSUME NEW m \in Nat, m \in S PROVE m + 1 \in S
  <2>. SUFFICES ASSUME cursor + (m + 1) <= k PROVE step[cursor + (m + 1)] \in PoolRecords
    OBVIOUS
  <2>. DEFINE n == cursor + (m + 1)
  <2>1. n \in cursor..k /\ n # cursor /\ n - 1 = cursor + m /\ cursor + m <= k /\ n \in 1..Newest
    BY <1>0 DEF ChainInv, Newest
  <2>2. step[n - 1] \in PoolRecords
    BY <1>9, <2>1
  <2>. HIDE DEF n
  <2>3. step[n] = ApplyLog(step[n - 1], p, n)
    BY <1>7, <2>1
  <2>4. step[n - 1] # Absent
    BY <2>2, FeeReaderAssumption DEF PoolRecords, Sources
  <2>5. step[n] \in PoolRecords
    BY <2>1, <2>2, <2>3, <2>4, ApplyLogType
  <2>. QED
    BY <2>5 DEF n
<1>10. \A m \in Nat : m \in S
  <2>. HIDE DEF S
  <2>. QED
    BY <1>8, <1>9, Induction
<1>11. step[cursor + (k - cursor)] \in PoolRecords
  BY <1>0, <1>10
<1>. QED
  BY <1>0, <1>1, <1>11

----------------------------------------------------------------------------
(* Types are kept. *)

LEMMA TypeInvTypeOK == TypeInv => TypeOK
<1>. SUFFICES ASSUME TypeInv PROVE TypeOK
  OBVIOUS
<1>. USE DEF TypeInv
<1>1. batch.touched \subseteq Pools /\ batch.through \in 0..Newest
  <2>1. CASE batch = NoBatch
    BY <2>1 DEF NoBatch, ChainInv, Newest
  <2>2. CASE batch # NoBatch
    BY <2>2 DEF BatchInv, ChainInv, Newest
  <2>. QED
    BY <2>1, <2>2
<1>2. \A r \in 1..MaxReaders : tasks[r].stage \in {"idle", "plan", "call", "hung", "write"}
  <2>. SUFFICES ASSUME NEW r \in 1..MaxReaders
                PROVE  tasks[r].stage \in {"idle", "plan", "call", "hung", "write"}
    OBVIOUS
  <2>1. tasks[r] \in {Idle, [stage |-> "hung"]} \cup Plans \cup Calls \cup Writes
    BY DEF TasksInv
  <2>. QED
    BY <2>1 DEF Idle, Plans, Calls, Writes
<1>. QED
  BY <1>1, <1>2 DEF ScalarsInv, BatchInv, TypeOK, PoolRecords

\* Where the chain stays as it is, its facts do.
LEMMA ChainKept ==
    ASSUME ChainInv, UNCHANGED <<kind, chain>>
    PROVE  ChainInv'
BY DEF ChainInv, Newest, Dynamic

LEMMA TasksKept ==
    ASSUME TasksInv, UNCHANGED <<tasks, cursor, reader>>
    PROVE  TasksInv'
BY DEF TasksInv

LEMMA BatchKept ==
    ASSUME BatchInv, UNCHANGED <<batch, cursor, chain>>
    PROVE  BatchInv'
BY DEF BatchInv, Newest, Reconfigured

\* One read changes; a later reader has none.
LEMMA TaskSet ==
    ASSUME TasksInv, reader \in 1..MaxReaders, NEW r \in 1..MaxReaders,
           tasks[r] # Idle \/ r = reader, NEW t,
           t \in {Idle, [stage |-> "hung"]} \cup Plans \cup Calls \cup Writes,
           t.stage = "write" => t.block \in 1..cursor',
           cursor \in Nat, cursor' \in Nat, cursor <= cursor',
           tasks' = [tasks EXCEPT ![r] = t], UNCHANGED reader
    PROVE  TasksInv'
<1>1. reader \in Nat /\ \A q \in 1..MaxReaders : tasks'[q] = IF q = r THEN t ELSE tasks[q]
  BY DEF TasksInv
<1>2. tasks' \in [1..MaxReaders -> {Idle, [stage |-> "hung"]} \cup Plans \cup Calls \cup Writes]
  BY DEF TasksInv
<1>3. r <= reader
  BY FeeReaderAssumption, <1>1 DEF TasksInv
<1>4. ASSUME NEW q \in 1..MaxReaders
      PROVE /\ tasks'[q].stage = "write" => tasks'[q].block \in 1..cursor'
            /\ q > reader => tasks'[q] = Idle
  <2>1. CASE q = r
    BY <1>1, <1>3, <2>1
  <2>2. CASE q # r
    <3>1. tasks'[q] = tasks[q]
      BY <1>1, <2>2
    <3>2. tasks[q].stage = "write" => tasks[q].block \in 1..cursor
      BY DEF TasksInv
    <3>3. q > reader => tasks[q] = Idle
      BY DEF TasksInv
    <3>. QED
      BY <3>1, <3>2, <3>3
  <2>. QED
    BY <2>1, <2>2
<1>. QED
  BY <1>2, <1>4 DEF TasksInv

\* A new block is announced, unless it leaves what swaps pay alone.
LEMMA NewBlockType ==
    ASSUME TypeInv, NEW p \in Pools, NEW event \in {"none", "fee", "plugin", "swap"},
           NEW fees \in FeeRecords, NewBlock(p, event, fees),
           fees.dynamic # Now(p).dynamic => event = "plugin",
           event = "plugin" => kind[p] = "AlgebraV3"
    PROVE  /\ TypeInv' /\ Newest \in Nat /\ Newest' = Newest + 1
           /\ \A b \in 1..Newest : chain'[b] = chain[b]
<1>. DEFINE block == [event |-> event, pool |-> p,
                      fees |-> [chain[Newest].fees EXCEPT ![p] = fees]]
<1>. USE DEF TypeInv
<1>1. chain' = Append(chain, block) /\ chain \in Seq(Blocks) /\ Newest \in Nat /\ Newest >= 1
  BY DEF NewBlock, ChainInv, Newest
<1>2. chain[Newest] \in Blocks /\ chain[Newest].fees \in [Pools -> FeeRecords]
  <2>1. chain[Newest] \in Blocks
    BY <1>1 DEF Newest
  <2>. QED
    BY <2>1 DEF Blocks
<1>n. PICK n \in Nat : n = Newest
  BY <1>1
<1>3. block \in Blocks
  BY <1>2 DEF Blocks
<1>4. /\ block.event = event /\ block.pool = p /\ block.fees[p] = fees
      /\ \A q \in Pools \ {p} : block.fees[q] = chain[Newest].fees[q]
  BY <1>2
<1>. HIDE DEF block
<1>5. /\ chain' \in Seq(Blocks) /\ Newest' = Newest + 1 /\ chain'[Newest + 1] = block
      /\ \A b \in 1..Newest : chain'[b] = chain[b]
  BY <1>1, <1>3, AppendFacts DEF Newest
<1>6. UNCHANGED <<kind, pools, tracked, cursor, batch, queued, due, reader, tasks, failures, removals>>
  BY DEF NewBlock
<1>7. \A b \in 1..Newest : \A q \in Pools : Dynamic(q, b)' = Dynamic(q, b)
  BY <1>5 DEF Dynamic
<1>8. /\ \A q \in Pools \ {p} : Dynamic(q, n + 1)' = Dynamic(q, Newest)
      /\ Dynamic(p, n + 1)' = fees.dynamic /\ Dynamic(p, Newest) = Now(p).dynamic
  BY <1>n, <1>4, <1>5 DEF Dynamic, Now
<1>9. ChainInv'
  <2>1. ASSUME NEW b \in 2..Newest'
        PROVE  /\ chain'[b].pool \in Pools
               /\ chain'[b].event = "plugin" => kind'[chain'[b].pool] = "AlgebraV3"
               /\ \A q \in Pools : Dynamic(q, b)' # Dynamic(q, b - 1)'
                                   => chain'[b].event = "plugin" /\ chain'[b].pool = q
    <3>1. CASE b = n + 1
      <4>1. b - 1 = n /\ b - 1 = Newest /\ Newest \in 1..Newest
        BY <1>1, <1>n, <3>1
      <4>2. \A q \in Pools : Dynamic(q, b - 1)' = Dynamic(q, Newest)
        BY <1>7, <4>1
      <4>3. \A q \in Pools : Dynamic(q, b)' = Dynamic(q, n + 1)'
        BY <3>1
      <4>. QED
        BY <1>n, <1>4, <1>5, <1>6, <1>8, <3>1, <4>2, <4>3
    <3>2. CASE b # n + 1
      <4>1. b \in 2..Newest /\ b \in 1..Newest /\ b - 1 \in 1..Newest
        BY <1>1, <1>n, <1>5, <3>2
      <4>2. chain'[b] = chain[b]
        BY <1>5, <4>1
      <4>3. \A q \in Pools : Dynamic(q, b)' = Dynamic(q, b) /\ Dynamic(q, b - 1)' = Dynamic(q, b - 1)
        BY <1>7, <4>1
      <4>. QED
        BY <1>6, <4>1, <4>2, <4>3 DEF ChainInv
    <3>. QED
      BY <3>1, <3>2
  <2>2. ASSUME NEW q \in Pools, kind'[q] = "RamsesCL", NEW b \in 1..Newest'
        PROVE  Dynamic(q, b)' = Dynamic(q, 1)'
    <3>1. kind[q] = "RamsesCL" /\ 1 \in 1..Newest /\ Newest \in 1..Newest
      BY <1>1, <1>6, <2>2
    <3>2. \A c \in 1..Newest : Dynamic(q, c) = Dynamic(q, 1)
      BY <3>1 DEF ChainInv
    <3>3. Dynamic(q, n + 1)' = Dynamic(q, Newest)
      <4>1. q = p => event # "plugin"
        BY <3>1
      <4>. QED
        BY <1>8, <4>1
    <3>4. Dynamic(q, 1)' = Dynamic(q, 1)
      BY <1>7, <3>1
    <3>5. CASE b = n + 1
      BY <1>n, <3>1, <3>2, <3>3, <3>4, <3>5
    <3>6. CASE b # n + 1
      <4>1. b \in 1..Newest
        BY <1>1, <1>n, <1>5, <3>6
      <4>. QED
        BY <1>7, <3>2, <3>4, <4>1
    <3>. QED
      BY <3>5, <3>6
  <2>3. chain' \in Seq(Blocks) /\ Newest' >= 1
    BY <1>1, <1>5
  <2>4. \A q \in Pools : kind'[q] = "RamsesCL" => \A b \in 1..Newest' : Dynamic(q, b)' = Dynamic(q, 1)'
    BY <2>2
  <2>. QED
    BY <2>1, <2>3, <2>4, Zenon DEF ChainInv
<1>10. BatchInv'
  <2>1. cursor \in 1..Newest'
    BY <1>1, <1>5 DEF BatchInv
  <2>2. ASSUME batch # NoBatch
        PROVE /\ batch.through = cursor + 1 /\ batch.through <= Newest'
              /\ Reconfigured(batch.through)' \subseteq batch.touched
    <3>1. batch.through = cursor + 1 /\ batch.through <= Newest /\ batch.through \in 1..Newest
          /\ Reconfigured(batch.through) \subseteq batch.touched
      BY <1>1, <2>2 DEF BatchInv
    <3>2. Reconfigured(batch.through)' = Reconfigured(batch.through)
      BY <1>5, <1>6, <3>1 DEF Reconfigured
    <3>. QED
      BY <1>1, <1>5, <3>1, <3>2
  <2>. QED
    BY <1>6, <2>1, <2>2 DEF BatchInv
<1>. QED
  BY <1>1, <1>5, <1>6, <1>9, <1>10, TasksKept DEF ScalarsInv

LEMMA NewBlockInv ==
    ASSUME FeeInv, NEW p \in Pools, NEW event \in {"none", "fee", "plugin", "swap"},
           NEW fees \in FeeRecords, NewBlock(p, event, fees),
           fees.dynamic # Now(p).dynamic => event = "plugin",
           event = "plugin" => kind[p] = "AlgebraV3"
    PROVE  FeeInv'
<1>1. /\ TypeInv' /\ Newest \in Nat
      /\ \A b \in 1..Newest : chain'[b] = chain[b]
  BY NewBlockType DEF FeeInv
<1>2. UNCHANGED <<kind, pools, tracked, cursor, batch, queued, due, reader, tasks, failures, removals>>
  BY DEF NewBlock
<1>3. Level' = Level /\ Level \in 1..Newest
  BY <1>1, <1>2 DEF Level, FeeInv, TypeInv, BatchInv
<1>4. \A q \in Pools : Dynamic(q, Level)' = Dynamic(q, Level)
  BY <1>1, <1>3 DEF Dynamic
<1>5. reader = 1 => 1 \in 1..MaxReaders
  BY FeeReaderAssumption
<1>6. \A q \in Pools : reader = 1 /\ tasks[1].stage = "write"
          => Dynamic(q, tasks[1].block)' = Dynamic(q, tasks[1].block)
  <2>1. reader = 1 /\ tasks[1].stage = "write" => tasks[1].block \in 1..Newest
    BY <1>1, <1>5 DEF FeeInv, TypeInv, TasksInv, BatchInv
  <2>. QED
    BY <1>1, <1>2, <2>1 DEF Dynamic
<1>7. \A q \in Pools : Waiting(q)' = Waiting(q) /\ Reclassifies(tasks[1], q)' = Reclassifies(tasks[1], q)
  BY <1>2 DEF Waiting, Reclassifies
<1>8. ClassifiedInv'
  BY <1>2, <1>4, <1>6, <1>7 DEF FeeInv, ClassifiedInv
<1>. QED
  BY <1>1, <1>8 DEF FeeInv

\* The chain's four steps.
LEMMA ChainSteps ==
    ASSUME FeeInv, NEW p \in Pools, SetFee(p) \/ Reconfigure(p) \/ Drift(p) \/ Swap(p)
    PROVE  FeeInv'
<1>1. Now(p) \in FeeRecords
  BY ChainTypes DEF FeeInv, TypeInv, ChainInv, Now, Newest
<1>. DEFINE n == Now(p)
<1>2. n.stored \in 0..1 /\ n.live \in 2..3 /\ n.dynamic \in BOOLEAN
  BY <1>1 DEF FeeRecords
<1>3. CASE SetFee(p)
  <2>. DEFINE fees == [Now(p) EXCEPT !.stored = 1 - @]
  <2>1. fees \in FeeRecords /\ fees.dynamic = Now(p).dynamic
    BY <1>1, <1>2 DEF FeeRecords
  <2>2. NewBlock(p, "fee", fees)
    BY <1>3 DEF SetFee
  <2>. HIDE DEF fees
  <2>. QED
    BY <2>1, <2>2, NewBlockInv
<1>4. CASE Reconfigure(p)
  <2>. DEFINE fees == [Now(p) EXCEPT !.dynamic = ~@]
  <2>1. fees \in FeeRecords
    <3>1. (~n.dynamic) \in BOOLEAN
      BY <1>2
    <3>. QED
      BY <1>1, <3>1 DEF FeeRecords
  <2>2. NewBlock(p, "plugin", fees) /\ kind[p] = "AlgebraV3"
    BY <1>4 DEF Reconfigure
  <2>. HIDE DEF fees
  <2>. QED
    BY <2>1, <2>2, NewBlockInv
<1>5. CASE Drift(p)
  <2>. DEFINE fees == [Now(p) EXCEPT !.live = 5 - @]
  <2>1. fees \in FeeRecords /\ fees.dynamic = Now(p).dynamic
    BY <1>1, <1>2 DEF FeeRecords
  <2>2. NewBlock(p, "none", fees)
    BY <1>5 DEF Drift
  <2>. HIDE DEF fees
  <2>. QED
    BY <2>1, <2>2, NewBlockInv
<1>6. CASE Swap(p)
  BY <1>1, <1>6, NewBlockInv DEF Swap
<1>. QED
  BY <1>3, <1>4, <1>5, <1>6

----------------------------------------------------------------------------
(* The updater's steps. *)

LEMMA ApplyBatchInv ==
    ASSUME FeeInv, ApplyBatch
    PROVE  FeeInv'
<1>. USE DEF FeeInv, TypeInv
<1>. DEFINE b == cursor + 1
<1>1. /\ batch = NoBatch /\ cursor < Newest
      /\ tracked' = tracked \cup Reconfigured(b)
      /\ batch' = [touched |-> Candidates(b), through |-> b]
      /\ pools' = [p \in Pools |-> ApplyLog(pools[p], p, b)]
      /\ UNCHANGED <<kind, chain, cursor, queued, due, reader, tasks, failures, removals>>
  BY DEF ApplyBatch
<1>2. b \in 2..Newest /\ b \in 1..Newest /\ b - 1 = cursor /\ b \in Nat
  BY <1>1 DEF BatchInv, ChainInv, Newest
<1>3. Reconfigured(b) \subseteq Pools /\ Candidates(b) \subseteq Pools
  BY <1>2 DEF ChainInv, Reconfigured, Candidates, ScalarsInv
<1>4. \A p \in Pools : pools[p] \in PoolRecords \cup {Absent}
  BY DEF ScalarsInv
<1>5. \A p \in Pools : pools'[p] = ApplyLog(pools[p], p, b)
  BY <1>1
<1>6. \A p \in Pools :
          /\ pools'[p] \in PoolRecords \cup {Absent}
          /\ pools'[p] # Absent => pools[p] # Absent
          /\ pools'[p] # Absent /\ pools'[p].source = "Events"
                 => /\ pools[p].source = "Events"
                    /\ ~(chain[b].event = "plugin" /\ chain[b].pool = p)
  <2>. TAKE p \in Pools
  <2>. HIDE DEF b
  <2>. QED
    BY <1>2, <1>4, <1>5, ApplyLogType
<1>7. ScalarsInv'
  <2>1. pools' \in [Pools -> PoolRecords \cup {Absent}]
    <3>. HIDE DEF b
    <3>. QED
      BY <1>1, <1>5, <1>6
  <2>. QED
    BY <1>1, <1>3, <2>1 DEF ScalarsInv
<1>8. BatchInv'
  <2>1. batch' \in [touched : SUBSET Pools, through : Nat] /\ batch'.through = b /\ batch'.touched = Candidates(b)
    BY <1>1, <1>2, <1>3
  <2>2. Reconfigured(b)' = Reconfigured(b) /\ Reconfigured(b) \subseteq Candidates(b)
    BY <1>1 DEF Reconfigured, Candidates
  <2>3. Reconfigured(batch.through)' = Reconfigured(b)
    BY <1>1, <2>1 DEF Reconfigured
  <2>. QED
    BY <1>1, <1>2, <2>1, <2>2, <2>3 DEF BatchInv, Newest
<1>9. TypeInv'
  BY <1>1, <1>7, <1>8, ChainKept, TasksKept
<1>10. Level = cursor /\ Level' = b
  <2>1. batch' # NoBatch /\ batch'.through = b
    <3>1. batch'.through = b /\ NoBatch.through = 0 /\ b # 0
      BY <1>1, <1>2 DEF NoBatch
    <3>. QED
      BY <3>1
  <2>. QED
    BY <1>1, <2>1 DEF Level
<1>11. /\ \A p \in Pools : Waiting(p) <=> p \in queued
       /\ \A p \in Pools : Waiting(p)' <=> p \in queued \/ p \in Candidates(b)
       /\ \A p \in Pools : Reclassifies(tasks[1], p)' <=> Reclassifies(tasks[1], p)
  BY <1>1 DEF Waiting, NoBatch, Reclassifies
<1>12. \A p \in Pools : Dynamic(p, Level)' = Dynamic(p, b)
  BY <1>1, <1>10 DEF Dynamic
<1>13. \A p \in Pools : Dynamic(p, b) # Dynamic(p, Level) => chain[b].event = "plugin" /\ chain[b].pool = p
  BY <1>2, <1>10 DEF ChainInv
<1>14. \A p \in Pools : chain[b].event = "plugin" /\ chain[b].pool = p => p \in Candidates(b)
  BY DEF Candidates, Reconfigured
<1>15. \A p \in Pools : Dynamic(p, tasks[1].block)' = Dynamic(p, tasks[1].block)
  BY <1>1 DEF Dynamic
<1>16. ClassifiedInv'
  <2>. SUFFICES ASSUME failures = 0, reader = 1, NEW p \in Pools
                PROVE /\ pools'[p] # Absent /\ pools'[p].source = "Events" /\ Dynamic(p, Level)'
                           => /\ kind[p] = "AlgebraV3"
                              /\ Waiting(p)' \/ Reclassifies(tasks[1], p)'
                      /\ tasks[1].stage = "write" /\ p \in tasks[1].wanted \cap tasks[1].config
                           => Dynamic(p, tasks[1].block)' = Dynamic(p, Level)' \/ Waiting(p)'
                      /\ tasks[1].stage \in {"call", "write"} /\ p \in tasks[1].config
                           => kind[p] = "AlgebraV3"
    BY <1>1 DEF ClassifiedInv
  <2>. HIDE DEF b
  <2>1. ASSUME pools'[p] # Absent, pools'[p].source = "Events", Dynamic(p, Level)'
        PROVE kind[p] = "AlgebraV3" /\ (Waiting(p)' \/ Reclassifies(tasks[1], p)')
    <3>1. pools[p] # Absent /\ pools[p].source = "Events" /\ Dynamic(p, Level) = Dynamic(p, b)
      BY <1>6, <1>13, <2>1
    <3>2. Dynamic(p, Level)
      BY <1>12, <2>1, <3>1
    <3>. QED
      BY <1>11, <3>1, <3>2 DEF ClassifiedInv
  <2>2. ASSUME tasks[1].stage = "write", p \in tasks[1].wanted \cap tasks[1].config
        PROVE  Dynamic(p, tasks[1].block)' = Dynamic(p, Level)' \/ Waiting(p)'
    BY <1>11, <1>12, <1>13, <1>14, <1>15, <2>2 DEF ClassifiedInv
  <2>3. tasks[1].stage \in {"call", "write"} /\ p \in tasks[1].config => kind[p] = "AlgebraV3"
    BY DEF ClassifiedInv
  <2>. QED
    BY <2>1, <2>2, <2>3
<1>. QED
  BY <1>9, <1>16

\* after_batch: what waited is still waiting, or the read just spawned is for it.
LEMMA AfterBatchInv ==
    ASSUME FeeInv, AfterBatch(batch.touched), batch' = NoBatch,
           cursor' = Level, UNCHANGED <<kind, chain, pools, tracked, reader, failures, removals>>
    PROVE  FeeInv'
<1>. USE DEF FeeInv, TypeInv
<1>. DEFINE all == queued \cup batch.touched
<1>0. Level \in 1..Newest /\ cursor \in 1..Newest /\ Newest \in Nat /\ cursor <= Level
  BY DEF Level, BatchInv, ChainInv, Newest
<1>1. all \subseteq Pools /\ tracked \subseteq Pools /\ reader \in 1..MaxReaders
  BY DEF ScalarsInv, BatchInv
<1>2. \A p \in Pools : Waiting(p) <=> p \in all
  BY DEF Waiting
<1>3. Level' = Level
  BY DEF Level
<1>4. \A p \in Pools : Waiting(p)' <=> p \in queued'
  BY DEF Waiting, NoBatch
<1>5. \A p \in Pools : Dynamic(p, Level)' = Dynamic(p, Level)
  BY <1>3 DEF Dynamic
<1>6. BatchInv' /\ ChainInv'
  BY <1>0, ChainKept DEF BatchInv, NoBatch, Newest
<1>. HIDE DEF all
<1>7. CASE Busy /\ queued' = all /\ UNCHANGED <<due, tasks>>
  <2>1. TasksInv'
    <3>1. ASSUME NEW r \in 1..MaxReaders, tasks[r].stage = "write"
          PROVE  tasks[r].block \in 1..Level
      <4>1. tasks[r].block \in 1..cursor
        BY <3>1 DEF TasksInv
      <4>. QED
        BY <1>0, <4>1
    <3>. QED
      BY <1>7, <3>1 DEF TasksInv
  <2>2. ScalarsInv'
    BY <1>1, <1>7 DEF ScalarsInv
  <2>3. \A p \in Pools : /\ Waiting(p)' <=> Waiting(p)
                         /\ Reclassifies(tasks[1], p)' <=> Reclassifies(tasks[1], p)
                         /\ Dynamic(p, tasks[1].block)' = Dynamic(p, tasks[1].block)
    BY <1>2, <1>4, <1>7 DEF Reclassifies, Dynamic
  <2>4. ClassifiedInv'
    BY <1>5, <1>7, <2>3 DEF ClassifiedInv
  <2>. QED
    BY <1>6, <2>1, <2>2, <2>4
<1>8. ASSUME NEW addresses \in SUBSET Pools, all \subseteq addresses, ~Busy,
             queued' = {}, due' \in BOOLEAN, SpawnRead(addresses)
      PROVE  FeeInv'
  <2>. DEFINE t == [stage |-> "plan", addresses |-> addresses, full |-> due]
  <2>1. tasks' = [tasks EXCEPT ![reader] = t] /\ t \in Plans /\ t.stage = "plan" /\ t.addresses = addresses
    BY <1>8 DEF SpawnRead, Plans, ScalarsInv
  <2>. HIDE DEF t
  <2>2. TasksInv'
    <3>1. PICK c : c = t
      OBVIOUS
    <3>2. PICK r \in 1..MaxReaders : r = reader
      BY <1>1
    <3>3. c \in Plans /\ c.stage # "write" /\ tasks' = [tasks EXCEPT ![r] = c]
      BY <2>1, <3>1, <3>2
    <3>4. cursor \in Nat /\ cursor' \in Nat /\ cursor <= cursor'
      BY <1>0
    <3>. QED
      BY <1>1, <3>2, <3>3, <3>4, TaskSet
  <2>3. ScalarsInv'
    BY <1>8 DEF ScalarsInv
  <2>4. ClassifiedInv'
    <3>1. reader = 1 => tasks'[1] = t /\ tasks[1].stage = "idle"
      BY <1>1, <1>8, <2>1 DEF TasksInv, Busy
    <3>2. \A p \in Pools : reader = 1 /\ Waiting(p) => Reclassifies(tasks[1], p)'
      BY <1>2, <1>8, <2>1, <3>1 DEF Reclassifies
    <3>3. \A p \in Pools : reader = 1 => ~Reclassifies(tasks[1], p)
      BY <3>1 DEF Reclassifies
    <3>. QED
      BY <1>5, <2>1, <3>1, <3>2, <3>3 DEF ClassifiedInv
  <2>. QED
    BY <1>6, <2>2, <2>3, <2>4
<1>9. CASE ~Busy /\ due /\ queued' = {} /\ due' = FALSE /\ SpawnRead(all \cup tracked)
  BY <1>1, <1>8, <1>9
<1>10. CASE ~Busy /\ ~due /\ all # {} /\ queued' = {} /\ UNCHANGED due /\ SpawnRead(all)
  BY <1>1, <1>8, <1>10 DEF ScalarsInv
<1>11. CASE ~Busy /\ ~due /\ all = {} /\ UNCHANGED <<queued, due, tasks>>
  <2>1. TasksInv'
    <3>1. ASSUME NEW r \in 1..MaxReaders, tasks[r].stage = "write"
          PROVE  tasks[r].block \in 1..Level
      <4>1. tasks[r].block \in 1..cursor
        BY <3>1 DEF TasksInv
      <4>. QED
        BY <1>0, <4>1
    <3>. QED
      BY <1>11, <3>1 DEF TasksInv
  <2>2. ScalarsInv'
    BY <1>11 DEF ScalarsInv
  <2>3. \A p \in Pools : ~Waiting(p) /\ (reader = 1 => ~Reclassifies(tasks[1], p))
    BY <1>2, <1>11 DEF Reclassifies, Busy
  <2>4. ClassifiedInv'
    BY <1>5, <1>11, <2>3 DEF ClassifiedInv, Busy
  <2>. QED
    BY <1>6, <2>1, <2>2, <2>4
<1>. QED
  BY <1>7, <1>9, <1>10, <1>11 DEF AfterBatch, all

LEMMA BatchEndInv ==
    ASSUME FeeInv, FinishBatch \/ QuietBatch
    PROVE  FeeInv'
<1>1. CASE FinishBatch
  BY <1>1, AfterBatchInv DEF FinishBatch, Level
<1>2. CASE QuietBatch
  <2>1. batch.touched = {} /\ Level = cursor /\ AfterBatch(batch.touched) /\ batch' = NoBatch
    BY <1>2 DEF QuietBatch, Level, NoBatch
  <2>. QED
    BY <1>2, <2>1, AfterBatchInv DEF QuietBatch
<1>. QED
  BY <1>1, <1>2

\* Where only a removal happens, or time passes.
LEMMA RemovePoolInv ==
    ASSUME FeeInv, NEW p \in Pools, RemovePool(p)
    PROVE  FeeInv'
<1>. USE DEF FeeInv, TypeInv
<1>1. /\ pools' = [pools EXCEPT ![p] = Absent] /\ tracked' = tracked \ {p}
      /\ removals < MaxRemovals /\ removals' = removals + 1
      /\ UNCHANGED <<kind, chain, cursor, batch, queued, due, reader, tasks, failures>>
  BY DEF RemovePool
<1>2. ScalarsInv'
  BY <1>1, FeeReaderAssumption DEF ScalarsInv
<1>3. TypeInv'
  BY <1>1, <1>2, ChainKept, TasksKept, BatchKept
<1>4. \A q \in Pools : pools'[q] # Absent => pools'[q] = pools[q]
  BY <1>1 DEF ScalarsInv
<1>5. \A q \in Pools : /\ Waiting(q)' <=> Waiting(q)
                       /\ Reclassifies(tasks[1], q)' <=> Reclassifies(tasks[1], q)
                       /\ Dynamic(q, tasks[1].block)' = Dynamic(q, tasks[1].block)
                       /\ Dynamic(q, Level)' = Dynamic(q, Level)
  BY <1>1 DEF Waiting, Reclassifies, Dynamic, Level
<1>6. ClassifiedInv'
  BY <1>1, <1>4, <1>5 DEF ClassifiedInv
<1>. QED
  BY <1>3, <1>6

LEMMA IntervalInv ==
    ASSUME FeeInv, IntervalPasses
    PROVE  FeeInv'
<1>. USE DEF FeeInv, TypeInv
<1>1. /\ due' = TRUE
      /\ UNCHANGED <<kind, chain, pools, tracked, cursor, batch, queued, reader, tasks, failures, removals>>
  BY DEF IntervalPasses
<1>2. TypeInv'
  BY <1>1, ChainKept, TasksKept, BatchKept DEF ScalarsInv
<1>3. ClassifiedInv'
  BY <1>1 DEF ClassifiedInv, Waiting, Reclassifies, Dynamic, Level
<1>. QED
  BY <1>2, <1>3

LEMMA StutterInv ==
    ASSUME FeeInv, UNCHANGED vars
    PROVE  FeeInv'
<1>. USE DEF FeeInv, TypeInv, vars
<1>1. TypeInv'
  BY ChainKept, TasksKept, BatchKept DEF ScalarsInv
<1>2. ClassifiedInv'
  BY DEF ClassifiedInv, Waiting, Reclassifies, Dynamic, Level
<1>. QED
  BY <1>1, <1>2

\* A restart: only types, since a second reader is outside the claim.
LEMMA RestartInv ==
    ASSUME FeeInv, Restart
    PROVE  FeeInv'
<1>. USE DEF FeeInv, TypeInv
<1>1. PICK k \in cursor..Newest :
          /\ cursor' = k
          /\ pools' = [p \in Pools |-> IF pools[p] = Absent THEN Fetched(p, k)
                                       ELSE AppliedThrough(pools[p], p, k)]
          /\ tracked' = tracked \cup {p \in Pools \ Registered : NeedsReading(Fetched(p, k))}
  BY DEF Restart
<1>2. /\ batch = NoBatch /\ reader < MaxReaders /\ reader' = reader + 1 /\ queued' = {} /\ due' = TRUE
      /\ UNCHANGED <<kind, chain, batch, tasks, failures, removals>>
  BY DEF Restart
<1>3. cursor \in 1..Newest /\ Newest \in Nat /\ k \in 1..Newest /\ cursor <= k
  BY DEF BatchInv, ChainInv, Newest
<1>4. ASSUME NEW p \in Pools PROVE pools'[p] \in PoolRecords \cup {Absent}
  <2>1. CASE pools[p] = Absent
    BY <1>1, <1>3, <2>1, ClassifyType DEF ScalarsInv
  <2>2. CASE pools[p] # Absent
    <3>1. PICK pool \in PoolRecords : pool = pools[p]
      BY <2>2 DEF ScalarsInv
    <3>2. AppliedThrough(pool, p, k) \in PoolRecords
      BY <1>3, AppliedThroughType
    <3>. QED
      BY <1>1, <2>2, <3>1, <3>2
  <2>. QED
    BY <2>1, <2>2
<1>5. ScalarsInv'
  <2>1. pools' \in [Pools -> PoolRecords \cup {Absent}]
    BY <1>1, <1>4
  <2>2. tracked' \subseteq Pools
    BY <1>1 DEF ScalarsInv
  <2>3. reader' \in 1..MaxReaders
    BY <1>2, FeeReaderAssumption DEF ScalarsInv
  <2>. QED
    BY <1>2, <2>1, <2>2, <2>3 DEF ScalarsInv
<1>6. BatchInv'
  BY <1>1, <1>2, <1>3 DEF BatchInv, Newest
<1>7. TasksInv'
  <2>1. ASSUME NEW r \in 1..MaxReaders
        PROVE  /\ tasks[r].stage = "write" => tasks[r].block \in 1..k
               /\ r > reader' => tasks[r] = Idle
    <3>1. tasks[r].stage = "write" => tasks[r].block \in 1..cursor
      BY DEF TasksInv
    <3>2. r > reader => tasks[r] = Idle
      BY DEF TasksInv
    <3>3. r > reader' => r > reader
      BY <1>2, FeeReaderAssumption DEF ScalarsInv
    <3>4. tasks[r].stage = "write" => tasks[r].block \in 1..k
      BY <1>3, <3>1
    <3>. QED
      BY <3>2, <3>3, <3>4
  <2>. QED
    BY <1>1, <1>2, <2>1 DEF TasksInv
<1>8. ClassifiedInv'
  <2>1. reader' # 1
    BY <1>2 DEF ScalarsInv
  <2>. QED
    BY <2>1 DEF ClassifiedInv
<1>. QED
  BY <1>2, <1>5, <1>6, <1>7, <1>8, ChainKept

----------------------------------------------------------------------------
(* The read's steps. *)

\* With one reader, the read in flight is its own.
LEMMA OnlyReader ==
    ASSUME FeeInv, reader = 1, NEW r \in 1..MaxReaders, tasks[r].stage # "idle"
    PROVE  r = 1
<1>1. tasks[r] # Idle
  BY DEF Idle
<1>. QED
  BY <1>1, FeeReaderAssumption DEF FeeInv, TypeInv, TasksInv

LEMMA PlanInv ==
    ASSUME FeeInv, NEW r \in 1..MaxReaders, Plan(r)
    PROVE  FeeInv'
<1>. USE DEF FeeInv, TypeInv
<1>. DEFINE needing == Rescan(tasks[r])
            wanted == {p \in (tasks[r].addresses \cup needing) \cap Registered :
                         WantFee(p) \/ WantCurrentFee(p)}
            config == {p \in wanted : WantConfig(p)}
            t == IF wanted = {} THEN Idle
                 ELSE [stage |-> "call", wanted |-> wanted, config |-> config]
<1>1. /\ tasks[r].stage = "plan" /\ tracked' = tracked \cup needing
      /\ tasks' = [tasks EXCEPT ![r] = t]
      /\ UNCHANGED <<kind, chain, pools, cursor, batch, queued, due, reader, failures, removals>>
  BY DEF Plan
<1>2. needing \subseteq Pools /\ wanted \subseteq Pools /\ config \subseteq wanted
  BY DEF Rescan, Registered
<1>3. \A p \in config : kind[p] = "AlgebraV3"
  BY DEF WantConfig
<1>4. \A p \in Pools : /\ p \in tasks[r].addresses /\ pools[p] # Absent /\ pools[p].source = "Events"
                       /\ kind[p] = "AlgebraV3"
                       => p \in wanted /\ p \in config
  BY DEF Registered, WantFee, WantConfig
<1>. HIDE DEF needing, wanted, config
<1>5. /\ t \in {Idle} \cup Calls /\ t.stage # "write"
      /\ wanted # {} => t.stage = "call" /\ t.wanted = wanted /\ t.config = config
      /\ wanted = {} => t.stage = "idle"
  BY <1>2 DEF Calls, Idle
<1>. HIDE DEF t
<1>6. TasksInv'
  <2>1. PICK c : c = t
    OBVIOUS
  <2>2. tasks' = [tasks EXCEPT ![r] = c] /\ c \in {Idle} \cup Calls /\ c.stage # "write"
    BY <1>1, <1>5, <2>1
  <2>3. tasks[r] # Idle /\ reader \in 1..MaxReaders /\ cursor \in Nat /\ cursor' = cursor
        /\ reader' = reader
    BY <1>1 DEF Idle, ScalarsInv, BatchInv
  <2>4. cursor' \in Nat /\ cursor <= cursor'
    BY <2>3
  <2>. HIDE DEF FeeInv, TypeInv
  <2>5. TasksInv
    BY DEF FeeInv, TypeInv
  <2>. QED
    BY <2>2, <2>3, <2>4, <2>5, TaskSet
<1>7. TypeInv'
  BY <1>1, <1>2, <1>6, ChainKept, BatchKept DEF ScalarsInv
<1>8. \A p \in Pools : Waiting(p)' <=> Waiting(p)
  BY <1>1 DEF Waiting
<1>9. \A p \in Pools : Dynamic(p, Level)' = Dynamic(p, Level)
  BY <1>1 DEF Dynamic, Level
<1>10. ClassifiedInv'
  <2>. SUFFICES ASSUME failures = 0, reader = 1, NEW p \in Pools
                PROVE /\ pools[p] # Absent /\ pools[p].source = "Events" /\ Dynamic(p, Level)
                           => /\ kind[p] = "AlgebraV3"
                              /\ Waiting(p) \/ Reclassifies(tasks[1], p)'
                      /\ tasks'[1].stage # "write"
                      /\ tasks'[1].stage = "call" /\ p \in tasks'[1].config
                           => kind[p] = "AlgebraV3"
    BY <1>1, <1>8, <1>9 DEF ClassifiedInv
  <2>1. r = 1 /\ tasks'[1] = t
    BY <1>1, OnlyReader DEF TasksInv
  <2>2. Reclassifies(tasks[1], p) => p \in tasks[1].addresses
    BY <1>1, <2>1 DEF Reclassifies
  <2>3. p \in wanted /\ p \in config => Reclassifies(tasks[1], p)'
    BY <1>5, <2>1 DEF Reclassifies
  <2>4. ASSUME pools[p] # Absent, pools[p].source = "Events", Dynamic(p, Level)
        PROVE kind[p] = "AlgebraV3" /\ (Waiting(p) \/ Reclassifies(tasks[1], p)')
    <3>1. kind[p] = "AlgebraV3" /\ (Waiting(p) \/ Reclassifies(tasks[1], p))
      BY <2>4 DEF ClassifiedInv
    <3>. QED
      BY <1>4, <2>1, <2>2, <2>3, <2>4, <3>1
  <2>5. tasks'[1].stage # "write" /\ (tasks'[1].stage = "call" /\ p \in tasks'[1].config => kind[p] = "AlgebraV3")
    BY <1>3, <1>5, <2>1
  <2>. QED
    BY <2>4, <2>5
<1>. QED
  BY <1>7, <1>10

LEMMA CallInv ==
    ASSUME FeeInv, NEW r \in 1..MaxReaders, Call(r)
    PROVE  FeeInv'
<1>. USE DEF FeeInv, TypeInv
<1>. DEFINE t == [stage |-> "write", wanted |-> tasks[r].wanted, config |-> tasks[r].config,
                  block |-> cursor]
<1>1. /\ tasks[r].stage = "call" /\ tasks' = [tasks EXCEPT ![r] = t]
      /\ UNCHANGED <<kind, chain, pools, tracked, cursor, batch, queued, due, reader, failures, removals>>
  BY DEF Call
<1>2. tasks[r].wanted \in SUBSET Pools /\ tasks[r].config \in SUBSET Pools
  <2>1. tasks[r] \in {Idle, [stage |-> "hung"]} \cup Plans \cup Calls \cup Writes
    BY DEF TasksInv
  <2>. QED
    BY <1>1, <2>1 DEF Idle, Plans, Calls, Writes
<1>3. cursor \in 1..cursor /\ cursor \in Nat
  BY DEF BatchInv, ChainInv, Newest
<1>4. /\ t \in Writes /\ t.stage = "write" /\ t.block = cursor
      /\ t.wanted = tasks[r].wanted /\ t.config = tasks[r].config
  BY <1>2, <1>3 DEF Writes
<1>. HIDE DEF t
<1>5. TasksInv'
  <2>1. PICK c : c = t
    OBVIOUS
  <2>2. tasks' = [tasks EXCEPT ![r] = c] /\ c \in Writes /\ c.block \in 1..cursor'
    BY <1>1, <1>3, <1>4, <2>1
  <2>3. tasks[r] # Idle /\ reader \in 1..MaxReaders /\ cursor \in Nat /\ cursor' = cursor
        /\ reader' = reader
    BY <1>1, <1>3 DEF Idle, ScalarsInv
  <2>4. cursor' \in Nat /\ cursor <= cursor'
    BY <2>3
  <2>. HIDE DEF FeeInv, TypeInv
  <2>5. TasksInv
    BY DEF FeeInv, TypeInv
  <2>. QED
    BY <2>2, <2>3, <2>4, <2>5, TaskSet
<1>6. TypeInv'
  BY <1>1, <1>5, ChainKept, BatchKept DEF ScalarsInv
<1>7. ASSUME NEW p \in Pools PROVE Dynamic(p, cursor) = Dynamic(p, Level) \/ Waiting(p)
  <2>1. CASE batch = NoBatch
    BY <2>1 DEF Level
  <2>2. CASE batch # NoBatch
    <3>1. Level = cursor + 1 /\ Level \in 2..Newest /\ Level - 1 = cursor
          /\ Level = batch.through /\ Reconfigured(Level) \subseteq batch.touched
      BY <1>3, <2>2 DEF Level, BatchInv, ChainInv, Newest
    <3>2. Dynamic(p, Level) # Dynamic(p, cursor) => chain[Level].event = "plugin" /\ chain[Level].pool = p
      BY <3>1 DEF ChainInv
    <3>. QED
      BY <3>1, <3>2 DEF Reconfigured, Waiting
  <2>. QED
    BY <2>1, <2>2
<1>8. \A p \in Pools : /\ Waiting(p)' <=> Waiting(p)
                       /\ Dynamic(p, Level)' = Dynamic(p, Level)
                       /\ Dynamic(p, cursor)' = Dynamic(p, cursor)
  BY <1>1 DEF Waiting, Dynamic, Level
<1>9. ClassifiedInv'
  <2>. SUFFICES ASSUME failures = 0, reader = 1, NEW p \in Pools
                PROVE /\ pools[p] # Absent /\ pools[p].source = "Events" /\ Dynamic(p, Level)
                           => /\ kind[p] = "AlgebraV3"
                              /\ Waiting(p) \/ Reclassifies(tasks[1], p)'
                      /\ Dynamic(p, tasks[1].block)' = Dynamic(p, Level) \/ Waiting(p)
                      /\ tasks'[1].stage \in {"call", "write"} /\ p \in tasks'[1].config
                           => kind[p] = "AlgebraV3"
    BY <1>1, <1>8 DEF ClassifiedInv
  <2>1. r = 1 /\ tasks'[1] = t
    BY <1>1, OnlyReader DEF TasksInv
  <2>2. Reclassifies(tasks[1], p)' <=> Reclassifies(tasks[1], p)
    BY <1>1, <1>4, <2>1 DEF Reclassifies
  <2>3. Dynamic(p, tasks[1].block)' = Dynamic(p, cursor)
    BY <1>1, <1>4, <2>1 DEF Dynamic
  <2>4. p \in tasks'[1].config => kind[p] = "AlgebraV3"
    BY <1>1, <1>4, <2>1 DEF ClassifiedInv
  <2>. QED
    BY <1>7, <2>2, <2>3, <2>4 DEF ClassifiedInv
<1>. QED
  BY <1>6, <1>9

\* What a read makes of a pool's classification.
LEMMA WriteBackFacts ==
    ASSUME ChainInv, kind \in [Pools -> {"AlgebraV3", "RamsesCL"}],
           NEW b \in 1..Newest, NEW p \in Pools, NEW pool \in PoolRecords \cup {Absent},
           NEW config
    PROVE  /\ WriteBack(pool, p, b, p \in config) \in PoolRecords \cup {Absent}
           /\ WriteBack(pool, p, b, p \in config) # Absent => pool # Absent
           /\ WriteBack(pool, p, b, p \in config) # Absent /\ WriteBack(pool, p, b, p \in config).source = "Events"
                  => \/ kind[p] = "AlgebraV3" /\ p \in config /\ ~Dynamic(p, b)
                     \/ kind[p] = "AlgebraV3" /\ p \notin config /\ pool.source = "Events"
                     \/ kind[p] = "RamsesCL" /\ ~Dynamic(p, b)
<1>. DEFINE back == WriteBack(pool, p, b, p \in config)
<1>0. /\ Classify(p, b) \in Sources /\ (Classify(p, b) = "Events" <=> ~Dynamic(p, b))
      /\ Paid(p, b) \in 0..3
  BY ClassifyType, ChainTypes
<1>1. CASE pool = Absent
  BY <1>1 DEF WriteBack
<1>2. CASE pool # Absent /\ kind[p] = "AlgebraV3" /\ p \in config
  <2>1. back = [fee |-> Paid(p, b), source |-> Classify(p, b)]
    BY <1>2 DEF WriteBack
  <2>2. back \in PoolRecords /\ back.source = Classify(p, b)
    BY <1>0, <2>1 DEF PoolRecords
  <2>. QED
    BY <1>0, <1>2, <2>2
<1>3. CASE pool # Absent /\ kind[p] = "AlgebraV3" /\ p \notin config
  <2>1. back = [pool EXCEPT !.fee = Paid(p, b)]
    BY <1>3 DEF WriteBack
  <2>2. pool \in PoolRecords
    BY <1>3
  <2>3. back \in PoolRecords /\ back.source = pool.source
    BY <1>0, <2>1, <2>2 DEF PoolRecords
  <2>. QED
    BY <1>3, <2>3
<1>4. CASE pool # Absent /\ kind[p] = "RamsesCL" /\ Dynamic(p, b)
  <2>1. back = [fee |-> Paid(p, b), source |-> "ReadCurrentFee"]
    BY <1>4 DEF WriteBack, Dynamic
  <2>2. back \in PoolRecords /\ back.source = "ReadCurrentFee"
    BY <1>0, <2>1 DEF PoolRecords, Sources
  <2>. QED
    BY <1>4, <2>2
<1>5. CASE pool # Absent /\ kind[p] = "RamsesCL" /\ ~Dynamic(p, b)
  <2>1. back = [pool EXCEPT !.source = "Events"] \/ back = pool
    BY <1>5 DEF WriteBack, Dynamic
  <2>2. back \in PoolRecords
    BY <1>5, <2>1 DEF PoolRecords, Sources
  <2>. QED
    BY <1>5, <2>2
<1>. QED
  BY <1>1, <1>2, <1>3, <1>4, <1>5

LEMMA WriteInv ==
    ASSUME FeeInv, NEW r \in 1..MaxReaders, Write(r)
    PROVE  FeeInv'
<1>. USE DEF FeeInv, TypeInv
<1>1. PICK p \in tasks[r].wanted :
          LET t == tasks[r]
              pool == WriteBack(pools[p], p, t.block, p \in t.config)
              classified == /\ pool # Absent
                            /\ p \in t.config \/ (kind[p] = "RamsesCL" /\ pools[p].source = "Unknown")
          IN /\ pools' = [pools EXCEPT ![p] = pool]
             /\ tracked' = CASE classified /\ pool.source = "Events" -> tracked \ {p}
                             [] classified /\ pool.source = "ReadFee" -> tracked \cup {p}
                             [] OTHER -> tracked
             /\ tasks' = [tasks EXCEPT ![r] =
                              IF t.wanted = {p} THEN Idle
                              ELSE [t EXCEPT !.wanted = @ \ {p}]]
  BY DEF Write
<1>2. /\ tasks[r].stage = "write"
      /\ UNCHANGED <<kind, chain, cursor, batch, queued, due, reader, failures, removals>>
  BY DEF Write
<1>3. PICK t : t = tasks[r]
  OBVIOUS
<1>4. t \in Writes /\ t.stage = "write" /\ t.block \in 1..cursor
  <2>1. tasks[r] \in {Idle, [stage |-> "hung"]} \cup Plans \cup Calls \cup Writes
    BY DEF TasksInv
  <2>2. tasks[r] \in Writes
    BY <1>2, <2>1 DEF Idle, Plans, Calls, Writes
  <2>. QED
    BY <1>2, <1>3, <2>2 DEF TasksInv
<1>5. /\ p \in t.wanted /\ t.wanted \subseteq Pools /\ p \in Pools /\ t.config \subseteq Pools
  BY <1>3, <1>4 DEF Writes
<1>6. t.block \in 1..Newest /\ cursor \in Nat /\ Newest \in Nat
  BY <1>4 DEF BatchInv, ChainInv, Newest
<1>7. PICK pool : pool = WriteBack(pools[p], p, t.block, p \in t.config)
  OBVIOUS
<1>8. /\ pools' = [pools EXCEPT ![p] = pool]
      /\ tracked' \in {tracked \ {p}, tracked \cup {p}, tracked}
      /\ tasks' = [tasks EXCEPT ![r] = IF t.wanted = {p} THEN Idle
                                       ELSE [t EXCEPT !.wanted = @ \ {p}]]
  BY <1>1, <1>3, <1>7
<1>9. /\ pool \in PoolRecords \cup {Absent}
      /\ pool # Absent => pools[p] # Absent
      /\ pool # Absent /\ pool.source = "Events"
             => \/ kind[p] = "AlgebraV3" /\ p \in t.config /\ ~Dynamic(p, t.block)
                \/ kind[p] = "AlgebraV3" /\ p \notin t.config /\ pools[p].source = "Events"
                \/ kind[p] = "RamsesCL" /\ ~Dynamic(p, t.block)
  <2>1. PICK old \in PoolRecords \cup {Absent} : old = pools[p]
    BY <1>5 DEF ScalarsInv
  <2>2. PICK config : config = t.config
    OBVIOUS
  <2>3. pool = WriteBack(old, p, t.block, p \in config)
    BY <1>7, <2>1, <2>2
  <2>4. kind \in [Pools -> {"AlgebraV3", "RamsesCL"}] /\ ChainInv
    BY DEF ScalarsInv
  <2>5. /\ pool \in PoolRecords \cup {Absent}
        /\ pool # Absent => old # Absent
        /\ pool # Absent /\ pool.source = "Events"
             => \/ kind[p] = "AlgebraV3" /\ p \in config /\ ~Dynamic(p, t.block)
                \/ kind[p] = "AlgebraV3" /\ p \notin config /\ old.source = "Events"
                \/ kind[p] = "RamsesCL" /\ ~Dynamic(p, t.block)
    BY <1>5, <1>6, <2>3, <2>4, WriteBackFacts
  <2>. QED
    BY <2>1, <2>2, <2>5
<1>10. PICK n : n = IF t.wanted = {p} THEN Idle ELSE [t EXCEPT !.wanted = @ \ {p}]
  OBVIOUS
<1>11. /\ n \in {Idle} \cup Writes /\ (n.stage = "write" => n.block = t.block)
       /\ n.stage \in {"idle", "write"}
       /\ n.stage = "write" => n.wanted = t.wanted \ {p} /\ n.config = t.config
       /\ n.stage = "idle" => t.wanted = {p}
  <2>1. CASE t.wanted = {p}
    BY <1>10, <2>1 DEF Idle
  <2>2. CASE t.wanted # {p}
    BY <1>4, <1>10, <2>2 DEF Writes
  <2>. QED
    BY <2>1, <2>2
<1>12. TasksInv'
  <2>1. tasks[r] # Idle
    BY <1>2 DEF Idle
  <2>2. cursor' \in Nat /\ cursor <= cursor' /\ cursor \in Nat
    BY <1>2, <1>6
  <2>3. n.stage = "write" => n.block \in 1..cursor'
    BY <1>2, <1>4, <1>11
  <2>4. tasks' = [tasks EXCEPT ![r] = n] /\ reader' = reader /\ TasksInv /\ reader \in 1..MaxReaders
    BY <1>2, <1>8, <1>10 DEF ScalarsInv
  <2>. HIDE DEF FeeInv, TypeInv
  <2>. QED
    BY <1>11, <2>1, <2>2, <2>3, <2>4, TaskSet
<1>13. TypeInv'
  <2>1. ScalarsInv'
    BY <1>2, <1>5, <1>8, <1>9 DEF ScalarsInv
  <2>. QED
    BY <1>2, <1>12, <2>1, ChainKept, BatchKept
<1>14. \A q \in Pools : /\ Waiting(q)' <=> Waiting(q)
                        /\ Dynamic(q, Level)' = Dynamic(q, Level)
                        /\ Dynamic(q, t.block)' = Dynamic(q, t.block)
  BY <1>2 DEF Waiting, Dynamic, Level
<1>15. ClassifiedInv'
  <2>. SUFFICES ASSUME failures = 0, reader = 1, NEW q \in Pools
                PROVE /\ pools'[q] # Absent /\ pools'[q].source = "Events" /\ Dynamic(q, Level)
                           => /\ kind[q] = "AlgebraV3"
                              /\ Waiting(q) \/ Reclassifies(tasks[1], q)'
                      /\ tasks'[1].stage = "write" /\ q \in tasks'[1].wanted \cap tasks'[1].config
                           => Dynamic(q, tasks[1].block)' = Dynamic(q, Level) \/ Waiting(q)
                      /\ tasks'[1].stage \in {"call", "write"} /\ q \in tasks'[1].config
                           => kind[q] = "AlgebraV3"
    BY <1>2, <1>14 DEF ClassifiedInv
  <2>1. r = 1 /\ tasks'[1] = n /\ tasks[1] = t
    BY <1>2, <1>3, <1>8, <1>10, OnlyReader DEF TasksInv
  <2>2. q # p => pools'[q] = pools[q]
    BY <1>8 DEF ScalarsInv
  <2>3. pools'[p] = pool
    BY <1>5, <1>8 DEF ScalarsInv
  <2>4. q # p => (Reclassifies(tasks[1], q)' <=> Reclassifies(tasks[1], q))
    BY <1>4, <1>11, <2>1 DEF Reclassifies
  <2>5. /\ q \in t.wanted \cap t.config => Dynamic(q, t.block) = Dynamic(q, Level) \/ Waiting(q)
        /\ q \in t.config => kind[q] = "AlgebraV3"
    BY <1>4, <2>1 DEF ClassifiedInv
  <2>6. ASSUME pools'[q] # Absent, pools'[q].source = "Events", Dynamic(q, Level)
        PROVE  kind[q] = "AlgebraV3" /\ (Waiting(q) \/ Reclassifies(tasks[1], q)')
    <3>1. CASE q # p
      BY <2>2, <2>4, <2>6, <3>1 DEF ClassifiedInv
    <3>2. CASE q = p
      <4>1. pool # Absent /\ pool.source = "Events" /\ pools[p] # Absent
        BY <1>9, <2>3, <2>6, <3>2
      <4>2. CASE kind[p] = "AlgebraV3" /\ p \in t.config /\ ~Dynamic(p, t.block)
        BY <1>5, <2>5, <2>6, <3>2, <4>2
      <4>3. CASE kind[p] = "AlgebraV3" /\ p \notin t.config /\ pools[p].source = "Events"
        <5>1. ~Reclassifies(tasks[1], p)
          BY <1>4, <2>1, <4>3 DEF Reclassifies
        <5>. QED
          BY <2>6, <3>2, <4>1, <4>3, <5>1 DEF ClassifiedInv
      <4>4. CASE kind[p] = "RamsesCL" /\ ~Dynamic(p, t.block)
        <5>1. Level \in 1..Newest
          BY <1>6 DEF Level, BatchInv
        <5>2. Dynamic(p, Level) = Dynamic(p, t.block)
          BY <1>5, <1>6, <4>4, <5>1 DEF ChainInv
        <5>. QED
          BY <2>6, <3>2, <4>4, <5>2
      <4>. QED
        BY <1>9, <4>1, <4>2, <4>3, <4>4
    <3>. QED
      BY <3>1, <3>2
  <2>7. ASSUME tasks'[1].stage = "write", q \in tasks'[1].wanted \cap tasks'[1].config
        PROVE  Dynamic(q, tasks[1].block)' = Dynamic(q, Level) \/ Waiting(q)
    <3>1. q \in t.wanted \cap t.config /\ tasks'[1].block = t.block
      BY <1>11, <2>1, <2>7
    <3>2. Dynamic(q, tasks[1].block)' = Dynamic(q, t.block)
      BY <1>2, <3>1 DEF Dynamic
    <3>. QED
      BY <2>5, <3>1, <3>2
  <2>8. tasks'[1].stage \in {"call", "write"} /\ q \in tasks'[1].config => kind[q] = "AlgebraV3"
    BY <1>11, <2>1, <2>5
  <2>. QED
    BY <2>6, <2>7, <2>8
<1>. QED
  BY <1>13, <1>15

\* A read that ends without an answer: failed, hung, or dropped by the timeout.
LEMMA NoAnswerInv ==
    ASSUME FeeInv, NEW r \in 1..MaxReaders, Fails(r) \/ Hangs(r) \/ TimesOut(r)
    PROVE  FeeInv'
<1>. USE DEF FeeInv, TypeInv
<1>1. /\ tasks[r].stage \in {"call", "hung"}
      /\ \/ tasks' = [tasks EXCEPT ![r] = Idle]
         \/ tasks' = [tasks EXCEPT ![r] = [stage |-> "hung"]]
      /\ UNCHANGED <<kind, chain, pools, tracked, cursor, batch, queued, due, reader, removals>>
  BY DEF Fails, Hangs, TimesOut
<1>2. \/ failures' = failures + 1 /\ failures < MaxFailures
      \/ tasks[r].stage = "hung" /\ failures' = failures /\ tasks' = [tasks EXCEPT ![r] = Idle]
  <2>. HIDE DEF FeeInv, TypeInv
  <2>. QED
    BY Zenon DEF Fails, Hangs, TimesOut
<1>3. TasksInv'
  <2>1. PICK c : c \in {Idle, [stage |-> "hung"]} /\ tasks' = [tasks EXCEPT ![r] = c]
    BY <1>1
  <2>2. tasks[r] # Idle /\ cursor' \in Nat /\ cursor <= cursor' /\ cursor \in Nat /\ reader' = reader
        /\ reader \in 1..MaxReaders /\ TasksInv /\ c.stage # "write"
    BY <1>1, <2>1 DEF Idle, BatchInv, ScalarsInv
  <2>. HIDE DEF FeeInv, TypeInv
  <2>. QED
    BY <2>1, <2>2, TaskSet
<1>4. TypeInv'
  <2>1. failures' \in 0..MaxFailures
    BY <1>2, FeeReaderAssumption DEF ScalarsInv
  <2>. QED
    BY <1>1, <1>3, <2>1, ChainKept, BatchKept DEF ScalarsInv
<1>5. ClassifiedInv'
  <2>1. CASE failures' = failures + 1
    BY <2>1 DEF ScalarsInv, ClassifiedInv
  <2>2. CASE tasks[r].stage = "hung" /\ failures' = failures /\ tasks' = [tasks EXCEPT ![r] = Idle]
    <3>. SUFFICES ASSUME failures = 0, reader = 1 PROVE ClassifiedInv'
      BY <1>1, <2>2 DEF ClassifiedInv
    <3>1. r = 1 /\ tasks'[1] = Idle
      BY <2>2, OnlyReader DEF TasksInv
    <3>2. \A q \in Pools : Waiting(q)' <=> Waiting(q)
      BY <1>1 DEF Waiting
    <3>3. \A q \in Pools : Dynamic(q, Level)' = Dynamic(q, Level)
      BY <1>1 DEF Dynamic, Level
    <3>4. \A q \in Pools : ~Reclassifies(tasks[1], q)
      BY <2>2, <3>1 DEF Reclassifies
    <3>. QED
      BY <1>1, <3>1, <3>2, <3>3, <3>4 DEF ClassifiedInv, Idle
  <2>. QED
    BY <1>2, <2>1, <2>2
<1>. QED
  BY <1>4, <1>5

----------------------------------------------------------------------------
(* The invariant, and what it gives. *)

LEMMA FeeInit == Init => FeeInv
<1>. SUFFICES ASSUME Init PROVE FeeInv
  OBVIOUS
<1>1. PICK fees \in [Pools -> [stored : {0}, live : {2}, dynamic : BOOLEAN]] :
          chain = << [event |-> "none", pool |-> Absent, fees |-> fees] >>
  BY DEF Init
<1>. DEFINE block == [event |-> "none", pool |-> Absent, fees |-> fees]
<1>2. fees \in [Pools -> FeeRecords]
  BY DEF FeeRecords
<1>3. block \in Blocks
  BY <1>2 DEF Blocks
<1>. HIDE DEF block
<1>4. chain = <<block>> /\ chain \in Seq(Blocks) /\ Len(chain) = 1
  BY <1>1, <1>3 DEF block
<1>5. ChainInv
  BY <1>4 DEF ChainInv, Newest, Dynamic
<1>6. kind \in [Pools -> {"AlgebraV3", "RamsesCL"}] /\ Newest = 1
  BY <1>4 DEF Init, Newest
<1>7. PICK restored \in SUBSET Pools :
          pools = [p \in Pools |-> IF p \in restored THEN [fee |-> Paid(p, 1), source |-> "Unknown"]
                                   ELSE Fetched(p, 1)]
  BY DEF Init
<1>8. ASSUME NEW p \in Pools
      PROVE  /\ pools[p] \in PoolRecords
             /\ pools[p].source = "Events" => ~Dynamic(p, 1)
  <2>1. 1 \in 1..Newest
    BY <1>6
  <2>2. Paid(p, 1) \in 0..3
    BY <1>5, <2>1, ChainTypes
  <2>3. CASE p \in restored
    <3>1. pools[p] = [fee |-> Paid(p, 1), source |-> "Unknown"]
      BY <1>7, <2>3
    <3>. QED
      BY <2>2, <3>1 DEF PoolRecords, Sources
  <2>4. CASE p \notin restored
    BY <1>5, <1>6, <1>7, <2>1, <2>4, ClassifyType
  <2>. QED
    BY <2>3, <2>4
<1>9. ScalarsInv
  <2>1. pools \in [Pools -> PoolRecords \cup {Absent}]
    BY <1>7, <1>8
  <2>. QED
    BY <1>6, <2>1, FeeReaderAssumption DEF Init, ScalarsInv
<1>10. BatchInv
  BY <1>6 DEF Init, BatchInv, NoBatch
<1>11. TasksInv
  BY DEF Init, TasksInv, Idle
<1>12. ClassifiedInv
  <2>1. Level = 1 /\ tasks[1] = Idle
    BY FeeReaderAssumption DEF Init, Level
  <2>. QED
    BY <1>8, <2>1 DEF ClassifiedInv, Idle
<1>. QED
  BY <1>5, <1>9, <1>10, <1>11, <1>12 DEF FeeInv, TypeInv

LEMMA FeeInductive == FeeInv /\ [Next]_vars => FeeInv'
<1>. SUFFICES ASSUME FeeInv, [Next]_vars PROVE FeeInv'
  OBVIOUS
<1>1. ASSUME NEW p \in Pools, SetFee(p) \/ Reconfigure(p) \/ Drift(p) \/ Swap(p) \/ RemovePool(p)
      PROVE  FeeInv'
  BY <1>1, ChainSteps, RemovePoolInv
<1>2. CASE Updating
  BY <1>2, ApplyBatchInv, BatchEndInv DEF Updating
<1>3. CASE IntervalPasses
  BY <1>3, IntervalInv
<1>4. CASE Restart
  BY <1>4, RestartInv
<1>5. ASSUME NEW r \in 1..MaxReaders, Reading(r) \/ Fails(r) \/ Hangs(r)
      PROVE  FeeInv'
  BY <1>5, PlanInv, CallInv, WriteInv, NoAnswerInv DEF Reading
<1>6. CASE UNCHANGED vars
  BY <1>6, StutterInv
<1>. QED
  BY <1>1, <1>2, <1>3, <1>4, <1>5, <1>6 DEF Next

LEMMA FeeInvariance == Spec => []FeeInv
<1>1. Init => FeeInv
  BY FeeInit
<1>2. FeeInv /\ [Next]_vars => FeeInv'
  BY FeeInductive
<1>. QED
  BY <1>1, <1>2, PTL DEF Spec

\* Registry, schedule and reads keep their types under every interleaving of chain,
\* updater and reads, with failed, hung and orphaned reads and any number of restarts.
THEOREM FeeReaderTypes == Spec => []TypeOK
<1>1. FeeInv => TypeOK
  BY TypeInvTypeOK DEF FeeInv
<1>. QED
  BY <1>1, FeeInvariance, PTL

\* As long as no read failed and the updater was not replaced, a pool that is held as
\* event-driven although its swaps pay a computed fee is queued, or a read is under way: a
\* reconfiguration that overtakes a read puts its pool among the next batch's candidates
\* before the read can write (after_batch, plan_reads).
THEOREM StaleClassificationRepaired == Spec => []StaleClassificationIsQueued
<1>1. FeeInv => StaleClassificationIsQueued
  <2>. SUFFICES ASSUME FeeInv, NEW p \in Registered, batch = NoBatch, failures = 0, reader = 1,
                       pools[p].source = "Events", chain[cursor].fees[p].dynamic
                PROVE  p \in queued \/ ReadUnderWay
    BY DEF StaleClassificationIsQueued
  <2>1. p \in Pools /\ pools[p] # Absent /\ Dynamic(p, Level)
    BY DEF Registered, Dynamic, Level
  <2>2. Waiting(p) \/ Reclassifies(tasks[1], p)
    BY <2>1 DEF FeeInv, ClassifiedInv
  <2>3. CASE Waiting(p)
    BY <2>3 DEF Waiting, NoBatch
  <2>4. CASE Reclassifies(tasks[1], p)
    <3>1. 1 \in 1..MaxReaders /\ tasks[1].stage # "idle"
      BY <2>4, FeeReaderAssumption DEF Reclassifies
    <3>. QED
      BY <3>1 DEF ReadUnderWay
  <2>. QED
    BY <2>2, <2>3, <2>4
<1>. QED
  BY <1>1, FeeInvariance, PTL
=============================================================================
