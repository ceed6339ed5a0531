--------------------------- MODULE CollectorProofs ---------------------------
(***************************************************************************)
(* Proofs about CollectorHandle: whatever the mode, and through stop,        *)
(* restart, add_pools and remove_pools, the collector implements PoolReplay, *)
(* pending logs stay on clones, and swap events are in chain order. First    *)
(* what InOrder and Among return, for every finite set and every sequence.   *)
(***************************************************************************)
EXTENDS CollectorHandle, FiniteSetTheorems, TLAPS

Increasing(s) == \A i, j \in DOMAIN s : i < j => s[i] < s[j]

Rank(S, x) == Cardinality({y \in S : y <= x})

\* A member's rank is one of 1..Cardinality(S), and a greater member has a greater one.
LEMMA RankOrder ==
    ASSUME NEW S, S \subseteq Nat, IsFiniteSet(S)
    PROVE  /\ Cardinality(S) \in Nat
           /\ \A x \in S : Rank(S, x) \in 1..Cardinality(S)
           /\ \A x, y \in S : x < y => Rank(S, x) < Rank(S, y)
<1>. DEFINE Below(x) == {y \in S : y <= x}
<1>1. Cardinality(S) \in Nat
  BY FS_CardinalityType
<1>2. ASSUME NEW x \in S
      PROVE  /\ Below(x) \in SUBSET S /\ x \in Below(x) /\ IsFiniteSet(Below(x))
             /\ Cardinality(Below(x)) \in 1..Cardinality(S)
  <2>1. Below(x) \in SUBSET S /\ x \in Below(x)
    BY <1>2
  <2>. HIDE DEF Below
  <2>2. IsFiniteSet(Below(x)) /\ Cardinality(Below(x)) <= Cardinality(S)
    BY <2>1, FS_Subset
  <2>3. Cardinality(Below(x)) \in Nat /\ Cardinality(Below(x)) # 0
    BY <2>1, <2>2, FS_CardinalityType, FS_EmptySet
  <2>. QED
    BY <1>1, <2>1, <2>2, <2>3
<1>3. ASSUME NEW x \in S, NEW y \in S, x < y
      PROVE  Cardinality(Below(x)) < Cardinality(Below(y))
  <2>1. Below(x) \in SUBSET Below(y) /\ y \notin Below(x)
    <3>1. x \in Nat /\ y \in Nat /\ ~(y <= x) /\ \A z \in S : z <= x => z <= y
      BY <1>3
    <3>. QED
      BY <3>1
  <2>2. IsFiniteSet(Below(y)) /\ y \in Below(y)
    BY <1>2
  <2>3. Cardinality(Below(x)) \in Nat /\ Cardinality(Below(y)) \in Nat
    BY <1>1, <1>2
  <2>. HIDE DEF Below
  <2>4. /\ Cardinality(Below(x)) <= Cardinality(Below(y))
        /\ Cardinality(Below(y)) = Cardinality(Below(x)) => Below(y) = Below(x)
    BY <2>1, <2>2, FS_Subset
  <2>. QED
    BY <2>1, <2>2, <2>3, <2>4
<1>. QED
  BY <1>1, <1>2, <1>3 DEF Rank

\* InOrder enumerates its set, in increasing order.
LEMMA InOrderSpec ==
    ASSUME NEW S, S \subseteq Nat, IsFiniteSet(S)
    PROVE  /\ InOrder(S) \in Seq(S) /\ Len(InOrder(S)) = Cardinality(S)
           /\ DOMAIN InOrder(S) = 1..Cardinality(S)
           /\ Increasing(InOrder(S))
           /\ \A x \in S : \E i \in 1..Cardinality(S) : InOrder(S)[i] = x
<1>. DEFINE n == Cardinality(S)
            rank == [x \in S |-> Rank(S, x)]
<1>1. /\ n \in Nat /\ rank \in [S -> 1..n]
      /\ \A x, y \in S : x < y => rank[x] < rank[y]
  BY RankOrder
<1>2. IsFiniteSet(1..n) /\ Cardinality(1..n) = n
  BY <1>1, FS_Interval
<1>3. \A x, y \in S : rank[x] = rank[y] => x = y
  <2>1. SUFFICES ASSUME NEW x \in S, NEW y \in S, rank[x] = rank[y] PROVE x = y
    OBVIOUS
  <2>2. x \in Nat /\ y \in Nat /\ rank[x] \in Nat /\ rank[y] \in Nat
    BY <1>1
  <2>. HIDE DEF rank
  <2>. QED
    BY <1>1, <2>1, <2>2
<1>4. rank \in Injection(S, 1..n)
  <2>. HIDE DEF rank
  <2>. QED
    BY <1>1, <1>3 DEF Injection, IsInjective
<1>5. rank \in Surjection(S, 1..n)
  <2>. HIDE DEF rank
  <2>. QED
    BY <1>2, <1>4, FS_Injection
<1>6. \A i \in 1..n : \E x \in S : rank[x] = i
  <2>. HIDE DEF rank
  <2>. QED
    BY <1>5 DEF Surjection
<1>7. \A x \in S : rank[x] = Rank(S, x)
  OBVIOUS
<1>8. /\ DOMAIN InOrder(S) = 1..n
      /\ \A i \in 1..n : InOrder(S)[i] = CHOOSE x \in S : Rank(S, x) = i
  BY DEF InOrder, Rank
<1>9. \A i \in 1..n : InOrder(S)[i] \in S /\ rank[InOrder(S)[i]] = i
  <2>1. SUFFICES ASSUME NEW i \in 1..n
                 PROVE  InOrder(S)[i] \in S /\ rank[InOrder(S)[i]] = i
    OBVIOUS
  <2>2. \E x \in S : Rank(S, x) = i
    BY <1>6, <1>7
  <2>3. InOrder(S)[i] \in S /\ Rank(S, InOrder(S)[i]) = i
    BY <1>8, <2>2
  <2>. QED
    BY <1>7, <2>3
<1>10. InOrder(S) = [i \in 1..n |-> InOrder(S)[i]]
  BY DEF InOrder
<1>11. InOrder(S) \in [1..n -> S]
  <2>. HIDE DEF rank, n
  <2>. QED
    BY <1>9, <1>10
<1>12. InOrder(S) \in Seq(S) /\ Len(InOrder(S)) = n
  <2>. HIDE DEF rank, n
  <2>. QED
    BY <1>1, <1>11
<1>13. ASSUME NEW i \in 1..n, NEW j \in 1..n, i < j PROVE InOrder(S)[i] < InOrder(S)[j]
  <2>1. PICK a \in S, b \in S : /\ a = InOrder(S)[i] /\ b = InOrder(S)[j]
                                /\ rank[a] = i /\ rank[b] = j
    BY <1>9
  <2>2. a \in Nat /\ b \in Nat /\ i \in Nat /\ j \in Nat
    BY <1>1
  <2>. HIDE DEF rank
  <2>3. ~(b < a) /\ a # b
    BY <1>1, <1>13, <2>1, <2>2
  <2>4. a < b
    BY <2>2, <2>3
  <2>. QED
    BY <2>1, <2>4
<1>14. ASSUME NEW x \in S PROVE \E i \in 1..n : InOrder(S)[i] = x
  <2>1. rank[x] \in 1..n
    BY <1>1
  <2>2. InOrder(S)[rank[x]] \in S /\ rank[InOrder(S)[rank[x]]] = rank[x]
    BY <1>9, <2>1
  <2>3. InOrder(S)[rank[x]] = x
    BY <1>3, <1>14, <2>2
  <2>. QED
    BY <2>1, <2>3
<1>. QED
  BY <1>8, <1>12, <1>13, <1>14 DEF Increasing

LEMMA SeqWiden ==
    ASSUME NEW A, NEW B, A \subseteq B, NEW s \in Seq(A)
    PROVE  s \in Seq(B) /\ DOMAIN s = 1..Len(s) /\ Len(s) \in Nat
<1>1. \A i \in 1..Len(s) : s[i] \in A
  OBVIOUS
<1>2. \A i \in 1..Len(s) : s[i] \in B
  BY <1>1
<1>. QED
  BY <1>2

\* u is s at increasing positions, among them every position of a member of T.
Picks(u, s, T) ==
    \E at \in Seq(1..Len(s)) :
        /\ Len(at) = Len(u) /\ Increasing(at)
        /\ \A k \in 1..Len(at) : u[k] = s[at[k]]
        /\ \A i \in 1..Len(s) : s[i] \in T => \E k \in 1..Len(at) : at[k] = i

\* Among keeps exactly the members in T, at increasing positions.
LEMMA AmongSpec ==
    ASSUME NEW X, NEW s \in Seq(X), NEW T
    PROVE  Among(s, T) \in Seq(X \cap T) /\ Picks(Among(s, T), s, T)
<1>. DEFINE P == {i \in DOMAIN s : s[i] \in T}
            at == InOrder(P)
            u == Among(s, T)
<1>1. /\ P \subseteq Nat /\ P \in SUBSET (1..Len(s)) /\ Len(s) \in Nat
      /\ \A i \in P : s[i] \in X \cap T
      /\ \A i \in 1..Len(s) : s[i] \in T => i \in P
  OBVIOUS
<1>2. u = [k \in DOMAIN at |-> s[at[k]]]
  BY DEF Among
<1>. HIDE DEF P, u
<1>3. IsFiniteSet(P)
  <2>1. IsFiniteSet(1..Len(s))
    BY <1>1, FS_Interval
  <2>. QED
    BY <1>1, <2>1, FS_Subset
<1>4. /\ at \in Seq(P) /\ DOMAIN at = 1..Len(at) /\ Increasing(at)
      /\ \A i \in P : \E k \in 1..Len(at) : at[k] = i
  BY <1>1, <1>3, InOrderSpec
<1>. HIDE DEF at
<1>5. at \in Seq(1..Len(s)) /\ Len(at) \in Nat
  BY <1>1, <1>4, SeqWiden
<1>6. /\ DOMAIN u = 1..Len(at)
      /\ \A k \in 1..Len(at) : u[k] = s[at[k]] /\ s[at[k]] \in X \cap T
  <2>1. \A k \in 1..Len(at) : at[k] \in P
    BY <1>4
  <2>. QED
    BY <1>1, <1>2, <1>4, <2>1
<1>7. u \in Seq(X \cap T) /\ Len(u) = Len(at)
  BY <1>2, <1>4, <1>5, <1>6
<1>8. \A i \in 1..Len(s) : s[i] \in T => \E k \in 1..Len(at) : at[k] = i
  BY <1>1, <1>4
<1>. QED
  BY <1>4, <1>5, <1>6, <1>7, <1>8 DEF u, Picks

\* A sequence is a prefix of itself with more at its end.
LEMMA ConcatIsPrefix ==
    ASSUME NEW X, NEW s \in Seq(X), NEW t \in Seq(X)
    PROVE  IsPrefix(s, s \o t)
<1>1. Len(s) \in Nat /\ Len(t) \in Nat /\ s \o t \in Seq(X) /\ Len(s \o t) = Len(s) + Len(t)
  OBVIOUS
<1>2. \A i \in 1..Len(s) : (s \o t)[i] = s[i]
  OBVIOUS
<1>3. SubSeq(s, 1, Len(s)) = [i \in 1..Len(s) |-> s[i]]
  BY <1>1
<1>4. SubSeq(s \o t, 1, Len(s)) = [i \in 1..Len(s) |-> (s \o t)[i]]
  BY <1>1
<1>5. SubSeq(s, 1, Len(s)) = SubSeq(s \o t, 1, Len(s))
  BY <1>2, <1>3, <1>4
<1>. QED
  BY <1>1, <1>5 DEF IsPrefix

LEMMA ConcatToSet ==
    ASSUME NEW X, NEW s \in Seq(X), NEW t \in Seq(X)
    PROVE  /\ s \o t \in Seq(X) /\ ToSet(s \o t) = ToSet(s) \cup ToSet(t)
           /\ ToSet(s) \subseteq X
<1>1. /\ s \o t \in Seq(X) /\ DOMAIN (s \o t) = 1..(Len(s) + Len(t))
      /\ DOMAIN s = 1..Len(s) /\ DOMAIN t = 1..Len(t) /\ Len(s) \in Nat /\ Len(t) \in Nat
  OBVIOUS
<1>2. /\ \A i \in 1..Len(s) : (s \o t)[i] = s[i] /\ s[i] \in X
      /\ \A i \in 1..Len(t) : (s \o t)[Len(s) + i] = t[i]
      /\ \A i \in 1..(Len(s) + Len(t)) : i \notin 1..Len(s) =>
             i - Len(s) \in 1..Len(t) /\ (s \o t)[i] = t[i - Len(s)]
  OBVIOUS
<1>3. ToSet(s \o t) \subseteq ToSet(s) \cup ToSet(t)
  BY <1>1, <1>2 DEF ToSet
<1>4. \A i \in 1..Len(s) : i \in 1..(Len(s) + Len(t))
  BY <1>1
<1>5. \A i \in 1..Len(t) : Len(s) + i \in 1..(Len(s) + Len(t))
  BY <1>1
<1>6. ToSet(s) \subseteq ToSet(s \o t)
  BY <1>1, <1>2, <1>4 DEF ToSet
<1>7. ToSet(t) \subseteq ToSet(s \o t)
  BY <1>1, <1>2, <1>5 DEF ToSet
<1>8. ToSet(s) \subseteq X
  BY <1>1, <1>2 DEF ToSet
<1>. QED
  BY <1>1, <1>3, <1>6, <1>7, <1>8

\* A position of a concatenation is one of the first or of the second sequence.
LEMMA ConcatAt ==
    ASSUME NEW X, NEW s \in Seq(X), NEW t \in Seq(X)
    PROVE  /\ s \o t \in Seq(X)
           /\ \A i \in DOMAIN (s \o t) :
                  \/ i \in DOMAIN s /\ (s \o t)[i] = s[i]
                  \/ /\ i \in Nat /\ i > Len(s) /\ i - Len(s) \in DOMAIN t
                     /\ (s \o t)[i] = t[i - Len(s)]
<1>1. /\ s \o t \in Seq(X) /\ DOMAIN (s \o t) = 1..(Len(s) + Len(t))
      /\ Len(s) \in Nat /\ Len(t) \in Nat /\ DOMAIN s = 1..Len(s) /\ DOMAIN t = 1..Len(t)
  OBVIOUS
<1>2. /\ \A i \in 1..Len(s) : (s \o t)[i] = s[i]
      /\ \A i \in 1..(Len(s) + Len(t)) : i > Len(s) => (s \o t)[i] = t[i - Len(s)]
  OBVIOUS
<1>3. \A i \in 1..(Len(s) + Len(t)) : i \in 1..Len(s) \/ (i > Len(s) /\ i - Len(s) \in 1..Len(t))
  BY <1>1
<1>. QED
  BY <1>1, <1>2, <1>3

\* Longer prefixes: a sequence with more at its end, three times.
LEMMA ConcatsArePrefix ==
    ASSUME NEW X, NEW s \in Seq(X), NEW t \in Seq(X), NEW u \in Seq(X), NEW v \in Seq(X)
    PROVE  IsPrefix(s, ((s \o t) \o u) \o v)
<1>. DEFINE w == t \o u
<1>1. w \in Seq(X) /\ w \o v \in Seq(X) /\ s \o t \in Seq(X) /\ (s \o t) \o u \in Seq(X)
  BY ConcatToSet
<1>2. \A a, b, c \in Seq(X) : (a \o b) \o c = a \o (b \o c)
  OBVIOUS
<1>3. ((s \o t) \o u) \o v = s \o ((t \o u) \o v)
  <2>1. (s \o t) \o u = s \o w
    BY <1>2
  <2>. HIDE DEF w
  <2>2. (s \o w) \o v = s \o (w \o v)
    BY <1>1, <1>2
  <2>. QED
    BY <2>1, <2>2 DEF w
<1>4. IsPrefix(s, s \o ((t \o u) \o v))
  BY <1>1, ConcatIsPrefix
<1>. QED
  BY <1>3, <1>4

----------------------------------------------------------------------------
(* The inductive invariant. *)

Processing == {"apply", "send"}
PendingPcs == {"pending", "pendsend"}

\* The logs the order of a pool's state and of its swap events does not depend on.
Strays == IF mode = "websocket" THEN astray ELSE {}

\* Where a polling source's next range starts: the block after the cursor, once
\* the batch in hand has moved it.
NextFrom == IF upc \in Processing THEN batch.through + 1 ELSE cursor + 1

\* What a polling source has still to fetch is a chain of ranges from there.
RangesInv ==
    /\ phase.name = "ConfirmedBatches" =>
           /\ mode = "pending" /\ upc \notin PendingPcs
           /\ phase.current <= phase.latest /\ phase.latest <= head
           /\ upc # "stopped" => phase.current = NextFrom
    /\ batches # <<>> => mode = "latest" /\ (upc # "stopped" => batches[1][1] = NextFrom)
    /\ \A i \in DOMAIN batches :
           /\ batches[i][1] <= batches[i][2] /\ batches[i][2] <= head
           /\ i > 1 => batches[i][1] = batches[i - 1][2] + 1

\* The logs of a confirmed batch are in order and, but for strays, of the blocks
\* after the cursor.
BatchInv ==
    /\ upc \in {"boot", "next", "stopped"} => batch = NoBatch /\ outbox = <<>>
    /\ upc = "boot" => mode = "websocket"
    /\ upc \in PendingPcs => mode = "pending" /\ batch.mode = "Pending" /\ batch.through = 0
    /\ upc = "pendsend" => outbox # <<>>
    /\ upc # "apply" => todo = {}
    /\ upc \in Processing =>
           /\ batch.mode \in {"ApplyOnly", "ConfirmedWithSwaps"}
           /\ cursor <= batch.through /\ batch.through <= MaxBlock
           /\ mode # "websocket" => cursor < batch.through /\ batch.through <= head
           /\ Increasing(batch.logs)
           /\ \A l \in ToSet(batch.logs) :
                  Block(l) <= batch.through /\ (l \notin Strays => cursor < Block(l))

\* add_pools: the updater is stopped when pools are caught up.
HandleInv ==
    /\ hpc \in {"catchup", "register", "wscatchup", "wslisten", "wsfetch"} => upc = "stopped"
    /\ fetch_block <= MaxBlock
    /\ hpc \in {"join", "catchup", "register"} =>
           fetch_block <= head /\ \A p \in adding : mem[p] # Absent
    /\ hpc \in {"wscatchup", "wslisten", "wsfetch"} => cursor <= fetch_block
    /\ hpc \in {"fetch", "join", "catchup", "register"} => mode # "websocket"
    /\ hpc \in {"wsjoin", "wscatchup", "wslisten", "wsfetch"} => mode = "websocket"

ControlInv == HandleTypeOK /\ RangesInv /\ BatchInv /\ HandleInv

AllTypes == {TypeOf(p) : p \in Pools}

\* Every pool is of a type that was registered before the start. Without it
\* add_pools fetches with topics that miss the new type (run add_new_type).
TypesKnown == {TypeOf(p) : p \in InitPools} = AllTypes

\* Then no filter misses a registered pool, or one that is about to be,
FiltersInv ==
    TypesKnown =>
        /\ topics = AllTypes /\ srcTopics = AllTypes /\ listen.topics = AllTypes
        /\ mode = "websocket" => Registered \subseteq listen.addresses
        /\ hpc = "wsfetch" => adding \subseteq listen.addresses

\* and the batch in hand holds every log of its blocks that is not astray.
WholeInv ==
    TypesKnown /\ upc \in Processing =>
        \A l \in Logs \ astray :
            /\ PoolOf(l) \in Registered
            /\ cursor < Block(l) /\ Block(l) <= batch.through
            => l \in ToSet(batch.logs)

\* s is logs of p in order and through block b, but for those in W;
Ordered(s, p, b, W) ==
    /\ \A i \in DOMAIN s : PoolOf(s[i]) = p /\ (s[i] \notin W => Block(s[i]) <= b)
    /\ \A i, j \in DOMAIN s : i < j /\ s[i] \notin W /\ s[j] \notin W => s[i] < s[j]

\* it holds every log of p through block b, but for those in A.
Complete(s, p, b, A) ==
    \A l \in Logs \ A : PoolOf(l) = p /\ Block(l) <= b => l \in ToSet(s)

\* A pool's state s is one at block b: complete when the filters are.
Faithful(s, p, b, W, A) == Ordered(s, p, b, W) /\ (TypesKnown => Complete(s, p, b, A))
At(s, p, b) == Faithful(s, p, b, Strays, astray)

\* The block a registered pool, and one in memory, has reached.
Level(p) ==
    CASE upc = "send" \/ (upc = "apply" /\ p \notin todo) -> batch.through
      [] upc \notin Processing /\ hpc \in {"register", "wslisten", "wsfetch"} ->
             Max({cursor, fetch_block})
      [] OTHER -> cursor
MemLevel == IF hpc = "register" THEN Max({cursor, fetch_block}) ELSE fetch_block
InMemory == IF hpc \in {"join", "catchup", "register"} THEN adding ELSE {}

RegistryInv == \A p \in Registered : At(state[p], p, Level(p))
MemoryInv == \A p \in InMemory : At(mem[p], p, MemLevel)

PoolsInv == FiltersInv /\ WholeInv /\ RegistryInv /\ MemoryInv
ReplayInv == ControlInv /\ PoolsInv

\* What of a confirmed swap event's past is not astray, all pools have reached;
SentThrough == IF upc = "send" THEN batch.through ELSE cursor
ChannelInv ==
    \A i \in DOMAIN swaps : swaps[i][2] = "confirmed" =>
        \A l \in Logs \ Strays : Block(l) <= Block(swaps[i][1]) => Block(l) <= SentThrough

\* those still to send are of the batch, of pools it has been applied to;
OutboxInv ==
    upc \in Processing =>
        \A i \in DOMAIN outbox :
            /\ outbox[i] \in ToSet(batch.logs)
            /\ PoolOf(outbox[i]) \notin todo

\* and the events of one pool are in order, in the channel and behind it.
OrderInv ==
    /\ \A i, j \in DOMAIN swaps :
           /\ i < j /\ swaps[i][2] = "confirmed" /\ swaps[j][2] = "confirmed"
           /\ PoolOf(swaps[i][1]) = PoolOf(swaps[j][1])
           /\ swaps[i][1] \notin Strays /\ swaps[j][1] \notin Strays
           => swaps[i][1] < swaps[j][1]
    /\ upc \in Processing =>
           /\ \A i \in DOMAIN swaps, j \in DOMAIN outbox :
                  /\ swaps[i][2] = "confirmed" /\ PoolOf(swaps[i][1]) = PoolOf(outbox[j])
                  /\ swaps[i][1] \notin Strays /\ outbox[j] \notin Strays
                  => swaps[i][1] < outbox[j]
           /\ \A i, j \in DOMAIN outbox :
                  i < j /\ PoolOf(outbox[i]) = PoolOf(outbox[j]) => outbox[i] < outbox[j]

SwapsInv == ChannelInv /\ OutboxInv /\ OrderInv

\* The pending logs still to apply come after what their clones hold, except
\* the one that was just applied and is being sent.
ClonesInv ==
    /\ upc \notin PendingPcs => modified = NoClones
    /\ upc \in PendingPcs =>
           /\ Increasing(outbox)
           /\ \A i \in DOMAIN outbox : Block(outbox[i]) > cursor
           /\ \A p \in Pools : modified[p] # Absent =>
                  \A i \in DOMAIN modified[p], j \in DOMAIN outbox :
                      upc = "pending" \/ j > 1 => modified[p][i] < outbox[j]
    /\ ClonesInChainOrder

----------------------------------------------------------------------------
(* Logs in chain order. *)

LEMMA LogsAreFinite ==
    /\ Logs \subseteq Nat /\ IsFiniteSet(Logs)
    /\ \A S : S \subseteq Logs => S \subseteq Nat /\ IsFiniteSet(S)
    /\ \A l \in Logs : Block(l) \in Nat /\ PoolOf(l) \in Pools
    /\ \A l, m \in Logs : Block(l) < Block(m) => l < m
    /\ \A l, m \in Logs : l <= m => Block(l) <= Block(m)
<1>1. Logs \subseteq Nat /\ IsFiniteSet(Logs) /\ \A l \in Logs : Block(l) \in Nat /\ PoolOf(l) \in Pools
  BY UpdaterAssumption
<1>2. \A l, m \in Logs : Block(l) < Block(m) => l < m
  BY UpdaterAssumption
<1>3. \A S : S \subseteq Logs => S \subseteq Nat /\ IsFiniteSet(S)
  BY <1>1, FS_Subset
<1>4. \A l, m \in Logs : l <= m => Block(l) <= Block(m)
  BY <1>1, <1>2
<1>. QED
  BY <1>1, <1>2, <1>3, <1>4

\* PoolReplay's operators are the collector's.
LEMMA ReplayOperators ==
    /\ \A S : Replay!InOrder(S) = InOrder(S)
    /\ \A s, t : Replay!IsPrefix(s, t) <=> IsPrefix(s, t)
    /\ \A s : Replay!ToSet(s) = ToSet(s)
<1>1. \A S : Replay!InOrder(S) = InOrder(S)
  BY DEF InOrder, Replay!InOrder, Cardinality, Replay!Cardinality
<1>2. \A s, t : Replay!IsPrefix(s, t) <=> IsPrefix(s, t)
  BY DEF IsPrefix, Replay!IsPrefix
<1>3. \A s : Replay!ToSet(s) = ToSet(s)
  BY DEF ToSet, Replay!ToSet
<1>. QED
  BY <1>1, <1>2, <1>3

\* The enumeration of a set of logs holds exactly these.
LEMMA LogsInOrder ==
    ASSUME NEW S, S \subseteq Logs
    PROVE  /\ InOrder(S) \in Seq(Logs) /\ Increasing(InOrder(S))
           /\ ToSet(InOrder(S)) = S
<1>1. S \subseteq Nat /\ IsFiniteSet(S)
  BY LogsAreFinite
<1>2. /\ InOrder(S) \in Seq(S) /\ Increasing(InOrder(S))
      /\ DOMAIN InOrder(S) = 1..Cardinality(S)
      /\ \A x \in S : \E i \in 1..Cardinality(S) : InOrder(S)[i] = x
  BY <1>1, InOrderSpec
<1>3. \A i \in DOMAIN InOrder(S) : InOrder(S)[i] \in S
  <2>. DEFINE s == InOrder(S)
  <2>1. s \in Seq(S)
    BY <1>2
  <2>. HIDE DEF s
  <2>2. \A i \in DOMAIN s : s[i] \in S
    BY <2>1
  <2>. QED
    BY <2>2 DEF s
<1>4. ToSet(InOrder(S)) = S
  BY <1>2, <1>3 DEF ToSet
<1>. QED
  BY <1>2, <1>4, SeqWiden

LEMMA ChainStateType ==
    ASSUME NEW p, NEW b \in Nat
    PROVE  /\ Replay!ChainState(p, b) \in Seq(Logs)
           /\ Replay!ChainState(p, b) # Absent
           /\ \A W, A : Faithful(Replay!ChainState(p, b), p, b, W, A)
<1>. DEFINE S == {l \in Logs : PoolOf(l) = p /\ Block(l) \in 0..b}
<1>1. Replay!ChainState(p, b) = InOrder(S)
  BY ReplayOperators DEF Replay!ChainState, Replay!LogsOf
<1>2. S \subseteq Logs /\ \A l \in S : PoolOf(l) = p /\ Block(l) <= b
  OBVIOUS
<1>3. \A l \in Logs : PoolOf(l) = p /\ Block(l) <= b => l \in S
  BY LogsAreFinite
<1>. HIDE DEF S
<1>4. InOrder(S) \in Seq(Logs) /\ Increasing(InOrder(S)) /\ ToSet(InOrder(S)) = S
  BY <1>2, LogsInOrder
<1>5. \A W : Ordered(InOrder(S), p, b, W)
  <2>1. \A i \in DOMAIN InOrder(S) : InOrder(S)[i] \in S
    BY <1>4 DEF ToSet
  <2>. QED
    BY <1>2, <1>4, <2>1 DEF Ordered, Increasing
<1>6. \A A : Complete(InOrder(S), p, b, A)
  BY <1>3, <1>4 DEF Complete
<1>7. InOrder(S) # Absent
  BY <1>4, UpdaterAssumption
<1>. QED
  BY <1>1, <1>4, <1>5, <1>6, <1>7 DEF Faithful

\* What is kept of a sequence in chain order is in chain order.
LEMMA AmongInChainOrder ==
    ASSUME NEW s \in Seq(Logs), Increasing(s), NEW T
    PROVE  /\ Among(s, T) \in Seq(Logs) /\ Increasing(Among(s, T))
           /\ ToSet(Among(s, T)) = ToSet(s) \cap T
<1>. DEFINE u == Among(s, T)
<1>1. u \in Seq(Logs \cap T) /\ Picks(u, s, T)
  BY AmongSpec
<1>. HIDE DEF u
<1>2. u \in Seq(Logs) /\ DOMAIN u = 1..Len(u)
  BY <1>1, SeqWiden
<1>3. \A k \in DOMAIN u : u[k] \in T
  BY <1>1, <1>2
<1>4. PICK at \in Seq(1..Len(s)) : /\ Len(at) = Len(u) /\ Increasing(at)
                                   /\ \A k \in 1..Len(at) : u[k] = s[at[k]]
                                   /\ \A i \in 1..Len(s) : s[i] \in T =>
                                          \E k \in 1..Len(at) : at[k] = i
  BY <1>1 DEF Picks
<1>5. \A k \in DOMAIN u : at[k] \in DOMAIN s /\ u[k] = s[at[k]]
  BY <1>2, <1>4
<1>6. ASSUME NEW k \in DOMAIN u, NEW m \in DOMAIN u, k < m PROVE u[k] < u[m]
  <2>1. at[k] < at[m]
    BY <1>2, <1>4, <1>6 DEF Increasing
  <2>. QED
    BY <1>5, <2>1 DEF Increasing
<1>7. ToSet(u) \subseteq ToSet(s) \cap T
  BY <1>3, <1>5 DEF ToSet
<1>8. ASSUME NEW x \in ToSet(s) \cap T PROVE x \in ToSet(u)
  <2>1. PICK i \in 1..Len(s) : s[i] = x
    BY DEF ToSet
  <2>2. PICK k \in 1..Len(at) : at[k] = i
    BY <1>4, <2>1
  <2>3. k \in DOMAIN u /\ u[k] = x
    BY <1>2, <1>4, <2>1, <2>2
  <2>. QED
    BY <2>3 DEF ToSet
<1>. QED
  BY <1>2, <1>6, <1>7, <1>8 DEF u, Increasing

LEMMA OfPoolInOrder ==
    ASSUME NEW s \in Seq(Logs), Increasing(s), NEW p
    PROVE  /\ OfPool(s, p) \in Seq(Logs) /\ Increasing(OfPool(s, p))
           /\ ToSet(OfPool(s, p)) = {l \in ToSet(s) : PoolOf(l) = p}
<1>. DEFINE T == {l \in Logs : PoolOf(l) = p}
<1>1. OfPool(s, p) = Among(s, T)
  BY DEF OfPool
<1>2. ToSet(s) \subseteq Logs
  BY ConcatToSet
<1>3. ToSet(s) \cap T = {l \in ToSet(s) : PoolOf(l) = p}
  BY <1>2
<1>. HIDE DEF T
<1>. QED
  BY <1>1, <1>3, AmongInChainOrder

LEMMA SwapsInOrder ==
    ASSUME NEW s \in Seq(Logs), Increasing(s)
    PROVE  /\ SwapsIn(s) \in Seq(Logs) /\ Increasing(SwapsIn(s))
           /\ ToSet(SwapsIn(s)) \subseteq ToSet(s)
<1>. DEFINE T == {l \in Logs : IsSwap(l)}
<1>1. SwapsIn(s) = Among(s, T)
  BY DEF SwapsIn
<1>. HIDE DEF T
<1>. QED
  BY <1>1, AmongInChainOrder

\* eth_getLogs answers with logs of the filter's addresses, topics and blocks.
LEMMA AnswersMatch ==
    ASSUME NEW addresses, NEW types, NEW a, NEW b, NEW S \in Answers(addresses, types, a, b)
    PROVE  /\ S \subseteq Matching(addresses, types, a, b) /\ S \subseteq Logs
           /\ \A l \in S : Block(l) \in a..b
BY DEF Answers, Matching

\* A state at block a, with more strays, is one at a later block, or at an earlier
\* one if the blocks between hold strays only.
LEMMA FaithfulStays ==
    ASSUME NEW p, NEW s \in Seq(Logs), NEW a \in Nat, NEW b \in Nat, NEW V, NEW W, NEW A, NEW B,
           Faithful(s, p, a, V, A), V \subseteq W, A \subseteq B,
           \A l \in Logs : b < Block(l) /\ Block(l) <= a => l \in W,
           TypesKnown => \A l \in Logs \ B : PoolOf(l) = p /\ a < Block(l) /\ Block(l) <= b =>
                                                 l \in ToSet(s)
    PROVE  Faithful(s, p, b, W, B)
<1>1. \A i \in DOMAIN s : s[i] \in Logs /\ Block(s[i]) \in Nat
  BY LogsAreFinite
<1>2. Ordered(s, p, b, W)
  BY <1>1 DEF Faithful, Ordered
<1>3. TypesKnown => Complete(s, p, b, B)
  BY LogsAreFinite DEF Faithful, Complete
<1>. QED
  BY <1>2, <1>3 DEF Faithful

\* Logs in order, after those there are, extend an ordered state.
LEMMA OrderedConcat ==
    ASSUME NEW p, NEW s \in Seq(Logs), NEW t \in Seq(Logs), NEW b, NEW W,
           Ordered(s, p, b, W), Increasing(t),
           \A l \in ToSet(t) : PoolOf(l) = p /\ (l \notin W => Block(l) <= b),
           \A l \in ToSet(s) \ W, m \in ToSet(t) \ W : l < m
    PROVE  Ordered(s \o t, p, b, W)
<1>. DEFINE u == s \o t
<1>1. \A i \in DOMAIN u :
          \/ i \in DOMAIN s /\ u[i] = s[i]
          \/ i \in Nat /\ i > Len(s) /\ i - Len(s) \in DOMAIN t /\ u[i] = t[i - Len(s)]
  BY ConcatAt
<1>2. DOMAIN s = 1..Len(s) /\ Len(s) \in Nat
  OBVIOUS
<1>. HIDE DEF u
<1>3. /\ \A i \in DOMAIN s : s[i] \in ToSet(s)
      /\ \A i \in DOMAIN t : t[i] \in ToSet(t)
  BY DEF ToSet
<1>4. \A i \in DOMAIN u : PoolOf(u[i]) = p /\ (u[i] \notin W => Block(u[i]) <= b)
  BY <1>1, <1>3 DEF Ordered
<1>5. ASSUME NEW i \in DOMAIN u, NEW j \in DOMAIN u, i < j, u[i] \notin W, u[j] \notin W
      PROVE  u[i] < u[j]
  <2>1. CASE i \in DOMAIN s /\ u[i] = s[i] /\ j \in DOMAIN s /\ u[j] = s[j]
    BY <1>5, <2>1 DEF Ordered
  <2>2. CASE i \in DOMAIN s /\ u[i] = s[i] /\ j - Len(s) \in DOMAIN t /\ u[j] = t[j - Len(s)]
    BY <1>3, <1>5, <2>2
  <2>3. CASE i \in Nat /\ i > Len(s) /\ i - Len(s) \in DOMAIN t /\ u[i] = t[i - Len(s)]
    <3>1. j \notin DOMAIN s
      BY <1>1, <1>2, <1>5, <2>3
    <3>2. j \in Nat /\ j - Len(s) \in DOMAIN t /\ u[j] = t[j - Len(s)]
      BY <1>1, <3>1
    <3>3. i - Len(s) < j - Len(s)
      BY <1>2, <1>5, <2>3, <3>2
    <3>. QED
      BY <2>3, <3>2, <3>3 DEF Increasing
  <2>. QED
    BY <1>1, <2>1, <2>2, <2>3
<1>. QED
  BY <1>4, <1>5 DEF Ordered, u

\* A state at block a takes the logs of the blocks after it, in order and, but for
\* strays, without a hole.
LEMMA FaithfulConcat ==
    ASSUME NEW p, NEW s \in Seq(Logs), NEW t \in Seq(Logs), NEW a \in Nat, NEW b \in Nat, a <= b,
           NEW V, NEW W, NEW A, NEW B,
           Faithful(s, p, a, V, A), V \subseteq W, A \subseteq B, Increasing(t),
           \A l \in ToSet(t) :
               PoolOf(l) = p /\ (l \notin W => a < Block(l) /\ Block(l) <= b),
           TypesKnown => \A l \in Logs \ B : PoolOf(l) = p /\ a < Block(l) /\ Block(l) <= b =>
                                                 l \in ToSet(t)
    PROVE  Faithful(s \o t, p, b, W, B)
<1>1. ToSet(s \o t) = ToSet(s) \cup ToSet(t) /\ ToSet(s) \subseteq Logs /\ ToSet(t) \subseteq Logs
  BY ConcatToSet
<1>2. \A i \in DOMAIN s : s[i] \in Logs /\ Block(s[i]) \in Nat
  BY LogsAreFinite
<1>3. Ordered(s, p, b, W)
  BY <1>2 DEF Faithful, Ordered
<1>4. \A l \in ToSet(s) \ W : Block(l) <= a
  BY DEF Faithful, Ordered, ToSet
<1>5. ASSUME NEW l \in ToSet(s) \ W, NEW m \in ToSet(t) \ W PROVE l < m
  <2>1. l \in Logs /\ m \in Logs /\ Block(l) \in Nat /\ Block(m) \in Nat
    BY <1>1, LogsAreFinite
  <2>2. Block(l) <= a /\ a < Block(m)
    BY <1>4
  <2>3. Block(l) < Block(m)
    BY <2>1, <2>2
  <2>. QED
    BY <2>1, <2>3, LogsAreFinite
<1>6. Ordered(s \o t, p, b, W)
  BY <1>3, <1>5, OrderedConcat
<1>7. TypesKnown => Complete(s \o t, p, b, B)
  <2>1. SUFFICES ASSUME TypesKnown, NEW l \in Logs \ B, PoolOf(l) = p, Block(l) <= b
                 PROVE  l \in ToSet(s) \cup ToSet(t)
    BY <1>1 DEF Complete
  <2>2. CASE Block(l) <= a
    BY <2>1, <2>2 DEF Faithful, Complete
  <2>3. CASE ~(Block(l) <= a)
    <3>1. a < Block(l)
      BY <2>3, LogsAreFinite
    <3>. QED
      BY <2>1, <3>1
  <2>. QED
    BY <2>2, <2>3
<1>. QED
  BY <1>6, <1>7 DEF Faithful

\* A catch-up with the pool's address, and all topics, brings it to the last block;
\* what the answer leaves out is astray.
LEMMA AppliedCatchUp ==
    ASSUME NEW p, NEW s \in Seq(Logs), NEW a \in Nat, NEW b \in Nat, a <= b,
           NEW addresses, NEW types, p \in addresses, TypesKnown => TypeOf(p) \in types,
           NEW S \in Answers(addresses, types, a + 1, b),
           NEW V, NEW W, NEW A, Faithful(s, p, a, V, A), V \subseteq W
    PROVE  Faithful(Applied(s, p, S), p, b, W,
                    A \cup (Matching(addresses, types, a + 1, b) \ S))
<1>. DEFINE T == {l \in S : PoolOf(l) = p}
            B == A \cup (Matching(addresses, types, a + 1, b) \ S)
<1>1. Applied(s, p, S) = s \o InOrder(T)
  BY DEF Applied
<1>2. S \subseteq Logs /\ \A l \in S : Block(l) \in (a + 1)..b
  BY AnswersMatch
<1>3. InOrder(T) \in Seq(Logs) /\ Increasing(InOrder(T)) /\ ToSet(InOrder(T)) = T
  BY <1>2, LogsInOrder
<1>4. \A l \in T : PoolOf(l) = p /\ a < Block(l) /\ Block(l) <= b
  <2>1. \A n : n \in (a + 1)..b => a < n /\ n <= b
    OBVIOUS
  <2>. QED
    BY <1>2, <2>1
<1>5. TypesKnown => \A l \in Logs \ B : PoolOf(l) = p /\ a < Block(l) /\ Block(l) <= b => l \in T
  <2>1. SUFFICES ASSUME TypesKnown, NEW l \in Logs \ B, PoolOf(l) = p, a < Block(l), Block(l) <= b
                 PROVE  l \in S
    OBVIOUS
  <2>2. Block(l) \in (a + 1)..b
    BY <2>1, LogsAreFinite
  <2>. QED
    BY <2>1, <2>2 DEF Matching
<1>6. A \subseteq B
  OBVIOUS
<1>. HIDE DEF T, B
<1>7. Faithful(s \o InOrder(T), p, b, W, B)
  BY <1>3, <1>4, <1>5, <1>6, FaithfulConcat
<1>. QED
  BY <1>1, <1>7 DEF B

----------------------------------------------------------------------------
(* Block numbers. *)

LEMMA MaxOfTwo ==
    ASSUME NEW a \in Nat, NEW b \in Nat
    PROVE  /\ Max({a, b}) \in {a, b} /\ a <= Max({a, b}) /\ b <= Max({a, b})
           /\ a <= b => Max({a, b}) = b
           /\ b <= a => Max({a, b}) = a
<1>1. \E x \in {a, b} : \A y \in {a, b} : x >= y
  OBVIOUS
<1>2. Max({a, b}) \in {a, b} /\ \A y \in {a, b} : Max({a, b}) >= y
  BY <1>1 DEF Max
<1>. QED
  BY <1>2

LEMMA BatchEndBounds ==
    ASSUME NEW from \in Nat, NEW latest \in Nat, from <= latest
    PROVE  /\ BatchEnd(from, latest) \in Nat
           /\ from <= BatchEnd(from, latest) /\ BatchEnd(from, latest) <= latest
           /\ from + MaxBlocksPerBatch - 1 <= latest =>
                  BatchEnd(from, latest) = from + MaxBlocksPerBatch - 1
<1>. DEFINE x == from + MaxBlocksPerBatch - 1
<1>1. MaxBlocksPerBatch \in Nat \ {0}
  BY UpdaterAssumption
<1>2. x \in Nat /\ from <= x
  BY <1>1
<1>3. BatchEnd(from, latest) = Min({x, latest})
  BY DEF BatchEnd
<1>. HIDE DEF x
<1>4. \E e \in {x, latest} : \A y \in {x, latest} : e <= y
  BY <1>2
<1>5. Min({x, latest}) \in {x, latest} /\ \A y \in {x, latest} : Min({x, latest}) <= y
  BY <1>4 DEF Min
<1>6. /\ BatchEnd(from, latest) \in Nat
      /\ from <= BatchEnd(from, latest) /\ BatchEnd(from, latest) <= latest
      /\ x <= latest => BatchEnd(from, latest) = x
  BY <1>2, <1>3, <1>5
<1>. QED
  BY <1>6 DEF x

\* A poll's ranges follow each other from the first block to the latest.
LEMMA TilesChain ==
    ASSUME NEW from \in Nat, NEW latest \in Nat, from <= latest
    PROVE  /\ Tiles(from, latest) \in Seq(Nat \X Nat \X BOOLEAN) /\ Tiles(from, latest) # <<>>
           /\ Tiles(from, latest)[1][1] = from
           /\ \A i \in DOMAIN Tiles(from, latest) :
                  /\ Tiles(from, latest)[i][1] <= Tiles(from, latest)[i][2]
                  /\ Tiles(from, latest)[i][2] <= latest
                  /\ i > 1 => Tiles(from, latest)[i][1] = Tiles(from, latest)[i - 1][2] + 1
<1>. DEFINE M == MaxBlocksPerBatch
            q == (latest - from) \div M
            n == q + 1
            first(i) == from + (i - 1) * M
            newest(i) == BatchEnd(first(i), latest) = latest /\ first(i) = BatchEnd(first(i), latest)
            t == Tiles(from, latest)
<1>1. M \in Nat /\ M > 0
  BY UpdaterAssumption
<1>2. q \in Nat /\ q * M <= latest - from
  <2>1. latest - from \in Nat
    OBVIOUS
  <2>2. \A d \in Nat, m \in Nat : m > 0 => d \div m \in Nat /\ (d \div m) * m <= d
    OBVIOUS
  <2>. QED
    BY <1>1, <2>1, <2>2
<1>3. /\ t = [i \in 1..n |-> <<first(i), BatchEnd(first(i), latest), newest(i)>>]
      /\ \A i : newest(i) \in BOOLEAN
  BY DEF Tiles
<1>. HIDE DEF q, M
<1>4. ASSUME NEW i \in 1..n PROVE first(i) \in Nat /\ first(i) <= latest
  <2>1. i - 1 \in Nat /\ i - 1 <= q
    BY <1>2
  <2>2. (i - 1) * M \in Nat /\ (i - 1) * M <= q * M
    <3>1. \A a, b, m \in Nat : a <= b => a * m \in Nat /\ a * m <= b * m
      OBVIOUS
    <3>. QED
      BY <1>1, <1>2, <2>1, <3>1
  <2>3. \A x, y \in Nat : x <= y /\ y <= latest - from => from + x \in Nat /\ from + x <= latest
    OBVIOUS
  <2>4. q * M \in Nat
    BY <1>1, <1>2
  <2>. QED
    BY <1>2, <2>2, <2>3, <2>4
<1>5. \A i \in 1..n : /\ BatchEnd(first(i), latest) \in Nat
                      /\ first(i) <= BatchEnd(first(i), latest)
                      /\ BatchEnd(first(i), latest) <= latest
                      /\ first(i) + M - 1 <= latest => BatchEnd(first(i), latest) = first(i) + M - 1
  <2>. HIDE DEF first
  <2>. QED
    BY <1>4, BatchEndBounds DEF M
<1>6. n \in Nat /\ 1 \in 1..n
  BY <1>2
<1>7. first(1) = from
  BY <1>1
<1>8. ASSUME NEW i \in 1..n, i > 1
      PROVE  i - 1 \in 1..n /\ first(i) = BatchEnd(first(i - 1), latest) + 1
  <2>1. i - 1 \in 1..n
    BY <1>6, <1>8
  <2>2. first(i) = first(i - 1) + M
    <3>1. (i - 1) * M = (i - 1 - 1) * M + M
      <4>1. \A a \in Int : a * M = (a - 1) * M + M
        BY <1>1
      <4>. QED
        BY <4>1
    <3>2. (i - 1 - 1) * M \in Int
      BY <1>1
    <3>. QED
      BY <1>1, <3>1, <3>2
  <2>3. first(i) \in Nat /\ first(i - 1) \in Nat /\ first(i) <= latest
    BY <1>4, <2>1
  <2>. HIDE DEF first
  <2>4. first(i - 1) + M - 1 <= latest
    BY <1>1, <2>2, <2>3
  <2>5. BatchEnd(first(i - 1), latest) = first(i - 1) + M - 1
    BY <1>5, <2>1, <2>4
  <2>. QED
    BY <1>1, <2>1, <2>2, <2>3, <2>5
<1>. HIDE DEF first, newest, n, t
<1>9. /\ DOMAIN t = 1..n
      /\ \A i \in 1..n : t[i][1] = first(i) /\ t[i][2] = BatchEnd(first(i), latest)
                         /\ t[i] \in Nat \X Nat \X BOOLEAN
  <2>1. \A i \in 1..n : t[i] = <<first(i), BatchEnd(first(i), latest), newest(i)>>
    BY <1>3
  <2>. QED
    BY <1>3, <1>4, <1>5, <2>1
<1>10. t \in Seq(Nat \X Nat \X BOOLEAN) /\ t # <<>>
  <2>1. t \in [1..n -> Nat \X Nat \X BOOLEAN]
    BY <1>3, <1>9
  <2>. QED
    BY <1>6, <1>9, <2>1
<1>11. t[1][1] = from
  BY <1>6, <1>7, <1>9
<1>12. \A i \in DOMAIN t : /\ t[i][1] <= t[i][2] /\ t[i][2] <= latest
                           /\ i > 1 => t[i][1] = t[i - 1][2] + 1
  BY <1>5, <1>8, <1>9
<1>. QED
  BY <1>10, <1>11, <1>12 DEF t

LEMMA MinOfTwo ==
    ASSUME NEW a \in Nat, NEW b \in Nat
    PROVE  /\ Min({a, b}) \in {a, b} /\ Min({a, b}) <= a /\ Min({a, b}) <= b
           /\ Min({a, b}) \in Nat
<1>1. \E x \in {a, b} : \A y \in {a, b} : x <= y
  OBVIOUS
<1>2. Min({a, b}) \in {a, b} /\ \A y \in {a, b} : Min({a, b}) <= y
  BY <1>1 DEF Min
<1>. QED
  BY <1>2

\* A finite set of numbers has a greatest and a least one.
LEMMA MaxMinOf ==
    ASSUME NEW S, S \subseteq Nat, IsFiniteSet(S), S # {}
    PROVE  /\ Max(S) \in S /\ \A y \in S : y <= Max(S)
           /\ Min(S) \in S /\ \A y \in S : Min(S) <= y
<1>. DEFINE s == InOrder(S)
            n == Cardinality(S)
<1>1. /\ s \in Seq(S) /\ DOMAIN s = 1..n /\ Increasing(s)
      /\ \A x \in S : \E i \in 1..n : s[i] = x
  BY InOrderSpec
<1>2. n \in Nat /\ n # 0
  BY FS_CardinalityType, FS_EmptySet
<1>. HIDE DEF s, n
<1>3. \A i \in 1..n : s[i] \in S /\ s[i] \in Nat
  <2>1. s \in Seq(S)
    BY <1>1
  <2>2. \A i \in DOMAIN s : s[i] \in S
    BY <2>1
  <2>. QED
    BY <1>1, <2>2
<1>4. 1 \in 1..n /\ n \in 1..n
  BY <1>2
<1>5. \A i \in 1..n : s[i] <= s[n] /\ s[1] <= s[i]
  <2>1. \A i \in 1..n : (i = n \/ i < n) /\ (i = 1 \/ 1 < i)
    BY <1>2
  <2>. QED
    BY <1>1, <1>3, <1>4, <2>1 DEF Increasing
<1>6. /\ s[n] \in S /\ \A y \in S : s[n] >= y
      /\ s[1] \in S /\ \A y \in S : s[1] <= y
  BY <1>1, <1>3, <1>4, <1>5
<1>7. Max(S) \in S /\ \A y \in S : Max(S) >= y
  BY <1>6 DEF Max
<1>8. Min(S) \in S /\ \A y \in S : Min(S) <= y
  BY <1>6 DEF Min
<1>. QED
  BY <1>7, <1>8

----------------------------------------------------------------------------
(* Types and control. *)

\* The blocks and positions the invariant speaks of are numbers.
LEMMA ControlTypes ==
    ASSUME ControlInv
    PROVE  /\ head \in Nat /\ cursor \in Nat /\ StartBlock \in Nat /\ MaxBlock \in Nat
           /\ StartBlock <= head /\ head <= MaxBlock /\ cursor <= MaxBlock
           /\ mode # "websocket" => StartBlock <= cursor /\ cursor <= head
           /\ batch.through \in Nat /\ batch.logs \in Seq(Logs)
           /\ fetch_block \in Nat /\ fetch_block <= MaxBlock
           /\ state \in [Pools -> Seq(Logs) \cup {Absent}]
           /\ mem \in [Pools -> Seq(Logs) \cup {Absent}]
           /\ astray \subseteq Logs /\ Absent \notin Seq(Logs)
BY UpdaterAssumption DEF ControlInv, HandleTypeOK, TypeOK, HandleInv

LEMMA NewestBounds ==
    ASSUME ControlInv
    PROVE  Newest \in Nat /\ Newest <= MaxBlock
<1>1. head \in Nat /\ MaxBlock \in Nat /\ head + RpcLag \in Nat
  BY ControlTypes, UpdaterAssumption
<1>. QED
  BY <1>1, MinOfTwo DEF Newest

\* What bootstrap drains ends at a block of the chain.
LEMMA DrainedBlocks ==
    ASSUME ControlInv, NEW drained \in SUBSET {l \in listen.left : Block(l) <= Newest}
    PROVE  /\ drained \subseteq Logs /\ drained \subseteq Nat /\ IsFiniteSet(drained)
           /\ BootCursor(drained) \in Nat /\ BootCursor(drained) <= MaxBlock
           /\ FloorBlock(drained) \in Nat /\ FloorBlock(drained) <= BootCursor(drained)
           /\ drained # {} => /\ Min(drained) \in drained /\ Max(drained) \in drained
                              /\ \A l \in drained : Min(drained) <= l /\ l <= Max(drained)
           /\ \A l \in drained : FloorBlock(drained) <= Block(l) /\ Block(l) <= BootCursor(drained)
<1>1. head \in Nat /\ head <= MaxBlock /\ Newest \in Nat /\ Newest <= MaxBlock /\ MaxBlock \in Nat
  BY ControlTypes, NewestBounds
<1>2. drained \subseteq Logs /\ \A l \in drained : Block(l) <= Newest
  BY DEF ControlInv, HandleTypeOK, TypeOK
<1>3. drained \subseteq Nat /\ IsFiniteSet(drained) /\ \A l \in drained : Block(l) \in Nat
  BY <1>2, LogsAreFinite
<1>4. CASE drained = {}
  BY <1>1, <1>2, <1>3, <1>4 DEF BootCursor, FloorBlock
<1>5. CASE drained # {}
  <2>1. /\ Min(drained) \in drained /\ Max(drained) \in drained
        /\ \A l \in drained : Min(drained) <= l /\ l <= Max(drained)
    BY <1>3, <1>5, MaxMinOf
  <2>2. \A l \in drained : Block(Min(drained)) <= Block(l) /\ Block(l) <= Block(Max(drained))
    BY <1>2, <2>1, LogsAreFinite
  <2>3. BootCursor(drained) = Block(Max(drained)) /\ FloorBlock(drained) = Block(Min(drained))
    BY <1>5 DEF BootCursor, FloorBlock
  <2>4. Block(Max(drained)) \in Nat /\ Block(Max(drained)) <= MaxBlock /\ Block(Min(drained)) \in Nat
    <3>1. Block(Max(drained)) \in Nat /\ Block(Max(drained)) <= Newest /\ Block(Min(drained)) \in Nat
      BY <1>2, <1>3, <2>1
    <3>. QED
      BY <1>1, <3>1
  <2>5. Block(Min(drained)) <= Block(Max(drained))
    BY <2>1, <2>2
  <2>. QED
    BY <1>2, <1>3, <2>1, <2>2, <2>3, <2>4, <2>5
<1>. QED
  BY <1>4, <1>5

LEMMA ControlInit == Init => ControlInv
<1>1. SUFFICES ASSUME Init PROVE ControlInv
  OBVIOUS
<1>2. \A p \in Pools : Replay!ChainState(p, StartBlock) \in Seq(Logs)
  BY ChainStateType, UpdaterAssumption
<1>3. HandleTypeOK
  <2>1. state \in [Pools -> Seq(Logs) \cup {Absent}]
    BY <1>1, <1>2 DEF Init, UpdaterInit
  <2>2. /\ phase \in {Poll, FetchPending}
        /\ batches \in Seq(Nat \X Nat \X BOOLEAN) /\ batches = <<>>
        /\ outbox \in Seq(Logs) /\ swaps \in Seq(Logs \X {"confirmed", "pending"})
        /\ Len(swaps) <= SwapBuffer
    BY <1>1, UpdaterAssumption DEF Init, UpdaterInit
  <2>3. batch \in [logs : Seq(Logs), through : Nat,
                   mode : {"none", "ApplyOnly", "ConfirmedWithSwaps", "Pending"}]
    BY <1>1 DEF Init, UpdaterInit, NoBatch
  <2>4. /\ modified \in [Pools -> Seq(Logs) \cup {Absent}]
        /\ mem \in [Pools -> Seq(Logs) \cup {Absent}]
    BY <1>1 DEF Init, UpdaterInit, NoClones
  <2>5. /\ topics \subseteq {TypeOf(p) : p \in Pools} /\ srcTopics \subseteq topics
        /\ listen \in [addresses : SUBSET Pools, topics : SUBSET topics, left : SUBSET Logs]
        /\ astray \subseteq Logs
    BY <1>1, UpdaterAssumption DEF Init, UpdaterInit, Listening, Matching
  <2>6. /\ mode \in Modes /\ swapTx \in BOOLEAN /\ open \in BOOLEAN /\ cancel \in BOOLEAN
        /\ todo \subseteq Pools /\ upc \in {"boot", "next"}
    BY <1>1 DEF Init, UpdaterInit
  <2>7. head \in StartBlock..MaxBlock /\ cursor \in StartBlock..head /\ cursor \in 0..MaxBlock
    BY <1>1, UpdaterAssumption DEF Init, UpdaterInit
  <2>8. /\ hpc \in HandlePcs /\ adding \subseteq Pools /\ fetch_block \in Nat
        /\ adds \in 0..MaxAdds /\ removals \in 0..MaxRemovals
    BY <1>1, HandleAssumption DEF Init, HandlePcs
  <2>. QED
    BY <2>1, <2>2, <2>3, <2>4, <2>5, <2>6, <2>7, <2>8 DEF HandleTypeOK, TypeOK
<1>4. RangesInv
  BY <1>1 DEF Init, UpdaterInit, RangesInv, Poll
<1>5. BatchInv
  BY <1>1 DEF Init, UpdaterInit, BatchInv, Processing, PendingPcs
<1>6. HandleInv
  BY <1>1, UpdaterAssumption DEF Init, UpdaterInit, HandleInv
<1>. QED
  BY <1>3, <1>4, <1>5, <1>6 DEF ControlInv

\* A confirmed batch is taken in hand.
LEMMA YieldControl ==
    ASSUME ControlInv, upc = "next", UNCHANGED handleVars,
           NEW logs \in Seq(Logs), Increasing(logs),
           NEW bmode \in {"ApplyOnly", "ConfirmedWithSwaps"},
           NEW through \in Nat, cursor <= through, through <= MaxBlock,
           mode # "websocket" => cursor < through /\ through <= head,
           \A l \in ToSet(logs) : Block(l) <= through /\ (l \notin Strays' => cursor < Block(l)),
           Yield(logs, bmode, through),
           phase' \in {Poll, FetchPending}
                      \cup [name : {"ConfirmedBatches"}, current : Nat, latest : Nat],
           batches' \in Seq(Nat \X Nat \X BOOLEAN),
           listen' \in [addresses : SUBSET Pools, topics : SUBSET topics, left : SUBSET Logs],
           astray' \subseteq Logs,
           RangesInv'
    PROVE  ControlInv'
<1>1. /\ batch' = [logs |-> logs, mode |-> bmode, through |-> through]
      /\ upc' = "apply" /\ todo' = {PoolOf(l) : l \in ToSet(logs)}
      /\ UNCHANGED <<mode, swapTx, head, state, topics, cursor, cancel, srcTopics,
                     outbox, modified, swaps, open>>
  BY DEF Yield, config, registryVars, simVars
<1>2. UNCHANGED <<hpc, adding, fetch_block, mem, adds, removals>>
  BY DEF handleVars
<1>3. todo' \subseteq Pools
  <2>1. \A l \in ToSet(logs) : l \in Logs
    BY DEF ToSet
  <2>. QED
    BY <1>1, <2>1, UpdaterAssumption
<1>4. HandleTypeOK'
  <2>1. batch' \in [logs : Seq(Logs), through : Nat,
                    mode : {"none", "ApplyOnly", "ConfirmedWithSwaps", "Pending"}]
    BY <1>1
  <2>. QED
    BY <1>1, <1>2, <1>3, <2>1 DEF ControlInv, HandleTypeOK, TypeOK
<1>5. BatchInv'
  <2>1. batch'.logs = logs /\ batch'.mode = bmode /\ batch'.through = through
    BY <1>1
  <2>2. \A l \in ToSet(batch'.logs) :
            Block(l) <= batch'.through /\ (l \notin Strays' => cursor' < Block(l))
    BY <1>1, <2>1
  <2>. QED
    BY <1>1, <2>1, <2>2 DEF BatchInv, Processing, PendingPcs
<1>6. HandleInv'
  BY <1>1, <1>2 DEF ControlInv, HandleInv
<1>. QED
  BY <1>4, <1>5, <1>6 DEF ControlInv

\* A range is fetched.
LEMMA FetchedControl ==
    ASSUME ControlInv, upc = "next", UNCHANGED handleVars, mode # "websocket",
           NEW bmode \in {"ApplyOnly", "ConfirmedWithSwaps"},
           NEW from \in Nat, NEW to \in Nat, from = cursor + 1, from <= to, to <= head,
           YieldFetched(from, to, bmode),
           phase' \in {Poll, FetchPending}
                      \cup [name : {"ConfirmedBatches"}, current : Nat, latest : Nat],
           batches' \in Seq(Nat \X Nat \X BOOLEAN),
           RangesInv'
    PROVE  ControlInv'
<1>1. PICK S \in Answers(Registered, srcTopics, from, to) :
          /\ Yield(InOrder(S), bmode, to)
          /\ astray' = astray \cup (Matching(Registered, srcTopics, from, to) \ S)
          /\ UNCHANGED listen
  BY DEF YieldFetched
<1>2. S \subseteq Logs /\ \A l \in S : Block(l) \in from..to
  BY AnswersMatch
<1>3. InOrder(S) \in Seq(Logs) /\ Increasing(InOrder(S)) /\ ToSet(InOrder(S)) = S
  BY <1>2, LogsInOrder
<1>4. /\ cursor \in Nat /\ head \in Nat /\ head <= MaxBlock /\ MaxBlock \in Nat
      /\ astray \subseteq Logs
  BY ControlTypes
<1>5. astray' \subseteq Logs
  BY <1>1, <1>4 DEF Matching
<1>6. listen' \in [addresses : SUBSET Pools, topics : SUBSET topics, left : SUBSET Logs]
  BY <1>1 DEF ControlInv, HandleTypeOK, TypeOK
<1>7. \A l \in ToSet(InOrder(S)) : Block(l) <= to /\ cursor < Block(l)
  <2>1. \A n : n \in from..to => n <= to /\ cursor < n
    BY <1>4
  <2>. QED
    BY <1>2, <1>3, <2>1
<1>8. cursor < to /\ cursor <= to /\ to <= MaxBlock
  BY <1>4
<1>9. \A l \in ToSet(InOrder(S)) : Block(l) <= to /\ (l \notin Strays' => cursor < Block(l))
  BY <1>7
<1>. HIDE DEF Yield, RangesInv, ControlInv, Strays
<1>. QED
  BY <1>1, <1>3, <1>5, <1>6, <1>8, <1>9, YieldControl

\* next_batch of the three sources.
LEMMA SourceControl ==
    ASSUME ControlInv, NextBatch, UNCHANGED handleVars
    PROVE  ControlInv'
<1>. DEFINE PhaseType == {Poll, FetchPending}
                         \cup [name : {"ConfirmedBatches"}, current : Nat, latest : Nat]
<1>1. /\ head \in Nat /\ cursor \in Nat /\ MaxBlock \in Nat /\ head <= MaxBlock
      /\ phase \in PhaseType /\ batches \in Seq(Nat \X Nat \X BOOLEAN)
  BY ControlTypes DEF ControlInv, HandleTypeOK, TypeOK
<1>2. UNCHANGED <<hpc, adding, fetch_block, mem, adds, removals>>
  BY DEF handleVars
<1>3. CASE PendingPoll
  <2>1. /\ cursor + 1 <= head /\ phase' = Confirmed(cursor + 1, head)
        /\ upc = "next" /\ mode = "pending"
        /\ UNCHANGED <<mode, swapTx, head, state, topics, cursor, upc, cancel, srcTopics, listen,
                       batches, batch, todo, outbox, modified, swaps, open, astray>>
    BY <1>3 DEF PendingPoll, InNextBatch, config, registryVars, batchVars, simVars
  <2>2. /\ phase'.name = "ConfirmedBatches" /\ phase'.current = cursor + 1
        /\ phase'.latest = head /\ phase' \in PhaseType
    BY <1>1, <2>1 DEF Confirmed
  <2>3. HandleTypeOK'
    BY <1>2, <2>1, <2>2 DEF ControlInv, HandleTypeOK, TypeOK
  <2>4. RangesInv'
    BY <1>1, <2>1, <2>2 DEF ControlInv, RangesInv, NextFrom, Processing, PendingPcs
  <2>5. BatchInv' /\ HandleInv'
    BY <1>2, <2>1 DEF ControlInv, BatchInv, HandleInv, Strays
  <2>. QED
    BY <2>3, <2>4, <2>5 DEF ControlInv
<1>4. CASE PendingConfirmed
  <2>. DEFINE end == BatchEnd(phase.current, phase.latest)
  <2>1. /\ upc = "next" /\ mode = "pending" /\ phase.name = "ConfirmedBatches"
        /\ phase' = IF end + 1 > phase.latest THEN FetchPending
                                              ELSE Confirmed(end + 1, phase.latest)
        /\ YieldFetched(phase.current, end, "ApplyOnly")
        /\ UNCHANGED batches
    BY <1>4 DEF PendingConfirmed, InNextBatch
  <2>2. /\ phase.current \in Nat /\ phase.latest \in Nat /\ phase.current <= phase.latest
        /\ phase.latest <= head /\ phase.current = cursor + 1
    <3>1. phase \in [name : {"ConfirmedBatches"}, current : Nat, latest : Nat]
      BY <1>1, <2>1 DEF Poll, FetchPending
    <3>. QED
      BY <2>1, <3>1 DEF ControlInv, RangesInv, NextFrom, Processing
  <2>3. end \in Nat /\ phase.current <= end /\ end <= phase.latest
    BY <2>2, BatchEndBounds
  <2>. HIDE DEF end
  <2>4. phase' \in PhaseType /\ batches' \in Seq(Nat \X Nat \X BOOLEAN)
    BY <1>1, <2>1, <2>2, <2>3 DEF Confirmed, FetchPending
  <2>5. upc' = "apply" /\ batch'.through = end /\ UNCHANGED <<mode, head, cursor>>
    BY <2>1 DEF YieldFetched, Yield, config, registryVars
  <2>6. RangesInv'
    <3>1. phase'.name = "ConfirmedBatches" =>
              phase'.current = end + 1 /\ phase'.latest = phase.latest /\ end + 1 <= phase.latest
      BY <2>1, <2>2, <2>3 DEF Confirmed, FetchPending
    <3>2. batches = <<>>
      BY <2>1 DEF ControlInv, RangesInv
    <3>. QED
      BY <2>1, <2>2, <2>5, <3>1, <3>2 DEF RangesInv, NextFrom, Processing, PendingPcs
  <2>7. end <= head /\ mode # "websocket"
    BY <1>1, <2>1, <2>2, <2>3
  <2>. QED
    BY <2>1, <2>2, <2>3, <2>4, <2>6, <2>7, FetchedControl
<1>5. CASE PendingFetch
  <2>1. /\ upc = "next" /\ mode = "pending" /\ phase' = Poll /\ UNCHANGED batches
        /\ UNCHANGED <<mode, swapTx, head, state, topics, cursor, cancel, srcTopics, listen,
                       todo, modified, swaps, open, astray>>
        /\ \/ UNCHANGED <<upc, batch, outbox>>
           \/ /\ upc' = "pending" /\ batch'.through = 0 /\ batch'.mode = "Pending"
              /\ batch' = [logs |-> outbox', mode |-> "Pending", through |-> 0]
              /\ \E S \in SUBSET Matching(Registered, srcTopics, head + 1, head + 1) :
                     outbox' = InOrder(S)
    BY <1>5 DEF PendingFetch, InNextBatch, YieldPending, config, registryVars, batchVars, simVars
  <2>2. outbox' \in Seq(Logs)
    <3>1. CASE UNCHANGED outbox
      BY <3>1 DEF ControlInv, HandleTypeOK, TypeOK
    <3>2. CASE \E S \in SUBSET Matching(Registered, srcTopics, head + 1, head + 1) :
                   outbox' = InOrder(S)
      <4>1. PICK S \in SUBSET Matching(Registered, srcTopics, head + 1, head + 1) :
                outbox' = InOrder(S)
        BY <3>2
      <4>2. S \subseteq Logs
        BY DEF Matching
      <4>. QED
        BY <4>1, <4>2, LogsInOrder
    <3>. QED
      BY <2>1, <3>1, <3>2
  <2>3. HandleTypeOK'
    <3>1. batch' \in [logs : Seq(Logs), through : Nat,
                      mode : {"none", "ApplyOnly", "ConfirmedWithSwaps", "Pending"}]
      BY <2>1, <2>2 DEF ControlInv, HandleTypeOK, TypeOK
    <3>2. upc' \in {"next", "pending"}
      BY <2>1
    <3>. QED
      BY <1>2, <2>1, <2>2, <3>1, <3>2 DEF ControlInv, HandleTypeOK, TypeOK
  <2>4. RangesInv'
    BY <2>1 DEF ControlInv, RangesInv, Poll
  <2>5. BatchInv'
    BY <2>1 DEF ControlInv, BatchInv, Processing, PendingPcs
  <2>6. HandleInv'
    BY <1>2, <2>1 DEF ControlInv, HandleInv
  <2>. QED
    BY <2>3, <2>4, <2>5, <2>6 DEF ControlInv
<1>6. CASE LatestPoll
  <2>1. /\ cursor + 1 <= head /\ batches' = Tiles(cursor + 1, head)
        /\ upc = "next" /\ mode = "latest"
        /\ UNCHANGED <<mode, swapTx, head, state, topics, cursor, upc, cancel, srcTopics, listen,
                       phase, batch, todo, outbox, modified, swaps, open, astray>>
    BY <1>6 DEF LatestPoll, InNextBatch, config, registryVars, batchVars, simVars
  <2>2. cursor + 1 \in Nat
    BY <1>1
  <2>3. /\ batches' \in Seq(Nat \X Nat \X BOOLEAN) /\ batches' # <<>>
        /\ batches'[1][1] = cursor + 1
        /\ \A i \in DOMAIN batches' : /\ batches'[i][1] <= batches'[i][2]
                                      /\ batches'[i][2] <= head
                                      /\ i > 1 => batches'[i][1] = batches'[i - 1][2] + 1
    <3>. DEFINE T == Tiles(cursor + 1, head)
    <3>1. /\ T \in Seq(Nat \X Nat \X BOOLEAN) /\ T # <<>> /\ T[1][1] = cursor + 1
          /\ \A i \in DOMAIN T : /\ T[i][1] <= T[i][2] /\ T[i][2] <= head
                                 /\ i > 1 => T[i][1] = T[i - 1][2] + 1
      <4>. HIDE DEF T
      <4>. QED
        BY <1>1, <2>1, <2>2, TilesChain, ZenonT(40) DEF T
    <3>. HIDE DEF T
    <3>2. batches' = T
      BY <2>1 DEF T
    <3>. QED
      BY <3>1, <3>2
  <2>4. HandleTypeOK'
    BY <1>2, <2>1, <2>3 DEF ControlInv, HandleTypeOK, TypeOK
  <2>5. RangesInv'
    <3>1. phase.name # "ConfirmedBatches"
      BY <2>1 DEF ControlInv, RangesInv
    <3>. QED
      BY <2>1, <2>3, <3>1 DEF RangesInv, NextFrom, Processing
  <2>6. BatchInv' /\ HandleInv'
    BY <1>2, <2>1 DEF ControlInv, BatchInv, HandleInv, Strays
  <2>. QED
    BY <2>4, <2>5, <2>6 DEF ControlInv
<1>7. CASE LatestBatch
  <2>. DEFINE b == Head(batches)
              bmode == IF b[3] THEN "ConfirmedWithSwaps" ELSE "ApplyOnly"
  <2>1. /\ upc = "next" /\ mode = "latest" /\ batches # <<>> /\ batches' = Tail(batches)
        /\ YieldFetched(b[1], b[2], bmode)
        /\ UNCHANGED phase
    BY <1>7 DEF LatestBatch, InNextBatch
  <2>2. /\ b = batches[1] /\ b \in Nat \X Nat \X BOOLEAN /\ 1 \in DOMAIN batches
        /\ b[1] = cursor + 1 /\ b[1] <= b[2] /\ b[2] <= head
    <3>1. b = batches[1] /\ b \in Nat \X Nat \X BOOLEAN /\ 1 \in DOMAIN batches
      BY <1>1, <2>1
    <3>. QED
      BY <2>1, <3>1 DEF ControlInv, RangesInv, NextFrom, Processing
  <2>3. b[1] \in Nat /\ b[2] \in Nat
    BY <2>2
  <2>5. bmode \in {"ApplyOnly", "ConfirmedWithSwaps"}
    OBVIOUS
  <2>. HIDE DEF b, bmode
  <2>6. /\ batches' \in Seq(Nat \X Nat \X BOOLEAN) /\ phase' \in PhaseType
        /\ Len(batches') = Len(batches) - 1 /\ DOMAIN batches' = 1..Len(batches')
        /\ DOMAIN batches = 1..Len(batches) /\ Len(batches) \in Nat
        /\ \A i \in DOMAIN batches' : i + 1 \in DOMAIN batches /\ batches'[i] = batches[i + 1]
    BY <1>1, <2>1
  <2>7. /\ upc' = "apply" /\ batch'.through = b[2]
        /\ UNCHANGED <<mode, head, cursor>>
    BY <2>1 DEF YieldFetched, Yield, config, registryVars
  <2>8. RangesInv'
    <3>1. ASSUME NEW i \in DOMAIN batches'
          PROVE  /\ batches'[i][1] <= batches'[i][2] /\ batches'[i][2] <= head
                 /\ i > 1 => batches'[i][1] = batches'[i - 1][2] + 1
                 /\ i = 1 => batches'[i][1] = b[2] + 1
      <4>1. i + 1 \in DOMAIN batches /\ batches'[i] = batches[i + 1] /\ i + 1 > 1 /\ i \in Nat
        BY <2>6, SMTT(30)
      <4>2. /\ batches[i + 1][1] <= batches[i + 1][2] /\ batches[i + 1][2] <= head
            /\ batches[i + 1][1] = batches[i + 1 - 1][2] + 1
        BY <4>1 DEF ControlInv, RangesInv
      <4>3. batches[i + 1][1] = batches[i][2] + 1
        <5>1. i + 1 - 1 = i
          BY <4>1
        <5>. QED
          BY <4>2, <5>1
      <4>4. i > 1 => batches'[i - 1] = batches[i]
        <5>1. SUFFICES ASSUME i > 1 PROVE batches'[i - 1] = batches[i]
          OBVIOUS
        <5>2. \A n \in Nat : i \in 1..(n - 1) => i - 1 \in 1..(n - 1) /\ i - 1 + 1 = i
          BY <4>1, <5>1
        <5>3. i - 1 \in DOMAIN batches' /\ i - 1 + 1 = i
          BY <2>6, <5>2
        <5>. QED
          BY <2>6, <5>3
      <4>. QED
        BY <2>2, <4>1, <4>2, <4>3, <4>4
    <3>2. batches' # <<>> => 1 \in DOMAIN batches'
      BY <2>6
    <3>3. phase.name # "ConfirmedBatches"
      BY <2>1 DEF ControlInv, RangesInv
    <3>. QED
      BY <2>1, <2>7, <3>1, <3>2, <3>3 DEF RangesInv, NextFrom, Processing
  <2>. QED
    BY <2>1, <2>2, <2>3, <2>5, <2>6, <2>8, FetchedControl
<1>8. CASE WebsocketBatch
  <2>1. PICK b \in 0..Newest, filled \in BOOLEAN,
             S \in SUBSET listen.left :
          /\ \A l \in S : Block(l) = b
          /\ Yield(InOrder(S),
                   IF b < cursor \/ filled THEN "ApplyOnly" ELSE "ConfirmedWithSwaps",
                   Max({cursor, b}))
          /\ listen' = [listen EXCEPT !.left = @ \ S]
          /\ astray' = astray \cup
                 IF b <= cursor THEN S
                 ELSE Matching(listen.addresses, listen.topics, cursor + 1, b) \ S
    BY <1>8 DEF WebsocketBatch
  <2>2. upc = "next" /\ mode = "websocket" /\ UNCHANGED <<phase, batches>>
    BY <1>8 DEF WebsocketBatch, InNextBatch
  <2>. DEFINE bmode == IF b < cursor \/ filled THEN "ApplyOnly" ELSE "ConfirmedWithSwaps"
              through == Max({cursor, b})
  <2>3. Yield(InOrder(S), bmode, through) /\ bmode \in {"ApplyOnly", "ConfirmedWithSwaps"}
    BY <2>1
  <2>4. b \in Nat /\ b <= MaxBlock
    <3>1. Newest \in Nat /\ Newest <= MaxBlock
      BY NewestBounds
    <3>2. \A n \in Nat : n <= MaxBlock => \A m \in 0..n : m \in Nat /\ m <= MaxBlock
      BY <1>1
    <3>. QED
      BY <2>1, <3>1, <3>2
  <2>5. through \in Nat /\ cursor <= through /\ b <= through /\ through <= MaxBlock
    <3>1. through \in {cursor, b} /\ cursor <= through /\ b <= through
      BY <1>1, <2>4, MaxOfTwo
    <3>. HIDE DEF through
    <3>2. cursor <= MaxBlock
      BY <1>1, ControlTypes
    <3>. QED
      BY <1>1, <2>4, <3>1, <3>2
  <2>6. S \subseteq Logs /\ \A l \in S : Block(l) = b
    BY <2>1 DEF ControlInv, HandleTypeOK, TypeOK
  <2>7. InOrder(S) \in Seq(Logs) /\ Increasing(InOrder(S)) /\ ToSet(InOrder(S)) = S
    BY <2>6, LogsInOrder
  <2>8. Strays' = astray'
    BY <2>2, <2>3 DEF Strays, Yield, config
  <2>9. \A l \in S : l \notin astray' => cursor < b
    BY <1>1, <2>1, <2>4
  <2>10. \A l \in ToSet(InOrder(S)) :
             Block(l) <= through /\ (l \notin Strays' => cursor < Block(l))
    BY <2>5, <2>6, <2>7, <2>8, <2>9
  <2>11. astray' \subseteq Logs
    BY <2>1, <2>6, ControlTypes DEF Matching
  <2>12. listen' \in [addresses : SUBSET Pools, topics : SUBSET topics, left : SUBSET Logs]
    BY <2>1 DEF ControlInv, HandleTypeOK, TypeOK
  <2>13. phase' \in PhaseType /\ batches' \in Seq(Nat \X Nat \X BOOLEAN)
    BY <1>1, <2>2
  <2>14. RangesInv'
    <3>1. phase.name # "ConfirmedBatches" /\ batches = <<>>
      BY <2>2 DEF ControlInv, RangesInv
    <3>. QED
      BY <2>2, <3>1 DEF RangesInv
  <2>. HIDE DEF bmode, through
  <2>. QED
    BY <2>2, <2>3, <2>5, <2>7, <2>10, <2>11, <2>12, <2>13, <2>14, YieldControl
<1>. QED
  BY <1>3, <1>4, <1>5, <1>6, <1>7, <1>8 DEF NextBatch

\* Bootstrap of the websocket source.
LEMMA AppliedType ==
    ASSUME NEW s \in Seq(Logs), NEW p, NEW S, S \subseteq Logs
    PROVE  Applied(s, p, S) \in Seq(Logs) /\ Applied(s, p, S) # Absent
<1>1. {l \in S : PoolOf(l) = p} \subseteq Logs
  OBVIOUS
<1>2. InOrder({l \in S : PoolOf(l) = p}) \in Seq(Logs)
  BY <1>1, LogsInOrder
<1>. DEFINE t == InOrder({l \in S : PoolOf(l) = p})
<1>3. Applied(s, p, S) = s \o t
  BY DEF Applied
<1>. HIDE DEF t
<1>4. s \o t \in Seq(Logs)
  BY <1>2, ConcatToSet DEF t
<1>. QED
  BY <1>3, <1>4, UpdaterAssumption

\* A bootstrap that drains `drained`, `tail` last, and is answered with S.
Booted(drained, tail, S) ==
    LET asked == Matching(Registered, srcTopics, cursor + 1, FloorBlock(drained))
        before == BeforeFloor(drained)
    IN  /\ state' = [p \in Pools |->
               IF state[p] = Absent THEN Absent
               ELSE Applied(Applied(Applied(state[p], p, S \cap before),
                                    p, drained \ tail), p, tail)]
        /\ cursor' = BootCursor(drained)
        /\ listen' = [listen EXCEPT !.left = @ \ (drained \cup before)]
        /\ astray' = astray \cup ((asked \cap before) \ S) \cup BootStrays(drained, tail)

LEMMA BootControl ==
    ASSUME ControlInv, Bootstrap, UNCHANGED handleVars
    PROVE  ControlInv'
<1>1. PICK drained \in SUBSET {l \in listen.left : Block(l) <= Newest} :
          \E tail \in SUBSET drained :
          \E S \in Answers(Registered, srcTopics, cursor + 1, FloorBlock(drained)) :
              Booted(drained, tail, S)
  BY DEF Bootstrap, Booted
<1>2. PICK tail \in SUBSET drained :
          \E S \in Answers(Registered, srcTopics, cursor + 1, FloorBlock(drained)) :
              Booted(drained, tail, S)
  BY <1>1
<1>3. PICK S \in Answers(Registered, srcTopics, cursor + 1, FloorBlock(drained)) :
          Booted(drained, tail, S)
  BY <1>2
<1>4. LET asked == Matching(Registered, srcTopics, cursor + 1, FloorBlock(drained))
          before == BeforeFloor(drained)
      IN  /\ state' = [p \in Pools |->
                 IF state[p] = Absent THEN Absent
                 ELSE Applied(Applied(Applied(state[p], p, S \cap before),
                                      p, drained \ tail), p, tail)]
          /\ cursor' = BootCursor(drained)
          /\ listen' = [listen EXCEPT !.left = @ \ (drained \cup before)]
          /\ astray' = astray \cup ((asked \cap before) \ S) \cup BootStrays(drained, tail)
  BY <1>3 DEF Booted
<1>5. /\ upc = "boot" /\ upc' = "next"
      /\ UNCHANGED <<mode, swapTx, head, topics, cancel, srcTopics, phase, batches, batch, todo,
                     outbox, modified, swaps, open>>
      /\ UNCHANGED <<hpc, adding, fetch_block, mem, adds, removals>>
  BY DEF Bootstrap, config, batchVars, simVars, handleVars
<1>6. mode = "websocket"
  BY <1>5 DEF ControlInv, BatchInv
<1>7. /\ drained \subseteq Logs /\ S \subseteq Logs /\ tail \subseteq Logs
      /\ BootCursor(drained) \in Nat /\ BootCursor(drained) <= MaxBlock
  BY DrainedBlocks, AnswersMatch
<1>8. /\ state \in [Pools -> Seq(Logs) \cup {Absent}] /\ astray \subseteq Logs /\ MaxBlock \in Nat
  BY ControlTypes
<1>9. state' \in [Pools -> Seq(Logs) \cup {Absent}]
  <2>. DEFINE one(p) == Applied(state[p], p, S \cap BeforeFloor(drained))
              two(p) == Applied(one(p), p, drained \ tail)
              three(p) == Applied(two(p), p, tail)
  <2>1. ASSUME NEW p \in Pools, state[p] # Absent PROVE three(p) \in Seq(Logs)
    <3>1. state[p] \in Seq(Logs) /\ S \cap BeforeFloor(drained) \subseteq Logs /\ drained \ tail \subseteq Logs
      BY <1>7, <1>8, <2>1
    <3>2. one(p) \in Seq(Logs)
      BY <3>1, AppliedType
    <3>. HIDE DEF one
    <3>3. two(p) \in Seq(Logs)
      BY <3>1, <3>2, AppliedType
    <3>. HIDE DEF two
    <3>. QED
      BY <1>7, <3>3, AppliedType
  <2>2. state' = [p \in Pools |-> IF state[p] = Absent THEN Absent ELSE three(p)]
    BY <1>4
  <2>. HIDE DEF three
  <2>. QED
    BY <2>1, <2>2
<1>10. cursor' \in 0..MaxBlock
  BY <1>4, <1>7, <1>8
<1>11. astray' \subseteq Logs
  <2>1. BootStrays(drained, tail) \subseteq Logs
    BY <1>7 DEF BootStrays, Matching
  <2>. QED
    BY <1>4, <1>8, <2>1 DEF Matching
<1>12. listen' \in [addresses : SUBSET Pools, topics : SUBSET topics, left : SUBSET Logs]
  <2>1. listen' = [listen EXCEPT !.left = @ \ (drained \cup BeforeFloor(drained))]
    BY <1>4
  <2>. QED
    BY <2>1 DEF ControlInv, HandleTypeOK, TypeOK
<1>13. HandleTypeOK'
  BY <1>5, <1>6, <1>9, <1>10, <1>11, <1>12 DEF ControlInv, HandleTypeOK, TypeOK
<1>14. RangesInv'
  BY <1>5, <1>6 DEF ControlInv, RangesInv
<1>15. BatchInv'
  BY <1>5 DEF ControlInv, BatchInv, Processing, PendingPcs
<1>16. HandleInv'
  BY <1>5 DEF ControlInv, HandleInv
<1>. QED
  BY <1>13, <1>14, <1>15, <1>16 DEF ControlInv
\* The rest of the updater, the simulator and the chain.
LEMMA ProcessingControl ==
    ASSUME ControlInv, UNCHANGED handleVars,
           \/ \E p \in Pools : ApplyPool(p)
           \/ AllApplied \/ SendSwap \/ ApplyPending \/ SendPending \/ FinishBatch
           \/ UpdaterStops \/ BootstrapFails \/ Receive \/ DropReceiver \/ Mine
    PROVE  ControlInv'
<1>1. /\ head \in Nat /\ cursor \in Nat /\ head <= MaxBlock /\ cursor <= MaxBlock
      /\ StartBlock \in Nat /\ MaxBlock \in Nat
      /\ mode # "websocket" => StartBlock <= cursor /\ cursor <= head
      /\ batch.through \in Nat /\ batch.logs \in Seq(Logs)
  BY ControlTypes
<1>2. UNCHANGED <<hpc, adding, fetch_block, mem, adds, removals>>
  BY DEF handleVars
<1>3. /\ outbox \in Seq(Logs) /\ state \in [Pools -> Seq(Logs) \cup {Absent}]
      /\ modified \in [Pools -> Seq(Logs) \cup {Absent}]
      /\ swaps \in Seq(Logs \X {"confirmed", "pending"}) /\ Len(swaps) <= SwapBuffer
      /\ SwapBuffer \in Nat
  BY UpdaterAssumption DEF ControlInv, HandleTypeOK, TypeOK
<1>4. ASSUME NEW p \in Pools, ApplyPool(p) PROVE ControlInv'
  <2>. DEFINE logs == OfPool(batch.logs, p)
  <2>1. /\ upc = "apply" /\ todo' = todo \ {p}
        /\ UNCHANGED <<mode, swapTx, head, topics, cursor, upc, cancel, srcTopics, listen, phase,
                       batches, batch, modified, swaps, open, astray>>
        /\ \/ UNCHANGED <<state, outbox>>
           \/ /\ state[p] # Absent
              /\ state' = [state EXCEPT ![p] = @ \o logs]
              /\ outbox' = outbox \o SwapsIn(logs) \/ outbox' = outbox
    BY <1>4 DEF ApplyPool, config, sourceVars, simVars
  <2>2. logs \in Seq(Logs) /\ Increasing(logs)
    BY <1>1, <2>1, OfPoolInOrder DEF ControlInv, BatchInv, Processing
  <2>3. SwapsIn(logs) \in Seq(Logs)
    BY <2>2, SwapsInOrder
  <2>. HIDE DEF logs
  <2>4. outbox' \in Seq(Logs)
    <3>1. outbox \o SwapsIn(logs) \in Seq(Logs)
      BY <1>3, <2>3
    <3>2. outbox' \in {outbox, outbox \o SwapsIn(logs)}
      BY <2>1
    <3>. QED
      BY <1>3, <3>1, <3>2
  <2>5. state' \in [Pools -> Seq(Logs) \cup {Absent}]
    <3>1. state[p] # Absent => state[p] \o logs \in Seq(Logs)
      BY <1>3, <2>2
    <3>. QED
      BY <1>3, <2>1, <3>1
  <2>6. HandleTypeOK'
    BY <1>2, <2>1, <2>4, <2>5 DEF ControlInv, HandleTypeOK, TypeOK
  <2>7. RangesInv' /\ BatchInv' /\ HandleInv'
    BY <1>2, <2>1 DEF ControlInv, RangesInv, BatchInv, HandleInv, NextFrom, Processing, PendingPcs, Strays
  <2>. QED
    BY <2>6, <2>7 DEF ControlInv
<1>5. CASE AllApplied
  <2>1. /\ upc = "apply" /\ upc' = "send" /\ todo = {}
        /\ UNCHANGED <<mode, swapTx, head, state, topics, cursor, cancel, srcTopics, listen, phase,
                       batches, batch, todo, outbox, modified, swaps, open, astray>>
    BY <1>5 DEF AllApplied, config, registryVars, sourceVars, batchVars, simVars
  <2>2. HandleTypeOK'
    BY <1>2, <2>1 DEF ControlInv, HandleTypeOK, TypeOK
  <2>3. RangesInv' /\ BatchInv' /\ HandleInv'
    BY <1>2, <2>1 DEF ControlInv, RangesInv, BatchInv, HandleInv, NextFrom, Processing, PendingPcs, Strays
  <2>. QED
    BY <2>2, <2>3 DEF ControlInv
<1>6. ASSUME NEW l \in Logs, NEW kind \in {"confirmed", "pending"}, SendTo(l, kind)
      PROVE  swaps' \in Seq(Logs \X {"confirmed", "pending"}) /\ Len(swaps') <= SwapBuffer
  <2>1. <<l, kind>> \in Logs \X {"confirmed", "pending"}
    OBVIOUS
  <2>2. swaps' = swaps \/ (Len(swaps) < SwapBuffer /\ swaps' = Append(swaps, <<l, kind>>))
    BY <1>6 DEF SendTo
  <2>. DEFINE e == <<l, kind>>
              E == Logs \X {"confirmed", "pending"}
  <2>3. e \in E /\ swaps \in Seq(E)
    BY <1>3, <2>1
  <2>. HIDE DEF e, E
  <2>4. Append(swaps, e) \in Seq(E) /\ Len(Append(swaps, e)) = Len(swaps) + 1 /\ Len(swaps) \in Nat
    BY <2>3
  <2>5. swaps' = swaps \/ (Len(swaps) < SwapBuffer /\ swaps' = Append(swaps, e))
    BY <2>2 DEF e
  <2>6. swaps' \in Seq(E) /\ Len(swaps') <= SwapBuffer
    BY <1>3, <2>3, <2>4, <2>5, SMTT(30)
  <2>. QED
    BY <2>6 DEF E
<1>7. outbox # <<>> => Head(outbox) \in Logs /\ Tail(outbox) \in Seq(Logs)
  BY <1>3
<1>8. CASE SendSwap
  <2>1. /\ upc = "send" /\ outbox # <<>> /\ SendTo(Head(outbox), "confirmed")
        /\ outbox' = Tail(outbox)
        /\ UNCHANGED <<mode, swapTx, head, state, topics, cursor, upc, cancel, srcTopics, listen,
                       phase, batches, batch, todo, modified, open, astray>>
    BY <1>8 DEF SendSwap, config, registryVars, sourceVars
  <2>2. swaps' \in Seq(Logs \X {"confirmed", "pending"}) /\ Len(swaps') <= SwapBuffer
    BY <1>6, <1>7, <2>1
  <2>3. HandleTypeOK'
    BY <1>2, <1>7, <2>1, <2>2 DEF ControlInv, HandleTypeOK, TypeOK
  <2>4. RangesInv' /\ BatchInv' /\ HandleInv'
    BY <1>2, <2>1 DEF ControlInv, RangesInv, BatchInv, HandleInv, NextFrom, Processing, PendingPcs, Strays
  <2>. QED
    BY <2>3, <2>4 DEF ControlInv
<1>9. CASE ApplyPending
  <2>. DEFINE l == Head(outbox)
              p == PoolOf(l)
              base == IF modified[p] # Absent THEN modified[p] ELSE state[p]
  <2>1. /\ upc = "pending" /\ outbox # <<>>
        /\ UNCHANGED <<mode, swapTx, head, state, topics, cursor, cancel, srcTopics, listen,
                       phase, batches, batch, todo, swaps, open, astray>>
        /\ \/ modified' = modified
           \/ base # Absent /\ modified' = [modified EXCEPT ![p] = Append(base, l)]
        /\ \/ outbox' = Tail(outbox) /\ upc' = upc
           \/ outbox' = outbox /\ upc' = "pendsend"
    BY <1>9 DEF ApplyPending, config, registryVars, sourceVars, simVars
  <2>2. l \in Logs /\ p \in Pools
    BY <1>7, <2>1, UpdaterAssumption
  <2>3. base # Absent => base \in Seq(Logs) /\ Append(base, l) \in Seq(Logs)
    BY <1>3, <2>2
  <2>4. modified' \in [Pools -> Seq(Logs) \cup {Absent}]
    <3>. HIDE DEF base, p, l
    <3>. QED
      BY <1>3, <2>1, <2>2, <2>3
  <2>5. outbox' \in Seq(Logs) /\ upc' \in {"pending", "pendsend"}
    BY <1>3, <1>7, <2>1
  <2>. HIDE DEF base, p, l
  <2>6. HandleTypeOK'
    BY <1>2, <2>1, <2>4, <2>5 DEF ControlInv, HandleTypeOK, TypeOK
  <2>7. RangesInv' /\ BatchInv' /\ HandleInv'
    BY <1>2, <2>1, <2>5
       DEF ControlInv, RangesInv, BatchInv, HandleInv, NextFrom, Processing, PendingPcs, Strays
  <2>. QED
    BY <2>6, <2>7 DEF ControlInv
<1>10. CASE SendPending
  <2>1. /\ upc = "pendsend" /\ SendTo(Head(outbox), "pending") /\ upc' = "pending"
        /\ outbox' = Tail(outbox)
        /\ UNCHANGED <<mode, swapTx, head, state, topics, cursor, cancel, srcTopics, listen,
                       phase, batches, batch, todo, modified, open, astray>>
    BY <1>10 DEF SendPending, config, registryVars, sourceVars
  <2>2. outbox # <<>>
    BY <2>1 DEF ControlInv, BatchInv
  <2>3. swaps' \in Seq(Logs \X {"confirmed", "pending"}) /\ Len(swaps') <= SwapBuffer
    BY <1>6, <1>7, <2>1, <2>2
  <2>4. HandleTypeOK'
    BY <1>2, <1>7, <2>1, <2>2, <2>3 DEF ControlInv, HandleTypeOK, TypeOK
  <2>5. RangesInv' /\ BatchInv' /\ HandleInv'
    BY <1>2, <2>1 DEF ControlInv, RangesInv, BatchInv, HandleInv, NextFrom, Processing, PendingPcs, Strays
  <2>. QED
    BY <2>4, <2>5 DEF ControlInv
<1>11. CASE FinishBatch
  <2>1. /\ upc \in {"send", "pending"} /\ upc' = "next"
        /\ cursor' = IF batch.mode = "Pending" THEN cursor ELSE batch.through
        /\ batch' = NoBatch /\ outbox' = <<>> /\ modified' = NoClones
        /\ UNCHANGED <<mode, swapTx, head, state, topics, cancel, srcTopics, listen,
                       phase, batches, todo, swaps, open, astray>>
    BY <1>11 DEF FinishBatch, config, sourceVars, simVars
  <2>2. /\ upc = "send" => /\ cursor' = batch.through /\ cursor' <= MaxBlock
                           /\ mode # "websocket" => cursor < cursor' /\ cursor' <= head
        /\ upc = "pending" => cursor' = cursor
    BY <2>1 DEF ControlInv, BatchInv, Processing, PendingPcs
  <2>3. cursor' \in 0..MaxBlock /\ (mode # "websocket" => cursor' \in StartBlock..head)
    <3>. DEFINE c == cursor'
    <3>1. \/ c = cursor
          \/ c = batch.through /\ c <= MaxBlock /\ (mode # "websocket" => cursor < c /\ c <= head)
      BY <2>1, <2>2
    <3>. HIDE DEF c
    <3>2. c \in Nat /\ c <= MaxBlock /\ (mode # "websocket" => StartBlock <= c /\ c <= head)
      <4>1. CASE c = cursor
        BY <1>1, <4>1
      <4>2. CASE c = batch.through /\ c <= MaxBlock /\ (mode # "websocket" => cursor < c /\ c <= head)
        <5>1. c \in Nat /\ c <= MaxBlock
          BY <1>1, <4>2
        <5>2. mode # "websocket" => StartBlock <= c
          BY <1>1, <4>2, <5>1
        <5>. QED
          BY <4>2, <5>1, <5>2
      <4>. QED
        BY <3>1, <4>1, <4>2
    <3>. QED
      BY <1>1, <3>2 DEF c
  <2>4. HandleTypeOK'
    <3>1. batch' \in [logs : Seq(Logs), through : Nat,
                      mode : {"none", "ApplyOnly", "ConfirmedWithSwaps", "Pending"}]
      BY <2>1 DEF NoBatch
    <3>2. modified' \in [Pools -> Seq(Logs) \cup {Absent}]
      BY <2>1 DEF NoClones
    <3>. QED
      BY <1>2, <2>1, <2>3, <3>1, <3>2, SMTT(30) DEF ControlInv, HandleTypeOK, TypeOK
  <2>5. RangesInv'
    BY <2>1, <2>2 DEF ControlInv, RangesInv, BatchInv, NextFrom, Processing, PendingPcs, Strays
  <2>6. BatchInv' /\ HandleInv'
    BY <1>2, <2>1 DEF ControlInv, BatchInv, HandleInv, Processing, PendingPcs, Strays
  <2>. QED
    BY <2>4, <2>5, <2>6 DEF ControlInv
<1>12. CASE UpdaterStops \/ BootstrapFails
  <2>1. /\ upc \in {"next", "boot"} /\ upc' = "stopped"
        /\ UNCHANGED <<mode, swapTx, head, state, topics, cursor, cancel, srcTopics, listen, phase,
                       batches, batch, todo, outbox, modified, swaps, open, astray>>
    BY <1>12 DEF UpdaterStops, BootstrapFails, config, registryVars, sourceVars, batchVars, simVars
  <2>2. HandleTypeOK'
    BY <1>2, <2>1 DEF ControlInv, HandleTypeOK, TypeOK
  <2>3. RangesInv' /\ BatchInv' /\ HandleInv'
    BY <1>2, <2>1 DEF ControlInv, RangesInv, BatchInv, HandleInv, NextFrom, Processing, PendingPcs, Strays
  <2>. QED
    BY <2>2, <2>3 DEF ControlInv
<1>13. CASE Receive \/ DropReceiver
  <2>1. /\ UNCHANGED <<mode, swapTx, head, state, topics, cursor, upc, cancel, srcTopics, listen,
                       phase, batches, batch, todo, outbox, modified, astray>>
        /\ (swaps # <<>> /\ swaps' = Tail(swaps) /\ UNCHANGED open) \/ (swaps' = <<>> /\ open' = FALSE)
    BY <1>13 DEF Receive, DropReceiver, config, registryVars, sourceVars, batchVars
  <2>2. swaps' \in Seq(Logs \X {"confirmed", "pending"}) /\ Len(swaps') <= SwapBuffer
    <3>. DEFINE E == Logs \X {"confirmed", "pending"}
    <3>1. swaps \in Seq(E)
      BY <1>3
    <3>. HIDE DEF E
    <3>2. swaps # <<>> => /\ Tail(swaps) \in Seq(E) /\ Len(Tail(swaps)) = Len(swaps) - 1
                          /\ Len(swaps) \in Nat
      BY <3>1
    <3>3. <<>> \in Seq(E) /\ Len(<<>>) = 0
      OBVIOUS
    <3>4. swaps' \in Seq(E) /\ Len(swaps') <= SwapBuffer
      <4>1. CASE swaps # <<>> /\ swaps' = Tail(swaps)
        BY <1>3, <3>2, <4>1
      <4>2. CASE swaps' = <<>>
        BY <1>3, <3>3, <4>2
      <4>. QED
        BY <2>1, <4>1, <4>2
    <3>. QED
      BY <3>4 DEF E
  <2>3. HandleTypeOK'
    BY <1>2, <2>1, <2>2, ZenonT(40) DEF ControlInv, HandleTypeOK, TypeOK
  <2>4. RangesInv' /\ BatchInv' /\ HandleInv'
    BY <1>2, <2>1 DEF ControlInv, RangesInv, BatchInv, HandleInv, NextFrom, Processing, PendingPcs, Strays
  <2>. QED
    BY <2>3, <2>4 DEF ControlInv
<1>14. CASE Mine
  <2>1. /\ head < MaxBlock /\ head' = head + 1
        /\ UNCHANGED <<mode, swapTx, state, topics, cursor, upc, cancel, srcTopics, listen, phase,
                       batches, batch, todo, outbox, modified, swaps, open, astray>>
    BY <1>14 DEF Mine, config, registryVars, sourceVars, batchVars, simVars
  <2>2. /\ head' \in StartBlock..MaxBlock /\ head <= head' /\ head' \in Nat
        /\ mode # "websocket" => cursor' \in StartBlock..head'
    BY <1>1, <2>1, UpdaterAssumption DEF ControlInv, HandleTypeOK, TypeOK
  <2>3. \A x \in Nat : x <= head => x <= head'
    BY <1>1, <2>2
  <2>4. HandleTypeOK'
    BY <1>2, <2>1, <2>2 DEF ControlInv, HandleTypeOK, TypeOK
  <2>5. RangesInv'
    <3>1. \A i \in DOMAIN batches : batches[i][2] \in Nat
      BY DEF ControlInv, HandleTypeOK, TypeOK
    <3>2. phase.name = "ConfirmedBatches" => phase.latest \in Nat
      BY DEF ControlInv, HandleTypeOK, TypeOK, Poll, FetchPending
    <3>. QED
      BY <2>1, <2>3, <3>1, <3>2 DEF ControlInv, RangesInv, NextFrom, Processing, PendingPcs, Strays
  <2>6. BatchInv'
    BY <1>1, <2>1, <2>3 DEF ControlInv, BatchInv, Processing, PendingPcs, Strays
  <2>7. HandleInv'
    BY <1>2, <2>1, <2>3 DEF ControlInv, HandleInv, HandleTypeOK
  <2>. QED
    BY <2>4, <2>5, <2>6, <2>7 DEF ControlInv
<1>. QED
  BY <1>4, <1>5, <1>8, <1>9, <1>10, <1>11, <1>12, <1>13, <1>14

\* Catching up appends logs to what is there.
LEMMA CatchUpType ==
    ASSUME NEW f \in [Pools -> Seq(Logs) \cup {Absent}], NEW S, S \subseteq Logs
    PROVE  /\ \A p \in Pools : f[p] # Absent =>
                  Applied(f[p], p, S) \in Seq(Logs) /\ Applied(f[p], p, S) # Absent
           /\ [p \in Pools |-> IF f[p] = Absent THEN Absent ELSE Applied(f[p], p, S)]
                  \in [Pools -> Seq(Logs) \cup {Absent}]
<1>1. ASSUME NEW p \in Pools, f[p] # Absent
      PROVE  Applied(f[p], p, S) \in Seq(Logs) /\ Applied(f[p], p, S) # Absent
  <2>1. f[p] \in Seq(Logs)
    BY <1>1
  <2>. QED
    BY <2>1, AppliedType
<1>. QED
  BY <1>1

\* What the registry, or the pools in memory, catch up with.
LEMMA CatchUpKeepsTypes ==
    ASSUME ControlInv, NEW from, NEW to
    PROVE  /\ CatchUpRegistry(from, to) =>
                  /\ state' \in [Pools -> Seq(Logs) \cup {Absent}]
                  /\ astray' \subseteq Logs /\ astray \subseteq astray'
           /\ CatchUpMemory(from, to) =>
                  /\ mem' \in [Pools -> Seq(Logs) \cup {Absent}]
                  /\ \A p \in Pools : mem[p] # Absent => mem'[p] # Absent
                  /\ astray' \subseteq Logs /\ astray \subseteq astray'
<1>1. /\ state \in [Pools -> Seq(Logs) \cup {Absent}] /\ mem \in [Pools -> Seq(Logs) \cup {Absent}]
      /\ astray \subseteq Logs
  BY ControlTypes
<1>2. \A addresses, a, b : Matching(addresses, topics, a, b) \subseteq Logs
  BY DEF Matching
<1>3. ASSUME CatchUpRegistry(from, to)
      PROVE  /\ state' \in [Pools -> Seq(Logs) \cup {Absent}]
             /\ astray' \subseteq Logs /\ astray \subseteq astray'
  <2>1. PICK S \in Answers(Registered, topics, from, to) :
            /\ state' = [p \in Pools |-> IF state[p] = Absent THEN Absent
                                         ELSE Applied(state[p], p, S)]
            /\ astray' = astray \cup (Matching(Registered, topics, from, to) \ S)
    BY <1>3 DEF CatchUpRegistry
  <2>2. S \subseteq Logs
    BY AnswersMatch
  <2>. QED
    BY <1>1, <1>2, <2>1, <2>2, CatchUpType
<1>4. ASSUME CatchUpMemory(from, to)
      PROVE  /\ mem' \in [Pools -> Seq(Logs) \cup {Absent}]
             /\ \A p \in Pools : mem[p] # Absent => mem'[p] # Absent
             /\ astray' \subseteq Logs /\ astray \subseteq astray'
  <2>1. PICK S \in Answers(adding, topics, from, to) :
            /\ mem' = [p \in Pools |-> IF mem[p] = Absent THEN Absent ELSE Applied(mem[p], p, S)]
            /\ astray' = astray \cup (Matching(adding, topics, from, to) \ S)
    BY <1>4 DEF CatchUpMemory
  <2>2. S \subseteq Logs
    BY AnswersMatch
  <2>3. /\ mem' \in [Pools -> Seq(Logs) \cup {Absent}]
        /\ \A p \in Pools : mem[p] # Absent => mem'[p] # Absent
    BY <1>1, <2>1, <2>2, CatchUpType
  <2>. QED
    BY <1>1, <1>2, <2>1, <2>3
<1>. QED
  BY <1>3, <1>4

\* A new updater starts where the stopped one, or the fetch, got to.
LEMMA SpawnControl ==
    ASSUME ControlInv, upc = "stopped",
           NEW start \in Nat, start <= MaxBlock, mode # "websocket" => start <= head,
           NEW types, Spawn(start, types),
           types \subseteq topics', topics' \subseteq {TypeOf(p) : p \in Pools},
           topics \subseteq topics',
           state' \in [Pools -> Seq(Logs) \cup {Absent}],
           mem' \in [Pools -> Seq(Logs) \cup {Absent}],
           hpc' = "idle", adding' = {}, fetch_block' = 0,
           UNCHANGED <<config, head, listen, batchVars, simVars, astray, adds, removals>>
    PROVE  ControlInv'
<1>1. /\ cursor' = Max({cursor, start}) /\ srcTopics' = types /\ cancel' = FALSE
      /\ upc' = IF mode = "websocket" THEN "boot" ELSE "next"
      /\ phase' = Poll /\ batches' = <<>>
      /\ UNCHANGED <<mode, swapTx, head, listen, batch, todo, outbox, modified, swaps, open,
                     astray, adds, removals>>
  BY DEF Spawn, config, batchVars, simVars
<1>2. /\ head \in Nat /\ cursor \in Nat /\ MaxBlock \in Nat /\ StartBlock \in Nat
      /\ cursor <= MaxBlock
      /\ mode # "websocket" => StartBlock <= cursor /\ cursor <= head
  BY ControlTypes
<1>3. cursor' \in 0..MaxBlock /\ (mode' # "websocket" => cursor' \in StartBlock..head')
  <2>1. cursor' \in {cursor, start} /\ cursor <= cursor'
    BY <1>1, <1>2, MaxOfTwo
  <2>2. cursor' \in Nat /\ cursor' <= MaxBlock
    BY <1>2, <2>1
  <2>3. mode # "websocket" => StartBlock <= cursor' /\ cursor' <= head
    BY <1>2, <2>1, <2>2
  <2>4. UNCHANGED <<mode, head>>
    BY <1>1
  <2>. QED
    BY <1>2, <2>2, <2>3, <2>4
<1>4. listen' \in [addresses : SUBSET Pools, topics : SUBSET topics', left : SUBSET Logs]
  <2>1. listen \in [addresses : SUBSET Pools, topics : SUBSET topics, left : SUBSET Logs]
    BY DEF ControlInv, HandleTypeOK, TypeOK
  <2>. QED
    BY <1>1, <2>1
<1>5. HandleTypeOK'
  <2>1. batches' \in Seq(Nat \X Nat \X BOOLEAN)
    BY <1>1
  <2>2. hpc' \in HandlePcs
    BY DEF HandlePcs
  <2>. QED
    BY <1>1, <1>3, <1>4, <2>1, <2>2 DEF ControlInv, HandleTypeOK, TypeOK
<1>6. RangesInv' /\ BatchInv' /\ HandleInv'
  BY <1>1, <1>2 DEF ControlInv, RangesInv, BatchInv, HandleInv, Poll, Processing, PendingPcs, Strays
<1>. QED
  BY <1>5, <1>6 DEF ControlInv

\* stop, add_pools, remove_pools.
LEMMA HandleControl ==
    ASSUME ControlInv, HandleStep \/ Stop \/ DropHandle \/ AddPools \/ RemovePool
    PROVE  ControlInv'
<1>1. /\ head \in Nat /\ cursor \in Nat /\ MaxBlock \in Nat /\ StartBlock \in Nat
      /\ head <= MaxBlock /\ cursor <= MaxBlock
      /\ mode # "websocket" => StartBlock <= cursor /\ cursor <= head
      /\ fetch_block \in Nat /\ fetch_block <= MaxBlock
      /\ state \in [Pools -> Seq(Logs) \cup {Absent}]
      /\ mem \in [Pools -> Seq(Logs) \cup {Absent}]
      /\ adding \subseteq Pools
  BY ControlTypes DEF ControlInv, HandleTypeOK, TypeOK, HandleInv
<1>2. ASSUME NEW next, SendCancel(next)
      PROVE  /\ cancel' = TRUE /\ hpc' = next
             /\ UNCHANGED <<mode, swapTx, head, state, topics, cursor, upc, srcTopics, listen,
                            phase, batches, batch, todo, outbox, modified, swaps, open, astray>>
  BY <1>2 DEF SendCancel, config, registryVars, sourceVars, batchVars, simVars
<1>3. ASSUME UNCHANGED updaterVars
      PROVE  UNCHANGED <<mode, swapTx, head, state, topics, cursor, upc, cancel, srcTopics, listen,
                         phase, batches, batch, todo, outbox, modified, swaps, open, astray>>
  BY <1>3 DEF updaterVars, config, registryVars, sourceVars, batchVars, simVars
<1>4. CASE Stop \/ DropHandle
  <2>1. PICK next \in {"stopping", "dropped"} : SendCancel(next)
    BY <1>4 DEF Stop, DropHandle
  <2>2. UNCHANGED <<adding, fetch_block, mem, adds, removals>>
    BY <1>4 DEF Stop, DropHandle
  <2>3. HandleTypeOK'
    BY <1>2, <2>1, <2>2 DEF ControlInv, HandleTypeOK, TypeOK, HandlePcs
  <2>4. RangesInv' /\ BatchInv' /\ HandleInv'
    BY <1>2, <2>1, <2>2 DEF ControlInv, RangesInv, BatchInv, HandleInv, NextFrom, Processing, PendingPcs, Strays
  <2>. QED
    BY <2>3, <2>4 DEF ControlInv
<1>5. CASE StopReturns
  <2>1. hpc' = "idle" /\ UNCHANGED updaterVars /\ UNCHANGED <<adding, fetch_block, mem, adds, removals>>
    BY <1>5 DEF StopReturns
  <2>2. HandleTypeOK'
    BY <1>3, <2>1 DEF ControlInv, HandleTypeOK, TypeOK, HandlePcs
  <2>3. RangesInv' /\ BatchInv' /\ HandleInv'
    BY <1>3, <2>1 DEF ControlInv, RangesInv, BatchInv, HandleInv, NextFrom, Processing, PendingPcs, Strays
  <2>. QED
    BY <2>2, <2>3 DEF ControlInv
<1>6. CASE AddPools
  <2>1. /\ hpc = "idle" /\ adds < MaxAdds /\ adds' = adds + 1 /\ adding' \subseteq Pools
        /\ UNCHANGED <<mem, removals>>
    BY <1>6 DEF AddPools
  <2>2. PICK block_number \in StartBlock..Newest :
            IF mode = "websocket"
            THEN fetch_block' = block_number /\ SendCancel("wsjoin")
            ELSE /\ fetch_block' = Max({block_number, cursor}) /\ hpc' = "fetch"
                 /\ UNCHANGED updaterVars
    BY <1>6 DEF AddPools
  <2>3. block_number \in Nat /\ block_number <= MaxBlock
    <3>1. Newest \in Nat /\ Newest <= MaxBlock
      BY NewestBounds
    <3>2. \A n \in Nat : n <= MaxBlock => \A m \in StartBlock..n : m \in Nat /\ m <= MaxBlock
      BY <1>1
    <3>. QED
      BY <2>2, <3>1, <3>2
  <2>4. /\ fetch_block' \in Nat /\ fetch_block' <= MaxBlock
        /\ hpc' = IF mode = "websocket" THEN "wsjoin" ELSE "fetch"
        /\ UNCHANGED <<mode, swapTx, head, state, topics, cursor, upc, srcTopics, listen,
                       phase, batches, batch, todo, outbox, modified, swaps, open, astray>>
        /\ cancel' \in BOOLEAN
    <3>1. CASE mode = "websocket"
      <4>1. fetch_block' = block_number /\ SendCancel("wsjoin")
        BY <2>2, <3>1
      <4>2. /\ cancel' = TRUE /\ hpc' = "wsjoin"
            /\ UNCHANGED <<mode, swapTx, head, state, topics, cursor, upc, srcTopics, listen,
                           phase, batches, batch, todo, outbox, modified, swaps, open, astray>>
        BY <1>2, <4>1
      <4>. QED
        BY <2>3, <3>1, <4>1, <4>2
    <3>2. CASE mode # "websocket"
      <4>1. /\ fetch_block' = Max({block_number, cursor}) /\ hpc' = "fetch"
            /\ UNCHANGED updaterVars
        BY <2>2, <3>2
      <4>2. fetch_block' \in Nat /\ fetch_block' <= MaxBlock
        <5>1. Max({block_number, cursor}) \in {block_number, cursor}
          BY <1>1, <2>3, MaxOfTwo
        <5>. QED
          BY <1>1, <2>3, <4>1, <5>1
      <4>3. cancel \in BOOLEAN
        BY DEF ControlInv, HandleTypeOK, TypeOK
      <4>. QED
        BY <1>3, <3>2, <4>1, <4>2, <4>3
    <3>. QED
      BY <3>1, <3>2
  <2>5. HandleTypeOK'
    <3>1. adds' \in 0..MaxAdds
      BY <2>1, HandleAssumption DEF ControlInv, HandleTypeOK
    <3>. QED
      BY <2>1, <2>4, <3>1, SMTT(30) DEF ControlInv, HandleTypeOK, TypeOK, HandlePcs
  <2>6. RangesInv' /\ BatchInv' /\ HandleInv'
    BY <2>1, <2>4 DEF ControlInv, RangesInv, BatchInv, HandleInv, NextFrom, Processing, PendingPcs, Strays
  <2>. QED
    BY <2>5, <2>6 DEF ControlInv
<1>7. CASE HttpFetched
  <2>1. /\ hpc = "fetch" /\ SendCancel("join") /\ UNCHANGED <<adding, fetch_block, adds, removals>>
        /\ fetch_block <= head
        /\ mem' = [p \in Pools |-> IF p \in adding THEN Replay!ChainState(p, fetch_block)
                                                   ELSE Absent]
    BY <1>7 DEF HttpFetched, FetchInMemory
  <2>2. \A p : /\ Replay!ChainState(p, fetch_block) \in Seq(Logs)
               /\ Replay!ChainState(p, fetch_block) # Absent
    BY <1>1, ChainStateType
  <2>3. /\ mem' \in [Pools -> Seq(Logs) \cup {Absent}]
        /\ \A p \in adding : mem'[p] # Absent
    BY <1>1, <2>1, <2>2
  <2>4. HandleTypeOK'
    BY <1>2, <2>1, <2>3 DEF ControlInv, HandleTypeOK, TypeOK, HandlePcs
  <2>5. RangesInv' /\ BatchInv'
    BY <1>2, <2>1 DEF ControlInv, RangesInv, BatchInv, NextFrom, Processing, PendingPcs, Strays
  <2>6. HandleInv'
    <3>1. hpc' = "join" /\ UNCHANGED <<mode, head, upc, cursor, adding, fetch_block>>
      BY <1>2, <2>1
    <3>2. mode # "websocket" /\ fetch_block <= head
      BY <2>1 DEF ControlInv, HandleInv
    <3>. QED
      BY <1>1, <2>3, <3>1, <3>2 DEF HandleInv
  <2>. QED
    BY <2>4, <2>5, <2>6 DEF ControlInv
<1>8. CASE HttpFetchFails
  <2>1. /\ hpc' = "idle" /\ adding' = {} /\ fetch_block' = 0
        /\ UNCHANGED updaterVars /\ UNCHANGED <<mem, adds, removals>>
    BY <1>8 DEF HttpFetchFails
  <2>2. HandleTypeOK'
    BY <1>3, <2>1 DEF ControlInv, HandleTypeOK, TypeOK, HandlePcs
  <2>3. RangesInv' /\ BatchInv' /\ HandleInv'
    BY <1>1, <1>3, <2>1
       DEF ControlInv, RangesInv, BatchInv, HandleInv, NextFrom, Processing, PendingPcs, Strays
  <2>. QED
    BY <2>2, <2>3 DEF ControlInv
<1>9. CASE HttpJoined
  <2>1. /\ hpc = "join" /\ upc = "stopped" /\ hpc' = "catchup"
        /\ UNCHANGED updaterVars /\ UNCHANGED <<adding, fetch_block, mem, adds, removals>>
    BY <1>9 DEF HttpJoined
  <2>2. HandleTypeOK'
    BY <1>3, <2>1 DEF ControlInv, HandleTypeOK, TypeOK, HandlePcs
  <2>3. RangesInv' /\ BatchInv' /\ HandleInv'
    BY <1>3, <2>1 DEF ControlInv, RangesInv, BatchInv, HandleInv, NextFrom, Processing, PendingPcs, Strays
  <2>. QED
    BY <2>2, <2>3 DEF ControlInv
<1>10. CASE HttpCatchUp
  <2>1. /\ hpc = "catchup" /\ hpc' = "register"
        /\ UNCHANGED <<mode, swapTx, head, topics, cursor, upc, cancel, srcTopics, listen,
                       phase, batches, batch, todo, outbox, modified, swaps, open,
                       adding, fetch_block, adds, removals>>
        /\ \/ CatchUpRegistry(cursor + 1, fetch_block) /\ UNCHANGED mem
           \/ CatchUpMemory(fetch_block + 1, cursor) /\ UNCHANGED state
    BY <1>10 DEF HttpCatchUp, config, sourceVars, batchVars, simVars
  <2>2. /\ state' \in [Pools -> Seq(Logs) \cup {Absent}]
        /\ mem' \in [Pools -> Seq(Logs) \cup {Absent}]
        /\ \A p \in Pools : mem[p] # Absent => mem'[p] # Absent
        /\ astray' \subseteq Logs
    <3>1. CASE CatchUpRegistry(cursor + 1, fetch_block) /\ UNCHANGED mem
      BY <1>1, <3>1, CatchUpKeepsTypes
    <3>2. CASE CatchUpMemory(fetch_block + 1, cursor) /\ UNCHANGED state
      BY <1>1, <3>2, CatchUpKeepsTypes
    <3>. QED
      BY <2>1, <3>1, <3>2
  <2>3. HandleTypeOK'
    BY <2>1, <2>2, SMTT(30) DEF ControlInv, HandleTypeOK, TypeOK, HandlePcs
  <2>4. RangesInv' /\ BatchInv' /\ HandleInv'
    BY <1>1, <2>1, <2>2
       DEF ControlInv, RangesInv, BatchInv, HandleInv, NextFrom, Processing, PendingPcs, Strays
  <2>. QED
    BY <2>3, <2>4 DEF ControlInv
<1>11. CASE HttpRegister
  <2>1. /\ hpc = "register" /\ hpc' = "idle" /\ adding' = {} /\ fetch_block' = 0
        /\ mem' = NoClones
        /\ state' = [p \in Pools |-> IF p \in adding THEN mem[p] ELSE state[p]]
        /\ topics' = topics \cup {TypeOf(p) : p \in adding}
        /\ Spawn(Max({fetch_block, cursor}), topics')
        /\ UNCHANGED <<config, head, listen, batchVars, simVars, astray, adds, removals>>
    BY <1>11 DEF HttpRegister, Register
  <2>2. upc = "stopped" /\ fetch_block <= head /\ mode # "websocket"
    BY <2>1 DEF ControlInv, HandleInv
  <2>3. /\ state' \in [Pools -> Seq(Logs) \cup {Absent}]
        /\ mem' \in [Pools -> Seq(Logs) \cup {Absent}]
    BY <1>1, <2>1 DEF NoClones
  <2>4. topics \subseteq topics' /\ topics' \subseteq {TypeOf(p) : p \in Pools}
    BY <1>1, <2>1 DEF ControlInv, HandleTypeOK, TypeOK
  <2>5. Max({fetch_block, cursor}) \in Nat /\ Max({fetch_block, cursor}) <= head
    <3>1. Max({fetch_block, cursor}) \in {fetch_block, cursor}
      BY <1>1, MaxOfTwo
    <3>. QED
      BY <1>1, <2>2, <3>1
  <2>6. Max({fetch_block, cursor}) <= MaxBlock
    <3>. DEFINE m == Max({fetch_block, cursor})
    <3>. HIDE DEF m
    <3>1. m \in Nat /\ m <= head
      BY <2>5 DEF m
    <3>2. m <= MaxBlock
      BY <1>1, <3>1
    <3>. QED
      BY <3>2 DEF m
  <2>. QED
    BY <2>1, <2>2, <2>3, <2>4, <2>5, <2>6, SpawnControl
<1>12. CASE WsJoined
  <2>1. /\ hpc = "wsjoin" /\ upc = "stopped" /\ hpc' = "wscatchup"
        /\ fetch_block' = Max({fetch_block, cursor})
        /\ UNCHANGED updaterVars /\ UNCHANGED <<adding, mem, adds, removals>>
    BY <1>12 DEF WsJoined
  <2>2. fetch_block' \in Nat /\ fetch_block' <= MaxBlock /\ cursor <= fetch_block'
    <3>1. Max({fetch_block, cursor}) \in {fetch_block, cursor} /\ cursor <= Max({fetch_block, cursor})
      BY <1>1, MaxOfTwo
    <3>. QED
      BY <1>1, <2>1, <3>1
  <2>3. HandleTypeOK'
    BY <1>3, <2>1, <2>2, SMTT(30) DEF ControlInv, HandleTypeOK, TypeOK, HandlePcs
  <2>4. RangesInv' /\ BatchInv' /\ HandleInv'
    BY <1>3, <2>1, <2>2 DEF ControlInv, RangesInv, BatchInv, HandleInv, NextFrom, Processing, PendingPcs, Strays
  <2>. QED
    BY <2>3, <2>4 DEF ControlInv
<1>13. CASE WsCatchUp
  <2>1. /\ hpc = "wscatchup" /\ hpc' = "wslisten" /\ CatchUpRegistry(cursor + 1, fetch_block)
        /\ UNCHANGED <<mode, swapTx, head, topics, cursor, upc, cancel, srcTopics, listen,
                       phase, batches, batch, todo, outbox, modified, swaps, open,
                       adding, fetch_block, mem, adds, removals>>
    BY <1>13 DEF WsCatchUp, config, sourceVars, batchVars, simVars
  <2>2. state' \in [Pools -> Seq(Logs) \cup {Absent}] /\ astray' \subseteq Logs
    BY <2>1, CatchUpKeepsTypes
  <2>3. HandleTypeOK'
    BY <2>1, <2>2, SMTT(30) DEF ControlInv, HandleTypeOK, TypeOK, HandlePcs
  <2>4. RangesInv' /\ BatchInv' /\ HandleInv'
    BY <1>1, <2>1 DEF ControlInv, RangesInv, BatchInv, HandleInv, NextFrom, Processing, PendingPcs, Strays
  <2>. QED
    BY <2>3, <2>4 DEF ControlInv
<1>14. CASE WsListen
  <2>1. /\ hpc = "wslisten" /\ hpc' = "wsfetch"
        /\ listen' = Listening(Registered \cup adding, topics)
        /\ UNCHANGED <<mode, swapTx, head, state, topics, cursor, upc, cancel, srcTopics,
                       phase, batches, batch, todo, outbox, modified, swaps, open, astray,
                       adding, fetch_block, mem, adds, removals>>
    BY <1>14 DEF WsListen, config, registryVars, batchVars, simVars
  <2>2. listen' \in [addresses : SUBSET Pools, topics : SUBSET topics, left : SUBSET Logs]
    BY <1>1, <2>1 DEF Registered, Listening, Matching
  <2>3. HandleTypeOK'
    <3>1. listen' \in [addresses : SUBSET Pools, topics : SUBSET topics', left : SUBSET Logs]
      BY <2>1, <2>2
    <3>2. TypeOK /\ hpc \in HandlePcs /\ adding \subseteq Pools /\ fetch_block \in Nat
      BY DEF ControlInv, HandleTypeOK
    <3>3. /\ mode' \in Modes /\ swapTx' \in BOOLEAN
          /\ head' \in StartBlock..MaxBlock /\ cursor' \in 0..MaxBlock
          /\ mode' # "websocket" => cursor' \in StartBlock..head'
          /\ state' \in [Pools -> Seq(Logs) \cup {Absent}]
          /\ topics' \subseteq {TypeOf(p) : p \in Pools} /\ srcTopics' \subseteq topics'
      BY <2>1, <3>2 DEF TypeOK
    <3>4. /\ upc' \in {"boot", "next", "apply", "send", "pending", "pendsend", "stopped"}
          /\ cancel' \in BOOLEAN
          /\ phase' \in {Poll, FetchPending}
                         \cup [name : {"ConfirmedBatches"}, current : Nat, latest : Nat]
          /\ batches' \in Seq(Nat \X Nat \X BOOLEAN)
      BY <2>1, <3>2 DEF TypeOK
    <3>5. /\ batch' \in [logs : Seq(Logs), through : Nat,
                         mode : {"none", "ApplyOnly", "ConfirmedWithSwaps", "Pending"}]
          /\ todo' \subseteq Pools /\ outbox' \in Seq(Logs)
          /\ modified' \in [Pools -> Seq(Logs) \cup {Absent}]
      BY <2>1, <3>2 DEF TypeOK
    <3>6. /\ swaps' \in Seq(Logs \X {"confirmed", "pending"}) /\ Len(swaps') <= SwapBuffer
          /\ open' \in BOOLEAN /\ astray' \subseteq Logs
      BY <2>1, <3>2 DEF TypeOK
    <3>7. TypeOK'
      BY <3>1, <3>3, <3>4, <3>5, <3>6 DEF TypeOK, Poll, FetchPending
    <3>8. /\ hpc' \in HandlePcs /\ adding' \subseteq Pools /\ fetch_block' \in Nat
          /\ mem' \in [Pools -> Seq(Logs) \cup {Absent}]
          /\ adds' \in 0..MaxAdds /\ removals' \in 0..MaxRemovals
      BY <2>1 DEF ControlInv, HandleTypeOK, HandlePcs
    <3>. QED
      BY <3>7, <3>8 DEF HandleTypeOK, HandlePcs
  <2>4. RangesInv' /\ BatchInv' /\ HandleInv'
    BY <1>1, <2>1 DEF ControlInv, RangesInv, BatchInv, HandleInv, NextFrom, Processing, PendingPcs, Strays
  <2>. QED
    BY <2>3, <2>4 DEF ControlInv
<1>15. CASE WsFetchFails
  <2>1. /\ hpc = "wsfetch" /\ hpc' = "idle" /\ adding' = {} /\ fetch_block' = 0
        /\ Spawn(fetch_block, topics)
        /\ UNCHANGED <<config, head, listen, batchVars, simVars, astray, adds, removals>>
        /\ UNCHANGED <<state, topics, mem>>
    BY <1>15 DEF WsFetchFails
  <2>2. upc = "stopped" /\ mode = "websocket" /\ topics \subseteq {TypeOf(p) : p \in Pools}
    BY <2>1 DEF ControlInv, HandleInv, HandleTypeOK, TypeOK
  <2>. QED
    BY <1>1, <2>1, <2>2, SpawnControl
<1>16. CASE WsRegister
  <2>1. /\ hpc = "wsfetch" /\ hpc' = "idle" /\ adding' = {} /\ fetch_block' = 0
        /\ state' = [p \in Pools |-> IF p \in adding THEN Replay!ChainState(p, fetch_block)
                                                     ELSE state[p]]
        /\ topics' = topics \cup {TypeOf(p) : p \in adding}
        /\ Spawn(fetch_block, topics')
        /\ UNCHANGED <<config, head, listen, batchVars, simVars, astray, adds, removals>>
        /\ UNCHANGED mem
    BY <1>16 DEF WsRegister
  <2>2. upc = "stopped" /\ mode = "websocket"
    BY <2>1 DEF ControlInv, HandleInv
  <2>3. state' \in [Pools -> Seq(Logs) \cup {Absent}]
    <3>1. \A p : Replay!ChainState(p, fetch_block) \in Seq(Logs)
      BY <1>1, ChainStateType
    <3>. QED
      BY <1>1, <2>1, <3>1
  <2>4. topics \subseteq topics' /\ topics' \subseteq {TypeOf(p) : p \in Pools}
    BY <1>1, <2>1 DEF ControlInv, HandleTypeOK, TypeOK
  <2>. QED
    BY <1>1, <2>1, <2>2, <2>3, <2>4, SpawnControl
<1>17. CASE RemovePool
  <2>1. /\ removals < MaxRemovals /\ removals' = removals + 1
        /\ \E p \in Registered : state' = [state EXCEPT ![p] = Absent]
        /\ UNCHANGED <<mode, swapTx, head, topics, cursor, upc, cancel, srcTopics, listen,
                       phase, batches, batch, todo, outbox, modified, swaps, open, astray,
                       hpc, adding, fetch_block, mem, adds>>
    BY <1>17 DEF RemovePool, config, sourceVars, batchVars, simVars
  <2>2. state' \in [Pools -> Seq(Logs) \cup {Absent}]
    BY <1>1, <2>1
  <2>3. removals' \in 0..MaxRemovals
    BY <2>1, HandleAssumption DEF ControlInv, HandleTypeOK
  <2>4. HandleTypeOK'
    BY <2>1, <2>2, <2>3 DEF ControlInv, HandleTypeOK, TypeOK
  <2>5. RangesInv' /\ BatchInv' /\ HandleInv'
    BY <2>1 DEF ControlInv, RangesInv, BatchInv, HandleInv, NextFrom, Processing, PendingPcs, Strays
  <2>. QED
    BY <2>4, <2>5 DEF ControlInv
<1>. QED
  BY <1>4, <1>5, <1>6, <1>7, <1>8, <1>9, <1>10, <1>11, <1>12, <1>13, <1>14, <1>15, <1>16, <1>17
     DEF HandleStep

LEMMA ControlNext == ControlInv /\ [Next]_vars => ControlInv'
<1>1. SUFFICES ASSUME ControlInv, [Next]_vars PROVE ControlInv'
  OBVIOUS
<1>2. CASE (Running \/ DropReceiver) /\ UNCHANGED handleVars
  <2>1. CASE NextBatch
    BY <1>1, <1>2, <2>1, SourceControl
  <2>2. CASE Bootstrap
    BY <1>1, <1>2, <2>2, BootControl
  <2>3. CASE ~NextBatch /\ ~Bootstrap
    BY <1>1, <1>2, <2>3, ProcessingControl DEF Running, UpdaterStep
  <2>. QED
    BY <2>1, <2>2, <2>3
<1>3. CASE HandleStep \/ Stop \/ DropHandle \/ AddPools \/ RemovePool
  BY <1>1, <1>3, HandleControl
<1>4. CASE UNCHANGED vars
  <2>1. UNCHANGED <<mode, swapTx, head, state, topics, cursor, upc, cancel, srcTopics, listen,
                    phase, batches, batch, todo, outbox, modified, swaps, open, astray,
                    hpc, adding, fetch_block, mem, adds, removals>>
    BY <1>4 DEF vars, updaterVars, handleVars, config, registryVars, sourceVars, batchVars, simVars
  <2>2. HandleTypeOK'
    BY <1>1, <2>1 DEF ControlInv, HandleTypeOK, TypeOK
  <2>3. RangesInv' /\ BatchInv' /\ HandleInv'
    BY <1>1, <2>1 DEF ControlInv, RangesInv, BatchInv, HandleInv, NextFrom, Processing, PendingPcs, Strays
  <2>. QED
    BY <2>2, <2>3 DEF ControlInv
<1>. QED
  BY <1>1, <1>2, <1>3, <1>4 DEF Next

\* The collector keeps its types: the cursor never passes the head of the chain,
\* the channel of swap events never holds more than its capacity, for every mode
\* and any pools, logs, lag and batch size (unified_pool_updater.rs, handle.rs).
THEOREM HandleTypeCorrect == Spec => []HandleTypeOK
<1>1. ControlInv => HandleTypeOK
  BY DEF ControlInv
<1>. QED
  BY <1>1, ControlInit, ControlNext, PTL DEF Spec

----------------------------------------------------------------------------
(* The registry replays the chain. *)

----------------------------------------------------------------------------
(* The registry replays what it is fed. *)

\* A pool's state and the block it has reached.
LEMMA LevelTypes ==
    ASSUME ControlInv, NEW p \in Registered
    PROVE  /\ p \in Pools /\ state[p] \in Seq(Logs) /\ state[p] # Absent
           /\ Level(p) \in Nat /\ cursor <= Level(p)
           /\ upc = "send" \/ (upc = "apply" /\ p \notin todo) => Level(p) = batch.through
           /\ upc = "stopped" /\ hpc \in {"register", "wslisten", "wsfetch"} =>
                  Level(p) = Max({cursor, fetch_block})
           /\ upc \in {"boot", "next", "pending", "pendsend"} \/ (upc = "apply" /\ p \in todo)
              \/ (upc = "stopped" /\ hpc \notin {"register", "wslisten", "wsfetch"}) =>
                  Level(p) = cursor
<1>1. p \in Pools /\ state[p] \in Seq(Logs) /\ state[p] # Absent
  BY DEF Registered, ControlInv, HandleTypeOK, TypeOK
<1>2. /\ cursor \in Nat /\ fetch_block \in Nat /\ batch.through \in Nat
      /\ upc \in {"boot", "next", "apply", "send", "pending", "pendsend", "stopped"}
  BY ControlTypes DEF ControlInv, HandleTypeOK, TypeOK
<1>3. upc # "stopped" => hpc \notin {"register", "wslisten", "wsfetch"}
  BY DEF ControlInv, HandleInv
<1>4. upc \in Processing => cursor <= batch.through
  BY DEF ControlInv, BatchInv
<1>5. /\ Max({cursor, fetch_block}) \in Nat /\ cursor <= Max({cursor, fetch_block})
  BY <1>2, MaxOfTwo
<1>6. CASE upc = "send" \/ (upc = "apply" /\ p \notin todo)
  BY <1>1, <1>2, <1>4, <1>6 DEF Level, Processing
<1>7. CASE upc = "stopped" /\ hpc \in {"register", "wslisten", "wsfetch"}
  BY <1>1, <1>2, <1>5, <1>7 DEF Level, Processing
<1>8. CASE \/ upc \in {"boot", "next", "pending", "pendsend"} \/ (upc = "apply" /\ p \in todo)
           \/ (upc = "stopped" /\ hpc \notin {"register", "wslisten", "wsfetch"})
  <2>1. Level(p) = cursor
    BY <1>3, <1>8 DEF Level, Processing
  <2>. QED
    BY <1>1, <1>2, <1>8, <2>1
<1>. QED
  BY <1>2, <1>6, <1>7, <1>8

\* The strays only become more.
LEMMA StraysGrow ==
    ASSUME mode' = mode, astray \subseteq astray'
    PROVE  Strays \subseteq Strays'
BY DEF Strays

\* A state that stays where it is stays faithful to it.
LEMMA FaithfulKept ==
    ASSUME NEW p, NEW s \in Seq(Logs), NEW b \in Nat, At(s, p, b), mode' = mode,
           astray \subseteq astray'
    PROVE  Faithful(s, p, b, Strays', astray')
<1>1. Strays \subseteq Strays'
  BY StraysGrow
<1>2. \A l \in Logs : ~(b < Block(l) /\ Block(l) <= b)
  BY LogsAreFinite
<1>3. Faithful(s, p, b, Strays, astray)
  BY DEF At
<1>. DEFINE V == Strays
            W == Strays'
            A == astray
            B == astray'
<1>4. V \subseteq W /\ A \subseteq B /\ Faithful(s, p, b, V, A)
  BY <1>1, <1>3
<1>. HIDE DEF V, W, A, B
<1>5. Faithful(s, p, b, W, B)
  BY <1>2, <1>4, FaithfulStays
<1>. QED
  BY <1>5 DEF W, B

\* Pools in memory: nothing but the handle touches them.
LEMMA MemoryKept ==
    ASSUME ControlInv, MemoryInv, mode' = mode, astray \subseteq astray', mem' = mem,
           InMemory' = InMemory, MemLevel' = MemLevel
    PROVE  MemoryInv'
<1>1. SUFFICES ASSUME NEW p \in InMemory PROVE Faithful(mem'[p], p, MemLevel', Strays', astray')
  BY DEF MemoryInv, At
<1>2. mem[p] \in Seq(Logs)
  <2>1. p \in adding /\ hpc \in {"join", "catchup", "register"}
    BY <1>1 DEF InMemory
  <2>2. p \in Pools /\ mem[p] # Absent
    BY <2>1 DEF ControlInv, HandleTypeOK, HandleInv
  <2>. QED
    BY <2>2, ControlTypes
<1>3. MemLevel \in Nat
  <2>1. cursor \in Nat /\ fetch_block \in Nat
    BY ControlTypes
  <2>. QED
    BY <2>1, MaxOfTwo DEF MemLevel
<1>4. At(mem[p], p, MemLevel)
  BY <1>1 DEF MemoryInv
<1>. QED
  BY <1>2, <1>3, <1>4, FaithfulKept

\* A pool of the registry that stays at its level.
LEMMA PoolKept ==
    ASSUME ControlInv, RegistryInv, mode' = mode, astray \subseteq astray', NEW p \in Registered,
           state'[p] = state[p], Level(p)' = Level(p)
    PROVE  Faithful(state'[p], p, Level(p)', Strays', astray')
<1>1. At(state[p], p, Level(p))
  BY DEF RegistryInv
<1>. QED
  BY <1>1, LevelTypes, FaithfulKept

\* Steps of the updater outside a confirmed batch, of the simulator and the chain.
LEMMA UpdaterKept ==
    ASSUME ControlInv, PoolsInv, ControlInv',
           UNCHANGED <<mode, state, topics, cursor, srcTopics, listen, astray, hpc, adding,
                       fetch_block, mem>>,
           UNCHANGED <<upc, batch, todo>> \/ (upc \notin Processing /\ upc' \notin Processing)
    PROVE  PoolsInv'
<1>1. /\ Registered' = Registered /\ InMemory' = InMemory /\ MemLevel' = MemLevel
      /\ Strays' = Strays
  BY DEF Registered, InMemory, MemLevel, Strays
<1>2. FiltersInv'
  BY <1>1 DEF PoolsInv, FiltersInv
<1>3. WholeInv'
  BY <1>1 DEF PoolsInv, WholeInv
<1>4. \A p : Level(p)' = Level(p)
  BY DEF Level, Processing
<1>5. RegistryInv'
  BY <1>1, <1>4 DEF PoolsInv, RegistryInv, At
<1>6. MemoryInv'
  BY <1>1, MemoryKept DEF PoolsInv
<1>. QED
  BY <1>2, <1>3, <1>5, <1>6 DEF PoolsInv

\* Steps of the handle that leave the registry and the updater alone.
LEMMA HandleKept ==
    ASSUME PoolsInv,
           UNCHANGED <<mode, state, topics, cursor, srcTopics, listen, astray, upc, batch, todo>>,
           hpc \notin {"register", "wslisten", "wsfetch"},
           hpc' \notin {"register", "wslisten", "wsfetch"}
    PROVE  FiltersInv' /\ WholeInv' /\ RegistryInv'
<1>1. Registered' = Registered /\ Strays' = Strays
  BY DEF Registered, Strays
<1>2. FiltersInv'
  BY <1>1 DEF PoolsInv, FiltersInv
<1>3. WholeInv'
  BY <1>1 DEF PoolsInv, WholeInv
<1>4. \A p : Level(p)' = Level(p)
  BY DEF Level
<1>5. RegistryInv'
  BY <1>1, <1>4 DEF PoolsInv, RegistryInv, At
<1>. QED
  BY <1>2, <1>3, <1>5

\* A batch is taken in hand: a pool without a log in it is through with it.
LEMMA YieldReplay ==
    ASSUME ControlInv, PoolsInv, ControlInv', upc = "next", UNCHANGED handleVars,
           NEW logs \in Seq(Logs), NEW bmode, NEW through \in Nat, Yield(logs, bmode, through),
           listen'.addresses = listen.addresses, listen'.topics = listen.topics,
           astray \subseteq astray',
           TypesKnown => \A l \in Logs \ astray' :
                             /\ PoolOf(l) \in Registered
                             /\ cursor < Block(l) /\ Block(l) <= through
                             => l \in ToSet(logs)
    PROVE  PoolsInv'
<1>1. /\ batch'.logs = logs /\ batch'.through = through
      /\ upc' = "apply" /\ todo' = {PoolOf(l) : l \in ToSet(logs)}
      /\ UNCHANGED <<mode, state, topics, cursor, srcTopics>>
  BY DEF Yield, config, registryVars
<1>2. UNCHANGED <<hpc, adding, fetch_block, mem>>
  BY DEF handleVars
<1>3. hpc \notin {"register", "wslisten", "wsfetch"}
  BY DEF ControlInv, HandleInv
<1>4. Registered' = Registered /\ InMemory' = InMemory /\ MemLevel' = MemLevel
  BY <1>1, <1>2 DEF Registered, InMemory, MemLevel
<1>5. FiltersInv'
  BY <1>1, <1>2, <1>4 DEF PoolsInv, FiltersInv
<1>6. WholeInv'
  BY <1>1, <1>4 DEF WholeInv
<1>7. RegistryInv'
  <2>1. SUFFICES ASSUME NEW p \in Registered
                 PROVE  Faithful(state'[p], p, Level(p)', Strays', astray')
    BY <1>4 DEF RegistryInv, At
  <2>2. /\ state[p] \in Seq(Logs) /\ Level(p) = cursor /\ At(state[p], p, cursor)
        /\ state'[p] = state[p] /\ cursor \in Nat
    BY <1>1, LevelTypes, ControlTypes DEF PoolsInv, RegistryInv
  <2>3. CASE p \in todo'
    <3>1. Level(p)' = cursor
      BY <1>1, <1>2, <1>3, <2>3 DEF Level, Processing
    <3>. QED
      BY <1>1, <2>2, <3>1, FaithfulKept
  <2>4. CASE p \notin todo'
    <3>1. Level(p)' = through
      BY <1>1, <2>4 DEF Level, Processing
    <3>2. cursor <= through
      BY <1>1 DEF ControlInv, BatchInv, Processing
    <3>3. Strays \subseteq Strays'
      BY <1>1, StraysGrow
    <3>4. TypesKnown => \A l \in Logs \ astray' :
              ~(PoolOf(l) = p /\ cursor < Block(l) /\ Block(l) <= through)
      BY <1>1, <2>4
    <3>5. \A l \in Logs : ~(through < Block(l) /\ Block(l) <= cursor)
      BY <2>2, <3>2, LogsAreFinite
    <3>. DEFINE V == Strays
                W == Strays'
                A == astray
                B == astray'
    <3>6. /\ V \subseteq W /\ A \subseteq B /\ Faithful(state[p], p, cursor, V, A)
          /\ TypesKnown => \A l \in Logs \ B :
                 ~(PoolOf(l) = p /\ cursor < Block(l) /\ Block(l) <= through)
      BY <2>2, <3>3, <3>4 DEF At
    <3>. HIDE DEF V, W, A, B
    <3>7. Faithful(state[p], p, through, W, B)
      BY <2>2, <3>5, <3>6, FaithfulStays
    <3>. QED
      BY <2>2, <3>1, <3>7 DEF W, B
  <2>. QED
    BY <2>3, <2>4
<1>8. MemoryInv'
  BY <1>1, <1>2, <1>4, MemoryKept DEF PoolsInv
<1>. QED
  BY <1>5, <1>6, <1>7, <1>8 DEF PoolsInv

\* A fetched range, and a block of the feeds: what they lack is astray.
LEMMA SourceReplay ==
    ASSUME ControlInv, PoolsInv, ControlInv', NextBatch, UNCHANGED handleVars
    PROVE  PoolsInv'
<1>1. /\ cursor \in Nat /\ head \in Nat
      /\ UNCHANGED <<hpc, adding, fetch_block, mem>>
  BY ControlTypes DEF handleVars
<1>2. TypesKnown => \A p \in Registered : TypeOf(p) \in srcTopics
  BY DEF Registered, AllTypes, PoolsInv, FiltersInv
<1>3. ASSUME upc = "next", NEW from, NEW to \in Nat, from = cursor + 1, NEW bmode,
             YieldFetched(from, to, bmode)
      PROVE  PoolsInv'
  <2>1. PICK S \in Answers(Registered, srcTopics, from, to) :
            /\ Yield(InOrder(S), bmode, to)
            /\ astray' = astray \cup (Matching(Registered, srcTopics, from, to) \ S)
            /\ UNCHANGED listen
    BY <1>3 DEF YieldFetched
  <2>2. S \subseteq Logs
    BY AnswersMatch
  <2>3. InOrder(S) \in Seq(Logs) /\ ToSet(InOrder(S)) = S
    BY <2>2, LogsInOrder
  <2>4. TypesKnown => \A l \in Logs \ astray' :
            PoolOf(l) \in Registered /\ cursor < Block(l) /\ Block(l) <= to => l \in ToSet(InOrder(S))
    <3>1. SUFFICES ASSUME TypesKnown, NEW l \in Logs \ astray', PoolOf(l) \in Registered,
                          cursor < Block(l), Block(l) <= to
                   PROVE  l \in S
      BY <2>3
    <3>2. Block(l) \in from..to
      BY <1>1, <1>3, <3>1, LogsAreFinite
    <3>3. l \in Matching(Registered, srcTopics, from, to)
      BY <1>2, <3>1, <3>2 DEF Matching
    <3>. QED
      BY <2>1, <3>1, <3>3
  <2>5. listen'.addresses = listen.addresses /\ listen'.topics = listen.topics
        /\ astray \subseteq astray'
    BY <2>1
  <2>. HIDE DEF Yield
  <2>. QED
    BY <1>3, <2>1, <2>3, <2>4, <2>5, YieldReplay
<1>4. CASE PendingPoll \/ LatestPoll
  <2>1. UNCHANGED <<mode, state, topics, cursor, srcTopics, listen, astray, upc, batch, todo>>
    BY <1>4 DEF PendingPoll, LatestPoll, config, registryVars, batchVars
  <2>. QED
    BY <1>1, <2>1, UpdaterKept
<1>5. CASE PendingFetch
  <2>1. /\ upc = "next" /\ upc' \in {"next", "pending"}
        /\ UNCHANGED <<mode, state, topics, cursor, srcTopics, listen, astray>>
    BY <1>5 DEF PendingFetch, InNextBatch, YieldPending, config, registryVars
  <2>2. upc \notin Processing /\ upc' \notin Processing
    BY <2>1 DEF Processing
  <2>. QED
    BY <1>1, <2>1, <2>2, UpdaterKept
<1>6. CASE PendingConfirmed
  <2>. DEFINE end == BatchEnd(phase.current, phase.latest)
  <2>1. /\ upc = "next" /\ phase.name = "ConfirmedBatches"
        /\ YieldFetched(phase.current, end, "ApplyOnly")
    BY <1>6 DEF PendingConfirmed, InNextBatch
  <2>2. /\ phase.current \in Nat /\ phase.latest \in Nat /\ phase.current <= phase.latest
        /\ phase.current = cursor + 1
    <3>1. phase \in [name : {"ConfirmedBatches"}, current : Nat, latest : Nat]
      <4>1. phase \in {Poll, FetchPending}
                     \cup [name : {"ConfirmedBatches"}, current : Nat, latest : Nat]
        BY DEF ControlInv, HandleTypeOK, TypeOK
      <4>. QED
        BY <2>1, <4>1 DEF Poll, FetchPending
    <3>. QED
      BY <2>1, <3>1 DEF ControlInv, RangesInv, NextFrom, Processing
  <2>3. end \in Nat
    BY <2>2, BatchEndBounds
  <2>. HIDE DEF end
  <2>. QED
    BY <1>3, <2>1, <2>2, <2>3
<1>7. CASE LatestBatch
  <2>. DEFINE b == Head(batches)
              bmode == IF b[3] THEN "ConfirmedWithSwaps" ELSE "ApplyOnly"
  <2>1. upc = "next" /\ batches # <<>> /\ YieldFetched(b[1], b[2], bmode)
    BY <1>7 DEF LatestBatch, InNextBatch
  <2>2. b[1] = cursor + 1 /\ b[2] \in Nat
    <3>1. b = batches[1] /\ b \in Nat \X Nat \X BOOLEAN /\ 1 \in DOMAIN batches
      <4>1. batches \in Seq(Nat \X Nat \X BOOLEAN)
        BY DEF ControlInv, HandleTypeOK, TypeOK
      <4>. QED
        BY <2>1, <4>1
    <3>. QED
      BY <2>1, <3>1 DEF ControlInv, RangesInv, NextFrom, Processing
  <2>. HIDE DEF b, bmode
  <2>. QED
    BY <1>3, <2>1, <2>2
<1>8. CASE WebsocketBatch
  <2>1. PICK b \in 0..Newest, filled \in BOOLEAN, S \in SUBSET listen.left :
          /\ \A l \in S : Block(l) = b
          /\ Yield(InOrder(S),
                   IF b < cursor \/ filled THEN "ApplyOnly" ELSE "ConfirmedWithSwaps",
                   Max({cursor, b}))
          /\ listen' = [listen EXCEPT !.left = @ \ S]
          /\ astray' = astray \cup
                 IF b <= cursor THEN S
                 ELSE Matching(listen.addresses, listen.topics, cursor + 1, b) \ S
    BY <1>8 DEF WebsocketBatch
  <2>2. upc = "next" /\ mode = "websocket"
    BY <1>8 DEF WebsocketBatch, InNextBatch
  <2>. DEFINE bmode == IF b < cursor \/ filled THEN "ApplyOnly" ELSE "ConfirmedWithSwaps"
              through == Max({cursor, b})
  <2>3. Yield(InOrder(S), bmode, through)
    BY <2>1
  <2>4. b \in Nat
    <3>1. Newest \in Nat
      BY NewestBounds
    <3>. QED
      BY <2>1, <3>1
  <2>5. /\ through \in Nat /\ cursor <= through
        /\ b <= cursor => through = cursor
        /\ ~(b <= cursor) => through = b
    <3>1. ~(b <= cursor) => cursor <= b
      BY <1>1, <2>4
    <3>. QED
      BY <1>1, <2>4, <3>1, MaxOfTwo
  <2>6. S \subseteq Logs
    BY <2>1 DEF ControlInv, HandleTypeOK, TypeOK
  <2>7. InOrder(S) \in Seq(Logs) /\ ToSet(InOrder(S)) = S
    BY <2>6, LogsInOrder
  <2>8. TypesKnown => \A l \in Logs \ astray' :
            PoolOf(l) \in Registered /\ cursor < Block(l) /\ Block(l) <= through =>
                l \in ToSet(InOrder(S))
    <3>1. SUFFICES ASSUME TypesKnown, NEW l \in Logs \ astray', PoolOf(l) \in Registered,
                          cursor < Block(l), Block(l) <= through
                   PROVE  l \in S
      BY <2>7
    <3>2. Block(l) \in Nat
      BY LogsAreFinite
    <3>3. ~(b <= cursor)
      BY <1>1, <2>4, <2>5, <3>1, <3>2
    <3>4. Block(l) \in (cursor + 1)..b
      BY <1>1, <2>4, <2>5, <3>1, <3>2, <3>3
    <3>5. PoolOf(l) \in listen.addresses /\ TypeOf(PoolOf(l)) \in listen.topics
      BY <2>2, <3>1 DEF Registered, AllTypes, PoolsInv, FiltersInv
    <3>6. l \in Matching(listen.addresses, listen.topics, cursor + 1, b)
      BY <3>4, <3>5 DEF Matching
    <3>. QED
      BY <2>1, <3>1, <3>3, <3>6
  <2>9. listen'.addresses = listen.addresses /\ listen'.topics = listen.topics
    BY <2>1 DEF ControlInv, HandleTypeOK, TypeOK
  <2>10. astray \subseteq astray'
    BY <2>1
  <2>. HIDE DEF bmode, through
  <2>. QED
    BY <2>2, <2>3, <2>5, <2>7, <2>8, <2>9, <2>10, YieldReplay
<1>. QED
  BY <1>4, <1>5, <1>6, <1>7, <1>8 DEF NextBatch

\* A state at a later block is ordered at an earlier one when only strays are between.
LEMMA OrderedStays ==
    ASSUME NEW p, NEW s \in Seq(Logs), NEW a \in Nat, NEW b \in Nat, NEW V, NEW W,
           Ordered(s, p, a, V), V \subseteq W,
           \A l \in Logs : b < Block(l) /\ Block(l) <= a => l \in W
    PROVE  Ordered(s, p, b, W)
<1>1. \A i \in DOMAIN s : s[i] \in Logs /\ Block(s[i]) \in Nat
  BY LogsAreFinite
<1>. QED
  BY <1>1 DEF Ordered

\* A pool through a bootstrap: the RPC answer before the floor, then what was drained,
\* its tail last.
LEMMA BootFaithful ==
    ASSUME ControlInv, NEW p, NEW s \in Seq(Logs), NEW W, W \subseteq Logs,
           NEW V, V \subseteq W,
           NEW drained \in SUBSET {l \in listen.left : Block(l) <= Newest}, NEW tail \in SUBSET drained,
           NEW types, NEW S \in Answers(Registered, types, cursor + 1, FloorBlock(drained)),
           Faithful(s, p, cursor, V, V), BootStrays(drained, tail) \subseteq W,
           (Matching(Registered, types, cursor + 1, FloorBlock(drained)) \cap BeforeFloor(drained)) \ S
               \subseteq W,
           p \in Registered,
           TypesKnown => /\ p \in listen.addresses /\ TypeOf(p) \in listen.topics
                         /\ TypeOf(p) \in types
    PROVE  /\ Applied(Applied(Applied(s, p, S \cap BeforeFloor(drained)), p, drained \ tail), p, tail)
                  \in Seq(Logs)
           /\ Faithful(Applied(Applied(Applied(s, p, S \cap BeforeFloor(drained)),
                                       p, drained \ tail), p, tail),
                       p, BootCursor(drained), W, W)
           /\ IsPrefix(s, Applied(Applied(Applied(s, p, S \cap BeforeFloor(drained)),
                                          p, drained \ tail), p, tail))
<1>. DEFINE before == BeforeFloor(drained)
            floor == FloorBlock(drained)
            c == BootCursor(drained)
            T1 == {l \in S \cap before : PoolOf(l) = p}
            T2 == {l \in drained \ tail : PoolOf(l) = p}
            T3 == {l \in tail : PoolOf(l) = p}
            t1 == InOrder(T1)
            t2 == InOrder(T2)
            t3 == InOrder(T3)
<1>1. /\ drained \subseteq Logs /\ drained \subseteq Nat /\ c \in Nat /\ floor \in Nat /\ floor <= c
      /\ drained # {} => Min(drained) \in drained /\ \A l \in drained : Min(drained) <= l
      /\ \A l \in drained : floor <= Block(l) /\ Block(l) <= c
  BY DrainedBlocks
<1>2. S \subseteq Logs /\ \A l \in S : Block(l) \in (cursor + 1)..floor
  BY AnswersMatch
<1>3. cursor \in Nat /\ tail \subseteq drained
  BY ControlTypes
<1>4. /\ BootStrays(drained, tail) \subseteq W
      /\ tail \subseteq W
      /\ \A l \in drained : Block(l) <= cursor => l \in W
      /\ \A l \in Logs : c < Block(l) /\ Block(l) <= cursor => l \in W
      /\ \A l \in Matching(listen.addresses, listen.topics, cursor + 1, c) :
             l \notin drained /\ l \notin before => l \in W
  BY DEF BootStrays
<1>5. /\ \A l \in before : drained # {} => l < Min(drained)
      /\ \A l \in before : l \in Logs /\ Block(l) <= floor
  <2>1. CASE drained = {}
    BY <1>1, <2>1, LogsAreFinite DEF BeforeFloor, FloorBlock
  <2>2. CASE drained # {}
    <3>1. Min(drained) \in Logs /\ floor = Block(Min(drained))
      BY <1>1, <2>2 DEF FloorBlock
    <3>2. \A l \in before : l \in Logs /\ l < Min(drained)
      BY <2>2 DEF BeforeFloor
    <3>3. \A l \in Logs : l < Min(drained) => l <= Min(drained)
      BY <3>1, LogsAreFinite
    <3>. QED
      BY <3>1, <3>2, <3>3, LogsAreFinite
  <2>. QED
    BY <2>1, <2>2
<1>6. /\ T1 \subseteq Logs /\ T2 \subseteq Logs /\ T3 \subseteq Logs
  BY <1>1, <1>2, <1>3
<1>7. /\ Applied(s, p, S \cap before) = s \o t1
      /\ Applied(s \o t1, p, drained \ tail) = (s \o t1) \o t2
      /\ Applied((s \o t1) \o t2, p, tail) = ((s \o t1) \o t2) \o t3
  BY DEF Applied
<1>8. /\ \A l \in T1 : /\ l \in Logs /\ PoolOf(l) = p /\ Block(l) \in Nat
                       /\ cursor < Block(l) /\ Block(l) <= floor /\ l \in before
      /\ \A l \in T2 : l \in drained /\ PoolOf(l) = p
      /\ \A l \in T3 : l \in W /\ PoolOf(l) = p
      /\ \A l \in drained : PoolOf(l) = p => l \in T2 \/ l \in T3
      /\ \A l \in S : l \in before /\ PoolOf(l) = p => l \in T1
  <2>1. \A n : n \in (cursor + 1)..floor => n \in Nat /\ cursor < n /\ n <= floor
    BY <1>1, <1>3
  <2>. QED
    BY <1>2, <1>3, <1>4, <2>1
<1>. HIDE DEF before, floor, c, T1, T2, T3
<1>9. /\ t1 \in Seq(Logs) /\ Increasing(t1) /\ ToSet(t1) = T1
      /\ t2 \in Seq(Logs) /\ Increasing(t2) /\ ToSet(t2) = T2
      /\ t3 \in Seq(Logs) /\ Increasing(t3) /\ ToSet(t3) = T3
  BY <1>6, LogsInOrder
<1>. HIDE DEF t1, t2, t3
<1>10. /\ s \o t1 \in Seq(Logs) /\ (s \o t1) \o t2 \in Seq(Logs)
       /\ ((s \o t1) \o t2) \o t3 \in Seq(Logs)
       /\ ToSet(s \o t1) = ToSet(s) \cup T1
       /\ ToSet((s \o t1) \o t2) = ToSet(s) \cup T1 \cup T2
       /\ ToSet(((s \o t1) \o t2) \o t3) = ToSet(s) \cup T1 \cup T2 \cup T3
       /\ ToSet(s) \subseteq Logs
  <2>1. s \o t1 \in Seq(Logs) /\ ToSet(s \o t1) = ToSet(s) \cup T1 /\ ToSet(s) \subseteq Logs
    BY <1>9, ConcatToSet
  <2>. DEFINE u == s \o t1
  <2>. HIDE DEF u
  <2>2. u \in Seq(Logs)
    BY <2>1 DEF u
  <2>3. u \o t2 \in Seq(Logs) /\ ToSet(u \o t2) = ToSet(u) \cup T2
    BY <1>9, <2>2, ConcatToSet
  <2>. DEFINE v == u \o t2
  <2>. HIDE DEF v
  <2>4. v \in Seq(Logs)
    BY <2>3 DEF v
  <2>5. v \o t3 \in Seq(Logs) /\ ToSet(v \o t3) = ToSet(v) \cup T3
    BY <1>9, <2>4, ConcatToSet
  <2>. QED
    BY <2>1, <2>3, <2>5 DEF u, v
<1>11. Ordered(s, p, c, W)
  BY <1>1, <1>3, <1>4, OrderedStays DEF Faithful
<1>12. \A l \in ToSet(s) \ W : Block(l) <= cursor /\ l \in Logs
  <2>1. \A l \in ToSet(s) \ W : l \notin V
    OBVIOUS
  <2>. QED
    BY <1>10, <2>1 DEF Faithful, Ordered, ToSet
<1>13. Ordered(s \o t1, p, c, W)
  <2>1. \A l \in ToSet(t1) : PoolOf(l) = p /\ (l \notin W => Block(l) <= c)
    BY <1>1, <1>8, <1>9
  <2>2. \A l \in ToSet(s) \ W, m \in ToSet(t1) \ W : l < m
    <3>1. \A l \in ToSet(s) \ W, m \in T1 : Block(l) < Block(m)
      BY <1>3, <1>8, <1>12, LogsAreFinite
    <3>. QED
      BY <1>8, <1>9, <1>12, <3>1, LogsAreFinite
  <2>. QED
    BY <1>9, <1>11, <2>1, <2>2, OrderedConcat
<1>14. Ordered((s \o t1) \o t2, p, c, W)
  <2>1. \A l \in ToSet(t2) : PoolOf(l) = p /\ (l \notin W => Block(l) <= c)
    BY <1>1, <1>8, <1>9
  <2>2. \A m \in T2 \ W : m \in Logs /\ ~(Block(m) <= cursor) /\ Block(m) \in Nat
    BY <1>1, <1>4, <1>8, LogsAreFinite
  <2>3. \A l \in ToSet(s \o t1) \ W, m \in ToSet(t2) \ W : l < m
    <3>1. \A l \in ToSet(s) \ W, m \in T2 \ W : l < m
      <4>1. \A l \in ToSet(s) \ W, m \in T2 \ W : Block(l) < Block(m)
        BY <1>3, <1>12, <2>2, LogsAreFinite
      <4>. QED
        BY <1>12, <2>2, <4>1, LogsAreFinite
    <3>2. \A l \in T1, m \in T2 : l < m
      <4>1. SUFFICES ASSUME NEW l \in T1, NEW m \in T2 PROVE l < m
        OBVIOUS
      <4>2. m \in drained /\ m \in Nat /\ l \in Nat
        BY <1>1, <1>8, LogsAreFinite
      <4>3. Min(drained) \in Nat /\ Min(drained) <= m /\ l < Min(drained)
        BY <1>1, <1>5, <1>8, <4>2
      <4>. QED
        BY <4>2, <4>3
    <3>. QED
      BY <1>9, <1>10, <3>1, <3>2
  <2>. DEFINE u == s \o t1
  <2>4. /\ u \in Seq(Logs) /\ Ordered(u, p, c, W)
        /\ \A l \in ToSet(u) \ W, m \in ToSet(t2) \ W : l < m
    BY <1>10, <1>13, <2>3
  <2>. HIDE DEF u
  <2>5. Ordered(u \o t2, p, c, W)
    BY <1>9, <2>1, <2>4, OrderedConcat
  <2>. QED
    BY <2>5 DEF u
<1>15. Ordered(((s \o t1) \o t2) \o t3, p, c, W)
  <2>. DEFINE v == (s \o t1) \o t2
  <2>1. v \in Seq(Logs) /\ Ordered(v, p, c, W)
    BY <1>10, <1>14
  <2>. HIDE DEF v
  <2>2. \A l \in ToSet(t3) : PoolOf(l) = p /\ l \in W
    BY <1>8, <1>9
  <2>3. Ordered(v \o t3, p, c, W)
    BY <1>9, <2>1, <2>2, OrderedConcat
  <2>. QED
    BY <2>3 DEF v
<1>16. TypesKnown => Complete(((s \o t1) \o t2) \o t3, p, c, W)
  <2>1. SUFFICES ASSUME TypesKnown, NEW l \in Logs \ W, PoolOf(l) = p, Block(l) <= c
                 PROVE  l \in ToSet(s) \cup T1 \cup T2 \cup T3
    BY <1>10 DEF Complete
  <2>2. Block(l) \in Nat
    BY LogsAreFinite
  <2>3. CASE Block(l) <= cursor
    BY <2>1, <2>3 DEF Faithful, Complete
  <2>4. CASE l \in drained
    BY <1>8, <2>1, <2>4
  <2>5. CASE ~(Block(l) <= cursor) /\ l \notin drained
    <3>1. Block(l) \in (cursor + 1)..c
      BY <1>1, <1>3, <2>1, <2>2, <2>5
    <3>2. l \in Matching(listen.addresses, listen.topics, cursor + 1, c)
      BY <2>1, <3>1 DEF Matching
    <3>3. l \in before
      BY <1>4, <2>1, <2>5, <3>2
    <3>4. Block(l) <= floor
      BY <1>5, <3>3
    <3>5. Block(l) \in (cursor + 1)..floor
      BY <1>1, <1>3, <2>2, <2>5, <3>4
    <3>6. l \in Matching(Registered, types, cursor + 1, FloorBlock(drained))
      BY <2>1, <3>5 DEF Matching, floor
    <3>7. l \in S
      BY <2>1, <3>3, <3>6 DEF before
    <3>. QED
      BY <1>8, <2>1, <3>3, <3>7
  <2>. QED
    BY <2>3, <2>4, <2>5
<1>17. IsPrefix(s, ((s \o t1) \o t2) \o t3)
  BY <1>9, ConcatsArePrefix
<1>. QED
  BY <1>7, <1>10, <1>15, <1>16, <1>17 DEF Faithful, before, c

LEMMA BootReplay ==
    ASSUME ControlInv, PoolsInv, ControlInv', Bootstrap, UNCHANGED handleVars
    PROVE  /\ PoolsInv'
           /\ \A p \in Registered : IsPrefix(state[p], state'[p])
           /\ \A p \in Pools : state[p] = Absent => state'[p] = Absent
<1>1. PICK drained \in SUBSET {l \in listen.left : Block(l) <= Newest} :
          \E tail \in SUBSET drained :
          \E S \in Answers(Registered, srcTopics, cursor + 1, FloorBlock(drained)) :
              Booted(drained, tail, S)
  BY DEF Bootstrap, Booted
<1>2. PICK tail \in SUBSET drained :
          \E S \in Answers(Registered, srcTopics, cursor + 1, FloorBlock(drained)) :
              Booted(drained, tail, S)
  BY <1>1
<1>3. PICK S \in Answers(Registered, srcTopics, cursor + 1, FloorBlock(drained)) :
          Booted(drained, tail, S)
  BY <1>2
<1>. DEFINE three(p) == Applied(Applied(Applied(state[p], p, S \cap BeforeFloor(drained)),
                                        p, drained \ tail), p, tail)
<1>4. /\ state' = [p \in Pools |-> IF state[p] = Absent THEN Absent ELSE three(p)]
      /\ cursor' = BootCursor(drained)
      /\ listen' = [listen EXCEPT !.left = @ \ (drained \cup BeforeFloor(drained))]
      /\ astray' = astray
                   \cup ((Matching(Registered, srcTopics, cursor + 1, FloorBlock(drained))
                              \cap BeforeFloor(drained)) \ S)
                   \cup BootStrays(drained, tail)
  BY <1>3 DEF Booted
<1>5. /\ upc = "boot" /\ upc' = "next"
      /\ UNCHANGED <<mode, topics, srcTopics>>
      /\ UNCHANGED <<hpc, adding, fetch_block, mem>>
  BY DEF Bootstrap, config, handleVars
<1>6. /\ mode = "websocket" /\ Strays = astray /\ Strays' = astray'
      /\ hpc \notin {"register", "wslisten", "wsfetch"}
      /\ hpc \notin {"join", "catchup", "register"}
  BY <1>5 DEF ControlInv, BatchInv, HandleInv, Strays
<1>7. astray' \subseteq Logs /\ Absent \notin Seq(Logs)
      /\ state \in [Pools -> Seq(Logs) \cup {Absent}]
  BY ControlTypes DEF ControlInv, HandleTypeOK, TypeOK
<1>. HIDE DEF three
<1>8. ASSUME NEW p \in Registered
      PROVE  /\ state'[p] = three(p) /\ three(p) # Absent
             /\ Faithful(state'[p], p, cursor', Strays', astray')
             /\ IsPrefix(state[p], state'[p])
  <2>1. /\ p \in Pools /\ state[p] # Absent /\ state[p] \in Seq(Logs) /\ Level(p) = cursor
    BY <1>5, LevelTypes
  <2>2. Faithful(state[p], p, cursor, astray, astray)
    BY <1>6, <2>1 DEF PoolsInv, RegistryInv, At
  <2>3. TypesKnown => /\ p \in listen.addresses /\ TypeOf(p) \in listen.topics
                      /\ TypeOf(p) \in srcTopics
    BY <1>6, <2>1 DEF PoolsInv, FiltersInv, AllTypes
  <2>4. /\ astray \subseteq astray' /\ BootStrays(drained, tail) \subseteq astray'
        /\ (Matching(Registered, srcTopics, cursor + 1, FloorBlock(drained))
                \cap BeforeFloor(drained)) \ S \subseteq astray'
    BY <1>4
  <2>. DEFINE W == astray'
              s == state[p]
              V == astray
  <2>5. /\ W \subseteq Logs /\ V \subseteq W /\ s \in Seq(Logs) /\ Faithful(s, p, cursor, V, V)
        /\ BootStrays(drained, tail) \subseteq W
        /\ (Matching(Registered, srcTopics, cursor + 1, FloorBlock(drained))
                \cap BeforeFloor(drained)) \ S \subseteq W
    BY <1>7, <2>1, <2>2, <2>4
  <2>. HIDE DEF W, s, V
  <2>6. /\ Applied(Applied(Applied(s, p, S \cap BeforeFloor(drained)), p, drained \ tail), p, tail)
               \in Seq(Logs)
        /\ Faithful(Applied(Applied(Applied(s, p, S \cap BeforeFloor(drained)),
                                    p, drained \ tail), p, tail),
                    p, BootCursor(drained), W, W)
        /\ IsPrefix(s, Applied(Applied(Applied(s, p, S \cap BeforeFloor(drained)),
                                       p, drained \ tail), p, tail))
    BY <2>3, <2>5, BootFaithful
  <2>7. three(p) \in Seq(Logs) /\ Faithful(three(p), p, BootCursor(drained), W, W)
        /\ IsPrefix(s, three(p))
    BY <2>6 DEF three, s
  <2>8. state'[p] = three(p)
    BY <1>4, <2>1
  <2>. QED
    BY <1>4, <1>6, <1>7, <2>7, <2>8 DEF W, s
<1>9. \A p \in Pools : state[p] = Absent => state'[p] = Absent
  BY <1>4
<1>10. Registered' = Registered
  BY <1>8, <1>9 DEF Registered
<1>11. FiltersInv'
  <2>1. listen'.addresses = listen.addresses /\ listen'.topics = listen.topics
    BY <1>4 DEF ControlInv, HandleTypeOK, TypeOK
  <2>. QED
    BY <1>5, <1>10, <2>1 DEF PoolsInv, FiltersInv
<1>12. WholeInv' /\ MemoryInv'
  BY <1>5, <1>6 DEF WholeInv, Processing, MemoryInv, InMemory
<1>13. \A p : Level(p)' = cursor'
  BY <1>5, <1>6 DEF Level, Processing
<1>14. RegistryInv'
  BY <1>8, <1>10, <1>13 DEF RegistryInv, At
<1>. QED
  BY <1>8, <1>9, <1>11, <1>12, <1>14 DEF PoolsInv

LEMMA ProcessingReplay ==
    ASSUME ControlInv, PoolsInv, ControlInv', UNCHANGED handleVars,
           \/ \E p \in Pools : ApplyPool(p)
           \/ AllApplied \/ SendSwap \/ ApplyPending \/ SendPending \/ FinishBatch
           \/ UpdaterStops \/ BootstrapFails \/ Receive \/ DropReceiver \/ Mine
    PROVE  PoolsInv'
<1>1. /\ cursor \in Nat /\ batch.through \in Nat /\ batch.logs \in Seq(Logs)
      /\ UNCHANGED <<hpc, adding, fetch_block, mem>>
  BY ControlTypes DEF handleVars
<1>2. CASE SendSwap \/ Receive \/ DropReceiver \/ Mine
  <2>1. UNCHANGED <<mode, state, topics, cursor, srcTopics, listen, astray, upc, batch, todo>>
    BY <1>2 DEF SendSwap, Receive, DropReceiver, Mine, config, registryVars, sourceVars, batchVars
  <2>. QED
    BY <1>1, <2>1, UpdaterKept
<1>3. CASE ApplyPending \/ SendPending \/ UpdaterStops \/ BootstrapFails
  <2>1. /\ upc \notin Processing /\ upc' \notin Processing
        /\ UNCHANGED <<mode, state, topics, cursor, srcTopics, listen, astray>>
    BY <1>3 DEF ApplyPending, SendPending, UpdaterStops, BootstrapFails, config, registryVars,
                sourceVars, Processing
  <2>. QED
    BY <1>1, <2>1, UpdaterKept
<1>4. ASSUME NEW p \in Pools, ApplyPool(p) PROVE PoolsInv'
  <2>. DEFINE logs == OfPool(batch.logs, p)
  <2>1. /\ upc = "apply" /\ p \in NextPools /\ todo' = todo \ {p}
        /\ UNCHANGED <<mode, topics, cursor, upc, srcTopics, listen, astray, batch>>
        /\ IF state[p] = Absent THEN UNCHANGED state
                                ELSE state' = [state EXCEPT ![p] = @ \o logs]
    BY <1>4 DEF ApplyPool, config, sourceVars
  <2>2. p \in todo
    BY <2>1 DEF NextPools
  <2>3. /\ Increasing(batch.logs) /\ cursor <= batch.through
        /\ \A l \in ToSet(batch.logs) :
               Block(l) <= batch.through /\ (l \notin Strays => cursor < Block(l))
    BY <2>1 DEF ControlInv, BatchInv, Processing
  <2>4. /\ logs \in Seq(Logs) /\ Increasing(logs)
        /\ ToSet(logs) = {l \in ToSet(batch.logs) : PoolOf(l) = p}
    BY <1>1, <2>3, OfPoolInOrder
  <2>5. TypesKnown /\ p \in Registered =>
            \A l \in Logs \ astray :
                PoolOf(l) = p /\ cursor < Block(l) /\ Block(l) <= batch.through => l \in ToSet(logs)
    BY <2>1, <2>4 DEF PoolsInv, WholeInv, Processing
  <2>. HIDE DEF logs
  <2>6. /\ state \in [Pools -> Seq(Logs) \cup {Absent}]
        /\ Absent \notin Seq(Logs)
    BY ControlTypes
  <2>7. /\ \A q \in Pools : q # p => state'[q] = state[q]
        /\ state[p] # Absent => state'[p] = state[p] \o logs /\ state'[p] \in Seq(Logs)
        /\ state[p] = Absent => state'[p] = Absent
    <3>1. CASE state[p] = Absent
      BY <2>1, <3>1
    <3>2. CASE state[p] # Absent
      <4>1. state' = [state EXCEPT ![p] = state[p] \o logs]
        BY <2>1, <3>2
      <4>2. state[p] \o logs \in Seq(Logs)
        <5>1. state[p] \in Seq(Logs)
          BY <2>6, <3>2
        <5>. QED
          BY <2>4, <5>1, ConcatToSet
      <4>. QED
        BY <2>6, <3>2, <4>1, <4>2
    <3>. QED
      BY <3>1, <3>2
  <2>8. Registered' = Registered
    BY <2>6, <2>7 DEF Registered
  <2>9. FiltersInv' /\ WholeInv'
    BY <1>1, <2>1, <2>8 DEF PoolsInv, FiltersInv, WholeInv
  <2>10. RegistryInv'
    <3>1. SUFFICES ASSUME NEW q \in Registered
                   PROVE  Faithful(state'[q], q, Level(q)', Strays', astray')
      BY <2>8 DEF RegistryInv, At
    <3>2. CASE q = p
      <4>1. Level(q)' = batch.through
        BY <2>1, <3>2 DEF Level, Processing
      <4>2. Level(q) = cursor /\ state[q] \in Seq(Logs) /\ state[q] # Absent
        BY <2>1, <2>2, <3>2, LevelTypes
      <4>3. state'[q] = state[q] \o logs
        BY <2>7, <3>2, <4>2
      <4>4. Strays' = Strays /\ astray' = astray
        BY <2>1 DEF Strays
      <4>. DEFINE W == Strays
                  A == astray
                  s == state[q]
                  b == batch.through
      <4>5. /\ Faithful(s, p, cursor, W, A) /\ s \in Seq(Logs) /\ b \in Nat
            /\ \A l \in ToSet(logs) :
                   PoolOf(l) = p /\ (l \notin W => cursor < Block(l) /\ Block(l) <= b)
            /\ TypesKnown => \A l \in Logs \ A :
                   PoolOf(l) = p /\ cursor < Block(l) /\ Block(l) <= b => l \in ToSet(logs)
        BY <1>1, <2>3, <2>4, <2>5, <3>2, <4>2 DEF PoolsInv, RegistryInv, At
      <4>6. cursor <= b
        BY <2>3
      <4>. HIDE DEF W, A, s, b
      <4>7. Faithful(s \o logs, p, b, W, A)
        BY <1>1, <2>4, <4>5, <4>6, FaithfulConcat
      <4>. QED
        BY <3>2, <4>1, <4>3, <4>4, <4>7 DEF W, A, s, b
    <3>3. CASE q # p
      <4>1. Level(q)' = Level(q)
        BY <1>1, <2>1, <3>3 DEF Level
      <4>2. state'[q] = state[q]
        BY <2>7, <3>3 DEF Registered
      <4>. QED
        BY <2>1, <4>1, <4>2, PoolKept DEF PoolsInv
    <3>. QED
      BY <3>2, <3>3
  <2>11. MemoryInv'
    <3>1. InMemory' = InMemory /\ MemLevel' = MemLevel
      BY <1>1, <2>1 DEF InMemory, MemLevel
    <3>. QED
      BY <1>1, <2>1, <3>1, MemoryKept DEF PoolsInv
  <2>. QED
    BY <2>9, <2>10, <2>11 DEF PoolsInv
<1>5. CASE AllApplied
  <2>1. /\ upc = "apply" /\ upc' = "send" /\ todo = {}
        /\ UNCHANGED <<mode, state, topics, cursor, srcTopics, listen, astray, batch, todo>>
    BY <1>5 DEF AllApplied, config, registryVars, sourceVars, batchVars
  <2>2. Registered' = Registered /\ Strays' = Strays
    BY <2>1 DEF Registered, Strays
  <2>3. FiltersInv' /\ WholeInv'
    BY <1>1, <2>1, <2>2 DEF PoolsInv, FiltersInv, WholeInv, Processing
  <2>4. \A p : Level(p)' = Level(p)
    BY <2>1 DEF Level, Processing
  <2>5. RegistryInv'
    BY <2>1, <2>2, <2>4 DEF PoolsInv, RegistryInv, At
  <2>6. MemoryInv'
    <3>1. InMemory' = InMemory /\ MemLevel' = MemLevel
      BY <1>1, <2>1 DEF InMemory, MemLevel
    <3>. QED
      BY <1>1, <2>1, <3>1, MemoryKept DEF PoolsInv
  <2>. QED
    BY <2>3, <2>5, <2>6 DEF PoolsInv
<1>6. CASE FinishBatch
  <2>1. /\ upc \in {"send", "pending"} /\ upc' = "next"
        /\ cursor' = IF batch.mode = "Pending" THEN cursor ELSE batch.through
        /\ UNCHANGED <<mode, state, topics, srcTopics, listen, astray>>
    BY <1>6 DEF FinishBatch, config, sourceVars
  <2>2. /\ upc = "send" => cursor' = batch.through
        /\ upc = "pending" => cursor' = cursor
    BY <2>1 DEF ControlInv, BatchInv, Processing, PendingPcs
  <2>3. hpc \notin {"register", "wslisten", "wsfetch"}
    BY <2>1 DEF ControlInv, HandleInv
  <2>4. Registered' = Registered /\ InMemory' = InMemory /\ MemLevel' = MemLevel /\ Strays' = Strays
    BY <1>1, <2>1, <2>3 DEF Registered, InMemory, MemLevel, Strays
  <2>5. FiltersInv' /\ WholeInv'
    BY <1>1, <2>1, <2>4 DEF PoolsInv, FiltersInv, WholeInv, Processing
  <2>6. RegistryInv'
    <3>1. SUFFICES ASSUME NEW q \in Registered
                   PROVE  Faithful(state'[q], q, Level(q)', Strays', astray')
      BY <2>4 DEF RegistryInv, At
    <3>2. Level(q)' = cursor'
      BY <1>1, <2>1, <2>3 DEF Level, Processing
    <3>3. Level(q) = cursor'
      BY <2>1, <2>2, LevelTypes
    <3>. QED
      BY <2>1, <2>4, <3>2, <3>3 DEF PoolsInv, RegistryInv, At
  <2>7. MemoryInv'
    BY <1>1, <2>1, <2>4, MemoryKept DEF PoolsInv
  <2>. QED
    BY <2>5, <2>6, <2>7 DEF PoolsInv
<1>. QED
  BY <1>2, <1>3, <1>4, <1>5, <1>6

LEMMA HandleReplay ==
    ASSUME ControlInv, PoolsInv, ControlInv',
           HandleStep \/ Stop \/ DropHandle \/ AddPools \/ RemovePool
    PROVE  PoolsInv'
<1>1. /\ cursor \in Nat /\ fetch_block \in Nat /\ adding \subseteq Pools
      /\ state \in [Pools -> Seq(Logs) \cup {Absent}]
      /\ mem \in [Pools -> Seq(Logs) \cup {Absent}]
      /\ Absent \notin Seq(Logs)
  BY ControlTypes, UpdaterAssumption DEF ControlInv, HandleTypeOK, TypeOK
<1>2. /\ fetch_block' \in Nat
      /\ state' \in [Pools -> Seq(Logs) \cup {Absent}]
      /\ mem' \in [Pools -> Seq(Logs) \cup {Absent}]
  BY DEF ControlInv, HandleTypeOK, TypeOK
<1>3. ASSUME NEW next, SendCancel(next)
      PROVE  /\ hpc' = next
             /\ UNCHANGED <<mode, state, topics, cursor, srcTopics, listen, astray, upc, batch, todo>>
  BY <1>3 DEF SendCancel, config, registryVars, sourceVars, batchVars
<1>4. ASSUME UNCHANGED updaterVars
      PROVE  UNCHANGED <<mode, state, topics, cursor, srcTopics, listen, astray, upc, batch, todo>>
  BY <1>4 DEF updaterVars, config, registryVars, sourceVars, batchVars
<1>5. \A p \in Registered : TypesKnown => TypeOf(p) \in topics
  BY DEF Registered, PoolsInv, FiltersInv, AllTypes
<1>6. /\ upc = "stopped" => upc \notin Processing
      /\ hpc \in {"catchup", "register", "wscatchup", "wslisten", "wsfetch"} => upc = "stopped"
  BY DEF Processing, ControlInv, HandleInv
\* Calls that stop the updater, join it or give up.
<1>7. CASE Stop \/ DropHandle \/ StopReturns \/ AddPools \/ HttpFetchFails \/ WsJoined
  <2>1. hpc \in {"idle", "stopping", "fetch", "wsjoin"}
    BY <1>7 DEF Stop, DropHandle, StopReturns, AddPools, HttpFetchFails, WsJoined
  <2>2. /\ hpc' \in {"idle", "stopping", "dropped", "fetch", "wsjoin", "wscatchup"}
        /\ UNCHANGED <<mode, state, topics, cursor, srcTopics, listen, astray, upc, batch, todo>>
    <3>1. CASE Stop
      BY <1>3, <3>1 DEF Stop
    <3>2. CASE DropHandle
      BY <1>3, <3>2 DEF DropHandle
    <3>3. CASE StopReturns
      BY <1>4, <3>3 DEF StopReturns
    <3>4. CASE AddPools
      <4>1. (SendCancel("wsjoin")) \/ (hpc' = "fetch" /\ UNCHANGED updaterVars)
        BY <3>4 DEF AddPools
      <4>. QED
        BY <1>3, <1>4, <4>1
    <3>5. CASE HttpFetchFails
      BY <1>4, <3>5 DEF HttpFetchFails
    <3>6. CASE WsJoined
      BY <1>4, <3>6 DEF WsJoined
    <3>. QED
      BY <1>7, <3>1, <3>2, <3>3, <3>4, <3>5, <3>6
  <2>3. FiltersInv' /\ WholeInv' /\ RegistryInv'
    BY <2>1, <2>2, HandleKept
  <2>4. MemoryInv'
    BY <2>2 DEF MemoryInv, InMemory
  <2>. QED
    BY <2>3, <2>4 DEF PoolsInv
<1>8. CASE HttpFetched
  <2>1. /\ hpc = "fetch" /\ SendCancel("join") /\ UNCHANGED <<adding, fetch_block>>
        /\ mem' = [p \in Pools |-> IF p \in adding THEN Replay!ChainState(p, fetch_block)
                                                   ELSE Absent]
    BY <1>8 DEF HttpFetched, FetchInMemory
  <2>2. /\ hpc' = "join"
        /\ UNCHANGED <<mode, state, topics, cursor, srcTopics, listen, astray, upc, batch, todo>>
    BY <1>3, <2>1
  <2>3. FiltersInv' /\ WholeInv' /\ RegistryInv'
    BY <2>1, <2>2, HandleKept
  <2>4. MemoryInv'
    <3>1. InMemory' = adding /\ MemLevel' = fetch_block
      BY <2>1, <2>2 DEF InMemory, MemLevel
    <3>2. \A p \in adding : mem'[p] = Replay!ChainState(p, fetch_block)
      BY <1>1, <2>1
    <3>3. \A p \in adding : Faithful(mem'[p], p, fetch_block, Strays', astray')
      BY <1>1, <3>2, ChainStateType
    <3>. QED
      BY <3>1, <3>3 DEF MemoryInv, At
  <2>. QED
    BY <2>3, <2>4 DEF PoolsInv
<1>9. CASE HttpJoined
  <2>1. /\ hpc = "join" /\ hpc' = "catchup" /\ UNCHANGED updaterVars
        /\ UNCHANGED <<adding, fetch_block, mem>>
    BY <1>9 DEF HttpJoined
  <2>2. FiltersInv' /\ WholeInv' /\ RegistryInv'
    BY <1>4, <2>1, HandleKept
  <2>3. InMemory' = InMemory /\ MemLevel' = MemLevel
    BY <2>1 DEF InMemory, MemLevel
  <2>4. MemoryInv'
    BY <1>4, <2>1, <2>3, MemoryKept DEF PoolsInv
  <2>. QED
    BY <2>2, <2>4 DEF PoolsInv
\* The registry is caught up with its own addresses and the topics so far.
<1>10. ASSUME CatchUpRegistry(cursor + 1, fetch_block), cursor <= fetch_block, mode' = mode,
              \A p \in Registered : Level(p) = cursor
       PROVE  /\ Registered' = Registered /\ astray \subseteq astray'
              /\ \A p \in Registered : Faithful(state'[p], p, fetch_block, Strays', astray')
  <2>1. PICK S \in Answers(Registered, topics, cursor + 1, fetch_block) :
            /\ state' = [p \in Pools |-> IF state[p] = Absent THEN Absent
                                         ELSE Applied(state[p], p, S)]
            /\ astray' = astray \cup (Matching(Registered, topics, cursor + 1, fetch_block) \ S)
    BY <1>10 DEF CatchUpRegistry
  <2>2. ASSUME NEW p \in Registered
        PROVE  /\ state'[p] # Absent
               /\ Faithful(state'[p], p, fetch_block, Strays', astray')
    <3>1. /\ p \in Pools /\ state[p] \in Seq(Logs) /\ state[p] # Absent
          /\ At(state[p], p, cursor)
      BY <1>10, LevelTypes DEF PoolsInv, RegistryInv
    <3>2. Strays \subseteq Strays'
      BY <1>10, <2>1, StraysGrow
    <3>3. S \subseteq Logs
      BY AnswersMatch
    <3>4. state'[p] = Applied(state[p], p, S)
      BY <2>1, <3>1
    <3>5. Applied(state[p], p, S) # Absent
      BY <3>1, <3>3, AppliedType
    <3>. DEFINE V == Strays
                W == Strays'
                A == astray
                s == state[p]
    <3>6. V \subseteq W /\ s \in Seq(Logs) /\ Faithful(s, p, cursor, V, A)
      BY <3>1, <3>2 DEF At
    <3>. HIDE DEF V, W, A, s
    <3>7. Faithful(Applied(s, p, S), p, fetch_block, W,
                   A \cup (Matching(Registered, topics, cursor + 1, fetch_block) \ S))
      BY <1>1, <1>5, <1>10, <3>6, AppliedCatchUp
    <3>. QED
      BY <2>1, <3>4, <3>5, <3>7 DEF s, W, A
  <2>3. \A p \in Pools : state[p] = Absent => state'[p] = Absent
    BY <2>1
  <2>4. Registered' = Registered
    BY <2>2, <2>3 DEF Registered
  <2>. QED
    BY <2>1, <2>2, <2>4
<1>11. CASE HttpCatchUp
  <2>1. /\ hpc = "catchup" /\ hpc' = "register"
        /\ UNCHANGED <<mode, topics, cursor, upc, srcTopics, listen, batch, todo, adding,
                       fetch_block>>
        /\ \/ /\ fetch_block > cursor /\ CatchUpRegistry(cursor + 1, fetch_block)
              /\ UNCHANGED mem
           \/ /\ fetch_block <= cursor /\ CatchUpMemory(fetch_block + 1, cursor)
              /\ UNCHANGED state
    BY <1>11 DEF HttpCatchUp, config, sourceVars, batchVars
  <2>2. /\ upc = "stopped" /\ upc' = "stopped" /\ upc' \notin Processing
        /\ \A p \in Registered : Level(p) = cursor
    BY <1>6, <2>1, LevelTypes
  <2>3. /\ InMemory = adding /\ InMemory' = adding /\ MemLevel = fetch_block
        /\ MemLevel' = Max({cursor, fetch_block})
        /\ \A p : Level(p)' = Max({cursor, fetch_block})
    BY <2>1, <2>2 DEF InMemory, MemLevel, Level, Processing
  <2>4. WholeInv'
    BY <2>2 DEF WholeInv
  <2>5. CASE /\ fetch_block > cursor /\ CatchUpRegistry(cursor + 1, fetch_block)
             /\ UNCHANGED mem
    <3>1. Max({cursor, fetch_block}) = fetch_block /\ cursor <= fetch_block
      BY <1>1, <2>5, MaxOfTwo
    <3>2. /\ Registered' = Registered /\ astray \subseteq astray'
          /\ \A p \in Registered : Faithful(state'[p], p, fetch_block, Strays', astray')
      BY <1>10, <2>1, <2>2, <2>5, <3>1
    <3>3. FiltersInv'
      BY <2>1, <3>2 DEF PoolsInv, FiltersInv
    <3>4. RegistryInv'
      BY <2>3, <3>1, <3>2 DEF RegistryInv, At
    <3>5. MemoryInv'
      BY <2>1, <2>3, <2>5, <3>1, <3>2, MemoryKept DEF PoolsInv
    <3>. QED
      BY <2>4, <3>3, <3>4, <3>5 DEF PoolsInv
  <2>6. CASE /\ fetch_block <= cursor /\ CatchUpMemory(fetch_block + 1, cursor)
             /\ UNCHANGED state
    <3>1. Max({cursor, fetch_block}) = cursor
      BY <1>1, <2>6, MaxOfTwo
    <3>2. PICK S \in Answers(adding, topics, fetch_block + 1, cursor) :
              /\ mem' = [p \in Pools |-> IF mem[p] = Absent THEN Absent
                                         ELSE Applied(mem[p], p, S)]
              /\ astray' = astray \cup (Matching(adding, topics, fetch_block + 1, cursor) \ S)
      BY <2>6 DEF CatchUpMemory
    <3>3. Registered' = Registered /\ Strays \subseteq Strays' /\ astray \subseteq astray'
      BY <2>1, <2>6, <3>2, StraysGrow DEF Registered
    <3>4. FiltersInv'
      BY <2>1, <3>3 DEF PoolsInv, FiltersInv
    <3>5. RegistryInv'
      <4>1. SUFFICES ASSUME NEW p \in Registered
                     PROVE  Faithful(state'[p], p, Level(p)', Strays', astray')
        BY <3>3 DEF RegistryInv, At
      <4>. QED
        BY <2>1, <2>2, <2>3, <2>6, <3>1, <3>3, PoolKept DEF PoolsInv
    <3>6. ASSUME NEW p \in adding PROVE Faithful(mem'[p], p, cursor, Strays', astray')
      <4>1. p \in Pools /\ mem[p] # Absent /\ mem[p] \in Seq(Logs)
        BY <1>1, <2>1 DEF ControlInv, HandleInv
      <4>2. mem'[p] = Applied(mem[p], p, S)
        BY <3>2, <4>1
      <4>3. At(mem[p], p, fetch_block)
        BY <2>3 DEF PoolsInv, MemoryInv
      <4>4. TypesKnown => TypeOf(p) \in topics
        BY <4>1 DEF PoolsInv, FiltersInv, AllTypes
      <4>. DEFINE V == Strays
                  W == Strays'
                  A == astray
                  s == mem[p]
      <4>5. V \subseteq W /\ s \in Seq(Logs) /\ Faithful(s, p, fetch_block, V, A)
        BY <3>3, <4>1, <4>3 DEF At
      <4>. HIDE DEF V, W, A, s
      <4>6. Faithful(Applied(s, p, S), p, cursor, W,
                     A \cup (Matching(adding, topics, fetch_block + 1, cursor) \ S))
        BY <1>1, <2>6, <4>4, <4>5, AppliedCatchUp
      <4>. QED
        BY <3>2, <4>2, <4>6 DEF s, W, A
    <3>7. MemoryInv'
      BY <2>3, <3>1, <3>6 DEF MemoryInv, At
    <3>. QED
      BY <2>4, <3>4, <3>5, <3>7 DEF PoolsInv
  <2>. QED
    BY <2>1, <2>5, <2>6
<1>12. CASE WsCatchUp
  <2>1. /\ hpc = "wscatchup" /\ hpc' = "wslisten" /\ CatchUpRegistry(cursor + 1, fetch_block)
        /\ UNCHANGED <<mode, topics, cursor, upc, srcTopics, listen, batch, todo, fetch_block>>
    BY <1>12 DEF WsCatchUp, config, sourceVars, batchVars
  <2>2. /\ upc = "stopped" /\ upc' = "stopped" /\ upc' \notin Processing
        /\ cursor <= fetch_block
        /\ \A p \in Registered : Level(p) = cursor
    BY <1>6, <2>1, LevelTypes DEF ControlInv, HandleInv
  <2>3. Max({cursor, fetch_block}) = fetch_block
    BY <1>1, <2>2, MaxOfTwo
  <2>4. /\ Registered' = Registered
        /\ \A p \in Registered : Faithful(state'[p], p, fetch_block, Strays', astray')
    BY <1>10, <2>1, <2>2
  <2>5. \A p : Level(p)' = fetch_block
    BY <2>1, <2>2, <2>3 DEF Level, Processing
  <2>6. FiltersInv' /\ WholeInv'
    BY <2>1, <2>2, <2>4 DEF PoolsInv, FiltersInv, WholeInv
  <2>7. RegistryInv' /\ MemoryInv'
    BY <2>1, <2>4, <2>5 DEF RegistryInv, At, MemoryInv, InMemory
  <2>. QED
    BY <2>6, <2>7 DEF PoolsInv
<1>13. CASE WsListen
  <2>1. /\ hpc = "wslisten" /\ hpc' = "wsfetch"
        /\ listen' = Listening(Registered \cup adding, topics)
        /\ UNCHANGED <<mode, state, topics, cursor, upc, srcTopics, batch, todo, astray, adding,
                       fetch_block, mem>>
    BY <1>13 DEF WsListen, config, registryVars, batchVars
  <2>2. /\ listen'.addresses = Registered \cup adding /\ listen'.topics = topics
        /\ Registered' = Registered /\ Strays' = Strays
    BY <2>1 DEF Registered, Strays, Listening
  <2>3. \A p : Level(p)' = Level(p)
    BY <2>1 DEF Level
  <2>4. FiltersInv'
    BY <2>1, <2>2 DEF PoolsInv, FiltersInv
  <2>5. WholeInv' /\ RegistryInv' /\ MemoryInv'
    BY <2>1, <2>2, <2>3 DEF PoolsInv, WholeInv, RegistryInv, At, MemoryInv, InMemory
  <2>. QED
    BY <2>4, <2>5 DEF PoolsInv
\* The updater starts again, with every pool at its new cursor.
<1>14. ASSUME NEW start \in Nat, Spawn(start, topics'), hpc' = "idle", upc = "stopped",
              UNCHANGED <<mode, listen>>, TypesKnown => topics' = AllTypes,
              TypesKnown /\ mode = "websocket" => Registered' \subseteq listen.addresses,
              \A p \in Registered' :
                  Faithful(state'[p], p, Max({cursor, start}), Strays', astray')
       PROVE  PoolsInv'
  <2>1. cursor' = Max({cursor, start}) /\ srcTopics' = topics' /\ upc' \in {"boot", "next"}
    BY <1>14 DEF Spawn
  <2>2. FiltersInv'
    BY <1>14, <2>1 DEF PoolsInv, FiltersInv
  <2>3. WholeInv' /\ MemoryInv'
    BY <1>14, <2>1 DEF WholeInv, Processing, MemoryInv, InMemory
  <2>4. \A p : Level(p)' = cursor'
    BY <1>14, <2>1 DEF Level, Processing
  <2>5. RegistryInv'
    BY <1>14, <2>1, <2>4 DEF RegistryInv, At
  <2>. QED
    BY <2>2, <2>3, <2>5 DEF PoolsInv
<1>15. ASSUME topics' = topics \cup {TypeOf(p) : p \in adding} PROVE TypesKnown => topics' = AllTypes
  BY <1>1, <1>15 DEF PoolsInv, FiltersInv, AllTypes
<1>16. CASE HttpRegister
  <2>. DEFINE start == Max({fetch_block, cursor})
  <2>1. /\ hpc = "register" /\ hpc' = "idle"
        /\ state' = [p \in Pools |-> IF p \in adding THEN mem[p] ELSE state[p]]
        /\ topics' = topics \cup {TypeOf(p) : p \in adding}
        /\ Spawn(start, topics')
        /\ UNCHANGED <<mode, listen, astray>>
    BY <1>16 DEF HttpRegister, Register, config
  <2>2. upc = "stopped" /\ mode # "websocket"
    BY <1>6, <2>1 DEF ControlInv, HandleInv
  <2>3. start \in Nat /\ Max({cursor, start}) = Max({cursor, fetch_block}) /\ cursor <= start
    <3>1. {fetch_block, cursor} = {cursor, fetch_block}
      OBVIOUS
    <3>2. start = Max({cursor, fetch_block})
      BY <3>1
    <3>3. start \in Nat /\ cursor <= start
      BY <1>1, MaxOfTwo
    <3>4. Max({cursor, start}) = start
      <4>. HIDE DEF start
      <4>. QED
        BY <1>1, <3>3, MaxOfTwo
    <3>. QED
      BY <3>2, <3>3, <3>4
  <2>4. ASSUME NEW p \in Registered'
        PROVE  Faithful(state'[p], p, Max({cursor, fetch_block}), Strays', astray')
    <3>0. Strays' = Strays /\ astray' = astray
      BY <2>1 DEF Strays
    <3>1. p \in Pools /\ state'[p] # Absent
      BY <2>4 DEF Registered
    <3>2. CASE p \in adding
      <4>1. InMemory = adding /\ MemLevel = Max({cursor, fetch_block})
        BY <2>1 DEF InMemory, MemLevel
      <4>2. state'[p] = mem[p]
        BY <2>1, <3>1, <3>2
      <4>. QED
        BY <3>0, <3>2, <4>1, <4>2 DEF PoolsInv, MemoryInv, At
    <3>3. CASE p \notin adding
      <4>1. state'[p] = state[p]
        BY <2>1, <3>1, <3>3
      <4>2. p \in Registered
        BY <3>1, <4>1 DEF Registered
      <4>3. Level(p) = Max({cursor, fetch_block})
        BY <2>1, <2>2, <4>2, LevelTypes
      <4>. QED
        BY <3>0, <4>1, <4>2, <4>3 DEF PoolsInv, RegistryInv, At
    <3>. QED
      BY <3>2, <3>3
  <2>. HIDE DEF start
  <2>. QED
    BY <1>14, <1>15, <2>1, <2>2, <2>3, <2>4
<1>17. ASSUME hpc = "wsfetch"
       PROVE  /\ upc = "stopped" /\ Max({cursor, fetch_block}) = fetch_block
              /\ \A p \in Registered : At(state[p], p, fetch_block)
              /\ TypesKnown => adding \subseteq listen.addresses
  <2>1. upc = "stopped" /\ cursor <= fetch_block
    BY <1>17 DEF ControlInv, HandleInv
  <2>2. Max({cursor, fetch_block}) = fetch_block
    BY <1>1, <2>1, MaxOfTwo
  <2>3. \A p \in Registered : Level(p) = fetch_block
    BY <1>17, <2>1, <2>2, LevelTypes
  <2>. QED
    BY <1>17, <2>1, <2>2, <2>3 DEF PoolsInv, RegistryInv, FiltersInv
<1>18. CASE WsFetchFails
  <2>1. /\ hpc = "wsfetch" /\ hpc' = "idle" /\ Spawn(fetch_block, topics)
        /\ UNCHANGED <<mode, listen, state, topics, astray>>
    BY <1>18 DEF WsFetchFails, config
  <2>2. Registered' = Registered /\ Strays' = Strays
    BY <2>1 DEF Registered, Strays
  <2>3. \A p \in Registered' :
            Faithful(state'[p], p, Max({cursor, fetch_block}), Strays', astray')
    BY <1>17, <2>1, <2>2 DEF At
  <2>4. /\ TypesKnown => topics' = AllTypes
        /\ TypesKnown /\ mode = "websocket" => Registered' \subseteq listen.addresses
    BY <2>1, <2>2 DEF PoolsInv, FiltersInv
  <2>. QED
    BY <1>1, <1>14, <1>17, <2>1, <2>3, <2>4
<1>19. CASE WsRegister
  <2>1. /\ hpc = "wsfetch" /\ hpc' = "idle"
        /\ state' = [p \in Pools |-> IF p \in adding THEN Replay!ChainState(p, fetch_block)
                                                     ELSE state[p]]
        /\ topics' = topics \cup {TypeOf(p) : p \in adding}
        /\ Spawn(fetch_block, topics')
        /\ UNCHANGED <<mode, listen, astray>>
    BY <1>19 DEF WsRegister, config
  <2>2. ASSUME NEW p \in Registered'
        PROVE  /\ Faithful(state'[p], p, fetch_block, Strays', astray')
               /\ p \in Registered \cup adding
    <3>0. Strays' = Strays /\ astray' = astray
      BY <2>1 DEF Strays
    <3>1. p \in Pools /\ state'[p] # Absent
      BY <2>2 DEF Registered
    <3>2. CASE p \in adding
      <4>1. state'[p] = Replay!ChainState(p, fetch_block)
        BY <2>1, <3>1, <3>2
      <4>. QED
        BY <1>1, <3>2, <4>1, ChainStateType
    <3>3. CASE p \notin adding
      <4>1. state'[p] = state[p]
        BY <2>1, <3>1, <3>3
      <4>2. p \in Registered
        BY <3>1, <4>1 DEF Registered
      <4>. QED
        BY <1>17, <2>1, <3>0, <4>1, <4>2 DEF At
    <3>. QED
      BY <3>2, <3>3
  <2>3. TypesKnown /\ mode = "websocket" => Registered' \subseteq listen.addresses
    BY <1>17, <2>1, <2>2 DEF PoolsInv, FiltersInv
  <2>. QED
    BY <1>1, <1>14, <1>15, <1>17, <2>1, <2>2, <2>3
<1>20. CASE RemovePool
  <2>1. /\ \E p \in Registered : state' = [state EXCEPT ![p] = Absent]
        /\ UNCHANGED <<mode, topics, cursor, upc, srcTopics, listen, batch, todo, astray, hpc,
                       adding, fetch_block, mem>>
    BY <1>20 DEF RemovePool, config, sourceVars, batchVars
  <2>2. \A p \in Registered' : p \in Registered /\ state'[p] = state[p]
    BY <1>1, <2>1 DEF Registered
  <2>3. /\ InMemory' = InMemory /\ MemLevel' = MemLevel /\ Strays' = Strays
        /\ \A p : Level(p)' = Level(p)
    BY <2>1 DEF InMemory, MemLevel, Level, Strays
  <2>4. FiltersInv'
    BY <2>1, <2>2 DEF PoolsInv, FiltersInv
  <2>5. WholeInv'
    BY <2>1, <2>2 DEF PoolsInv, WholeInv
  <2>6. RegistryInv' /\ MemoryInv'
    BY <2>1, <2>2, <2>3 DEF PoolsInv, RegistryInv, MemoryInv, At
  <2>. QED
    BY <2>4, <2>5, <2>6 DEF PoolsInv
<1>. QED
  BY <1>7, <1>8, <1>9, <1>11, <1>12, <1>13, <1>16, <1>18, <1>19, <1>20 DEF HandleStep
LEMMA ReplayInvInit == Init => ReplayInv
<1>1. SUFFICES ASSUME Init PROVE ReplayInv
  OBVIOUS
<1>2. ControlInv
  BY <1>1, ControlInit
<1>3. /\ state = [p \in Pools |-> IF p \in InitPools THEN Replay!ChainState(p, StartBlock)
                                                     ELSE Absent]
      /\ topics = {TypeOf(p) : p \in InitPools} /\ srcTopics = topics
      /\ listen.addresses = InitPools /\ listen.topics = topics
      /\ upc \in {"boot", "next"} /\ hpc = "idle" /\ cursor = StartBlock /\ StartBlock \in Nat
  BY <1>1, UpdaterAssumption DEF Init, UpdaterInit, Listening
<1>4. \A p \in Registered : p \in InitPools /\ state[p] = Replay!ChainState(p, StartBlock)
  BY <1>3 DEF Registered
<1>5. FiltersInv
  BY <1>3, <1>4 DEF FiltersInv, TypesKnown
<1>6. WholeInv /\ MemoryInv
  BY <1>3 DEF WholeInv, Processing, MemoryInv, InMemory
<1>7. \A p : Level(p) = StartBlock
  BY <1>3 DEF Level, Processing
<1>8. RegistryInv
  <2>1. SUFFICES ASSUME NEW p \in Registered
                 PROVE  Faithful(state[p], p, Level(p), Strays, astray)
    BY DEF RegistryInv, At
  <2>2. /\ state[p] = Replay!ChainState(p, StartBlock) /\ Level(p) = StartBlock
        /\ StartBlock \in Nat
    BY <1>3, <1>4, <1>7
  <2>. QED
    BY <2>2, ChainStateType
<1>. QED
  BY <1>2, <1>5, <1>6, <1>8 DEF ReplayInv, PoolsInv

LEMMA ReplayInvNext == ReplayInv /\ [Next]_vars => ReplayInv'
<1>1. SUFFICES ASSUME ControlInv, PoolsInv, [Next]_vars PROVE ReplayInv'
  BY DEF ReplayInv
<1>2. ControlInv'
  BY <1>1, ControlNext
<1>3. PoolsInv'
  <2>1. CASE (Running \/ DropReceiver) /\ UNCHANGED handleVars
    <3>1. CASE NextBatch
      BY <1>1, <1>2, <2>1, <3>1, SourceReplay
    <3>2. CASE Bootstrap
      BY <1>1, <1>2, <2>1, <3>2, BootReplay
    <3>3. CASE ~NextBatch /\ ~Bootstrap
      BY <1>1, <1>2, <2>1, <3>3, ProcessingReplay DEF Running, UpdaterStep
    <3>. QED
      BY <3>1, <3>2, <3>3
  <2>2. CASE HandleStep \/ Stop \/ DropHandle \/ AddPools \/ RemovePool
    BY <1>1, <1>2, <2>2, HandleReplay
  <2>3. CASE UNCHANGED vars
    <3>1. UNCHANGED <<mode, state, topics, cursor, srcTopics, listen, astray, hpc, adding,
                      fetch_block, mem, upc, batch, todo>>
      BY <2>3 DEF vars, updaterVars, handleVars, config, registryVars, sourceVars, batchVars
    <3>. QED
      BY <1>1, <1>2, <3>1, UpdaterKept
  <2>. QED
    BY <1>1, <2>1, <2>2, <2>3 DEF Next
<1>. QED
  BY <1>2, <1>3 DEF ReplayInv

LEMMA ReplayInvariant == Spec => []ReplayInv
BY ReplayInvInit, ReplayInvNext, PTL DEF Spec

----------------------------------------------------------------------------
(* The registry implements PoolReplay. *)

LEMMA PrefixOfSelf ==
    ASSUME NEW X, NEW s \in Seq(X)
    PROVE  IsPrefix(s, s)
BY DEF IsPrefix

\* What was astray stays so, and what the cursor is set back over is astray.
LEMMA SourcesMove ==
    ASSUME ControlInv, [Next]_vars
    PROVE  /\ mode' = mode /\ astray \subseteq astray'
           /\ \A l \in Logs : cursor' < Block(l) /\ Block(l) <= cursor =>
                  l \in astray' /\ mode = "websocket"
<1>1. cursor \in Nat /\ batch.through \in Nat /\ fetch_block \in Nat
  BY ControlTypes
<1>2. ASSUME cursor' \in Nat, cursor <= cursor'
      PROVE  \A l \in Logs : ~(cursor' < Block(l) /\ Block(l) <= cursor)
  BY <1>1, <1>2, LogsAreFinite
<1>3. CASE UNCHANGED <<mode, cursor, astray>>
  BY <1>1, <1>2, <1>3
<1>4. CASE (Running \/ DropReceiver) /\ UNCHANGED handleVars
  <2>1. CASE PendingPoll \/ PendingFetch \/ LatestPoll \/ SendSwap \/ ApplyPending \/ SendPending
             \/ AllApplied \/ UpdaterStops \/ BootstrapFails \/ Receive \/ DropReceiver \/ Mine
             \/ \E p \in Pools : ApplyPool(p)
    <3>1. UNCHANGED <<mode, cursor, astray>>
      BY <2>1 DEF PendingPoll, PendingFetch, YieldPending, LatestPoll, SendSwap, ApplyPending,
                  SendPending, AllApplied, UpdaterStops, BootstrapFails, Receive, DropReceiver, Mine,
                  ApplyPool, config, registryVars
    <3>. QED
      BY <1>3, <3>1
  <2>2. CASE PendingConfirmed \/ LatestBatch \/ WebsocketBatch
    <3>1. UNCHANGED <<mode, cursor>> /\ astray \subseteq astray'
      BY <2>2 DEF PendingConfirmed, LatestBatch, WebsocketBatch, YieldFetched, Yield, config,
                  registryVars
    <3>. QED
      BY <1>1, <1>2, <3>1
  <2>3. CASE FinishBatch
    <3>1. /\ upc \in {"send", "pending"} /\ UNCHANGED <<mode, astray>>
          /\ cursor' = IF batch.mode = "Pending" THEN cursor ELSE batch.through
      BY <2>3 DEF FinishBatch, config
    <3>2. cursor <= batch.through \/ batch.mode = "Pending"
      BY <3>1 DEF ControlInv, BatchInv, Processing, PendingPcs
    <3>. QED
      BY <1>1, <1>2, <3>1, <3>2
  <2>4. CASE Bootstrap
    <3>1. UNCHANGED mode /\ \E drained, tail : /\ astray \subseteq astray'
                                             /\ BootStrays(drained, tail) \subseteq astray'
                                             /\ cursor' = BootCursor(drained)
      BY <2>4 DEF Bootstrap, config
    <3>2. mode = "websocket"
      BY <2>4 DEF Bootstrap, ControlInv, BatchInv
    <3>. QED
      BY <3>1, <3>2 DEF BootStrays
  <2>. QED
    BY <1>4, <2>1, <2>2, <2>3, <2>4 DEF Running, UpdaterStep, NextBatch
<1>5. CASE HandleStep \/ Stop \/ DropHandle \/ AddPools \/ RemovePool
  <2>1. CASE Stop \/ DropHandle \/ StopReturns \/ AddPools \/ HttpFetched \/ HttpFetchFails
             \/ HttpJoined \/ WsJoined \/ WsListen \/ RemovePool
    <3>1. UNCHANGED <<mode, cursor, astray>>
      <4>1. ASSUME NEW next, SendCancel(next) PROVE UNCHANGED <<mode, cursor, astray>>
        BY <4>1 DEF SendCancel, config, registryVars
      <4>2. ASSUME UNCHANGED updaterVars PROVE UNCHANGED <<mode, cursor, astray>>
        BY <4>2 DEF updaterVars, config, registryVars
      <4>3. CASE AddPools
        <5>1. SendCancel("wsjoin") \/ UNCHANGED updaterVars
          BY <4>3 DEF AddPools
        <5>. QED
          BY <4>1, <4>2, <5>1
      <4>4. CASE WsListen \/ RemovePool
        BY <4>4 DEF WsListen, RemovePool, config, registryVars
      <4>5. CASE Stop \/ DropHandle \/ HttpFetched
        BY <4>1, <4>5 DEF Stop, DropHandle, HttpFetched
      <4>6. CASE StopReturns \/ HttpFetchFails \/ HttpJoined \/ WsJoined
        BY <4>2, <4>6 DEF StopReturns, HttpFetchFails, HttpJoined, WsJoined
      <4>. QED
        BY <2>1, <4>3, <4>4, <4>5, <4>6
    <3>. QED
      BY <1>3, <3>1
  <2>2. CASE HttpCatchUp \/ WsCatchUp
    <3>1. UNCHANGED <<mode, cursor>> /\ astray \subseteq astray'
      BY <2>2 DEF HttpCatchUp, WsCatchUp, CatchUpRegistry, CatchUpMemory, config
    <3>. QED
      BY <1>1, <1>2, <3>1
  <2>3. CASE HttpRegister \/ WsFetchFails \/ WsRegister
    <3>1. /\ UNCHANGED <<mode, astray>>
          /\ \E start \in {fetch_block, Max({fetch_block, cursor})} : cursor' = Max({cursor, start})
      BY <2>3 DEF HttpRegister, WsFetchFails, WsRegister, Spawn, config
    <3>2. Max({fetch_block, cursor}) \in Nat
      BY <1>1, MaxOfTwo
    <3>3. cursor' \in Nat /\ cursor <= cursor'
      BY <1>1, <3>1, <3>2, MaxOfTwo
    <3>. QED
      BY <1>2, <3>1, <3>3
  <2>. QED
    BY <1>5, <2>1, <2>2, <2>3 DEF HandleStep
<1>6. CASE UNCHANGED vars
  BY <1>3, <1>6 DEF vars, updaterVars, config, registryVars
<1>. QED
  BY <1>4, <1>5, <1>6 DEF Next

\* The pools of a call of add_pools are not registered until it ends.
NewInv == \A p \in adding : state[p] = Absent

\* A pool of the registry takes logs at its end, or goes; one appears only when
\* add_pools registers it.
Extended ==
    \A p \in Pools :
        /\ state[p] = Absent => state'[p] = Absent
        /\ state[p] # Absent => state'[p] = Absent \/ IsPrefix(state[p], state'[p])

LEMMA PoolsMove ==
    ASSUME ControlInv, PoolsInv, ControlInv', [Next]_vars
    PROVE  \/ adding' = {} /\ \A p \in Pools \ adding : state'[p] = state[p]
           \/ Extended /\ (adding' \subseteq adding \/ NewInv')
<1>1. /\ state \in [Pools -> Seq(Logs) \cup {Absent}] /\ Absent \notin Seq(Logs)
      /\ state' \in [Pools -> Seq(Logs) \cup {Absent}] /\ adding \subseteq Pools
      /\ \A p \in Pools : state[p] # Absent => state[p] \in Seq(Logs)
  BY ControlTypes DEF ControlInv, HandleTypeOK, TypeOK
<1>2. ASSUME state' = state PROVE Extended
  BY <1>1, <1>2, PrefixOfSelf DEF Extended
<1>3. ASSUME NEW from, NEW to, CatchUpRegistry(from, to) PROVE Extended
  <2>1. PICK S \in Answers(Registered, topics, from, to) :
            state' = [p \in Pools |-> IF state[p] = Absent THEN Absent ELSE Applied(state[p], p, S)]
    BY <1>3 DEF CatchUpRegistry
  <2>2. S \subseteq Logs
    BY AnswersMatch
  <2>3. ASSUME NEW p \in Pools, state[p] # Absent PROVE IsPrefix(state[p], state'[p])
    <3>. DEFINE T == {l \in S : PoolOf(l) = p}
                s == state[p]
    <3>1. T \subseteq Logs /\ s \in Seq(Logs)
      BY <1>1, <2>2, <2>3
    <3>2. state'[p] = s \o InOrder(T)
      BY <2>1, <2>3 DEF Applied
    <3>. HIDE DEF T, s
    <3>3. IsPrefix(s, s \o InOrder(T))
      BY <3>1, LogsInOrder, ConcatIsPrefix
    <3>. QED
      BY <3>2, <3>3 DEF s
  <2>. QED
    BY <2>1, <2>3 DEF Extended
<1>4. CASE (Running \/ DropReceiver) /\ UNCHANGED handleVars
  <2>1. adding' = adding
    BY <1>4 DEF handleVars
  <2>2. CASE NextBatch \/ SendSwap \/ ApplyPending \/ SendPending \/ AllApplied \/ UpdaterStops
             \/ BootstrapFails \/ FinishBatch \/ Receive \/ DropReceiver \/ Mine
    <3>1. state' = state
      BY <2>2 DEF NextBatch, PendingPoll, PendingConfirmed, PendingFetch, YieldPending, LatestPoll,
                  LatestBatch, WebsocketBatch, YieldFetched, Yield, SendSwap, ApplyPending,
                  SendPending, AllApplied, UpdaterStops, BootstrapFails, FinishBatch, Receive,
                  DropReceiver, Mine, registryVars
    <3>. QED
      BY <1>2, <2>1, <3>1
  <2>3. CASE \E p \in Pools : ApplyPool(p)
    <3>1. PICK p \in Pools : ApplyPool(p)
      BY <2>3
    <3>. DEFINE logs == OfPool(batch.logs, p)
                s == state[p]
    <3>2. CASE state[p] = Absent
      BY <1>2, <2>1, <3>1, <3>2 DEF ApplyPool
    <3>3. CASE state[p] # Absent
      <4>1. upc = "apply" /\ state' = [state EXCEPT ![p] = s \o logs]
        BY <3>1, <3>3 DEF ApplyPool
      <4>2. Increasing(batch.logs) /\ batch.logs \in Seq(Logs)
        BY <4>1, ControlTypes DEF ControlInv, BatchInv, Processing
      <4>3. logs \in Seq(Logs) /\ s \in Seq(Logs)
        BY <1>1, <3>3, <4>2, OfPoolInOrder
      <4>. HIDE DEF logs
      <4>4. \A q \in Pools : state'[q] = IF q = p THEN s \o logs ELSE state[q]
        BY <1>1, <4>1
      <4>. HIDE DEF s
      <4>5. s \o logs \in Seq(Logs) /\ IsPrefix(s, s \o logs)
        BY <4>3, ConcatToSet, ConcatIsPrefix
      <4>6. Extended
        BY <1>1, <3>3, <4>4, <4>5, PrefixOfSelf DEF Extended, s
      <4>. QED
        BY <2>1, <4>6
    <3>. QED
      BY <3>2, <3>3
  <2>4. CASE Bootstrap
    <3>1. /\ \A p \in Registered : IsPrefix(state[p], state'[p])
          /\ \A p \in Pools : state[p] = Absent => state'[p] = Absent
      BY <1>4, <2>4, BootReplay
    <3>2. Extended
      BY <3>1 DEF Extended, Registered
    <3>. QED
      BY <2>1, <3>2
  <2>. QED
    BY <1>4, <2>2, <2>3, <2>4 DEF Running, UpdaterStep
<1>5. CASE HandleStep \/ Stop \/ DropHandle \/ AddPools \/ RemovePool
  <2>1. ASSUME NEW next, SendCancel(next) PROVE state' = state
    BY <2>1 DEF SendCancel, registryVars
  <2>2. ASSUME UNCHANGED updaterVars PROVE state' = state
    BY <2>2 DEF updaterVars, registryVars
  <2>3. CASE AddPools
    <3>1. /\ SendCancel("wsjoin") \/ UNCHANGED updaterVars
          /\ \E requested \in SUBSET Pools : adding' = requested \ Registered
      BY <2>3 DEF AddPools
    <3>2. state' = state
      BY <2>1, <2>2, <3>1
    <3>3. NewInv'
      BY <3>1, <3>2 DEF NewInv, Registered
    <3>. QED
      BY <1>2, <3>2, <3>3
  <2>4. CASE Stop \/ DropHandle \/ HttpFetched
    <3>1. state' = state /\ adding' = adding
      BY <2>1, <2>4 DEF Stop, DropHandle, HttpFetched
    <3>. QED
      BY <1>2, <3>1
  <2>5. CASE StopReturns \/ HttpFetchFails \/ HttpJoined \/ WsJoined
    <3>1. state' = state /\ (adding' = adding \/ adding' = {})
      BY <2>2, <2>5 DEF StopReturns, HttpFetchFails, HttpJoined, WsJoined
    <3>. QED
      BY <1>2, <3>1
  <2>6. CASE WsListen \/ WsFetchFails
    <3>1. state' = state /\ (adding' = adding \/ adding' = {})
      BY <2>6 DEF WsListen, WsFetchFails, registryVars
    <3>. QED
      BY <1>2, <3>1
  <2>7. CASE HttpCatchUp \/ WsCatchUp
    <3>1. /\ adding' = adding
          /\ state' = state \/ \E from, to : CatchUpRegistry(from, to)
      BY <2>7 DEF HttpCatchUp, WsCatchUp
    <3>. QED
      BY <1>2, <1>3, <3>1
  <2>8. CASE HttpRegister \/ WsRegister
    <3>1. adding' = {} /\ \A p \in Pools \ adding : state'[p] = state[p]
      BY <2>8 DEF HttpRegister, WsRegister, Register
    <3>. QED
      BY <3>1
  <2>9. CASE RemovePool
    <3>1. /\ adding' = adding
          /\ \E p \in Registered : state' = [state EXCEPT ![p] = Absent]
      BY <2>9 DEF RemovePool
    <3>2. \A q \in Pools : state'[q] = state[q] \/ state'[q] = Absent
      BY <1>1, <3>1
    <3>3. Extended
      BY <1>1, <3>2, PrefixOfSelf DEF Extended
    <3>. QED
      BY <3>1, <3>3
  <2>. QED
    BY <1>5, <2>3, <2>4, <2>5, <2>6, <2>7, <2>8, <2>9 DEF HandleStep
<1>6. CASE UNCHANGED vars
  <2>1. state' = state /\ adding' = adding
    BY <1>6 DEF vars, updaterVars, registryVars, handleVars
  <2>. QED
    BY <1>2, <2>1
<1>. QED
  BY <1>4, <1>5, <1>6 DEF Next

LEMMA NewInvariant == Spec => []NewInv
<1>1. Init => NewInv
  BY DEF Init, NewInv
<1>2. ReplayInv /\ ReplayInv' /\ NewInv /\ [Next]_vars => NewInv'
  <2>1. SUFFICES ASSUME ReplayInv, ReplayInv', NewInv, [Next]_vars PROVE NewInv'
    OBVIOUS
  <2>2. adding \subseteq Pools
    BY <2>1 DEF ReplayInv, ControlInv, HandleTypeOK
  <2>3. CASE adding' = {}
    BY <2>3 DEF NewInv
  <2>4. CASE Extended /\ adding' \subseteq adding
    BY <2>1, <2>2, <2>4 DEF NewInv, Extended
  <2>. QED
    BY <2>1, <2>3, <2>4, PoolsMove DEF ReplayInv
<1>. QED
  BY <1>1, <1>2, ReplayInvariant, PTL DEF Spec

\* With complete filters a registered pool is the chain's, but for what is astray.
LEMMA ConsistentStates ==
    ASSUME TypesKnown, ReplayInv
    PROVE  StatesConsistent
<1>1. SUFFICES ASSUME NEW p \in Registered
               PROVE  Replay!OnChain(state[p], p) /\ Replay!Reaches(state[p], p, cursor)
  BY DEF StatesConsistent, Replay!Replayed, Registered
<1>. DEFINE s == state[p]
            b == Level(p)
<1>2. s \in Seq(Logs) /\ b \in Nat /\ cursor <= b /\ cursor \in Nat
  BY LevelTypes, ControlTypes DEF ReplayInv
<1>3. Ordered(s, p, b, Strays) /\ Complete(s, p, b, astray)
  BY DEF ReplayInv, PoolsInv, RegistryInv, At, Faithful
<1>4. Strays \subseteq astray
  BY DEF Strays
<1>. HIDE DEF s, b
<1>5. \A i \in DOMAIN s : s[i] \in Logs
  BY <1>2
<1>6. Replay!Reaches(s, p, cursor)
  <2>1. \A l \in Logs : Block(l) <= cursor => Block(l) <= b
    BY <1>2, LogsAreFinite
  <2>. QED
    BY <1>3, <2>1, ReplayOperators DEF Complete, Replay!Reaches
<1>7. ASSUME NEW i \in DOMAIN s, s[i] \notin astray, NEW l \in Logs \ astray, PoolOf(l) = p, l <= s[i]
      PROVE  l \in ToSet(s)
  <2>1. Block(s[i]) <= b /\ Block(l) <= Block(s[i])
    BY <1>3, <1>4, <1>5, <1>7, LogsAreFinite DEF Ordered
  <2>2. Block(l) <= b
    BY <1>2, <1>5, <2>1, LogsAreFinite
  <2>. QED
    BY <1>3, <1>7, <2>2 DEF Complete
<1>8. Replay!OnChain(s, p)
  BY <1>3, <1>4, <1>7, ReplayOperators DEF Ordered, Replay!OnChain
<1>. QED
  BY <1>6, <1>8 DEF s

\* Whatever the mode, and through stop, restart, add_pools and remove_pools in any
\* interleaving with the updater, the registry implements PoolReplay: of the logs
\* the sources bring as they should every pool holds a gapless prefix, each once
\* and in order, which only grows, and the cursor only moves to a block all of
\* them have reached. Answers may be short, and the websocket source may bring a
\* block in parts, late or again: such logs are astray, and no others are lost.
\* The pool types must be known from the start; the run add_new_type shows that
\* handle.rs loses logs without it.
THEOREM ImplementsReplayHolds ==
    ASSUME TypesKnown
    PROVE  Spec => ImplementsReplay
<1>1. Init => Replay!ReplayInit
  <2>1. SUFFICES ASSUME Init, NEW p \in Pools
                 PROVE  state[p] = Absent \/ state[p] = Replay!ChainState(p, cursor)
    BY DEF Replay!ReplayInit
  <2>. QED
    BY <2>1 DEF Init, UpdaterInit
<1>2. ReplayInv => StatesConsistent
  BY ConsistentStates
<1>3. ReplayInv /\ ReplayInv' /\ NewInv /\ StatesConsistent' /\ [Next]_vars
      => [Replay!ReplayNext]_<<state, cursor, astray>>
  <2>1. SUFFICES ASSUME ReplayInv, ReplayInv', NewInv, StatesConsistent', [Next]_vars
                 PROVE  Replay!ReplayNext
    OBVIOUS
  <2>2. /\ astray \subseteq astray'
        /\ \A l \in Logs : cursor' < Block(l) /\ Block(l) <= cursor => l \in astray'
    BY <2>1, SourcesMove DEF ReplayInv
  <2>3. ASSUME NEW p \in Pools PROVE Replay!Moves(p)
    <3>1. CASE p \in adding
      BY <2>1, <3>1 DEF NewInv, Replay!Moves
    <3>2. CASE p \notin adding /\ state'[p] = state[p]
      <4>1. state[p] # Absent => state[p] \in Seq(Logs)
        BY <2>1, ControlTypes DEF ReplayInv
      <4>. QED
        BY <3>2, <4>1, PrefixOfSelf, ReplayOperators DEF Replay!Moves
    <3>3. CASE Extended
      BY <3>3, ReplayOperators DEF Extended, Replay!Moves
    <3>. QED
      BY <2>1, <3>1, <3>2, <3>3, PoolsMove DEF ReplayInv
  <2>4. \A p \in Pools : Replay!Replayed(p)'
    BY <2>1 DEF StatesConsistent
  <2>. QED
    BY <2>2, <2>3, <2>4 DEF Replay!ReplayNext
<1>. QED
  BY <1>1, <1>2, <1>3, ReplayInvariant, NewInvariant, PTL
     DEF Spec, ImplementsReplay, Replay!ReplaySpec

LEMMA MaxOfThree ==
    ASSUME NEW a \in Nat, NEW b \in Nat, NEW c \in Nat
    PROVE  LET m == Max({a, b, c}) IN m \in Nat /\ a <= m /\ b <= m /\ c <= m
<1>1. \E x \in {a, b, c} : \A y \in {a, b, c} : x >= y
  OBVIOUS
<1>2. Max({a, b, c}) \in {a, b, c} /\ \A y \in {a, b, c} : Max({a, b, c}) >= y
  BY <1>1 DEF Max
<1>. QED
  BY <1>2

\* Logs of the pending block stay out of the registry, for any pools, types and
\* batch size (process_pending_events works on clones).
THEOREM PendingStaysSpeculativeHolds == Spec => []PendingStaysSpeculative
<1>1. ReplayInv => PendingStaysSpeculative
  <2>1. SUFFICES ASSUME ReplayInv, mode = "pending", NEW p \in Registered,
                        NEW l \in ToSet(state[p])
                 PROVE  Block(l) <= Max({cursor, batch.through, fetch_block})
    BY DEF PendingStaysSpeculative
  <2>. DEFINE m == Max({cursor, batch.through, fetch_block})
              s == state[p]
              b == Level(p)
  <2>2. cursor \in Nat /\ batch.through \in Nat /\ fetch_block \in Nat
    BY <2>1, ControlTypes DEF ReplayInv
  <2>3. m \in Nat /\ cursor <= m /\ batch.through <= m /\ fetch_block <= m
    BY <2>2, MaxOfThree
  <2>4. b \in {cursor, batch.through, fetch_block}
    <3>1. Max({cursor, fetch_block}) \in {cursor, fetch_block}
      BY <2>2, MaxOfTwo
    <3>2. b \in {cursor, batch.through, Max({cursor, fetch_block})}
      BY DEF Level, Processing
    <3>. QED
      BY <3>1, <3>2
  <2>5. Ordered(s, p, b, {}) /\ s \in Seq(Logs)
    <3>1. Strays = {}
      BY <2>1 DEF Strays
    <3>2. At(s, p, b)
      BY <2>1 DEF ReplayInv, PoolsInv, RegistryInv
    <3>. QED
      BY <2>1, <3>1, <3>2, LevelTypes DEF ReplayInv, At, Faithful
  <2>6. l \in ToSet(s)
    BY <2>1
  <2>. HIDE DEF m, s, b
  <2>7. PICK i \in DOMAIN s : s[i] = l
    BY <2>6 DEF ToSet
  <2>8. l \in Logs /\ Block(l) <= b
    BY <2>5, <2>7 DEF Ordered
  <2>9. Block(l) \in Nat
    BY <2>8, UpdaterAssumption
  <2>10. Block(l) <= m
    BY <2>2, <2>3, <2>4, <2>8, <2>9
  <2>. QED
    BY <2>10 DEF m
<1>. QED
  BY <1>1, ReplayInvariant, PTL

----------------------------------------------------------------------------
(* Swap events. *)

LEMMA SwapTypes ==
    ASSUME ControlInv
    PROVE  /\ \A i \in DOMAIN swaps : swaps[i][1] \in Logs /\ Block(swaps[i][1]) \in Nat
           /\ \A i \in DOMAIN outbox : outbox[i] \in Logs /\ Block(outbox[i]) \in Nat
           /\ DOMAIN swaps = 1..Len(swaps) /\ Len(swaps) \in Nat
           /\ swaps \in Seq(Logs \X {"confirmed", "pending"}) /\ outbox \in Seq(Logs)
<1>1. swaps \in Seq(Logs \X {"confirmed", "pending"}) /\ outbox \in Seq(Logs)
  BY DEF ControlInv, HandleTypeOK, TypeOK
<1>2. \A i \in DOMAIN swaps : swaps[i] \in Logs \X {"confirmed", "pending"}
  <2>. DEFINE E == Logs \X {"confirmed", "pending"}
  <2>1. swaps \in Seq(E)
    BY <1>1
  <2>. HIDE DEF E
  <2>2. \A i \in DOMAIN swaps : swaps[i] \in E
    BY <2>1
  <2>. QED
    BY <2>2 DEF E
<1>3. \A i \in DOMAIN outbox : outbox[i] \in Logs
  BY <1>1
<1>4. DOMAIN swaps = 1..Len(swaps) /\ Len(swaps) \in Nat
  <2>. DEFINE E == Logs \X {"confirmed", "pending"}
  <2>1. swaps \in Seq(E)
    BY <1>1
  <2>. HIDE DEF E
  <2>. QED
    BY <2>1
<1>. QED
  BY <1>1, <1>2, <1>3, <1>4, UpdaterAssumption

\* What the cursor is set back over is of no account to the swap events.
LEMMA StraysMove ==
    ASSUME ControlInv, [Next]_vars
    PROVE  /\ mode' = mode /\ Strays \subseteq Strays'
           /\ \A l \in Logs : cursor' < Block(l) /\ Block(l) <= cursor => l \in Strays'
BY SourcesMove DEF Strays

\* Steps that touch neither the channel nor the events of a confirmed batch.
LEMMA SwapsKept ==
    ASSUME ControlInv, SwapsInv, UNCHANGED swaps, cursor' \in Nat, Strays \subseteq Strays',
           \A l \in Logs : cursor' < Block(l) /\ Block(l) <= cursor => l \in Strays',
           \/ UNCHANGED <<upc, batch, todo, outbox, cursor>>
           \/ upc \notin Processing /\ upc' \notin Processing
    PROVE  SwapsInv'
<1>1. /\ \A i, j \in DOMAIN swaps :
             /\ i < j /\ swaps[i][2] = "confirmed" /\ swaps[j][2] = "confirmed"
             /\ PoolOf(swaps[i][1]) = PoolOf(swaps[j][1])
             /\ swaps[i][1] \notin Strays' /\ swaps[j][1] \notin Strays'
             => swaps[i][1] < swaps[j][1]
  BY DEF SwapsInv, OrderInv
<1>2. CASE UNCHANGED <<upc, batch, todo, outbox, cursor>>
  <2>1. ChannelInv'
    BY <1>2 DEF SwapsInv, ChannelInv, SentThrough
  <2>2. OutboxInv'
    BY <1>2 DEF SwapsInv, OutboxInv
  <2>3. upc \in Processing =>
            \A i \in DOMAIN swaps, j \in DOMAIN outbox :
                /\ swaps[i][2] = "confirmed" /\ PoolOf(swaps[i][1]) = PoolOf(outbox[j])
                /\ swaps[i][1] \notin Strays' /\ outbox[j] \notin Strays'
                => swaps[i][1] < outbox[j]
    BY DEF SwapsInv, OrderInv
  <2>4. OrderInv'
    BY <1>1, <1>2, <2>3 DEF SwapsInv, OrderInv
  <2>. QED
    BY <2>1, <2>2, <2>4 DEF SwapsInv
<1>3. CASE upc \notin Processing /\ upc' \notin Processing
  <2>1. SentThrough = cursor /\ SentThrough' = cursor' /\ cursor \in Nat
    BY <1>3, ControlTypes DEF SentThrough, Processing
  <2>2. ChannelInv'
    <3>1. SUFFICES ASSUME NEW i \in DOMAIN swaps, swaps[i][2] = "confirmed",
                          NEW l \in Logs \ Strays', Block(l) <= Block(swaps[i][1])
                   PROVE  Block(l) <= cursor'
      BY <2>1 DEF ChannelInv
    <3>2. Block(l) <= cursor
      BY <2>1, <3>1 DEF SwapsInv, ChannelInv
    <3>3. ~(cursor' < Block(l))
      BY <3>1, <3>2
    <3>. QED
      BY <3>1, <3>3, LogsAreFinite
  <2>3. OutboxInv' /\ OrderInv'
    BY <1>1, <1>3 DEF OutboxInv, OrderInv
  <2>. QED
    BY <2>2, <2>3 DEF SwapsInv
<1>. QED
  BY <1>2, <1>3

\* The channel loses its first event, or all of them.
LEMMA SwapsReceived ==
    ASSUME ControlInv, SwapsInv, UNCHANGED <<upc, batch, todo, outbox, cursor, mode, astray>>,
           swaps' = <<>> \/ (swaps # <<>> /\ swaps' = Tail(swaps))
    PROVE  SwapsInv'
<1>1. SentThrough' = SentThrough /\ Strays' = Strays
  BY DEF SentThrough, Strays
<1>2. CASE swaps' = <<>>
  BY <1>1, <1>2 DEF SwapsInv, ChannelInv, OutboxInv, OrderInv
<1>3. CASE swaps # <<>> /\ swaps' = Tail(swaps)
  <2>1. \A i \in DOMAIN swaps' : i \in Nat /\ i + 1 \in DOMAIN swaps /\ swaps'[i] = swaps[i + 1]
    <3>. DEFINE E == Logs \X {"confirmed", "pending"}
    <3>1. swaps \in Seq(E)
      BY SwapTypes
    <3>. HIDE DEF E
    <3>. QED
      BY <1>3, <3>1
  <2>2. \A i, j \in DOMAIN swaps' : i < j => i + 1 < j + 1
    BY <2>1
  <2>3. ChannelInv'
    BY <1>1, <2>1 DEF SwapsInv, ChannelInv
  <2>4. OutboxInv'
    BY DEF SwapsInv, OutboxInv
  <2>5. OrderInv'
    <3>1. ASSUME NEW i \in DOMAIN swaps', NEW j \in DOMAIN swaps', i < j,
                 swaps'[i][2] = "confirmed", swaps'[j][2] = "confirmed",
                 PoolOf(swaps'[i][1]) = PoolOf(swaps'[j][1]),
                 swaps'[i][1] \notin Strays, swaps'[j][1] \notin Strays
          PROVE  swaps'[i][1] < swaps'[j][1]
      <4>1. /\ i + 1 \in DOMAIN swaps /\ j + 1 \in DOMAIN swaps /\ i + 1 < j + 1
            /\ swaps'[i] = swaps[i + 1] /\ swaps'[j] = swaps[j + 1]
        BY <2>1, <2>2, <3>1
      <4>2. swaps[i + 1][1] < swaps[j + 1][1]
        BY <3>1, <4>1 DEF SwapsInv, OrderInv
      <4>. QED
        BY <4>1, <4>2
    <3>2. ASSUME upc \in Processing, NEW i \in DOMAIN swaps', NEW j \in DOMAIN outbox,
                 swaps'[i][2] = "confirmed", PoolOf(swaps'[i][1]) = PoolOf(outbox[j]),
                 swaps'[i][1] \notin Strays, outbox[j] \notin Strays
          PROVE  swaps'[i][1] < outbox[j]
      BY <2>1, <3>2 DEF SwapsInv, OrderInv
    <3>. QED
      BY <1>1, <3>1, <3>2 DEF SwapsInv, OrderInv
  <2>. QED
    BY <2>3, <2>4, <2>5 DEF SwapsInv
<1>. QED
  BY <1>2, <1>3

\* The channel keeps what it has, or takes an event behind it.
LEMMA SwapsSent ==
    ASSUME ControlInv, NEW l \in Logs, NEW kind \in {"confirmed", "pending"}, SendTo(l, kind)
    PROVE  \A i \in DOMAIN swaps' :
               \/ i \in DOMAIN swaps /\ swaps'[i] = swaps[i]
               \/ /\ swaps'[i] = <<l, kind>> /\ i \notin DOMAIN swaps
                  /\ \A j \in DOMAIN swaps' : j \in Nat /\ j <= i
<1>. DEFINE e == <<l, kind>>
            E == Logs \X {"confirmed", "pending"}
<1>1. e \in E /\ swaps \in Seq(E)
  BY SwapTypes
<1>2. swaps' = swaps \/ swaps' = Append(swaps, e)
  BY DEF SendTo
<1>. HIDE DEF e, E
<1>3. /\ DOMAIN swaps = 1..Len(swaps) /\ Len(swaps) \in Nat
      /\ DOMAIN Append(swaps, e) = 1..(Len(swaps) + 1)
      /\ \A i \in 1..Len(swaps) : Append(swaps, e)[i] = swaps[i]
      /\ Append(swaps, e)[Len(swaps) + 1] = e
  BY <1>1
<1>4. CASE swaps' = swaps
  BY <1>4
<1>5. CASE swaps' = Append(swaps, e)
  <2>1. SUFFICES ASSUME NEW i \in DOMAIN swaps'
                 PROVE  \/ i \in DOMAIN swaps /\ swaps'[i] = swaps[i]
                        \/ /\ swaps'[i] = e /\ i \notin DOMAIN swaps
                           /\ \A j \in DOMAIN swaps' : j \in Nat /\ j <= i
    BY DEF e
  <2>2. i \in 1..(Len(swaps) + 1)
    BY <1>3, <1>5, <2>1
  <2>3. CASE i \in 1..Len(swaps)
    BY <1>3, <1>5, <2>3
  <2>4. CASE i = Len(swaps) + 1
    BY <1>3, <1>5, <2>4
  <2>. QED
    BY <1>3, <2>2, <2>3, <2>4
<1>. QED
  BY <1>2, <1>4, <1>5

\* A pool's swap events join the batch's: no other event of it is among them.
LEMMA SwapsApplied ==
    ASSUME ControlInv, SwapsInv, NEW p \in Pools, ApplyPool(p)
    PROVE  SwapsInv'
<1>. DEFINE logs == OfPool(batch.logs, p)
            n == SwapsIn(logs)
<1>1. /\ upc = "apply" /\ p \in NextPools /\ todo' = todo \ {p}
      /\ UNCHANGED <<cursor, upc, batch, swaps, mode, astray>>
      /\ outbox' = outbox \/ outbox' = outbox \o n
  BY DEF ApplyPool, simVars, config
<1>2. p \in todo /\ upc \in Processing /\ upc' \in Processing
  BY <1>1 DEF NextPools, Processing
<1>3. /\ cursor \in Nat /\ batch.logs \in Seq(Logs) /\ Increasing(batch.logs)
      /\ \A l \in ToSet(batch.logs) : l \in Logs /\ (l \notin Strays => cursor < Block(l))
  <2>1. ToSet(batch.logs) \subseteq Logs
    BY ControlTypes, ConcatToSet
  <2>. QED
    BY <1>2, <2>1, ControlTypes DEF ControlInv, BatchInv
<1>4. /\ logs \in Seq(Logs) /\ Increasing(logs)
      /\ ToSet(logs) = {l \in ToSet(batch.logs) : PoolOf(l) = p}
  BY <1>3, OfPoolInOrder
<1>. HIDE DEF logs
<1>5. /\ n \in Seq(Logs) /\ Increasing(n)
      /\ \A k \in DOMAIN n : PoolOf(n[k]) = p /\ n[k] \in ToSet(batch.logs)
  <2>1. n \in Seq(Logs) /\ Increasing(n) /\ ToSet(n) \subseteq ToSet(logs)
    BY <1>4, SwapsInOrder
  <2>. HIDE DEF n
  <2>2. \A k \in DOMAIN n : n[k] \in ToSet(n)
    BY DEF ToSet
  <2>. QED
    BY <1>4, <2>1, <2>2
<1>. HIDE DEF n
<1>6. /\ \A i \in DOMAIN swaps : swaps[i][1] \in Logs /\ Block(swaps[i][1]) \in Nat
      /\ outbox \in Seq(Logs) /\ Strays' = Strays
  BY <1>1, SwapTypes DEF Strays
<1>7. \A i \in DOMAIN outbox : /\ outbox[i] \in ToSet(batch.logs)
                               /\ PoolOf(outbox[i]) \notin todo
  BY <1>2 DEF SwapsInv, OutboxInv
\* An event is an old one, or one of the pool's.
<1>8. \A i \in DOMAIN outbox' :
          \/ i \in DOMAIN outbox /\ outbox'[i] = outbox[i]
          \/ /\ i \in Nat /\ i > Len(outbox) /\ i - Len(outbox) \in DOMAIN n
             /\ outbox'[i] = n[i - Len(outbox)]
  <2>1. CASE outbox' = outbox
    BY <2>1
  <2>2. CASE outbox' = outbox \o n
    BY <1>5, <1>6, <2>2, ConcatAt
  <2>. QED
    BY <1>1, <2>1, <2>2
<1>9. DOMAIN outbox = 1..Len(outbox) /\ Len(outbox) \in Nat
  BY <1>6
<1>10. ChannelInv'
  BY <1>1, <1>6 DEF SwapsInv, ChannelInv, SentThrough
<1>11. OutboxInv'
  <2>1. \A i \in DOMAIN outbox' : /\ outbox'[i] \in ToSet(batch.logs)
                                  /\ PoolOf(outbox'[i]) \notin todo'
    BY <1>1, <1>5, <1>7, <1>8
  <2>. QED
    BY <1>1, <2>1 DEF OutboxInv
<1>12. ASSUME NEW i \in DOMAIN swaps, NEW j \in DOMAIN outbox',
              swaps[i][2] = "confirmed", swaps[i][1] \notin Strays, outbox'[j] \notin Strays
       PROVE  swaps[i][1] < outbox'[j]
  <2>1. Block(swaps[i][1]) <= cursor
    BY <1>1, <1>6, <1>12 DEF SwapsInv, ChannelInv, SentThrough
  <2>2. outbox'[j] \in Logs /\ cursor < Block(outbox'[j])
    BY <1>3, <1>5, <1>7, <1>8, <1>12
  <2>3. Block(swaps[i][1]) < Block(outbox'[j])
    <3>1. Block(outbox'[j]) \in Nat
      BY <2>2, LogsAreFinite
    <3>. QED
      BY <1>3, <1>6, <2>1, <2>2, <3>1
  <2>. QED
    BY <1>6, <2>2, <2>3, LogsAreFinite
<1>13. ASSUME NEW i \in DOMAIN outbox', NEW j \in DOMAIN outbox', i < j,
              PoolOf(outbox'[i]) = PoolOf(outbox'[j])
       PROVE  outbox'[i] < outbox'[j]
  <2>1. CASE i \in DOMAIN outbox /\ outbox'[i] = outbox[i]
    <3>1. CASE j \in DOMAIN outbox /\ outbox'[j] = outbox[j]
      BY <1>2, <1>13, <2>1, <3>1 DEF SwapsInv, OrderInv
    <3>2. CASE j - Len(outbox) \in DOMAIN n /\ outbox'[j] = n[j - Len(outbox)]
      BY <1>2, <1>5, <1>7, <1>13, <2>1, <3>2
    <3>. QED
      BY <1>8, <3>1, <3>2
  <2>2. CASE /\ i \in Nat /\ i > Len(outbox) /\ i - Len(outbox) \in DOMAIN n
             /\ outbox'[i] = n[i - Len(outbox)]
    <3>1. j \notin DOMAIN outbox
      BY <1>8, <1>9, <1>13, <2>2
    <3>2. /\ j \in Nat /\ j - Len(outbox) \in DOMAIN n /\ outbox'[j] = n[j - Len(outbox)]
      BY <1>8, <3>1
    <3>3. i - Len(outbox) < j - Len(outbox)
      BY <1>9, <1>13, <2>2, <3>2
    <3>4. n[i - Len(outbox)] < n[j - Len(outbox)]
      BY <1>5, <2>2, <3>2, <3>3 DEF Increasing
    <3>. QED
      BY <2>2, <3>2, <3>4
  <2>. QED
    BY <1>8, <2>1, <2>2
<1>14. OrderInv'
  BY <1>1, <1>6, <1>12, <1>13 DEF SwapsInv, OrderInv
<1>. QED
  BY <1>10, <1>11, <1>14 DEF SwapsInv

LEMMA SwapsUpdater ==
    ASSUME ControlInv, ControlInv', SwapsInv, mode' = mode, Strays \subseteq Strays',
           \A l \in Logs : cursor' < Block(l) /\ Block(l) <= cursor => l \in Strays',
           Running \/ DropReceiver
    PROVE  SwapsInv'
<1>1. cursor \in Nat /\ batch.through \in Nat
  BY ControlTypes
<1>2. cursor' \in Nat
  BY UpdaterAssumption DEF ControlInv, HandleTypeOK, TypeOK
<1>3. outbox \in Seq(Logs) /\ \A i \in DOMAIN swaps : Block(swaps[i][1]) \in Nat
  BY SwapTypes
<1>4. outbox # <<>> =>
          /\ Head(outbox) \in Logs /\ 1 \in DOMAIN outbox /\ Head(outbox) = outbox[1]
          /\ \A i \in DOMAIN Tail(outbox) : /\ i \in Nat /\ i + 1 \in DOMAIN outbox /\ 1 < i + 1
                                            /\ Tail(outbox)[i] = outbox[i + 1]
  BY <1>3
<1>5. CASE Mine \/ PendingPoll \/ LatestPoll
  <2>1. UNCHANGED <<swaps, upc, batch, todo, outbox, cursor>>
    BY <1>5 DEF Mine, PendingPoll, LatestPoll, simVars, batchVars, registryVars
  <2>. QED
    BY <1>2, <2>1, SwapsKept
<1>6. CASE PendingFetch \/ ApplyPending \/ UpdaterStops \/ Bootstrap \/ BootstrapFails
  <2>1. /\ UNCHANGED swaps /\ upc \notin Processing /\ upc' \notin Processing
    BY <1>6 DEF PendingFetch, ApplyPending, UpdaterStops, Bootstrap, BootstrapFails, InNextBatch,
                YieldPending, simVars, Processing
  <2>. QED
    BY <1>2, <2>1, SwapsKept
<1>7. CASE PendingConfirmed \/ LatestBatch \/ WebsocketBatch
  <2>1. upc = "next" /\ upc' = "apply" /\ UNCHANGED <<cursor, outbox, swaps>>
    BY <1>7 DEF PendingConfirmed, LatestBatch, WebsocketBatch, YieldFetched, InNextBatch, Yield,
                registryVars, simVars
  <2>2. outbox = <<>>
    BY <2>1 DEF ControlInv, BatchInv
  <2>3. SentThrough' = SentThrough
    BY <2>1 DEF SentThrough
  <2>4. ChannelInv'
    BY <2>1, <2>3 DEF SwapsInv, ChannelInv
  <2>5. OutboxInv'
    BY <2>1, <2>2 DEF OutboxInv
  <2>6. OrderInv'
    BY <2>1, <2>2 DEF SwapsInv, OrderInv
  <2>. QED
    BY <2>4, <2>5, <2>6 DEF SwapsInv
<1>8. CASE AllApplied
  <2>1. /\ upc = "apply" /\ upc' = "send"
        /\ UNCHANGED <<cursor, batch, todo, outbox, swaps, mode, astray>>
    BY <1>8 DEF AllApplied, config, registryVars, batchVars, simVars
  <2>2. cursor <= batch.through
    BY <2>1 DEF ControlInv, BatchInv, Processing
  <2>3. SentThrough = cursor /\ SentThrough' = batch.through /\ Strays' = Strays
    BY <2>1 DEF SentThrough, Strays
  <2>4. ChannelInv'
    BY <1>1, <2>1, <2>2, <2>3, LogsAreFinite DEF SwapsInv, ChannelInv
  <2>5. OutboxInv' /\ OrderInv'
    BY <2>1, <2>3 DEF SwapsInv, OutboxInv, OrderInv, Processing
  <2>. QED
    BY <2>4, <2>5 DEF SwapsInv
<1>9. CASE SendSwap
  <2>. DEFINE l == Head(outbox)
  <2>1. /\ upc = "send" /\ outbox # <<>> /\ SendTo(l, "confirmed") /\ outbox' = Tail(outbox)
        /\ UNCHANGED <<cursor, upc, batch, todo, mode, astray>>
    BY <1>9 DEF SendSwap, config, registryVars
  <2>2. upc \in Processing /\ upc' \in Processing /\ Strays' = Strays
    BY <2>1 DEF Processing, Strays
  <2>3. l \in Logs /\ l = outbox[1] /\ 1 \in DOMAIN outbox
    BY <1>4, <2>1
  <2>. HIDE DEF l
  <2>4. \A i \in DOMAIN swaps' :
            \/ i \in DOMAIN swaps /\ swaps'[i] = swaps[i]
            \/ /\ swaps'[i] = <<l, "confirmed">> /\ i \notin DOMAIN swaps
               /\ \A j \in DOMAIN swaps' : j \in Nat /\ j <= i
    BY <2>1, <2>3, SwapsSent
  <2>5. \A i \in DOMAIN outbox' : /\ i \in Nat /\ i + 1 \in DOMAIN outbox /\ 1 < i + 1
                                  /\ outbox'[i] = outbox[i + 1]
    BY <1>4, <2>1
  <2>6. ChannelInv'
    <3>1. SentThrough = batch.through /\ SentThrough' = batch.through
      BY <2>1 DEF SentThrough
    <3>2. Block(l) <= batch.through
      BY <2>2, <2>3 DEF SwapsInv, OutboxInv, ControlInv, BatchInv
    <3>3. ASSUME NEW i \in DOMAIN swaps', swaps'[i][2] = "confirmed",
                 NEW m \in Logs \ Strays, Block(m) <= Block(swaps'[i][1])
          PROVE  Block(m) <= batch.through
      <4>1. CASE i \in DOMAIN swaps /\ swaps'[i] = swaps[i]
        BY <3>1, <3>3, <4>1 DEF SwapsInv, ChannelInv
      <4>2. CASE swaps'[i] = <<l, "confirmed">>
        <5>1. Block(m) \in Nat /\ Block(l) \in Nat /\ Block(m) <= Block(l)
          BY <2>3, <3>3, <4>2, LogsAreFinite
        <5>. QED
          BY <1>1, <3>2, <5>1
      <4>. QED
        BY <2>4, <4>1, <4>2
    <3>. QED
      BY <2>2, <3>1, <3>3 DEF ChannelInv
  <2>7. OutboxInv'
    BY <2>1, <2>2, <2>5 DEF SwapsInv, OutboxInv
  <2>8. ASSUME NEW i \in DOMAIN swaps', NEW j \in DOMAIN swaps', i < j,
               swaps'[i][2] = "confirmed", swaps'[j][2] = "confirmed",
               PoolOf(swaps'[i][1]) = PoolOf(swaps'[j][1]),
               swaps'[i][1] \notin Strays, swaps'[j][1] \notin Strays
        PROVE  swaps'[i][1] < swaps'[j][1]
    <3>1. i \in DOMAIN swaps /\ swaps'[i] = swaps[i]
      BY <2>4, <2>8
    <3>2. CASE j \in DOMAIN swaps /\ swaps'[j] = swaps[j]
      BY <2>8, <3>1, <3>2 DEF SwapsInv, OrderInv
    <3>3. CASE swaps'[j] = <<l, "confirmed">>
      <4>1. swaps'[j][1] = outbox[1]
        BY <2>3, <3>3
      <4>2. /\ swaps[i][2] = "confirmed" /\ PoolOf(swaps[i][1]) = PoolOf(outbox[1])
            /\ swaps[i][1] \notin Strays /\ outbox[1] \notin Strays
        BY <2>8, <3>1, <4>1
      <4>3. swaps[i][1] < outbox[1]
        BY <2>2, <2>3, <3>1, <4>2 DEF SwapsInv, OrderInv
      <4>. QED
        BY <3>1, <4>1, <4>3
    <3>. QED
      BY <2>4, <3>2, <3>3
  <2>9. ASSUME NEW i \in DOMAIN swaps', NEW j \in DOMAIN outbox',
               swaps'[i][2] = "confirmed", PoolOf(swaps'[i][1]) = PoolOf(outbox'[j]),
               swaps'[i][1] \notin Strays, outbox'[j] \notin Strays
        PROVE  swaps'[i][1] < outbox'[j]
    <3>1. j + 1 \in DOMAIN outbox /\ 1 < j + 1 /\ outbox'[j] = outbox[j + 1]
      BY <2>5
    <3>2. CASE i \in DOMAIN swaps /\ swaps'[i] = swaps[i]
      <4>1. swaps[i][1] < outbox[j + 1]
        BY <2>2, <2>9, <3>1, <3>2 DEF SwapsInv, OrderInv
      <4>. QED
        BY <3>1, <3>2, <4>1
    <3>3. CASE swaps'[i] = <<l, "confirmed">>
      <4>1. swaps'[i][1] = outbox[1] /\ PoolOf(outbox[1]) = PoolOf(outbox[j + 1])
        BY <2>3, <2>9, <3>1, <3>3
      <4>2. outbox[1] < outbox[j + 1]
        BY <2>2, <2>3, <3>1, <4>1 DEF SwapsInv, OrderInv
      <4>. QED
        BY <3>1, <4>1, <4>2
    <3>. QED
      BY <2>4, <3>2, <3>3
  <2>10. ASSUME NEW i \in DOMAIN outbox', NEW j \in DOMAIN outbox', i < j,
                PoolOf(outbox'[i]) = PoolOf(outbox'[j])
         PROVE  outbox'[i] < outbox'[j]
    <3>1. /\ i + 1 \in DOMAIN outbox /\ outbox'[i] = outbox[i + 1]
          /\ j + 1 \in DOMAIN outbox /\ outbox'[j] = outbox[j + 1] /\ i + 1 < j + 1
      BY <2>5, <2>10
    <3>2. outbox[i + 1] < outbox[j + 1]
      BY <2>2, <2>10, <3>1 DEF SwapsInv, OrderInv
    <3>. QED
      BY <3>1, <3>2
  <2>11. OrderInv'
    BY <2>2, <2>8, <2>9, <2>10 DEF OrderInv
  <2>. QED
    BY <2>6, <2>7, <2>11 DEF SwapsInv
<1>10. CASE SendPending
  <2>. DEFINE l == Head(outbox)
  <2>1. /\ upc = "pendsend" /\ upc' = "pending" /\ SendTo(l, "pending")
        /\ UNCHANGED <<cursor, mode, astray>>
    BY <1>10 DEF SendPending, config, registryVars
  <2>2. l \in Logs
    BY <1>4, <2>1 DEF ControlInv, BatchInv
  <2>. HIDE DEF l
  <2>3. \A i \in DOMAIN swaps' :
            \/ i \in DOMAIN swaps /\ swaps'[i] = swaps[i]
            \/ swaps'[i] = <<l, "pending">>
    BY <2>1, <2>2, SwapsSent
  <2>4. \A i \in DOMAIN swaps' : swaps'[i][2] = "confirmed" => i \in DOMAIN swaps /\ swaps'[i] = swaps[i]
    BY <2>3
  <2>5. SentThrough' = SentThrough /\ Strays' = Strays
    BY <2>1 DEF SentThrough, Strays
  <2>6. ChannelInv'
    BY <2>4, <2>5 DEF SwapsInv, ChannelInv
  <2>7. OutboxInv'
    BY <2>1 DEF OutboxInv, Processing
  <2>8. OrderInv'
    BY <2>1, <2>4, <2>5 DEF SwapsInv, OrderInv, Processing
  <2>. QED
    BY <2>6, <2>7, <2>8 DEF SwapsInv
<1>11. CASE FinishBatch
  <2>1. /\ upc \in {"send", "pending"} /\ upc' = "next"
        /\ cursor' = IF batch.mode = "Pending" THEN cursor ELSE batch.through
        /\ UNCHANGED <<swaps, mode, astray>>
    BY <1>11 DEF FinishBatch, simVars, config
  <2>2. SentThrough' = cursor' /\ SentThrough = cursor' /\ Strays' = Strays
    BY <2>1 DEF SentThrough, Strays, ControlInv, BatchInv, Processing, PendingPcs
  <2>3. ChannelInv'
    BY <2>1, <2>2 DEF SwapsInv, ChannelInv
  <2>4. OutboxInv' /\ OrderInv'
    BY <2>1, <2>2 DEF SwapsInv, OutboxInv, OrderInv, Processing
  <2>. QED
    BY <2>3, <2>4 DEF SwapsInv
<1>12. CASE Receive \/ DropReceiver
  <2>1. /\ UNCHANGED <<upc, batch, todo, outbox, cursor, mode, astray>>
        /\ swaps' = <<>> \/ (swaps # <<>> /\ swaps' = Tail(swaps))
    BY <1>12 DEF Receive, DropReceiver, config, registryVars, batchVars
  <2>. QED
    BY <2>1, SwapsReceived
<1>13. CASE \E p \in Pools : ApplyPool(p)
  BY <1>13, SwapsApplied
<1>. QED
  BY <1>5, <1>6, <1>7, <1>8, <1>9, <1>10, <1>11, <1>12, <1>13 DEF Running, UpdaterStep, NextBatch

\* The handle touches no batch; it only starts an updater where one has stopped.
LEMMA HandleLeavesBatch ==
    ASSUME ControlInv, HandleStep \/ Stop \/ DropHandle \/ AddPools \/ RemovePool
    PROVE  /\ UNCHANGED <<swaps, outbox, modified, batch, todo>>
           /\ UNCHANGED <<upc, cursor>> \/ (upc = "stopped" /\ upc' \in {"boot", "next"})
<1>1. ASSUME UNCHANGED updaterVars
      PROVE  UNCHANGED <<swaps, outbox, modified, batch, todo, upc, cursor>>
  BY <1>1 DEF updaterVars, registryVars, batchVars, simVars
<1>2. ASSUME NEW next, SendCancel(next)
      PROVE  UNCHANGED <<swaps, outbox, modified, batch, todo, upc, cursor>>
  BY <1>2 DEF SendCancel, registryVars, batchVars, simVars
<1>3. CASE Stop \/ DropHandle \/ HttpFetched
  BY <1>2, <1>3 DEF Stop, DropHandle, HttpFetched
<1>4. CASE StopReturns \/ HttpFetchFails \/ HttpJoined \/ WsJoined
  BY <1>1, <1>4 DEF StopReturns, HttpFetchFails, HttpJoined, WsJoined
<1>5. CASE AddPools
  <2>1. (SendCancel("wsjoin")) \/ UNCHANGED updaterVars
    BY <1>5 DEF AddPools
  <2>. QED
    BY <1>1, <1>2, <2>1
<1>6. CASE HttpCatchUp \/ WsCatchUp \/ WsListen \/ RemovePool
  BY <1>6 DEF HttpCatchUp, WsCatchUp, WsListen, RemovePool, registryVars, batchVars, simVars
<1>7. CASE HttpRegister \/ WsFetchFails \/ WsRegister
  <2>1. hpc \in {"register", "wsfetch"} /\ upc' \in {"boot", "next"}
    BY <1>7 DEF HttpRegister, WsFetchFails, WsRegister, Spawn
  <2>2. upc = "stopped"
    BY <2>1 DEF ControlInv, HandleInv
  <2>3. UNCHANGED <<swaps, outbox, modified, batch, todo>>
    BY <1>7 DEF HttpRegister, WsFetchFails, WsRegister, batchVars, simVars
  <2>. QED
    BY <2>1, <2>2, <2>3
<1>. QED
  BY <1>3, <1>4, <1>5, <1>6, <1>7 DEF HandleStep

LEMMA SwapsInit == Init => SwapsInv
BY DEF Init, UpdaterInit, SwapsInv, ChannelInv, OutboxInv, OrderInv, Processing

LEMMA SwapsNext == ControlInv /\ ControlInv' /\ SwapsInv /\ [Next]_vars => SwapsInv'
<1>1. SUFFICES ASSUME ControlInv, ControlInv', SwapsInv, [Next]_vars PROVE SwapsInv'
  OBVIOUS
<1>2. /\ mode' = mode /\ Strays \subseteq Strays'
      /\ \A l \in Logs : cursor' < Block(l) /\ Block(l) <= cursor => l \in Strays'
  BY <1>1, StraysMove
<1>3. cursor' \in Nat
  BY <1>1, UpdaterAssumption DEF ControlInv, HandleTypeOK, TypeOK
<1>4. CASE (Running \/ DropReceiver) /\ UNCHANGED handleVars
  BY <1>1, <1>2, <1>4, SwapsUpdater
<1>5. CASE HandleStep \/ Stop \/ DropHandle \/ AddPools \/ RemovePool
  <2>1. /\ UNCHANGED <<swaps, outbox, batch, todo>>
        /\ UNCHANGED <<upc, cursor>> \/ (upc = "stopped" /\ upc' \in {"boot", "next"})
    BY <1>1, <1>5, HandleLeavesBatch
  <2>2. \/ UNCHANGED <<upc, batch, todo, outbox, cursor>>
        \/ upc \notin Processing /\ upc' \notin Processing
    BY <2>1 DEF Processing
  <2>. QED
    BY <1>1, <1>2, <1>3, <2>1, <2>2, SwapsKept
<1>6. CASE UNCHANGED vars
  <2>1. UNCHANGED <<swaps, upc, batch, todo, outbox, cursor>>
    BY <1>6 DEF vars, updaterVars, registryVars, batchVars, simVars
  <2>. QED
    BY <1>1, <1>2, <1>3, <2>1, SwapsKept
<1>. QED
  BY <1>1, <1>4, <1>5, <1>6 DEF Next

LEMMA SwapsInvariant == Spec => []SwapsInv
BY SwapsInit, SwapsNext, ControlInit, ControlNext, PTL DEF Spec

\* A confirmed swap event in the channel finds every registered pool with all that
\* the sources brought through its block, whatever the interleaving with the
\* simulator, the handle and the chain (process_confirmed_events applies all logs
\* before it sends).
THEOREM SimulatorSeesBatchHolds ==
    ASSUME TypesKnown
    PROVE  Spec => []SimulatorSeesBatch
<1>1. ReplayInv /\ SwapsInv => SimulatorSeesBatch
  <2>1. SUFFICES ASSUME ReplayInv, SwapsInv, NEW i \in DOMAIN swaps, swaps[i][2] = "confirmed",
                        NEW p \in Registered, NEW l \in Logs \ astray, PoolOf(l) = p,
                        Block(l) <= Block(swaps[i][1])
                 PROVE  l \in ToSet(state[p])
    BY ReplayOperators DEF SimulatorSeesBatch, Replay!Reaches
  <2>2. l \in Logs \ Strays
    BY <2>1 DEF Strays
  <2>3. Block(l) <= SentThrough
    BY <2>1, <2>2 DEF SwapsInv, ChannelInv
  <2>4. Level(p) \in Nat /\ SentThrough <= Level(p) /\ SentThrough \in Nat
    <3>1. /\ Level(p) \in Nat /\ cursor <= Level(p) /\ cursor \in Nat
          /\ upc = "send" => Level(p) = batch.through
      BY <2>1, LevelTypes, ControlTypes DEF ReplayInv
    <3>. QED
      BY <3>1 DEF SentThrough
  <2>5. Block(l) <= Level(p)
    BY <2>3, <2>4, LogsAreFinite
  <2>. QED
    BY <2>1, <2>5 DEF ReplayInv, PoolsInv, RegistryInv, At, Faithful, Complete
<1>. QED
  BY <1>1, ReplayInvariant, SwapsInvariant, PTL

\* Swap events of one pool are in chain order and each there once, in the channel
\* and behind it, for every mode, across batches and restarts, also when a filter
\* misses logs (event_processor.rs groups events by pool); of the websocket feeds'
\* logs those that did not come late, out of order or again.
THEOREM SwapsInPoolOrderHolds == Spec => []SwapsInPoolOrder
<1>1. ControlInv /\ SwapsInv => SwapsInPoolOrder
  <2>1. SUFFICES ASSUME ControlInv, SwapsInv PROVE SwapsInPoolOrder
    OBVIOUS
  <2>. DEFINE rest == IF batch.mode = "Pending" THEN <<>> ELSE outbox
              t == [i \in DOMAIN rest |-> <<rest[i], "confirmed">>]
              all == swaps \o t
              E == Logs \X {"confirmed", "pending"}
  <2>2. swaps \in Seq(E) /\ outbox \in Seq(Logs)
    BY <2>1, SwapTypes
  <2>3. /\ rest \in Seq(Logs)
        /\ \A i \in DOMAIN rest : upc \in Processing /\ i \in DOMAIN outbox /\ rest[i] = outbox[i]
    <3>1. upc \in {"boot", "next", "apply", "send", "pending", "pendsend", "stopped"}
      BY <2>1 DEF ControlInv, HandleTypeOK, TypeOK
    <3>2. CASE upc \in Processing
      BY <2>1, <2>2, <3>2 DEF ControlInv, BatchInv
    <3>3. CASE upc \notin Processing
      <4>1. rest = <<>>
        BY <2>1, <3>1, <3>3 DEF ControlInv, BatchInv, Processing, PendingPcs
      <4>. HIDE DEF rest
      <4>. QED
        BY <4>1
    <3>. QED
      BY <3>2, <3>3
  <2>4. t \in Seq(E) /\ DOMAIN t = DOMAIN rest /\ \A i \in DOMAIN t : t[i][1] = rest[i]
    <3>. HIDE DEF rest
    <3>1. /\ DOMAIN rest = 1..Len(rest) /\ Len(rest) \in Nat
          /\ \A i \in DOMAIN rest : <<rest[i], "confirmed">> \in E
      BY <2>3
    <3>2. t \in [1..Len(rest) -> E]
      BY <3>1
    <3>3. t \in Seq(E)
      <4>. HIDE DEF t, E
      <4>. QED
        BY <3>1, <3>2
    <3>. QED
      BY <3>3
  <2>5. SwapsInPoolOrder <=>
            \A i, j \in DOMAIN all :
                /\ i < j /\ all[i][2] = "confirmed" /\ all[j][2] = "confirmed"
                /\ PoolOf(all[i][1]) = PoolOf(all[j][1])
                /\ all[i][1] \notin Strays /\ all[j][1] \notin Strays
                => all[i][1] < all[j][1]
    <3>1. \A l : Orderly(l) <=> l \notin Strays
      BY DEF Orderly, Strays
    <3>. QED
      BY <3>1 DEF SwapsInPoolOrder
  <2>. HIDE DEF rest, t, E
  <2>6. \A i \in DOMAIN all :
            \/ i \in DOMAIN swaps /\ all[i] = swaps[i]
            \/ /\ i \in Nat /\ i > Len(swaps) /\ i - Len(swaps) \in DOMAIN t
               /\ all[i] = t[i - Len(swaps)]
    BY <2>2, <2>4, ConcatAt
  <2>. HIDE DEF all
  <2>7. ASSUME NEW i \in DOMAIN all, NEW j \in DOMAIN all, i < j,
               all[i][2] = "confirmed", all[j][2] = "confirmed",
               PoolOf(all[i][1]) = PoolOf(all[j][1]),
               all[i][1] \notin Strays, all[j][1] \notin Strays
        PROVE  all[i][1] < all[j][1]
    <3>1. DOMAIN swaps = 1..Len(swaps) /\ Len(swaps) \in Nat
      BY <2>1, SwapTypes
    <3>2. CASE i \in DOMAIN swaps /\ all[i] = swaps[i] /\ j \in DOMAIN swaps /\ all[j] = swaps[j]
      BY <2>1, <2>7, <3>2 DEF SwapsInv, OrderInv
    <3>3. CASE /\ i \in DOMAIN swaps /\ all[i] = swaps[i]
               /\ j - Len(swaps) \in DOMAIN t /\ all[j] = t[j - Len(swaps)]
      <4>. DEFINE k == j - Len(swaps)
      <4>1. k \in DOMAIN outbox /\ all[j][1] = outbox[k] /\ upc \in Processing
        BY <2>3, <2>4, <3>3
      <4>. HIDE DEF k
      <4>2. swaps[i][1] < outbox[k]
        BY <2>1, <2>7, <3>3, <4>1 DEF SwapsInv, OrderInv
      <4>. QED
        BY <3>3, <4>1, <4>2
    <3>4. CASE /\ i > Len(swaps) /\ i - Len(swaps) \in DOMAIN t /\ all[i] = t[i - Len(swaps)] /\ i \in Nat
      <4>1. j \notin DOMAIN swaps
        BY <2>6, <2>7, <3>1, <3>4
      <4>2. j \in Nat /\ j - Len(swaps) \in DOMAIN t /\ all[j] = t[j - Len(swaps)]
        BY <2>6, <4>1
      <4>. DEFINE k == i - Len(swaps)
                  m == j - Len(swaps)
      <4>3. k < m
        BY <2>7, <3>1, <3>4, <4>2
      <4>4. /\ k \in DOMAIN outbox /\ all[i][1] = outbox[k] /\ upc \in Processing
            /\ m \in DOMAIN outbox /\ all[j][1] = outbox[m]
        BY <2>3, <2>4, <3>4, <4>2
      <4>. HIDE DEF k, m
      <4>5. outbox[k] < outbox[m]
        BY <2>1, <2>7, <4>3, <4>4 DEF SwapsInv, OrderInv
      <4>. QED
        BY <4>4, <4>5
    <3>. QED
      BY <2>6, <3>2, <3>3, <3>4
  <2>. QED
    BY <2>5, <2>7
<1>. QED
  BY <1>1, SwapsInvariant, ControlInit, ControlNext, PTL DEF Spec
----------------------------------------------------------------------------
(* Clones of the pending batch. *)

\* s holds logs in order, all of them before l.
Before(s, l) == Increasing(s) /\ \A i \in DOMAIN s : s[i] < l

LEMMA AppendBefore ==
    ASSUME NEW s \in Seq(Logs), NEW l \in Logs, Before(s, l)
    PROVE  /\ Increasing(Append(s, l))
           /\ \A m \in Logs : l < m => Before(Append(s, l), m)
<1>. DEFINE u == Append(s, l)
<1>1. /\ DOMAIN u = 1..(Len(s) + 1) /\ DOMAIN s = 1..Len(s) /\ Len(s) \in Nat
      /\ \A i \in 1..Len(s) : u[i] = s[i] /\ s[i] \in Logs
      /\ u[Len(s) + 1] = l
  OBVIOUS
<1>2. Logs \subseteq Nat
  BY UpdaterAssumption
<1>. HIDE DEF u
<1>3. Increasing(u)
  BY <1>1 DEF Before, Increasing
<1>4. ASSUME NEW m \in Logs, l < m, NEW i \in DOMAIN u PROVE u[i] < m
  <2>1. CASE i \in 1..Len(s)
    <3>1. u[i] = s[i] /\ s[i] \in Nat /\ s[i] < l /\ l \in Nat /\ m \in Nat
      BY <1>1, <1>2, <2>1 DEF Before
    <3>. QED
      BY <1>4, <3>1
  <2>2. CASE i = Len(s) + 1
    BY <1>1, <1>4, <2>2
  <2>. QED
    BY <1>1, <2>1, <2>2
<1>. QED
  BY <1>3, <1>4 DEF u, Before

\* Steps that leave the clones and the pending logs alone.
LEMMA ClonesKept ==
    ASSUME ClonesInv,
           \/ UNCHANGED <<upc, outbox, modified, cursor>>
           \/ upc \notin PendingPcs /\ upc' \notin PendingPcs /\ UNCHANGED modified
    PROVE  ClonesInv'
BY DEF ClonesInv, ClonesInChainOrder

\* The pending log goes to the clone of its pool, which holds only earlier logs.
LEMMA ClonesApplied ==
    ASSUME ControlInv, ControlInv', RegistryInv, ClonesInv, ApplyPending
    PROVE  ClonesInv'
<1>. DEFINE l == Head(outbox)
            p == PoolOf(l)
            base == IF modified[p] # Absent THEN modified[p] ELSE state[p]
            u == Append(base, l)
<1>1. /\ upc = "pending" /\ outbox # <<>> /\ UNCHANGED cursor
      /\ \/ /\ base = Absent /\ outbox' = Tail(outbox) /\ UNCHANGED <<upc, modified>>
         \/ /\ base # Absent /\ modified' = [modified EXCEPT ![p] = u]
            /\ \/ upc' = "pendsend" /\ UNCHANGED outbox
               \/ upc' = upc /\ outbox' = Tail(outbox)
  BY DEF ApplyPending, registryVars
<1>2. outbox \in Seq(Logs) /\ modified \in [Pools -> Seq(Logs) \cup {Absent}] /\ Logs \subseteq Nat
  BY UpdaterAssumption DEF ControlInv, HandleTypeOK, TypeOK
<1>3. /\ l \in Logs /\ l = outbox[1] /\ 1 \in DOMAIN outbox /\ p \in Pools
      /\ \A i \in DOMAIN Tail(outbox) : /\ i \in Nat /\ i + 1 \in DOMAIN outbox /\ i + 1 > 1
                                        /\ Tail(outbox)[i] = outbox[i + 1]
      /\ \A i \in DOMAIN outbox : outbox[i] \in Logs
  <2>1. /\ l \in Logs /\ l = outbox[1] /\ 1 \in DOMAIN outbox
        /\ \A i \in DOMAIN outbox : outbox[i] \in Logs
    BY <1>1, <1>2
  <2>2. p \in Pools
    BY <2>1, UpdaterAssumption
  <2>3. \A i \in DOMAIN Tail(outbox) : /\ i \in Nat /\ i + 1 \in DOMAIN outbox /\ i + 1 > 1
                                       /\ Tail(outbox)[i] = outbox[i + 1]
    BY <1>1, <1>2
  <2>. QED
    BY <2>1, <2>2, <2>3
<1>4. /\ Increasing(outbox) /\ \A i \in DOMAIN outbox : Block(outbox[i]) > cursor
      /\ \A q \in Pools : modified[q] # Absent =>
             /\ Increasing(modified[q])
             /\ \A i \in DOMAIN modified[q], j \in DOMAIN outbox : modified[q][i] < outbox[j]
  BY <1>1 DEF ClonesInv, ClonesInChainOrder, PendingPcs, Increasing
<1>5. base # Absent => /\ base \in Seq(Logs) /\ Before(base, l)
  <2>1. CASE modified[p] # Absent
    BY <1>2, <1>3, <1>4, <2>1 DEF Before
  <2>2. CASE modified[p] = Absent /\ state[p] # Absent
    <3>1. p \in Registered
      BY <1>3, <2>2 DEF Registered
    <3>. DEFINE s == state[p]
    <3>2. s \in Seq(Logs) /\ Ordered(s, p, cursor, {})
      <4>1. At(s, p, cursor)
        BY <1>1, <3>1, LevelTypes DEF RegistryInv
      <4>2. Strays = {}
        BY <1>1 DEF ControlInv, BatchInv, PendingPcs, Strays
      <4>. QED
        BY <3>1, <4>1, <4>2, LevelTypes DEF At, Faithful
    <3>3. base = s
      BY <2>2
    <3>. HIDE DEF s, base, l, p
    <3>4. Increasing(s)
      BY <3>2 DEF Ordered, Increasing
    <3>5. ASSUME NEW i \in DOMAIN s PROVE s[i] < l
      <4>1. s[i] \in Logs /\ Block(s[i]) <= cursor /\ Block(l) > cursor
        BY <1>3, <1>4, <3>2 DEF Ordered
      <4>2. Block(s[i]) \in Nat /\ Block(l) \in Nat /\ cursor \in Nat
        BY <1>3, <4>1, LogsAreFinite, ControlTypes
      <4>3. Block(s[i]) < Block(l)
        BY <4>1, <4>2
      <4>. QED
        BY <1>3, <4>1, <4>3, LogsAreFinite
    <3>. QED
      BY <3>2, <3>3, <3>4, <3>5 DEF Before
  <2>. QED
    BY <2>1, <2>2
<1>6. \A j \in DOMAIN outbox : j > 1 => l < outbox[j]
  BY <1>3, <1>4 DEF Increasing
<1>7. base # Absent =>
          /\ Increasing(u)
          /\ \A i \in DOMAIN u, j \in DOMAIN outbox : j > 1 => u[i] < outbox[j]
  <2>. HIDE DEF l, p, base
  <2>1. SUFFICES ASSUME base # Absent
                 PROVE  /\ Increasing(u)
                        /\ \A i \in DOMAIN u, j \in DOMAIN outbox : j > 1 => u[i] < outbox[j]
    OBVIOUS
  <2>2. Increasing(u) /\ \A m \in Logs : l < m => Before(u, m)
    BY <1>3, <1>5, <2>1, AppendBefore
  <2>. QED
    BY <1>3, <1>6, <2>2 DEF Before
<1>. HIDE DEF l, p, base, u
\* Every clone is in order and comes before the logs after the first.
<1>8. \A q \in Pools : modified'[q] # Absent =>
          /\ Increasing(modified'[q])
          /\ \A i \in DOMAIN modified'[q], j \in DOMAIN outbox : j > 1 => modified'[q][i] < outbox[j]
  <2>1. CASE UNCHANGED modified
    BY <1>4, <2>1
  <2>2. CASE base # Absent /\ modified' = [modified EXCEPT ![p] = u]
    <3>1. SUFFICES ASSUME NEW q \in Pools, modified'[q] # Absent
                   PROVE  /\ Increasing(modified'[q])
                          /\ \A i \in DOMAIN modified'[q], j \in DOMAIN outbox :
                                 j > 1 => modified'[q][i] < outbox[j]
      OBVIOUS
    <3>2. CASE q = p
      <4>1. modified'[q] = u
        BY <1>2, <2>2, <3>2
      <4>. QED
        BY <1>7, <2>2, <4>1
    <3>3. CASE q # p
      <4>1. modified'[q] = modified[q]
        BY <1>2, <2>2, <3>3
      <4>. QED
        BY <1>4, <3>1, <4>1
    <3>. QED
      BY <3>2, <3>3
  <2>. QED
    BY <1>1, <2>1, <2>2
<1>9. ClonesInChainOrder'
  BY <1>8 DEF ClonesInChainOrder, Increasing
<1>10. CASE upc' = "pendsend" /\ UNCHANGED outbox
  BY <1>1, <1>4, <1>8, <1>9, <1>10 DEF ClonesInv, PendingPcs
<1>11. CASE upc' = "pending" /\ outbox' = Tail(outbox)
  <2>1. \A i \in DOMAIN outbox' : /\ i \in Nat /\ i + 1 \in DOMAIN outbox /\ i + 1 > 1
                                  /\ outbox'[i] = outbox[i + 1]
    BY <1>3, <1>11
  <2>2. Increasing(outbox')
    <3>1. SUFFICES ASSUME NEW i \in DOMAIN outbox', NEW j \in DOMAIN outbox', i < j
                   PROVE  outbox'[i] < outbox'[j]
      BY DEF Increasing
    <3>2. i + 1 < j + 1 /\ i + 1 \in DOMAIN outbox /\ j + 1 \in DOMAIN outbox
      BY <2>1, <3>1
    <3>3. outbox[i + 1] < outbox[j + 1]
      BY <1>4, <3>2 DEF Increasing
    <3>. QED
      BY <2>1, <3>3
  <2>3. \A i \in DOMAIN outbox' : Block(outbox'[i]) > cursor
    BY <1>4, <2>1
  <2>4. \A q \in Pools : modified'[q] # Absent =>
            \A i \in DOMAIN modified'[q], j \in DOMAIN outbox' : modified'[q][i] < outbox'[j]
    BY <1>8, <2>1
  <2>. QED
    BY <1>1, <1>9, <1>11, <2>2, <2>3, <2>4 DEF ClonesInv, PendingPcs
<1>. QED
  BY <1>1, <1>10, <1>11

LEMMA ClonesUpdater ==
    ASSUME ControlInv, ControlInv', RegistryInv, ClonesInv, Running \/ DropReceiver
    PROVE  ClonesInv'
<1>1. CASE Mine \/ Receive \/ DropReceiver
  <2>1. UNCHANGED <<upc, outbox, modified, cursor>>
    BY <1>1 DEF Mine, Receive, DropReceiver, registryVars, batchVars
  <2>. QED
    BY <2>1, ClonesKept
<1>2. CASE \/ PendingPoll \/ LatestPoll \/ PendingConfirmed \/ LatestBatch \/ WebsocketBatch
           \/ Bootstrap \/ BootstrapFails \/ AllApplied \/ SendSwap \/ UpdaterStops \/ \E p \in Pools : ApplyPool(p)
  <2>1. upc \in {"boot", "next", "apply", "send"} /\ UNCHANGED modified
    BY <1>2 DEF PendingPoll, LatestPoll, PendingConfirmed, LatestBatch, WebsocketBatch, Bootstrap,
                BootstrapFails, AllApplied, SendSwap, UpdaterStops, ApplyPool, InNextBatch,
                YieldFetched, Yield, batchVars
  <2>2. upc' \in {"next", "apply", "send", "stopped"}
    BY <1>2, <2>1 DEF PendingPoll, LatestPoll, PendingConfirmed, LatestBatch, WebsocketBatch,
                      Bootstrap, BootstrapFails, AllApplied, SendSwap, UpdaterStops, ApplyPool,
                      InNextBatch, YieldFetched, Yield
  <2>3. upc \notin PendingPcs /\ upc' \notin PendingPcs
    BY <2>1, <2>2 DEF PendingPcs
  <2>. QED
    BY <2>1, <2>3, ClonesKept
<1>3. CASE ApplyPending
  BY <1>3, ClonesApplied
<1>4. CASE SendPending
  <2>1. /\ upc = "pendsend" /\ upc' = "pending" /\ outbox' = Tail(outbox)
        /\ UNCHANGED <<cursor, modified>>
    BY <1>4 DEF SendPending, registryVars
  <2>2. outbox # <<>> /\ outbox \in Seq(Logs)
    BY <2>1 DEF ControlInv, BatchInv, HandleTypeOK, TypeOK
  <2>3. \A i \in DOMAIN outbox' : /\ i \in Nat /\ i + 1 \in DOMAIN outbox /\ i + 1 > 1
                                  /\ outbox'[i] = outbox[i + 1]
    BY <2>1, <2>2
  <2>4. /\ Increasing(outbox) /\ \A i \in DOMAIN outbox : Block(outbox[i]) > cursor
        /\ \A q \in Pools : modified[q] # Absent =>
               \A i \in DOMAIN modified[q], j \in DOMAIN outbox : j > 1 => modified[q][i] < outbox[j]
    BY <2>1 DEF ClonesInv, PendingPcs
  <2>5. Increasing(outbox')
    <3>1. SUFFICES ASSUME NEW i \in DOMAIN outbox', NEW j \in DOMAIN outbox', i < j
                   PROVE  outbox'[i] < outbox'[j]
      BY DEF Increasing
    <3>2. i + 1 < j + 1 /\ i + 1 \in DOMAIN outbox /\ j + 1 \in DOMAIN outbox
      BY <2>3, <3>1
    <3>3. outbox[i + 1] < outbox[j + 1]
      BY <2>4, <3>2 DEF Increasing
    <3>. QED
      BY <2>3, <3>3
  <2>6. \A i \in DOMAIN outbox' : Block(outbox'[i]) > cursor'
    BY <2>1, <2>3, <2>4
  <2>7. \A q \in Pools : modified'[q] # Absent =>
            \A i \in DOMAIN modified'[q], j \in DOMAIN outbox' : modified'[q][i] < outbox'[j]
    BY <2>1, <2>3, <2>4
  <2>8. ClonesInChainOrder'
    BY <2>1 DEF ClonesInv, ClonesInChainOrder
  <2>. QED
    BY <2>1, <2>5, <2>6, <2>7, <2>8 DEF ClonesInv, PendingPcs
<1>5. CASE FinishBatch
  <2>1. upc' = "next" /\ modified' = NoClones
    BY <1>5 DEF FinishBatch
  <2>. QED
    BY <2>1 DEF ClonesInv, ClonesInChainOrder, NoClones, PendingPcs
<1>6. CASE PendingFetch
  <2>1. CASE UNCHANGED <<upc, modified>>
    <3>1. upc = "next"
      BY <1>6 DEF PendingFetch, InNextBatch
    <3>. QED
      BY <2>1, <3>1, ClonesKept DEF PendingPcs
  <2>2. CASE ~UNCHANGED <<upc, modified>>
    <3>1. PICK S \in SUBSET Matching(Registered, srcTopics, head + 1, head + 1) :
              YieldPending(InOrder(S))
      BY <1>6, <2>2 DEF PendingFetch, batchVars
    <3>2. /\ upc = "next" /\ upc' = "pending" /\ outbox' = InOrder(S) /\ mode = "pending"
          /\ UNCHANGED <<cursor, modified>>
      BY <1>6, <3>1 DEF PendingFetch, InNextBatch, YieldPending, registryVars
    <3>3. modified = NoClones
      BY <3>2 DEF ClonesInv, PendingPcs
    <3>4. S \subseteq Logs /\ \A l \in S : Block(l) \in (head + 1)..(head + 1)
      BY DEF Matching
    <3>5. /\ InOrder(S) \in Seq(Logs) /\ Increasing(InOrder(S))
          /\ ToSet(InOrder(S)) = S
      BY <3>4, LogsInOrder
    <3>6. \A i \in DOMAIN outbox' : outbox'[i] \in S
      BY <3>2, <3>5 DEF ToSet
    <3>7. \A l \in S : Block(l) > cursor
      <4>1. cursor \in Nat /\ head \in Nat /\ cursor <= head
        BY <3>2, ControlTypes
      <4>2. \A n : n \in (head + 1)..(head + 1) => n > cursor
        BY <4>1
      <4>. QED
        BY <3>4, <4>2
    <3>8. ClonesInChainOrder' /\ \A q \in Pools : modified'[q] = Absent
      BY <3>2, <3>3 DEF ClonesInChainOrder, NoClones
    <3>. QED
      BY <3>2, <3>5, <3>6, <3>7, <3>8 DEF ClonesInv, PendingPcs
  <2>. QED
    BY <2>1, <2>2
<1>. QED
  BY <1>1, <1>2, <1>3, <1>4, <1>5, <1>6 DEF Running, UpdaterStep, NextBatch

LEMMA ClonesNext == ReplayInv /\ ReplayInv' /\ ClonesInv /\ [Next]_vars => ClonesInv'
<1>1. SUFFICES ASSUME ReplayInv, ReplayInv', ClonesInv, [Next]_vars PROVE ClonesInv'
  OBVIOUS
<1>2. CASE (Running \/ DropReceiver) /\ UNCHANGED handleVars
  BY <1>1, <1>2, ClonesUpdater DEF ReplayInv, PoolsInv
<1>3. CASE HandleStep \/ Stop \/ DropHandle \/ AddPools \/ RemovePool
  <2>1. /\ UNCHANGED <<outbox, modified>>
        /\ UNCHANGED <<upc, cursor>> \/ (upc = "stopped" /\ upc' \in {"boot", "next"})
    BY <1>1, <1>3, HandleLeavesBatch DEF ReplayInv
  <2>. QED
    BY <1>1, <2>1, ClonesKept DEF PendingPcs
<1>4. CASE UNCHANGED vars
  <2>1. UNCHANGED <<upc, outbox, modified, cursor>>
    BY <1>4 DEF vars, updaterVars, registryVars, batchVars
  <2>. QED
    BY <1>1, <2>1, ClonesKept
<1>. QED
  BY <1>1, <1>2, <1>3, <1>4 DEF Next

\* A clone of the pending batch holds its pool's confirmed logs and then the
\* pending ones, in chain order and each once, whatever the chain and the handle
\* do in between (event_processor.rs, process_pending_events).
THEOREM ClonesInChainOrderHolds == Spec => []ClonesInChainOrder
<1>1. Init => ClonesInv
  BY DEF Init, UpdaterInit, ClonesInv, ClonesInChainOrder, NoClones, PendingPcs
<1>2. ClonesInv => ClonesInChainOrder
  BY DEF ClonesInv
<1>. QED
  BY <1>1, <1>2, ClonesNext, ReplayInvariant, PTL DEF Spec
=============================================================================
