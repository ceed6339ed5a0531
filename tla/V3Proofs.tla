------------------------------ MODULE V3Proofs ------------------------------
(***************************************************************************)
(* Proofs about the V3 pool: V3Pool's tick map, its fetch and its quotes, and *)
(* SwapFees, the pool's check on its own fee.                                *)
(***************************************************************************)
EXTENDS V3Pool, SwapFees, Induction, FiniteSetTheorems

----------------------------------------------------------------------------
(* Sums over finite sets. *)

\* A family of finite sets that has the empty set, and a set once it has the
\* set without any one of its members, has every subset of S.
LEMMA FiniteInduction ==
    ASSUME NEW S, IsFiniteSet(S), NEW F, {} \in F,
           \A U \in SUBSET S : U # {} /\ (\A x \in U : U \ {x} \in F) => U \in F
    PROVE  \A U \in SUBSET S : U \in F
<1>. DEFINE T == {n \in Nat : \A U \in SUBSET S : Cardinality(U) = n => U \in F}
<1>1. \A U \in SUBSET S : IsFiniteSet(U) /\ Cardinality(U) \in Nat
  BY FS_Subset, FS_CardinalityType
<1>2. 0 \in T
  BY <1>1, FS_EmptySet
<1>3. ASSUME NEW n \in Nat, n \in T PROVE n + 1 \in T
  <2>. SUFFICES ASSUME NEW U \in SUBSET S, Cardinality(U) = n + 1 PROVE U \in F
    OBVIOUS
  <2>1. U # {}
    <3>1. Cardinality({}) = 0 /\ n + 1 # 0
      BY FS_EmptySet
    <3>. QED
      BY <3>1
  <2>2. ASSUME NEW x \in U PROVE U \ {x} \in F
    <3>1. Cardinality(U \ {x}) = n
      BY <1>1, <2>2, FS_RemoveElement
    <3>. QED
      BY <1>3, <3>1
  <2>. QED
    BY <2>1, <2>2
<1>4. \A n \in Nat : n \in T
  <2>. HIDE DEF T
  <2>. QED
    BY <1>2, <1>3, Induction
<1>. QED
  BY <1>1, <1>4

\* The recursion behind SumFunctionOnSet.
Pick(s) == CHOOSE x \in s : TRUE
IsSum(f, book, S) ==
    f = [s \in SUBSET S |-> IF s = {} THEN 0 ELSE book[Pick(s)] + f[s \ {Pick(s)}]]
AddsUp(f, book, s) == f[s] = IF s = {} THEN 0 ELSE book[Pick(s)] + f[s \ {Pick(s)}]

LEMMA PickMember == ASSUME NEW s, s # {} PROVE Pick(s) \in s
BY DEF Pick

LEMMA SumIsChosen ==
    ASSUME NEW S, NEW book
    PROVE  SumFunctionOnSet(book, S) = (CHOOSE h : IsSum(h, book, S))[S]
BY DEF SumFunctionOnSet, FoldFunctionOnSet, MapThenFoldSet, IsSum, Pick

LEMMA SumExists ==
    ASSUME NEW S, IsFiniteSet(S), NEW book
    PROVE  \E f : IsSum(f, book, S)
<1>. DEFINE T == {n \in Nat : \E f : \A s \in SUBSET S : Cardinality(s) <= n => AddsUp(f, book, s)}
<1>1. \A s \in SUBSET S : IsFiniteSet(s) /\ Cardinality(s) \in Nat
                          /\ (Cardinality(s) = 0 => s = {})
  BY FS_Subset, FS_CardinalityType, FS_EmptySet
<1>2. 0 \in T
  <2>. DEFINE f == [s \in SUBSET S |-> 0]
  <2>1. \A s \in SUBSET S : Cardinality(s) <= 0 => AddsUp(f, book, s)
    BY <1>1 DEF AddsUp
  <2>. QED
    BY <2>1
<1>3. ASSUME NEW n \in Nat, n \in T PROVE n + 1 \in T
  <2>1. PICK f : \A s \in SUBSET S : Cardinality(s) <= n => AddsUp(f, book, s)
    BY <1>3
  <2>. DEFINE g == [s \in SUBSET S |-> IF Cardinality(s) = n + 1
                                       THEN book[Pick(s)] + f[s \ {Pick(s)}] ELSE f[s]]
  <2>2. ASSUME NEW s \in SUBSET S, Cardinality(s) <= n + 1 PROVE AddsUp(g, book, s)
    <3>1. CASE s = {}
      <4>1. Cardinality(s) = 0
        BY <3>1, FS_EmptySet
      <4>. QED
        BY <2>1, <3>1, <4>1 DEF AddsUp
    <3>2. CASE s # {}
      <4>. DEFINE u == s \ {Pick(s)}
      <4>1. u \in SUBSET S /\ Cardinality(u) = Cardinality(s) - 1
        BY <1>1, <3>2, PickMember, FS_RemoveElement
      <4>2. g[u] = f[u]
        BY <1>1, <2>2, <4>1
      <4>3. CASE Cardinality(s) = n + 1
        BY <3>2, <4>2, <4>3 DEF AddsUp
      <4>4. CASE Cardinality(s) # n + 1
        <5>1. Cardinality(s) <= n
          BY <1>1, <2>2, <4>4
        <5>2. f[s] = book[Pick(s)] + f[u]
          BY <2>1, <3>2, <5>1 DEF AddsUp
        <5>. QED
          BY <3>2, <4>2, <4>4, <5>2 DEF AddsUp
      <4>. QED
        BY <4>3, <4>4
    <3>. QED
      BY <3>1, <3>2
  <2>. HIDE DEF g
  <2>. QED
    BY <2>2
<1>4. \A n \in Nat : n \in T
  <2>. HIDE DEF T
  <2>. QED
    BY <1>2, <1>3, Induction
<1>5. PICK f : \A s \in SUBSET S : Cardinality(s) <= Cardinality(S) => AddsUp(f, book, s)
  BY <1>1, <1>4
<1>6. \A s \in SUBSET S : AddsUp(f, book, s)
  BY <1>5, FS_Subset
<1>. DEFINE g == [s \in SUBSET S |-> f[s]]
<1>7. IsSum(g, book, S)
  <2>1. \A s \in SUBSET S : s \ {Pick(s)} \in SUBSET S
    OBVIOUS
  <2>. QED
    BY <1>6, <2>1 DEF IsSum, AddsUp
<1>. QED
  BY <1>7

\* Two such recursions agree where they overlap and their books do.
LEMMA SumUnique ==
    ASSUME NEW S, IsFiniteSet(S), NEW U, S \subseteq U, NEW book, NEW other, NEW f, NEW g,
           IsSum(f, book, S), IsSum(g, other, U), \A r \in S : book[r] = other[r]
    PROVE  \A s \in SUBSET S : f[s] = g[s]
<1>. DEFINE F == {s \in SUBSET S : f[s] = g[s]}
<1>1. {} \in F
  BY DEF IsSum
<1>2. ASSUME NEW s \in SUBSET S, s # {}, \A x \in s : s \ {x} \in F PROVE s \in F
  <2>1. Pick(s) \in s
    BY <1>2, PickMember
  <2>2. f[s] = book[Pick(s)] + f[s \ {Pick(s)}]
    BY <1>2 DEF IsSum
  <2>3. g[s] = other[Pick(s)] + g[s \ {Pick(s)}]
    BY <1>2 DEF IsSum
  <2>. QED
    BY <1>2, <2>1, <2>2, <2>3
<1>3. \A s \in SUBSET S : s \in F
  <2>. HIDE DEF F
  <2>. QED
    BY <1>1, <1>2, FiniteInduction
<1>. QED
  BY <1>3

LEMMA SumBase ==
    ASSUME NEW book PROVE SumFunctionOnSet(book, {}) = 0
<1>1. PICK f : IsSum(f, book, {})
  BY SumExists, FS_EmptySet
<1>2. IsSum(CHOOSE g : IsSum(g, book, {}), book, {})
  BY <1>1
<1>. QED
  BY <1>2, SumIsChosen DEF IsSum

LEMMA SumPick ==
    ASSUME NEW S, IsFiniteSet(S), S # {}, NEW book
    PROVE  SumFunctionOnSet(book, S) = book[Pick(S)] + SumFunctionOnSet(book, S \ {Pick(S)})
<1>. DEFINE U == S \ {Pick(S)}
            f == CHOOSE h : IsSum(h, book, S)
            g == CHOOSE h : IsSum(h, book, U)
<1>0. IsFiniteSet(U) /\ U \subseteq S
  BY FS_Subset
<1>1. IsSum(f, book, S) /\ IsSum(g, book, U)
  <2>1. (\E h : IsSum(h, book, S)) /\ (\E h : IsSum(h, book, U))
    BY <1>0, SumExists
  <2>. QED
    BY <2>1
<1>2. SumFunctionOnSet(book, S) = f[S] /\ SumFunctionOnSet(book, U) = g[U]
  BY SumIsChosen
<1>. HIDE DEF f, g
<1>3. g[U] = f[U]
  <2>. HIDE DEF U
  <2>1. \A r \in U : book[r] = book[r]
    OBVIOUS
  <2>2. \A s \in SUBSET U : g[s] = f[s]
    BY <1>0, <1>1, <2>1, SumUnique
  <2>. QED
    BY <2>2
<1>4. f[S] = book[Pick(S)] + f[U]
  BY <1>1 DEF IsSum
<1>. QED
  BY <1>2, <1>3, <1>4

LEMMA SumType ==
    ASSUME NEW R, NEW book \in [R -> Int], NEW S \in SUBSET R, IsFiniteSet(S)
    PROVE  SumFunctionOnSet(book, S) \in Int
<1>. DEFINE F == {s \in SUBSET S : SumFunctionOnSet(book, s) \in Int}
<1>1. {} \in F
  BY SumBase
<1>2. ASSUME NEW s \in SUBSET S, s # {}, \A x \in s : s \ {x} \in F PROVE s \in F
  <2>1. Pick(s) \in s /\ IsFiniteSet(s)
    BY <1>2, PickMember, FS_Subset
  <2>2. SumFunctionOnSet(book, s) = book[Pick(s)] + SumFunctionOnSet(book, s \ {Pick(s)})
    BY <1>2, <2>1, SumPick
  <2>. QED
    BY <1>2, <2>1, <2>2
<1>3. \A s \in SUBSET S : s \in F
  <2>. HIDE DEF F
  <2>. QED
    BY <1>1, <1>2, FiniteInduction
<1>. QED
  BY <1>3

\* Any member may be taken out first.
LEMMA SumRemove ==
    ASSUME NEW R, NEW book \in [R -> Int], NEW S \in SUBSET R, IsFiniteSet(S), NEW r \in S
    PROVE  SumFunctionOnSet(book, S) = book[r] + SumFunctionOnSet(book, S \ {r})
<1>. DEFINE F == {s \in SUBSET S : \A x \in s : SumFunctionOnSet(book, s)
                                       = book[x] + SumFunctionOnSet(book, s \ {x})}
<1>1. {} \in F
  OBVIOUS
<1>2. ASSUME NEW s \in SUBSET S, s # {}, \A x \in s : s \ {x} \in F PROVE s \in F
  <2>. SUFFICES ASSUME NEW x \in s
                PROVE  SumFunctionOnSet(book, s) = book[x] + SumFunctionOnSet(book, s \ {x})
    OBVIOUS
  <2>. DEFINE p == Pick(s)
              u == (s \ {x}) \ {p}
  <2>1. p \in s /\ IsFiniteSet(s)
    BY <1>2, PickMember, FS_Subset
  <2>2. SumFunctionOnSet(book, s) = book[p] + SumFunctionOnSet(book, s \ {p})
    BY <1>2, <2>1, SumPick
  <2>3. CASE x = p
    BY <2>2, <2>3
  <2>4. CASE x # p
    <3>. HIDE DEF p
    <3>1. SumFunctionOnSet(book, s \ {p}) = book[x] + SumFunctionOnSet(book, (s \ {p}) \ {x})
      BY <1>2, <2>1, <2>4
    <3>2. SumFunctionOnSet(book, s \ {x}) = book[p] + SumFunctionOnSet(book, u)
      <4>1. s \ {x} \in F /\ p \in s \ {x}
        BY <1>2, <2>1, <2>4
      <4>. QED
        BY <4>1
    <3>3. (s \ {p}) \ {x} = u
      OBVIOUS
    <3>4. u \in SUBSET R /\ IsFiniteSet(u)
      BY <2>1, FS_Subset
    <3>5. SumFunctionOnSet(book, u) \in Int /\ book[p] \in Int /\ book[x] \in Int
      BY <2>1, <3>4, SumType
    <3>6. SumFunctionOnSet(book, s \ {p}) = book[x] + SumFunctionOnSet(book, u)
      BY <3>1, <3>3
    <3>. HIDE DEF u, F
    <3>. QED
      BY <2>2, <3>2, <3>5, <3>6
  <2>. QED
    BY <2>3, <2>4
<1>3. \A s \in SUBSET S : s \in F
  <2>. HIDE DEF F
  <2>. QED
    BY <1>1, <1>2, FiniteInduction
<1>. QED
  BY <1>3

\* What two books agree on sums up to the same.
LEMMA SumCongruent ==
    ASSUME NEW S, IsFiniteSet(S), NEW book, NEW other, \A r \in S : book[r] = other[r]
    PROVE  SumFunctionOnSet(book, S) = SumFunctionOnSet(other, S)
<1>. DEFINE f == CHOOSE h : IsSum(h, book, S)
            g == CHOOSE h : IsSum(h, other, S)
<1>1. IsSum(f, book, S) /\ IsSum(g, other, S)
  BY SumExists
<1>2. SumFunctionOnSet(book, S) = f[S] /\ SumFunctionOnSet(other, S) = g[S]
  BY SumIsChosen
<1>. HIDE DEF f, g
<1>3. \A s \in SUBSET S : f[s] = g[s]
  BY <1>1, SumUnique
<1>. QED
  BY <1>2, <1>3

\* A sum of naturals is one, and is zero exactly when they all are.
LEMMA SumNat ==
    ASSUME NEW R, NEW book \in [R -> Nat], NEW S \in SUBSET R, IsFiniteSet(S)
    PROVE  /\ SumFunctionOnSet(book, S) \in Nat
           /\ (\A r \in S : book[r] = 0) => SumFunctionOnSet(book, S) = 0
           /\ \A r \in S : SumFunctionOnSet(book, S) >= book[r]
<1>. DEFINE F == {s \in SUBSET S : /\ SumFunctionOnSet(book, s) \in Nat
                                   /\ (\A r \in s : book[r] = 0) => SumFunctionOnSet(book, s) = 0}
<1>0. book \in [R -> Int]
  OBVIOUS
<1>1. {} \in F
  BY SumBase
<1>2. ASSUME NEW s \in SUBSET S, s # {}, \A x \in s : s \ {x} \in F PROVE s \in F
  <2>1. Pick(s) \in s /\ IsFiniteSet(s)
    BY <1>2, PickMember, FS_Subset
  <2>2. SumFunctionOnSet(book, s) = book[Pick(s)] + SumFunctionOnSet(book, s \ {Pick(s)})
    BY <1>2, <2>1, SumPick
  <2>. QED
    BY <1>2, <2>1, <2>2
<1>3. \A s \in SUBSET S : s \in F
  <2>. HIDE DEF F
  <2>. QED
    BY <1>1, <1>2, FiniteInduction
<1>4. ASSUME NEW r \in S PROVE SumFunctionOnSet(book, S) >= book[r]
  <2>1. SumFunctionOnSet(book, S) = book[r] + SumFunctionOnSet(book, S \ {r})
    BY <1>0, SumRemove
  <2>2. SumFunctionOnSet(book, S \ {r}) \in Nat /\ book[r] \in Nat
    BY <1>3
  <2>. QED
    BY <2>1, <2>2
<1>. QED
  BY <1>3, <1>4

\* Members whose share is zero do not count.
LEMMA SumSupport ==
    ASSUME NEW R, NEW book \in [R -> Int], NEW S \in SUBSET R, NEW U \in SUBSET S, IsFiniteSet(S),
           \A r \in S \ U : book[r] = 0
    PROVE  SumFunctionOnSet(book, S) = SumFunctionOnSet(book, U)
<1>. DEFINE W == S \ U
            F == {s \in SUBSET W : SumFunctionOnSet(book, U \cup s) = SumFunctionOnSet(book, U)}
<1>1. {} \in F
  <2>1. U \cup {} = U
    OBVIOUS
  <2>. QED
    BY <2>1
<1>2. ASSUME NEW s \in SUBSET W, s # {}, \A x \in s : s \ {x} \in F PROVE s \in F
  <2>1. PICK x \in s : TRUE
    BY <1>2
  <2>2. (U \cup s) \ {x} = U \cup (s \ {x}) /\ U \cup s \in SUBSET R /\ x \in U \cup s /\ book[x] = 0
    BY <2>1
  <2>3. IsFiniteSet(U \cup s) /\ IsFiniteSet(U)
    <3>1. U \cup s \in SUBSET S
      OBVIOUS
    <3>. QED
      BY <3>1, FS_Subset
  <2>4. SumFunctionOnSet(book, U \cup s) = book[x] + SumFunctionOnSet(book, U \cup (s \ {x}))
    BY <2>2, <2>3, SumRemove
  <2>5. SumFunctionOnSet(book, U) \in Int
    BY <2>3, SumType
  <2>6. SumFunctionOnSet(book, U \cup (s \ {x})) = SumFunctionOnSet(book, U)
    BY <1>2, <2>1
  <2>. QED
    BY <2>2, <2>4, <2>5, <2>6
<1>3. \A s \in SUBSET W : s \in F
  <2>1. IsFiniteSet(W)
    BY FS_Subset
  <2>. HIDE DEF F, W
  <2>. QED
    BY <1>1, <1>2, <2>1, FiniteInduction
<1>4. W \in F /\ U \cup W = S
  BY <1>3
<1>. QED
  BY <1>4

\* The sum over disjoint sets.
LEMMA SumUnion ==
    ASSUME NEW R, NEW book \in [R -> Int], NEW S \in SUBSET R, NEW U \in SUBSET R,
           IsFiniteSet(S), IsFiniteSet(U), S \cap U = {}
    PROVE  SumFunctionOnSet(book, S \cup U)
               = SumFunctionOnSet(book, S) + SumFunctionOnSet(book, U)
<1>. DEFINE F == {s \in SUBSET U : SumFunctionOnSet(book, S \cup s)
                                     = SumFunctionOnSet(book, S) + SumFunctionOnSet(book, s)}
<1>0. SumFunctionOnSet(book, S) \in Int
  BY SumType
<1>1. {} \in F
  <2>1. S \cup {} = S
    OBVIOUS
  <2>. QED
    BY <1>0, <2>1, SumBase
<1>2. ASSUME NEW s \in SUBSET U, s # {}, \A x \in s : s \ {x} \in F PROVE s \in F
  <2>1. PICK x \in s : TRUE
    BY <1>2
  <2>2. (S \cup s) \ {x} = S \cup (s \ {x}) /\ S \cup s \in SUBSET R /\ x \in S \cup s
        /\ s \in SUBSET R /\ s \ {x} \in SUBSET R
    BY <2>1
  <2>3. IsFiniteSet(S \cup s) /\ IsFiniteSet(s) /\ IsFiniteSet(s \ {x})
    BY FS_Subset, FS_Union
  <2>4. SumFunctionOnSet(book, S \cup s) = book[x] + SumFunctionOnSet(book, S \cup (s \ {x}))
    BY <2>2, <2>3, SumRemove
  <2>5. SumFunctionOnSet(book, s) = book[x] + SumFunctionOnSet(book, s \ {x})
    BY <2>1, <2>2, <2>3, SumRemove
  <2>6. SumFunctionOnSet(book, s \ {x}) \in Int /\ book[x] \in Int
    BY <2>2, <2>3, SumType
  <2>7. SumFunctionOnSet(book, S \cup (s \ {x}))
          = SumFunctionOnSet(book, S) + SumFunctionOnSet(book, s \ {x})
    BY <1>2, <2>1
  <2>8. SumFunctionOnSet(book, S \cup s) = SumFunctionOnSet(book, S) + SumFunctionOnSet(book, s)
    BY <1>0, <2>4, <2>5, <2>6, <2>7
  <2>. QED
    BY <2>8
<1>3. \A s \in SUBSET U : s \in F
  <2>. HIDE DEF F
  <2>. QED
    BY <1>1, <1>2, FiniteInduction
<1>. QED
  BY <1>3

\* One entry of the book changed.
LEMMA SumExcept ==
    ASSUME NEW R, NEW book \in [R -> Int], NEW other \in [R -> Int], NEW S \in SUBSET R,
           IsFiniteSet(S), NEW r \in R, \A x \in R \ {r} : other[x] = book[x]
    PROVE  SumFunctionOnSet(other, S)
               = SumFunctionOnSet(book, S) + (IF r \in S THEN other[r] - book[r] ELSE 0)
<1>2. CASE r \notin S
  <2>1. \A x \in S : other[x] = book[x]
    BY <1>2
  <2>2. SumFunctionOnSet(other, S) = SumFunctionOnSet(book, S)
    BY <2>1, SumCongruent
  <2>3. SumFunctionOnSet(book, S) \in Int
    BY SumType
  <2>. QED
    BY <1>2, <2>2, <2>3
<1>3. CASE r \in S
  <2>. DEFINE U == S \ {r}
  <2>1. IsFiniteSet(U) /\ U \in SUBSET R
    BY FS_Subset
  <2>2. \A x \in U : other[x] = book[x]
    OBVIOUS
  <2>3. SumFunctionOnSet(other, U) = SumFunctionOnSet(book, U)
    BY <2>1, <2>2, SumCongruent
  <2>4. SumFunctionOnSet(book, U) \in Int /\ book[r] \in Int /\ other[r] \in Int
    BY <2>1, SumType
  <2>5. SumFunctionOnSet(book, S) = book[r] + SumFunctionOnSet(book, U)
    BY <1>3, SumRemove
  <2>6. SumFunctionOnSet(other, S) = other[r] + SumFunctionOnSet(other, U)
    BY <1>3, SumRemove
  <2>. HIDE DEF U
  <2>. QED
    BY <1>3, <2>3, <2>4, <2>5, <2>6
<1>. QED
  BY <1>2, <1>3

----------------------------------------------------------------------------
(* The chain's accounts. *)

Books == [Ranges -> Nat]

LEMMA MathConstants ==
    /\ MaxTick \in Nat \ {0} /\ MinTick = -MaxTick /\ MinTick \in Int /\ MinTick < MaxTick
    /\ Q \in Nat \ {0} /\ WordSize \in Nat \ {0} /\ MaxFee \in Nat \ {0} /\ MaxSteps \in Nat \ {0}
BY V3MathAssumption DEF MinTick

LEMMA PoolConstants ==
    /\ Spacing \in Nat \ {0} /\ TreeSize \in Nat \ {0}
    /\ Amount \in Nat \ {0} /\ MaxPosition \in Nat \ {0}
BY V3PoolAssumption

LEMMA RangeEnds ==
    ASSUME NEW r \in Ranges
    PROVE  /\ r[1] \in MinTick..MaxTick /\ r[2] \in MinTick..MaxTick /\ r[1] < r[2]
           /\ r[1] % Spacing = 0 /\ r[2] % Spacing = 0
BY V3PoolAssumption

LEMMA RangesFinite == \A S \in SUBSET Ranges : IsFiniteSet(S)
<1>1. IsFiniteSet(MinTick..MaxTick)
  BY MathConstants, FS_Interval
<1>2. IsFiniteSet((MinTick..MaxTick) \X (MinTick..MaxTick))
  BY <1>1, FS_Product
<1>. QED
  BY <1>2, FS_Subset, V3PoolAssumption

LEMMA AccountTypes ==
    ASSUME NEW book \in Books, NEW t
    PROVE  LiquidityAt(book, t) \in Nat /\ GrossAt(book, t) \in Nat /\ NetAt(book, t) \in Int
<1>1. ASSUME NEW S \in SUBSET Ranges PROVE SumFunctionOnSet(book, S) \in Nat
  BY RangesFinite, SumNat DEF Books
<1>. DEFINE a == {r \in Ranges : Covers(r, t)}
            b == {r \in Ranges : t \in {r[1], r[2]}}
            c == {r \in Ranges : r[1] = t}
            d == {r \in Ranges : r[2] = t}
<1>2. a \in SUBSET Ranges /\ b \in SUBSET Ranges /\ c \in SUBSET Ranges /\ d \in SUBSET Ranges
  OBVIOUS
<1>3. /\ LiquidityAt(book, t) = SumFunctionOnSet(book, a)
      /\ GrossAt(book, t) = SumFunctionOnSet(book, b)
      /\ NetAt(book, t) = SumFunctionOnSet(book, c) - SumFunctionOnSet(book, d)
  BY DEF LiquidityAt, GrossAt, NetAt
<1>. HIDE DEF a, b, c, d
<1>4. /\ SumFunctionOnSet(book, a) \in Nat /\ SumFunctionOnSet(book, b) \in Nat
      /\ SumFunctionOnSet(book, c) \in Nat /\ SumFunctionOnSet(book, d) \in Nat
  BY <1>1, <1>2
<1>. QED
  BY <1>3, <1>4

\* A tick is initialized while a position ends at it.
LEMMA GrossIsEnds ==
    ASSUME NEW book \in Books, NEW t
    PROVE  /\ GrossAt(book, t) = 0 <=> \A r \in Ranges : t \in {r[1], r[2]} => book[r] = 0
           /\ GrossAt(book, t) = 0 => NetAt(book, t) = 0
           /\ \A r \in Ranges : t \in {r[1], r[2]} => GrossAt(book, t) >= book[r]
<1>. DEFINE b == {r \in Ranges : t \in {r[1], r[2]}}
            c == {r \in Ranges : r[1] = t}
            d == {r \in Ranges : r[2] = t}
<1>1. ASSUME NEW S \in SUBSET Ranges
      PROVE  /\ SumFunctionOnSet(book, S) \in Nat
             /\ (\A r \in S : book[r] = 0) => SumFunctionOnSet(book, S) = 0
             /\ \A r \in S : SumFunctionOnSet(book, S) >= book[r]
  BY RangesFinite, SumNat DEF Books
<1>2. b \in SUBSET Ranges /\ c \in SUBSET b /\ d \in SUBSET b /\ \A r \in Ranges : book[r] \in Nat
  BY DEF Books
<1>3. /\ GrossAt(book, t) = SumFunctionOnSet(book, b)
      /\ NetAt(book, t) = SumFunctionOnSet(book, c) - SumFunctionOnSet(book, d)
  BY DEF GrossAt, NetAt
<1>4. \A r \in Ranges : t \in {r[1], r[2]} <=> r \in b
  OBVIOUS
<1>. HIDE DEF b, c, d
<1>5. GrossAt(book, t) = 0 => \A r \in b : book[r] = 0
  <2>1. \A r \in b : SumFunctionOnSet(book, b) >= book[r] /\ book[r] \in Nat
    BY <1>1, <1>2
  <2>. QED
    BY <1>3, <2>1
<1>6. (\A r \in b : book[r] = 0) => GrossAt(book, t) = 0 /\ NetAt(book, t) = 0
  <2>1. b \in SUBSET Ranges /\ c \in SUBSET Ranges /\ d \in SUBSET Ranges
    BY <1>2
  <2>. QED
    BY <1>1, <1>2, <1>3, <2>1
<1>7. \A r \in b : GrossAt(book, t) >= book[r]
  BY <1>1, <1>2, <1>3
<1>8. \A r \in b : r \in Ranges
  BY <1>2
<1>9. GrossAt(book, t) = 0 <=> \A r \in b : book[r] = 0
  BY <1>5, <1>6
<1>10. (\A r \in b : book[r] = 0) <=> \A r \in Ranges : t \in {r[1], r[2]} => book[r] = 0
  BY <1>4, <1>8
<1>11. \A r \in Ranges : t \in {r[1], r[2]} => GrossAt(book, t) >= book[r]
  BY <1>4, <1>7
<1>. QED
  BY <1>6, <1>9, <1>10, <1>11

LEMMA InitializedTicks ==
    ASSUME NEW book \in Books
    PROVE  /\ Initialized(book) \subseteq MinTick..MaxTick
           /\ \A t \in Initialized(book) : t % Spacing = 0
           /\ \A t \in Initialized(book) : GrossAt(book, t) > 0
           /\ \A t \in (MinTick..MaxTick) \ Initialized(book) :
                  GrossAt(book, t) = 0 /\ NetAt(book, t) = 0
           /\ \A r \in Ranges : book[r] > 0 => r[1] \in Initialized(book) /\ r[2] \in Initialized(book)
<1>1. ASSUME NEW t \in Initialized(book) PROVE t % Spacing = 0
  <2>1. GrossAt(book, t) # 0
    BY DEF Initialized
  <2>2. PICK r \in Ranges : t \in {r[1], r[2]}
    BY <2>1, GrossIsEnds
  <2>. QED
    BY <2>2, RangeEnds
<1>2. ASSUME NEW t \in (MinTick..MaxTick) \ Initialized(book)
      PROVE  GrossAt(book, t) = 0 /\ NetAt(book, t) = 0
  <2>1. GrossAt(book, t) = 0
    BY AccountTypes DEF Initialized
  <2>. QED
    BY <2>1, GrossIsEnds
<1>3. ASSUME NEW r \in Ranges, book[r] > 0, NEW t \in {r[1], r[2]} PROVE t \in Initialized(book)
  <2>1. GrossAt(book, t) >= book[r]
    BY <1>3, GrossIsEnds
  <2>2. t \in MinTick..MaxTick /\ book[r] \in Nat /\ GrossAt(book, t) \in Nat
    BY <1>3, RangeEnds, AccountTypes DEF Books
  <2>. QED
    BY <1>3, <2>1, <2>2 DEF Initialized
<1>. QED
  BY <1>1, <1>2, <1>3 DEF Initialized

\* A position changed.
LEMMA AccountsAfter ==
    ASSUME NEW book \in Books, NEW r \in Ranges, NEW other \in Books, NEW t,
           \A x \in Ranges \ {r} : other[x] = book[x]
    PROVE  LET d == other[r] - book[r]
           IN  /\ LiquidityAt(other, t) = LiquidityAt(book, t) + (IF Covers(r, t) THEN d ELSE 0)
               /\ GrossAt(other, t) = GrossAt(book, t) + (IF t \in {r[1], r[2]} THEN d ELSE 0)
               /\ NetAt(other, t) = NetAt(book, t) + (IF r[1] = t THEN d ELSE 0)
                                    - (IF r[2] = t THEN d ELSE 0)
<1>. DEFINE a == {x \in Ranges : Covers(x, t)}
            b == {x \in Ranges : t \in {x[1], x[2]}}
            c == {x \in Ranges : x[1] = t}
            e == {x \in Ranges : x[2] = t}
<1>1. ASSUME NEW S \in SUBSET Ranges
      PROVE  /\ SumFunctionOnSet(other, S)
                   = SumFunctionOnSet(book, S) + (IF r \in S THEN other[r] - book[r] ELSE 0)
             /\ SumFunctionOnSet(book, S) \in Int
  <2>1. book \in [Ranges -> Int] /\ other \in [Ranges -> Int] /\ IsFiniteSet(S)
    BY RangesFinite DEF Books
  <2>. QED
    BY <2>1, SumExcept, SumType
<1>2. a \in SUBSET Ranges /\ b \in SUBSET Ranges /\ c \in SUBSET Ranges /\ e \in SUBSET Ranges
  OBVIOUS
<1>3. /\ LiquidityAt(book, t) = SumFunctionOnSet(book, a)
      /\ GrossAt(book, t) = SumFunctionOnSet(book, b)
      /\ NetAt(book, t) = SumFunctionOnSet(book, c) - SumFunctionOnSet(book, e)
      /\ LiquidityAt(other, t) = SumFunctionOnSet(other, a)
      /\ GrossAt(other, t) = SumFunctionOnSet(other, b)
      /\ NetAt(other, t) = SumFunctionOnSet(other, c) - SumFunctionOnSet(other, e)
  BY DEF LiquidityAt, GrossAt, NetAt
<1>4. /\ r \in a <=> Covers(r, t)
      /\ r \in b <=> t \in {r[1], r[2]}
      /\ r \in c <=> r[1] = t
      /\ r \in e <=> r[2] = t
  OBVIOUS
<1>5. book[r] \in Nat /\ other[r] \in Nat
  BY DEF Books
<1>. HIDE DEF a, b, c, e
<1>6. LiquidityAt(other, t) = LiquidityAt(book, t) + (IF Covers(r, t) THEN other[r] - book[r] ELSE 0)
  BY <1>1, <1>2, <1>3, <1>4
<1>7. GrossAt(other, t) = GrossAt(book, t) + (IF t \in {r[1], r[2]} THEN other[r] - book[r] ELSE 0)
  BY <1>1, <1>2, <1>3, <1>4
<1>8. NetAt(other, t) = NetAt(book, t) + (IF r[1] = t THEN other[r] - book[r] ELSE 0)
                        - (IF r[2] = t THEN other[r] - book[r] ELSE 0)
  <2>1. /\ SumFunctionOnSet(other, c) = SumFunctionOnSet(book, c) + (IF r[1] = t THEN other[r] - book[r] ELSE 0)
        /\ SumFunctionOnSet(other, e) = SumFunctionOnSet(book, e) + (IF r[2] = t THEN other[r] - book[r] ELSE 0)
        /\ SumFunctionOnSet(book, c) \in Int /\ SumFunctionOnSet(book, e) \in Int
    BY <1>1, <1>2, <1>4
  <2>. QED
    BY <1>3, <1>5, <2>1
<1>. QED
  BY <1>6, <1>7, <1>8

\* Crossing a tick upward adds its net liquidity.
LEMMA LiquidityCrosses ==
    ASSUME NEW book \in Books, NEW t \in Int
    PROVE  LiquidityAt(book, t) = LiquidityAt(book, t - 1) + NetAt(book, t)
<1>. DEFINE now == {r \in Ranges : Covers(r, t)}
            before == {r \in Ranges : Covers(r, t - 1)}
            both == {r \in Ranges : r[1] <= t - 1 /\ t < r[2]}
            c == {r \in Ranges : r[1] = t}
            d == {r \in Ranges : r[2] = t}
<1>1. \A r \in Ranges : r[1] \in Int /\ r[2] \in Int /\ r[1] < r[2]
  BY RangeEnds, MathConstants
<1>2. now = both \cup c /\ before = both \cup d /\ both \cap c = {} /\ both \cap d = {}
  BY <1>1 DEF Covers
<1>3. /\ LiquidityAt(book, t) = SumFunctionOnSet(book, now)
      /\ LiquidityAt(book, t - 1) = SumFunctionOnSet(book, before)
      /\ NetAt(book, t) = SumFunctionOnSet(book, c) - SumFunctionOnSet(book, d)
  BY DEF LiquidityAt, NetAt
<1>4. both \in SUBSET Ranges /\ c \in SUBSET Ranges /\ d \in SUBSET Ranges
  OBVIOUS
<1>5. book \in [Ranges -> Int] /\ IsFiniteSet(both) /\ IsFiniteSet(c) /\ IsFiniteSet(d)
  BY <1>4, RangesFinite DEF Books
<1>. HIDE DEF now, before, both, c, d
<1>6. /\ SumFunctionOnSet(book, now) = SumFunctionOnSet(book, both) + SumFunctionOnSet(book, c)
      /\ SumFunctionOnSet(book, before) = SumFunctionOnSet(book, both) + SumFunctionOnSet(book, d)
  BY <1>2, <1>4, <1>5, SumUnion
<1>7. /\ SumFunctionOnSet(book, both) \in Int /\ SumFunctionOnSet(book, c) \in Int
      /\ SumFunctionOnSet(book, d) \in Int
  BY <1>4, <1>5, SumType
<1>. QED
  BY <1>3, <1>6, <1>7

\* Between initialized ticks it stays the same.
LEMMA LiquidityFlat ==
    ASSUME NEW book \in Books, NEW a \in MinTick..MaxTick, NEW b \in MinTick..MaxTick, a <= b,
           \A t \in Initialized(book) : ~(a < t /\ t <= b)
    PROVE  LiquidityAt(book, a) = LiquidityAt(book, b)
<1>. DEFINE atA == {r \in Ranges : Covers(r, a)}
            atB == {r \in Ranges : Covers(r, b)}
            both == {r \in Ranges : Covers(r, a) /\ Covers(r, b)}
<1>1. ASSUME NEW r \in Ranges, Covers(r, a) # Covers(r, b) PROVE book[r] = 0
  <2>1. r[1] \in Int /\ r[2] \in Int /\ r[1] < r[2] /\ a \in Int /\ b \in Int
    BY RangeEnds, MathConstants
  <2>2. (a < r[1] /\ r[1] <= b) \/ (a < r[2] /\ r[2] <= b)
    BY <1>1, <2>1 DEF Covers
  <2>3. book[r] \in Nat /\ ~(book[r] > 0)
    BY <2>2, InitializedTicks DEF Books
  <2>. QED
    BY <2>3
<1>2. both \in SUBSET atA /\ both \in SUBSET atB /\ atA \in SUBSET Ranges /\ atB \in SUBSET Ranges
  OBVIOUS
<1>3. (\A r \in atA \ both : book[r] = 0) /\ (\A r \in atB \ both : book[r] = 0)
  BY <1>1
<1>4. book \in [Ranges -> Int] /\ IsFiniteSet(atA) /\ IsFiniteSet(atB)
  BY <1>2, RangesFinite DEF Books
<1>5. LiquidityAt(book, a) = SumFunctionOnSet(book, atA)
      /\ LiquidityAt(book, b) = SumFunctionOnSet(book, atB)
  BY DEF LiquidityAt
<1>. HIDE DEF atA, atB, both
<1>6. SumFunctionOnSet(book, atA) = SumFunctionOnSet(book, both)
  BY <1>2, <1>3, <1>4, SumSupport
<1>7. SumFunctionOnSet(book, atB) = SumFunctionOnSet(book, both)
  BY <1>2, <1>3, <1>4, SumSupport
<1>. QED
  BY <1>5, <1>6, <1>7

\* Where no position ends on one side there is none.
LEMMA LiquidityNone ==
    ASSUME NEW book \in Books, NEW a \in MinTick..MaxTick,
           \/ \A t \in Initialized(book) : t > a
           \/ \A t \in Initialized(book) : t <= a
    PROVE  LiquidityAt(book, a) = 0
<1>. DEFINE atA == {r \in Ranges : Covers(r, a)}
<1>1. ASSUME NEW r \in atA PROVE book[r] = 0
  <2>1. r[1] \in Int /\ r[2] \in Int /\ a \in Int /\ r[1] <= a /\ a < r[2] /\ book[r] \in Nat
    BY RangeEnds, MathConstants DEF Books, Covers
  <2>2. ~(r[1] \in Initialized(book) /\ r[2] \in Initialized(book))
    BY <2>1
  <2>3. ~(book[r] > 0)
    BY <2>2, InitializedTicks
  <2>. QED
    BY <2>1, <2>3
<1>2. atA \in SUBSET Ranges
  OBVIOUS
<1>3. LiquidityAt(book, a) = SumFunctionOnSet(book, atA)
  BY DEF LiquidityAt
<1>. HIDE DEF atA
<1>. QED
  BY <1>1, <1>2, <1>3, RangesFinite, SumNat DEF Books

----------------------------------------------------------------------------
(* Rounding division. *)

LEMMA Floor ==
    ASSUME NEW a \in Int, NEW b \in Nat \ {0}
    PROVE  a \div b \in Int /\ (a \div b) * b <= a /\ a < (a \div b) * b + b
<1>1. a \div b \in Int /\ a = b * (a \div b) + (a % b) /\ a % b \in 0..(b - 1)
  OBVIOUS
<1>. QED
  BY <1>1

LEMMA FloorAtLeast ==
    ASSUME NEW a \in Int, NEW b \in Nat \ {0}, NEW q \in Int, q * b <= a
    PROVE  q <= a \div b
<1>. DEFINE d == a \div b
<1>1. d \in Int /\ a < d * b + b
  BY Floor
<1>. HIDE DEF d
<1>2. q * b < (d + 1) * b
  BY <1>1
<1>3. q < d + 1
  <2>. SUFFICES ASSUME d + 1 <= q PROVE FALSE
    BY <1>1
  <2>1. PICK k \in Nat : q = (d + 1) + k
    BY <1>1
  <2>2. q * b = (d + 1) * b + k * b /\ k * b \in Nat
    BY <1>1, <2>1
  <2>. QED
    BY <1>1, <1>2, <2>2
<1>4. q <= d
  BY <1>1, <1>3
<1>. QED
  BY <1>4 DEF d

LEMMA FloorBelow ==
    ASSUME NEW a \in Int, NEW b \in Nat \ {0}, NEW q \in Int, a < q * b
    PROVE  a \div b < q
<1>. DEFINE d == a \div b
<1>1. d \in Int /\ d * b <= a
  BY Floor
<1>. HIDE DEF d
<1>2. d < q
  <2>. SUFFICES ASSUME q <= d PROVE FALSE
    BY <1>1
  <2>1. PICK k \in Nat : d = q + k
    BY <1>1
  <2>2. d * b = q * b + k * b /\ k * b \in Nat /\ q * b \in Int
    BY <1>1, <2>1
  <2>. QED
    BY <1>1, <2>2
<1>. QED
  BY <1>2 DEF d

LEMMA FloorMonotone ==
    ASSUME NEW a \in Int, NEW c \in Int, NEW b \in Nat \ {0}, a <= c
    PROVE  a \div b <= c \div b
<1>1. a \div b \in Int /\ (a \div b) * b <= a
  BY Floor
<1>2. (a \div b) * b \in Int
  BY <1>1
<1>3. (a \div b) * b <= c
  BY <1>1, <1>2
<1>. QED
  BY <1>1, <1>3, FloorAtLeast

LEMMA FloorExact ==
    ASSUME NEW a \in Int, NEW b \in Nat \ {0}, a % b = 0
    PROVE  a \div b \in Int /\ a = (a \div b) * b
<1>1. a \div b \in Int /\ a = b * (a \div b) + (a % b)
  OBVIOUS
<1>. QED
  BY <1>1

\* A place in a list of words.
LEMMA Place ==
    ASSUME NEW a \in Int, NEW b \in Nat \ {0}
    PROVE  \E i \in 0..(b - 1) : a \div b \in Int /\ a = (a \div b) * b + i
<1>1. a \div b \in Int /\ (a \div b) * b <= a /\ a < (a \div b) * b + b
  BY Floor
<1>. DEFINE i == a - (a \div b) * b
<1>2. (a \div b) * b \in Int
  BY <1>1
<1>3. i \in 0..(b - 1) /\ a = (a \div b) * b + i
  BY <1>1, <1>2
<1>. QED
  BY <1>1, <1>3

----------------------------------------------------------------------------
(* A fetch finds every initialized tick and no other. *)

LEMMA WordsFind ==
    ASSUME NEW book \in Books
    PROVE  WordTicks(book) = Initialized(book)
<1>1. WordTicks(book) \subseteq Initialized(book)
  BY DEF WordTicks, Bitmap
<1>2. ASSUME NEW t \in Initialized(book) PROVE t \in WordTicks(book)
  <2>. DEFINE c == t \div Spacing
              w == c \div WordSize
  <2>1. t \in MinTick..MaxTick /\ t % Spacing = 0 /\ t \in Int /\ MinTick \in Int /\ MaxTick \in Int
    BY InitializedTicks, MathConstants
  <2>2. c \in Int /\ t = c * Spacing
    BY <2>1, PoolConstants, FloorExact
  <2>3. PICK i \in 0..(WordSize - 1) : w \in Int /\ c = w * WordSize + i
    BY <2>2, MathConstants, Place
  <2>4. w = TickToWord(t)
    BY DEF TickToWord
  <2>5. TickToWord(MinTick) <= w /\ w <= TickToWord(MaxTick)
    <3>1. MinTick \div Spacing <= c /\ c <= MaxTick \div Spacing
      BY <2>1, PoolConstants, FloorMonotone
    <3>2. MinTick \div Spacing \in Int /\ MaxTick \div Spacing \in Int
      BY <2>1, PoolConstants, Floor
    <3>. HIDE DEF c
    <3>3. (MinTick \div Spacing) \div WordSize <= w /\ w <= (MaxTick \div Spacing) \div WordSize
      BY <2>2, <3>1, <3>2, MathConstants, FloorMonotone
    <3>. QED
      BY <3>3 DEF TickToWord
  <2>6. TickToWord(MinTick) \in Int /\ TickToWord(MaxTick) \in Int
    BY <2>1, PoolConstants, MathConstants, Floor DEF TickToWord
  <2>7. w \in TickToWord(MinTick)..TickToWord(MaxTick)
    BY <2>3, <2>5, <2>6
  <2>. HIDE DEF c, w
  <2>8. (w * WordSize + i) * Spacing = t
    BY <2>2, <2>3
  <2>9. i \in Bitmap(book, w)
    BY <1>2, <2>8 DEF Bitmap
  <2>. QED
    BY <2>7, <2>8, <2>9 DEF WordTicks
<1>. QED
  BY <1>1, <1>2

LEMMA OffsetBound ==
    /\ LayerOffset \in Nat
    /\ MaxTick <= LayerOffset * WordSize
    /\ MinTick >= (-LayerOffset) * WordSize
<1>. DEFINE n == MaxTick + WordSize - 1
            L == n \div WordSize
<1>1. MaxTick \in Nat \ {0} /\ WordSize \in Nat \ {0} /\ MinTick = -MaxTick /\ n \in Int
  BY MathConstants
<1>2. L \in Int /\ n < L * WordSize + WordSize
  BY <1>1, Floor
<1>3. 0 * WordSize <= n
  BY <1>1
<1>4. 0 <= L
  BY <1>1, <1>3, FloorAtLeast
<1>5. LayerOffset = L
  BY DEF LayerOffset, DivCeil
<1>. HIDE DEF L
<1>6. L * WordSize \in Int /\ MaxTick <= L * WordSize
  BY <1>1, <1>2
<1>7. (-L) * WordSize = -(L * WordSize)
  BY <1>1, <1>2
<1>. QED
  BY <1>1, <1>2, <1>4, <1>5, <1>6, <1>7

LEMMA TreeFinds ==
    ASSUME NEW book \in Books
    PROVE  TreeTicks(book) = Initialized(book)
<1>1. TreeTicks(book) \subseteq Initialized(book)
  BY DEF TreeTicks, Leaf
<1>2. ASSUME NEW t \in Initialized(book) PROVE t \in TreeTicks(book)
  <2>. DEFINE w == t \div WordSize
              n == w + LayerOffset
              k == n \div TreeSize
  <2>1. t \in MinTick..MaxTick /\ t \in Int /\ MinTick \in Int /\ MaxTick \in Int
    BY InitializedTicks, MathConstants
  <2>2. PICK i \in 0..(WordSize - 1) : w \in Int /\ t = w * WordSize + i
    BY <2>1, MathConstants, Place
  <2>3. -LayerOffset <= w /\ w <= LayerOffset
    <3>1. (-LayerOffset) * WordSize <= t
      <4>1. (-LayerOffset) * WordSize \in Int
        BY OffsetBound, MathConstants
      <4>. QED
        BY <2>1, <4>1, OffsetBound
    <3>2. t < (LayerOffset + 1) * WordSize
      <4>1. (LayerOffset + 1) * WordSize = LayerOffset * WordSize + WordSize /\ LayerOffset * WordSize \in Int
        BY OffsetBound, MathConstants
      <4>. QED
        BY <2>1, <4>1, OffsetBound, MathConstants
    <3>3. -LayerOffset \in Int /\ LayerOffset + 1 \in Int
      BY OffsetBound
    <3>4. -LayerOffset <= w
      BY <2>1, <3>1, <3>3, MathConstants, FloorAtLeast
    <3>5. w < LayerOffset + 1
      BY <2>1, <3>2, <3>3, MathConstants, FloorBelow
    <3>. QED
      BY <2>2, <3>4, <3>5, OffsetBound
  <2>4. n \in 0..(2 * LayerOffset) /\ n \in Int
    BY <2>2, <2>3, OffsetBound
  <2>. HIDE DEF w
  <2>5. PICK j \in 0..(TreeSize - 1) : k \in Int /\ n = k * TreeSize + j
    BY <2>4, PoolConstants, Place
  <2>6. k \in 0..((2 * LayerOffset) \div TreeSize)
    <3>1. 2 * LayerOffset \in Int /\ n <= 2 * LayerOffset
      BY <2>4, OffsetBound
    <3>2. (2 * LayerOffset) \div TreeSize \in Int
      BY <3>1, PoolConstants, Floor
    <3>. HIDE DEF n
    <3>3. k <= (2 * LayerOffset) \div TreeSize
      BY <2>4, <3>1, PoolConstants, FloorMonotone
    <3>4. 0 * TreeSize <= n
      BY <2>4, PoolConstants
    <3>5. 0 <= k
      BY <2>4, <3>4, PoolConstants, FloorAtLeast
    <3>. QED
      BY <2>5, <3>2, <3>3, <3>5
  <2>. HIDE DEF k
  <2>7. k * TreeSize + j - LayerOffset = w
    <3>1. k * TreeSize \in Int
      BY <2>5, PoolConstants
    <3>. QED
      BY <2>2, <2>5, <3>1, OffsetBound
  <2>8. i \in Leaf(book, w)
    BY <1>2, <2>2 DEF Leaf
  <2>9. j \in SecondLayer(book, k)
    BY <2>7, <2>8 DEF SecondLayer
  <2>10. k \in Root(book)
    BY <2>6, <2>9 DEF Root
  <2>. DEFINE leaves == UNION {{m * TreeSize + x - LayerOffset : x \in SecondLayer(book, m)} :
                                   m \in Root(book)}
              found == UNION {{word * WordSize + x : x \in Leaf(book, word)} : word \in leaves}
  <2>11. w \in leaves
    BY <2>7, <2>9, <2>10
  <2>12. TreeTicks(book) = {u \in found : MinTick <= u /\ u <= MaxTick}
    BY DEF TreeTicks
  <2>. HIDE DEF leaves
  <2>13. t \in found
    BY <2>2, <2>8, <2>11
  <2>. HIDE DEF found
  <2>. QED
    BY <2>1, <2>12, <2>13
<1>. QED
  BY <1>1, <1>2

----------------------------------------------------------------------------
(* The tick map. *)

LEMMA RatioType ==
    /\ \A t \in MinTick..MaxTick : Ratio[t] \in Nat \ {0}
    /\ \A t \in MinTick..(MaxTick - 1) : Ratio[t] < Ratio[t + 1]
BY RatioAssumption

\* A higher tick has a higher ratio.
LEMMA RatioMonotone ==
    ASSUME NEW a \in MinTick..MaxTick, NEW b \in MinTick..MaxTick
    PROVE  (a < b => Ratio[a] < Ratio[b]) /\ (a <= b => Ratio[a] <= Ratio[b])
<1>1. ASSUME a < b PROVE Ratio[a] < Ratio[b]
  <2>. DEFINE S == {n \in Nat : a + 1 + n <= MaxTick => Ratio[a] < Ratio[a + 1 + n]}
  <2>0. a \in Int /\ b \in Int /\ MinTick \in Int /\ MaxTick \in Int
    BY MathConstants
  <2>1. 0 \in S
    <3>1. a \in MinTick..(MaxTick - 1) /\ a + 1 + 0 = a + 1
      BY <1>1, <2>0
    <3>. QED
      BY <3>1, RatioType
  <2>2. ASSUME NEW n \in Nat, n \in S PROVE n + 1 \in S
    <3>. SUFFICES ASSUME a + 1 + (n + 1) <= MaxTick PROVE Ratio[a] < Ratio[a + 1 + (n + 1)]
      OBVIOUS
    <3>1. a + 1 + n \in MinTick..(MaxTick - 1) /\ a + 1 + (n + 1) = (a + 1 + n) + 1
          /\ a + 1 + n <= MaxTick
      BY <2>0
    <3>2. Ratio[a] < Ratio[a + 1 + n]
      BY <2>2, <3>1
    <3>3. Ratio[a + 1 + n] < Ratio[a + 1 + (n + 1)]
      BY <3>1, RatioType
    <3>4. Ratio[a] \in Nat /\ Ratio[a + 1 + n] \in Nat /\ Ratio[a + 1 + (n + 1)] \in Nat
      <4>1. a + 1 + n \in MinTick..MaxTick /\ a + 1 + (n + 1) \in MinTick..MaxTick
        BY <2>0
      <4>. QED
        BY <4>1, RatioType
    <3>. QED
      BY <3>2, <3>3, <3>4
  <2>3. \A n \in Nat : n \in S
    <3>. HIDE DEF S
    <3>. QED
      BY <2>1, <2>2, Induction
  <2>4. b - a - 1 \in Nat /\ a + 1 + (b - a - 1) = b /\ b <= MaxTick
    BY <1>1, <2>0
  <2>. QED
    BY <2>3, <2>4
<1>2. Ratio[a] \in Nat /\ Ratio[b] \in Nat /\ a \in Int /\ b \in Int
  BY RatioType, MathConstants
<1>. QED
  BY <1>1, <1>2

TicksOf(book) == [t \in Initialized(book) |-> [net |-> NetAt(book, t), gross |-> GrossAt(book, t)]]

\* What a pool is when the chain's positions are book: its ticks and liquidity
\* are theirs, and its price is within its tick.
PoolRecords(book) ==
    [search : {"WordBounded", "NextInitialized"}, spacing : {Spacing}, fee : Fees,
     price : Nat \ {0}, tick : MinTick..(MaxTick - 1), liquidity : Nat, ticks : {TicksOf(book)}]
Pools(book) ==
    {p \in PoolRecords(book) : /\ p.liquidity = LiquidityAt(book, p.tick)
                               /\ Ratio[p.tick] <= p.price /\ p.price <= Ratio[p.tick + 1]}

LEMMA PoolFetched ==
    ASSUME NEW book \in Books, NEW search \in {"WordBounded", "NextInitialized"}, NEW fee \in Fees,
           NEW tick \in MinTick..(MaxTick - 1), NEW price \in Nat \ {0},
           Ratio[tick] <= price, price <= Ratio[tick + 1]
    PROVE  FetchPool(search, fee, book, price, tick) \in Pools(book)
<1>1. LiquidityAt(book, tick) \in Nat
  BY AccountTypes
<1>2. FetchPool(search, fee, book, price, tick)
        = [search |-> search, spacing |-> Spacing, fee |-> fee, price |-> price, tick |-> tick,
           liquidity |-> LiquidityAt(book, tick), ticks |-> TicksOf(book)]
  BY WordsFind, TreeFinds DEF FetchPool, TicksOf
<1>. QED
  BY <1>1, <1>2 DEF Pools, PoolRecords

\* What update_tick leaves: an entry for the tick unless its gross is zero, and
\* the other entries.
Updated(new, ticks, t, net, gross) ==
    /\ new = [u \in DOMAIN new |-> new[u]]
    /\ DOMAIN new = IF gross = 0 THEN DOMAIN ticks \ {t} ELSE DOMAIN ticks \cup {t}
    /\ t \in DOMAIN new => new[t] = [net |-> net, gross |-> gross]
    /\ \A u \in DOMAIN new \ {t} : new[u] = ticks[u]

LEMMA UpdateTickResult ==
    ASSUME NEW ticks, NEW t, NEW net, NEW gross
    PROVE  Updated(UpdateTick(ticks, t, net, gross), ticks, t, net, gross)
<1>1. CASE gross = 0
  BY <1>1 DEF UpdateTick, Updated
<1>2. CASE gross # 0
  BY <1>2 DEF UpdateTick, Updated
<1>. QED
  BY <1>1, <1>2

LEMMA MapRead ==
    ASSUME NEW book \in Books, NEW t \in MinTick..MaxTick
    PROVE  NetOf(TicksOf(book), t) = NetAt(book, t) /\ GrossOf(TicksOf(book), t) = GrossAt(book, t)
<1>1. CASE t \in Initialized(book)
  BY <1>1 DEF TicksOf, NetOf, GrossOf
<1>2. CASE t \notin Initialized(book)
  <2>1. GrossAt(book, t) = 0 /\ NetAt(book, t) = 0
    BY <1>2, InitializedTicks
  <2>. QED
    BY <1>2, <2>1 DEF TicksOf, NetOf, GrossOf
<1>. QED
  BY <1>1, <1>2

\* Updating both ends of a range to the chain's accounts gives the chain's map.
LEMMA MapFollows ==
    ASSUME NEW book \in Books, NEW other \in Books, NEW r \in Ranges,
           \A x \in Ranges \ {r} : other[x] = book[x],
           NEW low, low = UpdateTick(TicksOf(book), r[1], NetAt(other, r[1]), GrossAt(other, r[1]))
    PROVE  UpdateTick(low, r[2], NetAt(other, r[2]), GrossAt(other, r[2])) = TicksOf(other)
<1>. DEFINE new == UpdateTick(low, r[2], NetAt(other, r[2]), GrossAt(other, r[2]))
            entry(t) == [net |-> NetAt(other, t), gross |-> GrossAt(other, t)]
<1>1. r[1] \in MinTick..MaxTick /\ r[2] \in MinTick..MaxTick /\ r[1] # r[2]
  <2>1. r[1] \in Int /\ r[2] \in Int /\ r[1] < r[2]
    BY RangeEnds, MathConstants
  <2>. QED
    BY <2>1, RangeEnds
<1>2. \A t : t \notin {r[1], r[2]} => GrossAt(other, t) = GrossAt(book, t) /\ NetAt(other, t) = NetAt(book, t)
  <2>. SUFFICES ASSUME NEW t, t \notin {r[1], r[2]}
                PROVE  GrossAt(other, t) = GrossAt(book, t) /\ NetAt(other, t) = NetAt(book, t)
    OBVIOUS
  <2>1. GrossAt(other, t) = GrossAt(book, t) + 0 /\ NetAt(other, t) = NetAt(book, t) + 0 - 0
    BY AccountsAfter
  <2>2. GrossAt(book, t) \in Int /\ NetAt(book, t) \in Int
    BY AccountTypes
  <2>. QED
    BY <2>1, <2>2
<1>3. /\ DOMAIN low = IF GrossAt(other, r[1]) = 0 THEN Initialized(book) \ {r[1]}
                      ELSE Initialized(book) \cup {r[1]}
      /\ r[1] \in DOMAIN low => low[r[1]] = entry(r[1])
      /\ \A u \in DOMAIN low \ {r[1]} : low[u] = TicksOf(book)[u]
  <2>. DEFINE ticks == TicksOf(book)
              net == NetAt(other, r[1])
              gross == GrossAt(other, r[1])
              t == r[1]
  <2>1. DOMAIN ticks = Initialized(book) /\ entry(t) = [net |-> net, gross |-> gross]
    BY DEF TicksOf
  <2>2. low = UpdateTick(ticks, t, net, gross)
    OBVIOUS
  <2>. HIDE DEF ticks, net, gross, entry, t
  <2>3. Updated(low, ticks, t, net, gross)
    BY <2>2, UpdateTickResult
  <2>4. /\ DOMAIN low = IF gross = 0 THEN Initialized(book) \ {t} ELSE Initialized(book) \cup {t}
        /\ t \in DOMAIN low => low[t] = entry(t)
        /\ \A u \in DOMAIN low \ {t} : low[u] = ticks[u]
    BY <2>1, <2>3 DEF Updated
  <2>. QED
    BY <2>4 DEF gross, ticks, t
<1>4. /\ new = [u \in DOMAIN new |-> new[u]]
      /\ DOMAIN new = IF GrossAt(other, r[2]) = 0 THEN DOMAIN low \ {r[2]}
                      ELSE DOMAIN low \cup {r[2]}
      /\ r[2] \in DOMAIN new => new[r[2]] = entry(r[2])
      /\ \A u \in DOMAIN new \ {r[2]} : new[u] = low[u]
  <2>. DEFINE net == NetAt(other, r[2])
              gross == GrossAt(other, r[2])
              t == r[2]
  <2>1. entry(t) = [net |-> net, gross |-> gross]
    OBVIOUS
  <2>2. new = UpdateTick(low, t, net, gross)
    OBVIOUS
  <2>. HIDE DEF net, gross, entry, t, new
  <2>3. Updated(new, low, t, net, gross)
    BY <2>2, UpdateTickResult
  <2>4. t \in DOMAIN new => new[t] = entry(t)
    BY <2>1, <2>3 DEF Updated
  <2>. QED
    BY <2>3, <2>4 DEF gross, t, Updated
<1>. HIDE DEF new
<1>5. \A t : t \in Initialized(other) <=> t \in MinTick..MaxTick /\ GrossAt(other, t) # 0
  BY AccountTypes DEF Initialized
<1>6. \A t : t \in Initialized(book) <=> t \in MinTick..MaxTick /\ GrossAt(book, t) # 0
  BY AccountTypes DEF Initialized
<1>7. DOMAIN new = Initialized(other)
  <2>1. ASSUME NEW t PROVE t \in DOMAIN new <=> t \in Initialized(other)
    <3>1. CASE t = r[1]
      BY <1>1, <1>3, <1>4, <1>5, <3>1
    <3>2. CASE t = r[2]
      BY <1>1, <1>3, <1>4, <1>5, <3>2
    <3>3. CASE t \notin {r[1], r[2]}
      BY <1>2, <1>3, <1>4, <1>5, <1>6, <3>3
    <3>. QED
      BY <3>1, <3>2, <3>3
  <2>. QED
    BY <2>1
<1>8. ASSUME NEW t \in DOMAIN new PROVE new[t] = entry(t)
  <2>1. CASE t = r[2]
    BY <1>4, <2>1
  <2>2. CASE t # r[2]
    <3>1. t \in DOMAIN low /\ new[t] = low[t]
      BY <1>4, <2>2
    <3>2. CASE t = r[1]
      BY <1>3, <3>1, <3>2
    <3>3. CASE t # r[1]
      <4>1. t \in Initialized(book) /\ low[t] = TicksOf(book)[t]
        BY <1>3, <3>1, <3>3
      <4>. QED
        BY <1>2, <2>2, <3>1, <3>3, <4>1 DEF TicksOf
    <3>. QED
      BY <3>2, <3>3
  <2>. QED
    BY <2>1, <2>2
<1>9. new = [t \in Initialized(other) |-> entry(t)]
  <2>. HIDE DEF entry
  <2>. QED
    BY <1>4, <1>7, <1>8
<1>. QED
  BY <1>9 DEF TicksOf, new

LEMMA OtherTick ==
    ASSUME NEW ticks, NEW a, NEW b, a # b, NEW net, NEW gross
    PROVE  /\ b \in DOMAIN UpdateTick(ticks, a, net, gross) <=> b \in DOMAIN ticks
           /\ b \in DOMAIN ticks => UpdateTick(ticks, a, net, gross)[b] = ticks[b]
           /\ NetOf(UpdateTick(ticks, a, net, gross), b) = NetOf(ticks, b)
           /\ GrossOf(UpdateTick(ticks, a, net, gross), b) = GrossOf(ticks, b)
<1>. DEFINE new == UpdateTick(ticks, a, net, gross)
<1>1. Updated(new, ticks, a, net, gross)
  BY UpdateTickResult
<1>. HIDE DEF new
<1>2. b \in DOMAIN new <=> b \in DOMAIN ticks
  BY <1>1 DEF Updated
<1>3. b \in DOMAIN ticks => new[b] = ticks[b]
  BY <1>1, <1>2 DEF Updated
<1>4. NetOf(new, b) = NetOf(ticks, b) /\ GrossOf(new, b) = GrossOf(ticks, b)
  BY <1>2, <1>3 DEF NetOf, GrossOf
<1>. QED
  BY <1>2, <1>3, <1>4 DEF new

LEMMA PoolFields ==
    ASSUME NEW book, NEW p \in Pools(book)
    PROVE  /\ p \in PoolRecords(book)
           /\ p.search \in {"WordBounded", "NextInitialized"} /\ p.spacing = Spacing /\ p.fee \in Fees
           /\ p.price \in Nat \ {0} /\ p.tick \in MinTick..(MaxTick - 1) /\ p.liquidity \in Nat
           /\ p.ticks = TicksOf(book) /\ p.liquidity = LiquidityAt(book, p.tick)
           /\ Ratio[p.tick] <= p.price /\ p.price <= Ratio[p.tick + 1]
BY DEF Pools, PoolRecords

LEMMA PoolMoves ==
    ASSUME NEW book, NEW p \in Pools(book), NEW other \in Books,
           NEW ticks, ticks = TicksOf(other), NEW liquidity, liquidity = LiquidityAt(other, p.tick)
    PROVE  [p EXCEPT !.ticks = ticks, !.liquidity = liquidity] \in Pools(other)
<1>1. LiquidityAt(other, p.tick) \in Nat
  BY AccountTypes
<1>2. /\ p \in PoolRecords(book) /\ p.tick \in MinTick..(MaxTick - 1)
      /\ Ratio[p.tick] <= p.price /\ p.price <= Ratio[p.tick + 1]
  BY PoolFields
<1>. QED
  BY <1>1, <1>2 DEF Pools, PoolRecords

LEMMA CoveredTick ==
    ASSUME NEW book, NEW p \in Pools(book), NEW r \in Ranges
    PROVE  InRange(p, r[1], r[2]) <=> Covers(r, p.tick)
<1>1. p.tick \in Int /\ r[1] \in Int /\ r[2] \in Int
  BY PoolFields, RangeEnds, MathConstants
<1>. QED
  BY <1>1 DEF InRange, Covers

\* apply_mint_event follows the chain.
LEMMA MintFollows ==
    ASSUME NEW book \in Books, NEW other \in Books, NEW r \in Ranges, NEW p \in Pools(book),
           NEW n \in Nat, other[r] = book[r] + n, \A x \in Ranges \ {r} : other[x] = book[x]
    PROVE  ApplyMint(p, r[1], r[2], n) \in Pools(other)
<1>. DEFINE a == r[1]
            b == r[2]
            low == UpdateTick(p.ticks, a, NetOf(p.ticks, a) + n, GrossOf(p.ticks, a) + n)
            high == UpdateTick(low, b, NetOf(low, b) - n, GrossOf(low, b) + n)
            liquidity == IF InRange(p, a, b) THEN p.liquidity + n ELSE p.liquidity
<1>1. a \in MinTick..MaxTick /\ b \in MinTick..MaxTick /\ a # b /\ ~(a >= b)
  <2>1. a \in Int /\ b \in Int /\ a < b
    BY RangeEnds, MathConstants
  <2>. QED
    BY <2>1, RangeEnds
<1>2. other[r] - book[r] = n
  BY DEF Books
<1>3. /\ NetAt(other, a) = NetAt(book, a) + n /\ NetAt(other, b) = NetAt(book, b) - n
      /\ GrossAt(other, a) = GrossAt(book, a) + n /\ GrossAt(other, b) = GrossAt(book, b) + n
      /\ LiquidityAt(other, p.tick) = LiquidityAt(book, p.tick) + (IF Covers(r, p.tick) THEN n ELSE 0)
  <2>1. NetAt(other, a) = NetAt(book, a) + n - 0 /\ GrossAt(other, a) = GrossAt(book, a) + n
    BY <1>1, <1>2, AccountsAfter
  <2>2. NetAt(other, b) = NetAt(book, b) + 0 - n /\ GrossAt(other, b) = GrossAt(book, b) + n
    BY <1>1, <1>2, AccountsAfter
  <2>3. LiquidityAt(other, p.tick) = LiquidityAt(book, p.tick) + (IF Covers(r, p.tick) THEN n ELSE 0)
    BY <1>2, AccountsAfter
  <2>4. NetAt(book, a) \in Int /\ NetAt(book, b) \in Int
    BY AccountTypes
  <2>. QED
    BY <2>1, <2>2, <2>3, <2>4
<1>4. p.ticks = TicksOf(book) /\ p.liquidity = LiquidityAt(book, p.tick) /\ p.liquidity \in Nat
  BY PoolFields
<1>5. low = UpdateTick(TicksOf(book), a, NetAt(other, a), GrossAt(other, a))
  BY <1>1, <1>3, <1>4, MapRead
<1>6. NetOf(low, b) = NetAt(book, b) /\ GrossOf(low, b) = GrossAt(book, b)
  BY <1>1, <1>5, OtherTick, MapRead
<1>7. high = UpdateTick(low, b, NetAt(other, b), GrossAt(other, b))
  BY <1>3, <1>6
<1>8. liquidity = LiquidityAt(other, p.tick)
  BY <1>3, <1>4, CoveredTick
<1>9. ApplyMint(p, a, b, n) = [p EXCEPT !.ticks = high, !.liquidity = liquidity]
  BY <1>1 DEF ApplyMint
<1>. HIDE DEF low, high, liquidity
<1>10. high = TicksOf(other)
  BY <1>5, <1>7, MapFollows
<1>11. [p EXCEPT !.ticks = high, !.liquidity = liquidity] \in Pools(other)
  BY <1>8, <1>10, PoolMoves
<1>. QED
  BY <1>9, <1>11

\* apply_burn_event does: the ends of a position with liquidity are there, and
\* nothing saturates.
LEMMA BurnFollows ==
    ASSUME NEW book \in Books, NEW other \in Books, NEW r \in Ranges, NEW p \in Pools(book),
           NEW n \in Nat, book[r] > 0, other[r] = book[r] - n, \A x \in Ranges \ {r} : other[x] = book[x]
    PROVE  ApplyBurn(p, r[1], r[2], n) \in Pools(other)
<1>. DEFINE a == r[1]
            b == r[2]
            low == UpdateTick(p.ticks, a, p.ticks[a].net - n, Saturating(p.ticks[a].gross - n))
            high == UpdateTick(low, b, low[b].net + n, Saturating(low[b].gross - n))
            liquidity == IF InRange(p, a, b) THEN Saturating(p.liquidity - n) ELSE p.liquidity
<1>1. a \in MinTick..MaxTick /\ b \in MinTick..MaxTick /\ a # b /\ ~(a >= b)
  <2>1. a \in Int /\ b \in Int /\ a < b
    BY RangeEnds, MathConstants
  <2>. QED
    BY <2>1, RangeEnds
<1>2. other[r] - book[r] = -n
  BY DEF Books
<1>3. /\ NetAt(other, a) = NetAt(book, a) - n /\ NetAt(other, b) = NetAt(book, b) + n
      /\ GrossAt(other, a) = GrossAt(book, a) - n /\ GrossAt(other, b) = GrossAt(book, b) - n
      /\ LiquidityAt(other, p.tick) = LiquidityAt(book, p.tick) - (IF Covers(r, p.tick) THEN n ELSE 0)
  <2>1. NetAt(other, a) = NetAt(book, a) + (-n) - 0 /\ GrossAt(other, a) = GrossAt(book, a) + (-n)
    BY <1>1, <1>2, AccountsAfter
  <2>2. NetAt(other, b) = NetAt(book, b) + 0 - (-n) /\ GrossAt(other, b) = GrossAt(book, b) + (-n)
    BY <1>1, <1>2, AccountsAfter
  <2>3. LiquidityAt(other, p.tick) = LiquidityAt(book, p.tick) + (IF Covers(r, p.tick) THEN -n ELSE 0)
    BY <1>2, AccountsAfter
  <2>4. /\ NetAt(book, a) \in Int /\ NetAt(book, b) \in Int /\ GrossAt(book, a) \in Int
        /\ GrossAt(book, b) \in Int /\ LiquidityAt(book, p.tick) \in Int
    BY AccountTypes
  <2>. QED
    BY <2>1, <2>2, <2>3, <2>4
<1>4. p.ticks = TicksOf(book) /\ p.liquidity = LiquidityAt(book, p.tick) /\ p.liquidity \in Nat
  BY PoolFields
<1>5. /\ a \in DOMAIN p.ticks /\ b \in DOMAIN p.ticks
      /\ p.ticks[a].net = NetAt(book, a) /\ p.ticks[a].gross = GrossAt(book, a)
      /\ p.ticks[b].net = NetAt(book, b) /\ p.ticks[b].gross = GrossAt(book, b)
  <2>1. a \in Initialized(book) /\ b \in Initialized(book)
    BY InitializedTicks
  <2>. QED
    BY <1>4, <2>1 DEF TicksOf
<1>6. \A m \in Nat : Saturating(m) = m
  BY DEF Saturating
<1>7. GrossAt(other, a) \in Nat /\ GrossAt(other, b) \in Nat /\ LiquidityAt(other, p.tick) \in Nat
  BY AccountTypes
<1>8. low = UpdateTick(TicksOf(book), a, NetAt(other, a), GrossAt(other, a))
  BY <1>3, <1>4, <1>5, <1>6, <1>7
<1>9. low[b] = p.ticks[b]
  BY <1>1, <1>5, OtherTick
<1>10. high = UpdateTick(low, b, NetAt(other, b), GrossAt(other, b))
  BY <1>3, <1>5, <1>6, <1>7, <1>9
<1>11. liquidity = LiquidityAt(other, p.tick)
  BY <1>3, <1>4, <1>6, <1>7, CoveredTick
<1>12. ApplyBurn(p, a, b, n) = [p EXCEPT !.ticks = high, !.liquidity = liquidity]
  BY <1>1, <1>5 DEF ApplyBurn
<1>. HIDE DEF low, high, liquidity
<1>13. high = TicksOf(other)
  BY <1>8, <1>10, MapFollows
<1>14. [p EXCEPT !.ticks = high, !.liquidity = liquidity] \in Pools(other)
  BY <1>11, <1>13, PoolMoves
<1>. QED
  BY <1>12, <1>14

\* A Swap log, or the end of a simulated swap, puts the pool elsewhere.
LEMMA SwapMoves ==
    ASSUME NEW book \in Books, NEW p \in Pools(book), NEW tick \in MinTick..(MaxTick - 1),
           NEW price \in Nat \ {0}, Ratio[tick] <= price, price <= Ratio[tick + 1],
           NEW liquidity, liquidity = LiquidityAt(book, tick)
    PROVE  [p EXCEPT !.price = price, !.tick = tick, !.liquidity = liquidity] \in Pools(book)
<1>1. LiquidityAt(book, tick) \in Nat
  BY AccountTypes
<1>2. p \in PoolRecords(book)
  BY PoolFields
<1>. QED
  BY <1>1, <1>2 DEF Pools, PoolRecords

----------------------------------------------------------------------------
(* One step of a swap. *)

LEMMA Product == \A a, b \in Nat : a * b \in Nat
OBVIOUS

LEMMA Quotient ==
    ASSUME NEW a \in Nat, NEW b \in Nat \ {0}
    PROVE  a \div b \in Nat /\ (a \div b) * b <= a /\ a < (a \div b) * b + b
<1>1. a \div b \in Int /\ (a \div b) * b <= a /\ a < (a \div b) * b + b
  BY Floor
<1>2. 0 * b <= a
  OBVIOUS
<1>3. 0 <= a \div b
  BY <1>2, FloorAtLeast
<1>. QED
  BY <1>1, <1>3

LEMMA Ceiling ==
    ASSUME NEW a \in Nat, NEW b \in Nat \ {0}
    PROVE  DivCeil(a, b) \in Nat /\ a <= DivCeil(a, b) * b /\ DivCeil(a, b) * b < a + b
<1>. DEFINE n == a + b - 1
            c == n \div b
<1>1. n \in Nat
  OBVIOUS
<1>2. c \in Nat /\ c * b <= n /\ n < c * b + b
  BY <1>1, Quotient
<1>3. DivCeil(a, b) = c
  BY DEF DivCeil
<1>. HIDE DEF c
<1>4. c * b \in Nat
  BY <1>2
<1>. QED
  BY <1>2, <1>3, <1>4

LEMMA CeilingAtMost ==
    ASSUME NEW a \in Nat, NEW b \in Nat \ {0}, NEW q \in Nat, a <= q * b
    PROVE  DivCeil(a, b) <= q
<1>. DEFINE n == a + b - 1
<1>1. (q + 1) * b = q * b + b /\ q * b \in Nat
  OBVIOUS
<1>2. n < (q + 1) * b /\ n \in Int
  BY <1>1
<1>3. n \div b < q + 1
  BY <1>2, FloorBelow
<1>4. DivCeil(a, b) = n \div b /\ DivCeil(a, b) \in Nat
  BY Ceiling DEF DivCeil
<1>. HIDE DEF n
<1>. QED
  BY <1>3, <1>4

LEMMA CeilingAbove ==
    ASSUME NEW a \in Nat, NEW b \in Nat \ {0}, NEW q \in Nat, q < DivCeil(a, b)
    PROVE  q * b < a
<1>1. ~(a <= q * b)
  <2>. SUFFICES ASSUME a <= q * b PROVE FALSE
    OBVIOUS
  <2>1. DivCeil(a, b) <= q /\ DivCeil(a, b) \in Nat
    BY CeilingAtMost, Ceiling
  <2>. QED
    BY <2>1
<1>2. q * b \in Nat
  OBVIOUS
<1>. QED
  BY <1>1, <1>2

LEMMA CeilingZero ==
    ASSUME NEW b \in Nat \ {0}
    PROVE  DivCeil(0, b) = 0 /\ 0 \div b = 0
<1>1. 0 <= 0 * b
  OBVIOUS
<1>2. DivCeil(0, b) <= 0 /\ DivCeil(0, b) \in Nat
  BY <1>1, CeilingAtMost, Ceiling
<1>3. 0 \div b \in Nat /\ (0 \div b) * b <= 0
  BY Quotient
<1>. DEFINE d == 0 \div b
<1>4. d < 1
  <2>1. 0 < 1 * b
    OBVIOUS
  <2>. QED
    BY <2>1, FloorBelow
<1>. QED
  BY <1>2, <1>3, <1>4

LEMMA Cancel ==
    ASSUME NEW a \in Nat, NEW b \in Nat, NEW c \in Nat \ {0}, a * c < b * c
    PROVE  a < b
<1>. SUFFICES ASSUME b <= a PROVE FALSE
  OBVIOUS
<1>1. PICK k \in Nat : a = b + k
  OBVIOUS
<1>2. a * c = b * c + k * c /\ k * c \in Nat /\ b * c \in Nat
  BY <1>1
<1>. QED
  BY <1>2

LEMMA Monotone ==
    ASSUME NEW a \in Nat, NEW b \in Nat, NEW c \in Nat, a <= b
    PROVE  a * c <= b * c /\ c * a <= c * b
<1>1. PICK k \in Nat : b = a + k
  OBVIOUS
<1>2. b * c = a * c + k * c /\ k * c \in Nat /\ a * c \in Nat /\ c * a = a * c /\ c * b = b * c
  BY <1>1
<1>. QED
  BY <1>2

Ratios == Nat \ {0}

\* Amounts between two prices are naturals, and nothing without liquidity.
LEMMA DeltaTypes ==
    ASSUME NEW a \in Ratios, NEW b \in Ratios, NEW L \in Nat, NEW up \in BOOLEAN
    PROVE  /\ Amount0Delta(a, b, L, up) \in Nat /\ Amount1Delta(a, b, L, up) \in Nat
           /\ L = 0 => Amount0Delta(a, b, L, up) = 0 /\ Amount1Delta(a, b, L, up) = 0
<1>. DEFINE lo == Lower(a, b)
            hi == Upper(a, b)
            d == hi - lo
            n == (L * Q) * d
            m == L * d
<1>1. lo \in Nat \ {0} /\ hi \in Nat \ {0} /\ d \in Nat
  BY DEF Lower, Upper, Ratios
<1>2. Q \in Nat \ {0}
  BY MathConstants
<1>. HIDE DEF lo, hi, d
<1>3. n \in Nat /\ m \in Nat /\ (L = 0 => n = 0 /\ m = 0)
  <2>1. L * Q \in Nat /\ (L = 0 => L * Q = 0)
    BY <1>2
  <2>. QED
    BY <1>1, <2>1, Product
<1>4. Amount0Delta(a, b, L, up) = IF up THEN DivCeil(DivCeil(n, hi), lo) ELSE (n \div hi) \div lo
  BY DEF Amount0Delta, MulDivRoundingUp, MulDiv, lo, hi, d
<1>5. Amount1Delta(a, b, L, up) = IF up THEN DivCeil(m, Q) ELSE m \div Q
  BY DEF Amount1Delta, MulDivRoundingUp, MulDiv, lo, hi, d
<1>. HIDE DEF n, m
<1>6. DivCeil(n, hi) \in Nat /\ n \div hi \in Nat /\ DivCeil(m, Q) \in Nat /\ m \div Q \in Nat
  BY <1>1, <1>2, <1>3, Ceiling, Quotient
<1>7. DivCeil(DivCeil(n, hi), lo) \in Nat /\ (n \div hi) \div lo \in Nat
  BY <1>1, <1>6, Ceiling, Quotient
<1>8. L = 0 => /\ DivCeil(n, hi) = 0 /\ n \div hi = 0 /\ DivCeil(m, Q) = 0 /\ m \div Q = 0
               /\ DivCeil(DivCeil(n, hi), lo) = 0 /\ (n \div hi) \div lo = 0
  BY <1>1, <1>2, <1>3, CeilingZero
<1>. QED
  BY <1>4, <1>5, <1>6, <1>7, <1>8

LEMMA AmountTypes ==
    ASSUME NEW a \in Ratios, NEW b \in Ratios, NEW L \in Nat, NEW z \in BOOLEAN
    PROVE  /\ AmountIn(a, b, L, z) \in Nat /\ AmountOut(a, b, L, z) \in Nat
           /\ L = 0 => AmountIn(a, b, L, z) = 0 /\ AmountOut(a, b, L, z) = 0
<1>1. TRUE \in BOOLEAN /\ FALSE \in BOOLEAN
  OBVIOUS
<1>2. \A up \in BOOLEAN :
        /\ Amount0Delta(a, b, L, up) \in Nat /\ Amount1Delta(a, b, L, up) \in Nat
        /\ L = 0 => Amount0Delta(a, b, L, up) = 0 /\ Amount1Delta(a, b, L, up) = 0
  BY DeltaTypes
<1>. QED
  BY <1>1, <1>2 DEF AmountIn, AmountOut

\* The price an input too small to reach the target leads to is short of it:
\* on the way down,
LEMMA DownByInput ==
    ASSUME NEW p \in Ratios, NEW t \in Ratios, t <= p, NEW L \in Nat, NEW a \in Nat,
           a < AmountIn(p, t, L, TRUE)
    PROVE  LET next == NextSqrtPriceFromInput(p, L, a, TRUE)
           IN  next \in Ratios /\ t <= next /\ next <= p
<1>. DEFINE N == L * Q
            y == DivCeil(N * (p - t), p)
            next == NextSqrtPriceFromInput(p, L, a, TRUE)
<1>. SUFFICES next \in Ratios /\ t <= next /\ next <= p
  OBVIOUS
<1>. HIDE DEF next
<1>0. p \in Nat \ {0} /\ t \in Nat \ {0} /\ p - t \in Nat /\ Q \in Nat \ {0}
  BY MathConstants DEF Ratios
<1>1. L # 0
  <2>. SUFFICES ASSUME L = 0 PROVE FALSE
    OBVIOUS
  <2>1. TRUE \in BOOLEAN
    OBVIOUS
  <2>2. AmountIn(p, t, L, TRUE) = 0
    BY <2>1, AmountTypes
  <2>3. a < 0
    BY <2>2, Zenon
  <2>. QED
    BY <2>3
<1>2. N \in Nat \ {0} /\ N * (p - t) \in Nat
  BY <1>0, <1>1, Product
<1>3. AmountIn(p, t, L, TRUE) = DivCeil(y, t)
  BY <1>0 DEF AmountIn, Amount0Delta, MulDivRoundingUp, Lower, Upper
<1>. HIDE DEF N
<1>4. y \in Nat
  BY <1>0, <1>2, Ceiling
<1>5. a * t < y
  <2>. HIDE DEF y
  <2>. QED
    BY <1>0, <1>3, <1>4, CeilingAbove
<1>6. (a * t) * p < N * (p - t)
  <2>1. a * t \in Nat
    BY <1>0
  <2>. QED
    BY <1>0, <1>2, <1>5, <2>1, CeilingAbove
<1>7. N * p = N * (p - t) + N * t /\ (a * t) * p = t * (a * p) /\ a * p \in Nat
  BY <1>0, <1>2
<1>. DEFINE D == N + a * p
<1>8. D \in Nat \ {0} /\ N * p \in Nat /\ t * D < N * p
  <2>1. t * D = N * t + t * (a * p) /\ N * t \in Nat /\ t * (a * p) \in Nat /\ N * p \in Nat
    BY <1>0, <1>2, <1>7
  <2>2. D \in Nat \ {0}
    BY <1>2, <1>7
  <2>. HIDE DEF D
  <2>. QED
    BY <1>2, <1>6, <1>7, <2>1, <2>2
<1>9. CASE a = 0
  <2>1. next = p
    BY <1>1, <1>9 DEF NextSqrtPriceFromInput, NextSqrtPriceFromAmount0RoundingUp, next
  <2>. QED
    BY <1>0, <2>1 DEF Ratios
<1>10. CASE a # 0
  <2>1. next = DivCeil(N * p, D)
    BY <1>1, <1>10 DEF NextSqrtPriceFromInput, NextSqrtPriceFromAmount0RoundingUp, MulDivRoundingUp, N, next
  <2>. HIDE DEF D
  <2>2. N * p <= p * D
    <3>1. p * D = N * p + p * (a * p) /\ p * (a * p) \in Nat
      BY <1>0, <1>2, <1>7 DEF D
    <3>. QED
      BY <1>8, <3>1
  <2>3. DivCeil(N * p, D) <= p
    BY <1>0, <1>8, <2>2, CeilingAtMost
  <2>4. DivCeil(N * p, D) \in Nat /\ N * p <= DivCeil(N * p, D) * D
    BY <1>8, Ceiling
  <2>5. t <= DivCeil(N * p, D)
    <3>. DEFINE c == DivCeil(N * p, D)
    <3>1. c * D \in Nat /\ t * D \in Nat
      BY <1>0, <1>8, <2>4
    <3>. HIDE DEF c
    <3>2. t * D < c * D
      BY <1>8, <2>4, <3>1 DEF c
    <3>3. c \in Nat
      BY <2>4 DEF c
    <3>4. t < c
      BY <1>0, <1>8, <3>2, <3>3, Cancel
    <3>. QED
      BY <1>0, <3>3, <3>4 DEF c
  <2>. QED
    BY <1>0, <2>1, <2>3, <2>4, <2>5 DEF Ratios
<1>. QED
  BY <1>9, <1>10

\* and on the way up.
LEMMA UpByInput ==
    ASSUME NEW p \in Ratios, NEW t \in Ratios, p < t, NEW L \in Nat, NEW a \in Nat,
           a < AmountIn(p, t, L, FALSE)
    PROVE  LET next == NextSqrtPriceFromInput(p, L, a, FALSE)
           IN  next \in Ratios /\ p <= next /\ next <= t
<1>. DEFINE d == (a * Q) \div L
            next == NextSqrtPriceFromInput(p, L, a, FALSE)
<1>. SUFFICES next \in Ratios /\ p <= next /\ next <= t
  OBVIOUS
<1>. HIDE DEF next
<1>0. p \in Nat \ {0} /\ t \in Nat \ {0} /\ t - p \in Nat /\ Q \in Nat \ {0} /\ a * Q \in Nat
  BY MathConstants DEF Ratios
<1>1. L # 0
  <2>. SUFFICES ASSUME L = 0 PROVE FALSE
    OBVIOUS
  <2>1. FALSE \in BOOLEAN
    OBVIOUS
  <2>2. AmountIn(p, t, L, FALSE) = 0
    BY <2>1, AmountTypes
  <2>3. a < 0
    BY <2>2, Zenon
  <2>. QED
    BY <2>3
<1>2. AmountIn(p, t, L, FALSE) = DivCeil(L * (t - p), Q)
  BY <1>0 DEF AmountIn, Amount1Delta, MulDivRoundingUp, Lower, Upper
<1>3. L * (t - p) \in Nat
  BY <1>0
<1>4. a * Q < L * (t - p)
  BY <1>0, <1>2, <1>3, CeilingAbove
<1>5. d \in Nat /\ d < t - p
  <2>1. L * (t - p) = (t - p) * L
    BY <1>0
  <2>2. d \in Nat
    BY <1>0, <1>1, Quotient
  <2>3. PICK paid \in Int : paid = a * Q
    BY <1>0
  <2>4. PICK way \in Int : way = t - p
    BY <1>0
  <2>5. paid < way * L /\ L \in Nat \ {0}
    BY <1>1, <1>4, <2>1, <2>3, <2>4, Zenon
  <2>6. paid \div L < way
    BY <2>5, FloorBelow
  <2>. QED
    BY <2>2, <2>3, <2>4, <2>6, Zenon
<1>6. next = p + d
  BY <1>1 DEF NextSqrtPriceFromInput, NextSqrtPriceFromAmount1RoundingDown, next
<1>. HIDE DEF d
<1>. QED
  BY <1>0, <1>5, <1>6 DEF Ratios

\* The price an output short of the target's takes away: on the way down,
LEMMA DownByOutput ==
    ASSUME NEW p \in Ratios, NEW t \in Ratios, t <= p, NEW L \in Nat, NEW a \in Nat,
           a < AmountOut(p, t, L, TRUE)
    PROVE  LET next == NextSqrtPriceFromOutput(p, L, a, TRUE)
           IN  next \in Ratios /\ t <= next /\ next <= p
<1>. DEFINE u == DivCeil(a * Q, L)
            f == (L * (p - t)) \div Q
            next == NextSqrtPriceFromOutput(p, L, a, TRUE)
<1>. SUFFICES next \in Ratios /\ t <= next /\ next <= p
  OBVIOUS
<1>. HIDE DEF next
<1>0. p \in Nat \ {0} /\ t \in Nat \ {0} /\ p - t \in Nat /\ Q \in Nat \ {0} /\ a * Q \in Nat
  BY MathConstants DEF Ratios
<1>1. L # 0
  <2>. SUFFICES ASSUME L = 0 PROVE FALSE
    OBVIOUS
  <2>1. TRUE \in BOOLEAN
    OBVIOUS
  <2>2. AmountOut(p, t, L, TRUE) = 0
    BY <2>1, AmountTypes
  <2>3. a < 0
    BY <2>2, Zenon
  <2>. QED
    BY <2>3
<1>2. AmountOut(p, t, L, TRUE) = f
  BY <1>0 DEF AmountOut, Amount1Delta, MulDiv, Lower, Upper
<1>3. L * (p - t) \in Nat
  BY <1>0
<1>4. f \in Nat /\ f * Q <= L * (p - t)
  BY <1>0, <1>3, Quotient
<1>. HIDE DEF f
<1>5. a < f
  BY <1>2, Zenon
<1>6. a * Q <= (p - t) * L
  <2>1. a * Q <= f * Q /\ f * Q \in Nat
    BY <1>0, <1>4, <1>5, Monotone
  <2>2. L * (p - t) = (p - t) * L
    BY <1>0
  <2>. QED
    BY <1>0, <1>3, <1>4, <2>1, <2>2
<1>7. u \in Nat /\ u <= p - t
  <2>1. u \in Nat
    BY <1>0, <1>1, Ceiling
  <2>. QED
    BY <1>0, <1>1, <1>6, <2>1, CeilingAtMost
<1>. HIDE DEF u
<1>8. p > u /\ p - u \in Nat \ {0} /\ t <= p - u /\ p - u <= p
  BY <1>0, <1>7
<1>9. next = p - u
  BY <1>1, <1>8 DEF NextSqrtPriceFromOutput, NextSqrtPriceFromAmount1RoundingDown, u, next
<1>. QED
  BY <1>8, <1>9 DEF Ratios

\* and on the way up.
LEMMA UpByOutput ==
    ASSUME NEW p \in Ratios, NEW t \in Ratios, p < t, NEW L \in Nat, NEW a \in Nat,
           a < AmountOut(p, t, L, FALSE)
    PROVE  LET next == NextSqrtPriceFromOutput(p, L, a, FALSE)
           IN  next \in Ratios /\ p <= next /\ next <= t
<1>. DEFINE N == L * Q
            y == (N * (t - p)) \div t
            f == y \div p
            next == NextSqrtPriceFromOutput(p, L, a, FALSE)
<1>. SUFFICES next \in Ratios /\ p <= next /\ next <= t
  OBVIOUS
<1>. HIDE DEF next
<1>0. p \in Nat \ {0} /\ t \in Nat \ {0} /\ t - p \in Nat /\ Q \in Nat \ {0}
  BY MathConstants DEF Ratios
<1>1. L # 0
  <2>. SUFFICES ASSUME L = 0 PROVE FALSE
    OBVIOUS
  <2>1. FALSE \in BOOLEAN
    OBVIOUS
  <2>2. AmountOut(p, t, L, FALSE) = 0
    BY <2>1, AmountTypes
  <2>3. a < 0
    BY <2>2, Zenon
  <2>. QED
    BY <2>3
<1>2. N \in Nat \ {0} /\ N * (t - p) \in Nat
  BY <1>0, <1>1, Product
<1>3. AmountOut(p, t, L, FALSE) = f
  BY <1>0 DEF AmountOut, Amount0Delta, MulDiv, Lower, Upper
<1>. HIDE DEF N
<1>4. y \in Nat /\ y * t <= N * (t - p)
  BY <1>0, <1>2, Quotient
<1>. HIDE DEF y
<1>5. f \in Nat /\ f * p <= y
  BY <1>0, <1>4, Quotient
<1>. HIDE DEF f
<1>6. a < f
  BY <1>3, Zenon
<1>7. (a * p + p) * t <= N * (t - p)
  <2>1. (a + 1) * p <= f * p /\ a + 1 \in Nat
    BY <1>0, <1>5, <1>6, Monotone
  <2>2. (a + 1) * p = a * p + p /\ a * p \in Nat /\ f * p \in Nat
    BY <1>0, <1>5
  <2>3. a * p + p <= y /\ a * p + p \in Nat
    BY <1>0, <1>4, <1>5, <2>1, <2>2
  <2>4. (a * p + p) * t <= y * t
    BY <1>0, <1>4, <2>3, Monotone
  <2>5. (a * p + p) * t \in Nat /\ y * t \in Nat
    BY <1>0, <1>4, <2>3
  <2>. QED
    BY <1>2, <1>4, <2>4, <2>5
<1>. DEFINE x == a * p
<1>8. x \in Nat /\ N * p \in Nat /\ N * t = N * (t - p) + N * p
      /\ (x + p) * t = x * t + p * t /\ x * t \in Nat /\ p * t \in Nat \ {0} /\ N * p \in Nat \ {0}
  <2>1. x \in Nat
    BY <1>0
  <2>. HIDE DEF x
  <2>. QED
    BY <1>0, <1>2, <2>1
<1>9. N * p + x * t < N * t
  <2>1. (x + p) * t <= N * (t - p)
    BY <1>7
  <2>. HIDE DEF x
  <2>. QED
    BY <1>2, <1>8, <2>1
<1>10. x < N
  <2>1. x * t < N * t
    <3>. HIDE DEF x
    <3>1. N * t \in Nat
      BY <1>0, <1>2
    <3>. QED
      BY <1>8, <1>9, <3>1
  <2>. HIDE DEF x
  <2>. QED
    BY <1>0, <1>2, <1>8, <2>1, Cancel
<1>. DEFINE D == N - x
<1>11. D \in Nat \ {0} /\ D <= N
  <2>. HIDE DEF x
  <2>. QED
    BY <1>2, <1>8, <1>10
<1>12. CASE a = 0
  <2>1. next = p
    BY <1>1, <1>12 DEF NextSqrtPriceFromOutput, NextSqrtPriceFromAmount0RoundingUp, next
  <2>. QED
    BY <1>0, <2>1 DEF Ratios
<1>13. CASE a # 0
  <2>0. N > x
    <3>. HIDE DEF x
    <3>. QED
      BY <1>2, <1>8, <1>10
  <2>1. next = DivCeil(N * p, D)
    BY <1>1, <1>13, <2>0 DEF NextSqrtPriceFromOutput, NextSqrtPriceFromAmount0RoundingUp, MulDivRoundingUp, N, next
  <2>2. N * p <= t * D
    <3>. HIDE DEF x
    <3>1. t * D = N * t - x * t /\ N * t \in Nat
      BY <1>0, <1>2, <1>8
    <3>. HIDE DEF D
    <3>. QED
      BY <1>8, <1>9, <3>1
  <2>. HIDE DEF D
  <2>3. DivCeil(N * p, D) <= t
    BY <1>0, <1>8, <1>11, <2>2, CeilingAtMost
  <2>4. DivCeil(N * p, D) \in Nat /\ N * p <= DivCeil(N * p, D) * D
    BY <1>8, <1>11, Ceiling
  <2>5. p <= DivCeil(N * p, D)
    <3>. DEFINE c == DivCeil(N * p, D)
    <3>1. c \in Nat /\ N * p <= c * D
      BY <2>4
    <3>. HIDE DEF c
    <3>2. c * D <= c * N /\ c * D \in Nat /\ c * N \in Nat
      BY <1>2, <1>11, <3>1, Monotone
    <3>3. p * N <= c * N /\ p * N \in Nat
      <4>1. p * N = N * p
        BY <1>0, <1>2
      <4>. QED
        BY <1>8, <3>1, <3>2, <4>1
    <3>4. ~(c < p)
      <4>. SUFFICES ASSUME c < p PROVE FALSE
        OBVIOUS
      <4>1. PICK k \in Nat \ {0} : p = c + k
        BY <1>0, <3>1
      <4>2. p * N = c * N + k * N /\ k * N \in Nat \ {0}
        BY <1>2, <3>1, <4>1
      <4>. QED
        BY <3>2, <3>3, <4>2
    <3>. QED
      BY <1>0, <3>1, <3>4 DEF c
  <2>. QED
    BY <1>0, <2>1, <2>3, <2>4, <2>5 DEF Ratios
<1>. QED
  BY <1>12, <1>13

\* compute_swap_step ends between its price and its target, and without
\* liquidity on the target, for nothing.
Between(price, target, next) ==
    IF price >= target THEN target <= next /\ next <= price ELSE price <= next /\ next <= target
StepResult(step, price, target, L) ==
    /\ step.price \in Ratios /\ Between(price, target, step.price)
    /\ step.in \in Nat /\ step.out \in Nat /\ step.fee \in Nat
    /\ L = 0 => step.in = 0 /\ step.out = 0 /\ step.fee = 0 /\ step.price = target

\* The fee on top of an input is within what was left for it.
LEMMA FeeFits ==
    ASSUME NEW rem \in Nat, NEW fee \in 0..(MaxFee - 1), NEW in \in Nat,
           in <= MulDiv(rem, MaxFee - fee, MaxFee)
    PROVE  /\ MulDivRoundingUp(in, fee, MaxFee - fee) \in Nat
           /\ in + MulDivRoundingUp(in, fee, MaxFee - fee) <= rem
           /\ in = 0 => MulDivRoundingUp(in, fee, MaxFee - fee) = 0
           /\ MulDiv(rem, MaxFee - fee, MaxFee) \in Nat
           /\ in <= rem
<1>. DEFINE M == MaxFee
            g == M - fee
            q == (rem * g) \div M
            c == DivCeil(in * fee, g)
<1>0. M \in Nat \ {0} /\ g \in Nat \ {0} /\ fee \in Nat /\ M = g + fee
  BY MathConstants
<1>1. MulDiv(rem, MaxFee - fee, MaxFee) = q /\ MulDivRoundingUp(in, fee, MaxFee - fee) = c
  BY DEF MulDiv, MulDivRoundingUp
<1>. HIDE DEF M, g
<1>2. rem * g \in Nat
  BY <1>0
<1>3. q \in Nat /\ q * M <= rem * g
  BY <1>0, <1>2, Quotient
<1>4. in <= q
  BY <1>1, Zenon
<1>. HIDE DEF q
<1>5. in * M <= rem * g
  <2>1. in * M <= q * M /\ q * M \in Nat /\ in * M \in Nat
    BY <1>0, <1>3, <1>4, Monotone
  <2>. QED
    BY <1>2, <1>3, <2>1
<1>6. in * M = in * g + in * fee /\ in * g \in Nat /\ in * fee \in Nat
  BY <1>0
<1>7. in <= rem
  <2>. SUFFICES ASSUME rem < in PROVE FALSE
    OBVIOUS
  <2>1. PICK k \in Nat \ {0} : in = rem + k
    OBVIOUS
  <2>2. in * g = rem * g + k * g /\ k * g \in Nat \ {0}
    BY <1>0, <2>1
  <2>. QED
    BY <1>2, <1>5, <1>6, <2>2
<1>8. rem - in \in Nat /\ (rem - in) * g = rem * g - in * g
  BY <1>0, <1>7
<1>9. in * fee <= (rem - in) * g
  BY <1>2, <1>5, <1>6, <1>8
<1>10. c <= rem - in
  BY <1>0, <1>6, <1>8, <1>9, CeilingAtMost
<1>11. c \in Nat
  BY <1>0, <1>6, Ceiling
<1>12. in = 0 => c = 0
  <2>1. in = 0 => in * fee = 0
    BY <1>0
  <2>. QED
    BY <1>0, <2>1, CeilingZero
<1>. HIDE DEF c
<1>13. in + c <= rem
  BY <1>7, <1>10, <1>11
<1>. QED
  BY <1>1, <1>3, <1>7, <1>11, <1>12, <1>13

LEMMA FeeType ==
    ASSUME NEW fee \in 0..(MaxFee - 1), NEW in \in Nat
    PROVE  /\ MulDivRoundingUp(in, fee, MaxFee - fee) \in Nat
           /\ in = 0 => MulDivRoundingUp(in, fee, MaxFee - fee) = 0
<1>1. MaxFee - fee \in Nat \ {0} /\ fee \in Nat /\ in * fee \in Nat /\ (in = 0 => in * fee = 0)
  BY MathConstants
<1>2. DivCeil(in * fee, MaxFee - fee) \in Nat /\ (in = 0 => DivCeil(in * fee, MaxFee - fee) = 0)
  BY <1>1, Ceiling, CeilingZero
<1>. QED
  BY <1>2 DEF MulDivRoundingUp

LEMMA StepInResult ==
    ASSUME NEW p \in Ratios, NEW t \in Ratios, NEW L \in Nat, NEW rem \in Nat,
           NEW fee \in 0..(MaxFee - 1), NEW s, s = StepExactIn(p, t, L, rem, fee)
    PROVE  StepResult(s, p, t, L) /\ s.in + s.fee <= rem /\ (s.price = t \/ s.in + s.fee = rem)
<1>. DEFINE z == p >= t
            lessFee == MulDiv(rem, MaxFee - fee, MaxFee)
            full == AmountIn(p, t, L, z)
            reaches == lessFee >= full
            in == IF reaches THEN full ELSE lessFee
            next == IF reaches THEN t ELSE NextSqrtPriceFromInput(p, L, in, z)
            out == IF next = NoPrice THEN 0 ELSE AmountOut(p, next, L, z)
            cost == IF reaches THEN MulDivRoundingUp(in, fee, MaxFee - fee) ELSE rem - in
<1>1. s.price = next /\ s.in = in /\ s.out = out /\ s.fee = cost
  BY DEF StepExactIn
<1>2. z \in BOOLEAN
  OBVIOUS
<1>3. p \in Nat \ {0} /\ t \in Nat \ {0}
  BY DEF Ratios
<1>4. full \in Nat /\ (L = 0 => full = 0)
  BY <1>2, AmountTypes
<1>5. lessFee \in Nat /\ lessFee <= rem
  <2>1. MaxFee - fee \in Nat /\ MaxFee \in Nat \ {0} /\ rem * (MaxFee - fee) \in Nat
    BY MathConstants, Product
  <2>2. lessFee \in Nat
    BY <2>1, Quotient DEF MulDiv
  <2>. QED
    BY <2>2, FeeFits
<1>6. in \in Nat /\ in <= lessFee
  <2>. HIDE DEF full, lessFee
  <2>. QED
    BY <1>4, <1>5
<1>7. next \in Ratios /\ Between(p, t, next) /\ (L = 0 => next = t /\ in = 0)
  <2>1. CASE reaches
    <3>1. next = t /\ in = full
      BY <2>1
    <3>. HIDE DEF next, in, full
    <3>. QED
      BY <1>3, <1>4, <3>1 DEF Between
  <2>2. CASE ~reaches
    <3>1. next = NextSqrtPriceFromInput(p, L, in, z) /\ in = lessFee
      BY <2>2
    <3>2. in < AmountIn(p, t, L, z) /\ L # 0
      <4>. HIDE DEF lessFee, in
      <4>1. in < full
        <5>. HIDE DEF full
        <5>. QED
          BY <1>4, <1>5, <2>2, <3>1
      <4>2. L # 0
        <5>. HIDE DEF full
        <5>. QED
          BY <1>4, <1>6, <4>1
      <4>. QED
        BY <4>1, <4>2
    <3>. HIDE DEF next, in, full, reaches, lessFee
    <3>3. CASE p >= t
      <4>1. z = TRUE
        BY <3>3
      <4>2. next = NextSqrtPriceFromInput(p, L, in, TRUE) /\ in < AmountIn(p, t, L, TRUE)
        BY <3>1, <3>2, <4>1, Zenon
      <4>3. t <= p
        BY <1>3, <3>3
      <4>4. next \in Ratios /\ t <= next /\ next <= p
        BY <1>6, <4>2, <4>3, DownByInput
      <4>. QED
        BY <3>2, <3>3, <4>4 DEF Between
    <3>4. CASE ~(p >= t)
      <4>1. z = FALSE
        BY <3>4
      <4>2. next = NextSqrtPriceFromInput(p, L, in, FALSE) /\ in < AmountIn(p, t, L, FALSE)
        BY <3>1, <3>2, <4>1, Zenon
      <4>3. p < t
        BY <1>3, <3>4
      <4>4. next \in Ratios /\ p <= next /\ next <= t
        BY <1>6, <4>2, <4>3, UpByInput
      <4>. QED
        BY <3>2, <3>4, <4>4 DEF Between
    <3>. QED
      BY <3>3, <3>4
  <2>. QED
    BY <2>1, <2>2
<1>8. out \in Nat /\ (L = 0 => out = 0)
  <2>. HIDE DEF next, z
  <2>1. AmountOut(p, next, L, z) \in Nat /\ (L = 0 => AmountOut(p, next, L, z) = 0)
    BY <1>2, <1>7, AmountTypes
  <2>. QED
    BY <2>1
<1>9. cost \in Nat /\ in + cost <= rem /\ (L = 0 => cost = 0) /\ (next = t \/ in + cost = rem)
  <2>1. CASE reaches
    <3>1. cost = MulDivRoundingUp(in, fee, MaxFee - fee) /\ next = t
      BY <2>1
    <3>2. in <= MulDiv(rem, MaxFee - fee, MaxFee)
      BY <1>6
    <3>. HIDE DEF in, cost, next
    <3>. QED
      BY <1>6, <1>7, <3>1, <3>2, FeeFits
  <2>2. CASE ~reaches
    <3>1. cost = rem - in
      BY <2>2
    <3>2. L # 0
      <4>. HIDE DEF full, lessFee
      <4>. QED
        BY <1>4, <1>5, <2>2
    <3>. HIDE DEF in, cost, lessFee, next
    <3>. QED
      BY <1>5, <1>6, <3>1, <3>2
  <2>. QED
    BY <2>1, <2>2
<1>. HIDE DEF z, lessFee, full, reaches, in, next, out, cost
<1>. QED
  BY <1>1, <1>6, <1>7, <1>8, <1>9 DEF StepResult

LEMMA StepOutResult ==
    ASSUME NEW p \in Ratios, NEW t \in Ratios, NEW L \in Nat, NEW rem \in Nat,
           NEW fee \in 0..(MaxFee - 1), NEW s, s = StepExactOut(p, t, L, rem, fee)
    PROVE  StepResult(s, p, t, L) /\ s.out <= rem /\ (s.price = t \/ s.out = rem)
<1>. DEFINE z == p >= t
            full == AmountOut(p, t, L, z)
            reaches == rem >= full
            next == IF reaches THEN t ELSE NextSqrtPriceFromOutput(p, L, rem, z)
            in == IF next = NoPrice THEN 0 ELSE AmountIn(p, next, L, z)
            out == IF reaches THEN full ELSE rem
            cost == MulDivRoundingUp(in, fee, MaxFee - fee)
<1>1. s.price = next /\ s.in = in /\ s.out = out /\ s.fee = cost
  BY DEF StepExactOut
<1>2. z \in BOOLEAN
  OBVIOUS
<1>3. p \in Nat \ {0} /\ t \in Nat \ {0}
  BY DEF Ratios
<1>4. full \in Nat /\ (L = 0 => full = 0)
  BY <1>2, AmountTypes
<1>5. out \in Nat /\ out <= rem /\ (L = 0 => out = 0) /\ (next = t \/ out = rem)
  <2>. HIDE DEF full
  <2>. QED
    BY <1>4
<1>6. next \in Ratios /\ Between(p, t, next) /\ (L = 0 => next = t)
  <2>1. CASE reaches
    <3>1. next = t
      BY <2>1
    <3>. HIDE DEF next
    <3>. QED
      BY <1>3, <3>1 DEF Between
  <2>2. CASE ~reaches
    <3>1. next = NextSqrtPriceFromOutput(p, L, rem, z)
      BY <2>2
    <3>2. rem < AmountOut(p, t, L, z) /\ L # 0
      <4>1. rem < full /\ L # 0
        <5>. HIDE DEF full
        <5>. QED
          BY <1>4, <2>2
      <4>. QED
        BY <4>1
    <3>. HIDE DEF next, full, reaches
    <3>3. CASE p >= t
      <4>1. z = TRUE
        BY <3>3
      <4>2. next = NextSqrtPriceFromOutput(p, L, rem, TRUE) /\ rem < AmountOut(p, t, L, TRUE)
        BY <3>1, <3>2, <4>1, Zenon
      <4>3. t <= p
        BY <1>3, <3>3
      <4>4. next \in Ratios /\ t <= next /\ next <= p
        BY <4>2, <4>3, DownByOutput
      <4>. QED
        BY <3>2, <3>3, <4>4 DEF Between
    <3>4. CASE ~(p >= t)
      <4>1. z = FALSE
        BY <3>4
      <4>2. next = NextSqrtPriceFromOutput(p, L, rem, FALSE) /\ rem < AmountOut(p, t, L, FALSE)
        BY <3>1, <3>2, <4>1, Zenon
      <4>3. p < t
        BY <1>3, <3>4
      <4>4. next \in Ratios /\ p <= next /\ next <= t
        BY <4>2, <4>3, UpByOutput
      <4>. QED
        BY <3>2, <3>4, <4>4 DEF Between
    <3>. QED
      BY <3>3, <3>4
  <2>. QED
    BY <2>1, <2>2
<1>7. in \in Nat /\ (L = 0 => in = 0)
  <2>. HIDE DEF next, z
  <2>1. AmountIn(p, next, L, z) \in Nat /\ (L = 0 => AmountIn(p, next, L, z) = 0)
    BY <1>2, <1>6, AmountTypes
  <2>. QED
    BY <2>1
<1>. HIDE DEF z, full, reaches, next, in, out
<1>8. cost \in Nat /\ (L = 0 => cost = 0)
  BY <1>7, FeeType
<1>. HIDE DEF cost
<1>. QED
  BY <1>1, <1>5, <1>6, <1>7, <1>8 DEF StepResult

----------------------------------------------------------------------------
(* What a step by output costs, given as input. *)

\* What a price costs and gives, and where an input or an output leads, by direction.
CostDown(p, x, L) == AmountIn(p, x, L, TRUE)
CostUp(p, x, L) == AmountIn(p, x, L, FALSE)
GiveDown(p, x, L) == AmountOut(p, x, L, TRUE)
GiveUp(p, x, L) == AmountOut(p, x, L, FALSE)
PayDown(p, L, a) == NextSqrtPriceFromInput(p, L, a, TRUE)
PayUp(p, L, a) == NextSqrtPriceFromInput(p, L, a, FALSE)
TakeDown(p, L, a) == NextSqrtPriceFromOutput(p, L, a, TRUE)
TakeUp(p, L, a) == NextSqrtPriceFromOutput(p, L, a, FALSE)

\* An input that pays for a price leads at least as far: on the way down,
LEMMA InputLeadsDown ==
    ASSUME NEW p \in Ratios, NEW x \in Ratios, x <= p, NEW L \in Nat \ {0}, NEW a \in Nat,
           NEW cost, cost = CostDown(p, x, L), cost <= a,
           NEW next, next = PayDown(p, L, a)
    PROVE  next <= x
<1>. DEFINE N == L * Q
            y == DivCeil(N * (p - x), p)
<1>0. p \in Nat \ {0} /\ x \in Nat \ {0} /\ p - x \in Nat /\ Q \in Nat \ {0}
  BY MathConstants DEF Ratios
<1>1. N \in Nat \ {0} /\ N * (p - x) \in Nat
  BY <1>0, Product
<1>2. cost = DivCeil(y, x)
  BY <1>0 DEF CostDown, AmountIn, Amount0Delta, MulDivRoundingUp, Lower, Upper
<1>3. next = IF a = 0 THEN p ELSE DivCeil(N * p, N + a * p)
  BY DEF PayDown, NextSqrtPriceFromInput, NextSqrtPriceFromAmount0RoundingUp, MulDivRoundingUp
<1>. HIDE DEF N
<1>4. y \in Nat /\ N * (p - x) <= y * p
  BY <1>0, <1>1, Ceiling
<1>. HIDE DEF y
<1>5. cost \in Nat /\ y <= cost * x
  BY <1>0, <1>2, <1>4, Ceiling
<1>6. y <= a * x /\ a * x \in Nat
  <2>1. cost * x <= a * x /\ cost * x \in Nat /\ a * x \in Nat
    BY <1>0, <1>5, Monotone
  <2>. QED
    BY <1>4, <1>5, <2>1
<1>7. N * (p - x) <= (a * x) * p
  <2>1. y * p <= (a * x) * p
    BY <1>0, <1>4, <1>6, Monotone
  <2>2. y * p \in Nat /\ (a * x) * p \in Nat
    BY <1>0, <1>4, <1>6
  <2>. QED
    BY <1>1, <1>4, <2>1, <2>2
<1>8. N * p = N * (p - x) + N * x /\ (a * x) * p = x * (a * p) /\ a * p \in Nat
  BY <1>0, <1>1
<1>9. CASE a = 0
  <2>1. (a * x) * p = 0
    BY <1>0, <1>9
  <2>2. N * (p - x) = 0
    BY <1>1, <1>7, <2>1
  <2>3. p - x = 0
    <3>. DEFINE d == p - x
    <3>1. d \in Nat /\ N * d = 0
      BY <1>0, <2>2
    <3>. HIDE DEF d
    <3>2. d = 0
      BY <1>1, <3>1
    <3>. QED
      BY <3>2 DEF d
  <2>. QED
    BY <1>0, <1>3, <1>9, <2>3
<1>10. CASE a # 0
  <2>. DEFINE D == N + a * p
  <2>1. D \in Nat \ {0}
    BY <1>1, <1>8
  <2>2. x * D = N * x + x * (a * p) /\ N * x \in Nat /\ x * (a * p) \in Nat
    BY <1>0, <1>1, <1>8
  <2>3. next = DivCeil(N * p, D)
    BY <1>3, <1>10
  <2>. HIDE DEF D
  <2>4. N * p <= x * D /\ N * p \in Nat
    BY <1>0, <1>1, <1>7, <1>8, <2>2
  <2>. QED
    BY <1>0, <2>1, <2>3, <2>4, CeilingAtMost
<1>. QED
  BY <1>9, <1>10

\* and on the way up.
LEMMA InputLeadsUp ==
    ASSUME NEW p \in Ratios, NEW x \in Ratios, p <= x, NEW L \in Nat \ {0}, NEW a \in Nat,
           NEW cost, cost = CostUp(p, x, L), cost <= a,
           NEW next, next = PayUp(p, L, a)
    PROVE  x <= next
<1>. DEFINE d == (a * Q) \div L
<1>0. /\ p \in Nat \ {0} /\ x \in Nat \ {0} /\ x - p \in Nat /\ Q \in Nat \ {0} /\ a * Q \in Nat
      /\ L * (x - p) \in Nat /\ L * (x - p) = (x - p) * L
  BY MathConstants DEF Ratios
<1>1. cost = DivCeil(L * (x - p), Q)
  <2>1. Upper(p, x) = x /\ Lower(p, x) = p
    BY <1>0 DEF Upper, Lower
  <2>. QED
    BY <2>1 DEF CostUp, AmountIn, Amount1Delta, MulDivRoundingUp
<1>2. cost \in Nat /\ L * (x - p) <= cost * Q
  BY <1>0, <1>1, Ceiling
<1>3. cost * Q <= a * Q /\ cost * Q \in Nat
  BY <1>0, <1>2, Monotone
<1>4. (x - p) * L <= a * Q
  BY <1>0, <1>2, <1>3
<1>5. d \in Nat /\ x - p <= d
  <2>1. d \in Nat
    BY <1>0, Quotient
  <2>2. x - p <= d
    <3>. DEFINE k == x - p
                n == a * Q
    <3>1. k \in Int /\ n \in Int /\ k * L <= n
      BY <1>0, <1>4
    <3>. HIDE DEF k, n
    <3>2. k <= n \div L
      BY <3>1, FloorAtLeast
    <3>. QED
      BY <3>2 DEF k, n
  <2>. QED
    BY <2>1, <2>2
<1>6. next = p + d
  BY DEF PayUp, NextSqrtPriceFromInput, NextSqrtPriceFromAmount1RoundingDown
<1>. HIDE DEF d
<1>. QED
  BY <1>0, <1>5, <1>6

\* Going further gives no less.
LEMMA OutputGrowsDown ==
    ASSUME NEW p \in Ratios, NEW x \in Ratios, NEW y \in Ratios, x <= p, y <= x, NEW L \in Nat,
           NEW a, a = GiveDown(p, x, L), NEW b, b = GiveDown(p, y, L)
    PROVE  a <= b
<1>0. p \in Nat \ {0} /\ x \in Nat \ {0} /\ y \in Nat \ {0} /\ p - x \in Nat /\ p - y \in Nat
      /\ y <= p /\ p - x <= p - y /\ Q \in Nat \ {0}
  BY MathConstants DEF Ratios
<1>1. Upper(p, x) = p /\ Lower(p, x) = x /\ Upper(p, y) = p /\ Lower(p, y) = y
  BY <1>0 DEF Upper, Lower
<1>2. a = (L * (p - x)) \div Q /\ b = (L * (p - y)) \div Q
  BY <1>1 DEF GiveDown, AmountOut, Amount1Delta, MulDiv
<1>3. L * (p - x) <= L * (p - y) /\ L * (p - x) \in Nat /\ L * (p - y) \in Nat
  <2>1. L * (p - x) \in Nat /\ L * (p - y) \in Nat
    BY <1>0, Product
  <2>. QED
    BY <1>0, <2>1, Monotone
<1>. QED
  BY <1>0, <1>2, <1>3, FloorMonotone

LEMMA OutputGrowsUp ==
    ASSUME NEW p \in Ratios, NEW x \in Ratios, NEW y \in Ratios, p <= x, x <= y, NEW L \in Nat,
           NEW a, a = GiveUp(p, x, L), NEW b, b = GiveUp(p, y, L)
    PROVE  a <= b
<1>. DEFINE N == L * Q
            q == (N * (x - p)) \div x
<1>0. p \in Nat \ {0} /\ x \in Nat \ {0} /\ y \in Nat \ {0} /\ x - p \in Nat /\ y - p \in Nat
      /\ p <= y /\ Q \in Nat \ {0}
  BY MathConstants DEF Ratios
<1>1. N \in Nat /\ N * (x - p) \in Nat /\ N * (y - p) \in Nat
  BY <1>0, Product
<1>2. Upper(p, x) = x /\ Lower(p, x) = p /\ Upper(p, y) = y /\ Lower(p, y) = p
  BY <1>0 DEF Upper, Lower
<1>3. a = q \div p /\ b = ((N * (y - p)) \div y) \div p
  BY <1>2 DEF GiveUp, AmountOut, Amount0Delta, MulDiv
<1>. HIDE DEF N
<1>4. q \in Nat /\ q * x <= N * (x - p)
  BY <1>0, <1>1, Quotient
<1>. HIDE DEF q
<1>5. N * x = N * (x - p) + N * p /\ N * y = N * (y - p) + N * p /\ N * x \in Nat /\ N * y \in Nat
      /\ N * p \in Nat /\ q * x \in Nat /\ q * y \in Nat
  BY <1>0, <1>1, <1>4
<1>6. q <= N
  <2>. SUFFICES ASSUME N < q PROVE FALSE
    BY <1>1, <1>4
  <2>1. PICK k \in Nat \ {0} : q = N + k
    BY <1>1, <1>4
  <2>2. q * x = N * x + k * x /\ k * x \in Nat \ {0}
    BY <1>0, <1>1, <2>1
  <2>. QED
    BY <1>1, <1>4, <1>5, <2>2
<1>7. PICK k \in Nat : N = q + k
  BY <1>1, <1>4, <1>6
<1>8. N * x = q * x + k * x /\ N * y = q * y + k * y /\ k * x \in Nat /\ k * y \in Nat
  BY <1>0, <1>4, <1>7
<1>9. k * x <= k * y
  BY <1>0, Monotone
<1>10. q * y <= N * (y - p)
  BY <1>1, <1>4, <1>5, <1>8, <1>9
<1>11. q <= (N * (y - p)) \div y /\ (N * (y - p)) \div y \in Nat
  BY <1>0, <1>1, <1>4, <1>10, FloorAtLeast, Quotient
<1>. QED
  BY <1>0, <1>3, <1>4, <1>11, FloorMonotone

\* The price an output leads to gives it.
LEMMA OutputGivenDown ==
    ASSUME NEW p \in Ratios, NEW L \in Nat \ {0}, NEW a \in Nat,
           NEW x \in Ratios, x = TakeDown(p, L, a),
           NEW out, out = GiveDown(p, x, L)
    PROVE  a <= out
<1>. DEFINE u == DivCeil(a * Q, L)
<1>0. p \in Nat \ {0} /\ x \in Nat \ {0} /\ Q \in Nat \ {0} /\ a * Q \in Nat
  BY MathConstants DEF Ratios
<1>1. u \in Nat /\ a * Q <= u * L
  BY <1>0, Ceiling
<1>2. x = IF p > u THEN p - u ELSE NoPrice
  BY DEF TakeDown, NextSqrtPriceFromOutput, NextSqrtPriceFromAmount1RoundingDown
<1>. HIDE DEF u
<1>3. x = p - u /\ p - x = u /\ x <= p
  BY <1>0, <1>1, <1>2 DEF NoPrice
<1>4. Upper(p, x) = p /\ Lower(p, x) = x
  BY <1>0, <1>3 DEF Upper, Lower
<1>5. out = (L * (p - x)) \div Q
  BY <1>4 DEF GiveDown, AmountOut, Amount1Delta, MulDiv
<1>6. out = (L * u) \div Q
  BY <1>3, <1>5
<1>7. a * Q <= L * u /\ L * u \in Nat
  BY <1>1
<1>. QED
  BY <1>0, <1>6, <1>7, FloorAtLeast

LEMMA OutputGivenUp ==
    ASSUME NEW p \in Ratios, NEW L \in Nat \ {0}, NEW a \in Nat,
           NEW x \in Ratios, p <= x, x = TakeUp(p, L, a),
           NEW out, out = GiveUp(p, x, L)
    PROVE  a <= out
<1>. DEFINE N == L * Q
            D == N - a * p
            y == (N * (x - p)) \div x
<1>0. p \in Nat \ {0} /\ x \in Nat \ {0} /\ x - p \in Nat /\ Q \in Nat \ {0} /\ a * p \in Nat
  BY MathConstants DEF Ratios
<1>1. N \in Nat \ {0} /\ N * (x - p) \in Nat
  BY <1>0, Product
<1>2. Upper(p, x) = x /\ Lower(p, x) = p
  BY <1>0 DEF Upper, Lower
<1>3. out = y \div p
  BY <1>2 DEF GiveUp, AmountOut, Amount0Delta, MulDiv
<1>4. x = IF a = 0 THEN p ELSE IF N > a * p THEN DivCeil(N * p, D) ELSE NoPrice
  BY DEF TakeUp, NextSqrtPriceFromOutput, NextSqrtPriceFromAmount0RoundingUp, MulDivRoundingUp
<1>. HIDE DEF N
<1>5. y \in Nat
  BY <1>0, <1>1, Quotient
<1>6. CASE a = 0
  <2>. HIDE DEF y
  <2>1. out \in Nat
    BY <1>0, <1>3, <1>5, Quotient
  <2>. QED
    BY <1>6, <2>1
<1>7. CASE a # 0
  <2>1. N > a * p /\ x = DivCeil(N * p, D)
    <3>. HIDE DEF D
    <3>. QED
      BY <1>0, <1>4, <1>7 DEF NoPrice
  <2>2. D \in Nat \ {0} /\ N * p \in Nat
    BY <1>0, <1>1, <2>1
  <2>3. N * p <= x * D
    <3>. HIDE DEF D
    <3>. QED
      BY <2>1, <2>2, Ceiling
  <2>4. x * D = N * x - (a * p) * x /\ N * x = N * (x - p) + N * p /\ (a * p) * x \in Nat
        /\ N * x \in Nat
    BY <1>0, <1>1
  <2>. HIDE DEF D
  <2>5. (a * p) * x <= N * (x - p)
    BY <1>1, <2>2, <2>3, <2>4
  <2>6. a * p <= y
    BY <1>0, <1>1, <2>5, FloorAtLeast
  <2>. HIDE DEF y
  <2>. QED
    BY <1>0, <1>3, <1>5, <2>6, FloorAtLeast
<1>. QED
  BY <1>6, <1>7

\* A price that costs nothing gives nothing.
LEMMA FreeDown ==
    ASSUME NEW p \in Ratios, NEW x \in Ratios, x <= p, NEW L \in Nat,
           NEW cost, cost = CostDown(p, x, L), cost = 0, NEW out, out = GiveDown(p, x, L)
    PROVE  out = 0
<1>. DEFINE N == L * Q
            d == p - x
            y == DivCeil(N * d, p)
<1>0. p \in Nat \ {0} /\ x \in Nat \ {0} /\ d \in Nat /\ Q \in Nat \ {0}
  BY MathConstants DEF Ratios
<1>1. Upper(p, x) = p /\ Lower(p, x) = x
  BY <1>0 DEF Upper, Lower
<1>2. cost = DivCeil(y, x)
  BY <1>1 DEF CostDown, AmountIn, Amount0Delta, MulDivRoundingUp
<1>3. out = (L * d) \div Q
  BY <1>1 DEF GiveDown, AmountOut, Amount1Delta, MulDiv
<1>. HIDE DEF d
<1>4. N \in Nat /\ N * d \in Nat
  BY <1>0, Product
<1>. HIDE DEF N
<1>5. y \in Nat /\ N * d <= y * p
  BY <1>0, <1>4, Ceiling
<1>. HIDE DEF y
<1>6. y <= cost * x
  BY <1>0, <1>2, <1>5, Ceiling
<1>7. y = 0
  BY <1>0, <1>5, <1>6
<1>8. N * d = 0
  BY <1>0, <1>4, <1>5, <1>7
<1>9. N = 0 \/ d = 0
  BY <1>0, <1>4, <1>8
<1>10. L * d = 0
  BY <1>0, <1>9 DEF N
<1>. QED
  BY <1>0, <1>3, <1>10, CeilingZero

LEMMA FreeUp ==
    ASSUME NEW p \in Ratios, NEW x \in Ratios, p <= x, NEW L \in Nat,
           NEW cost, cost = CostUp(p, x, L), cost = 0, NEW out, out = GiveUp(p, x, L)
    PROVE  out = 0
<1>. DEFINE d == x - p
<1>0. p \in Nat \ {0} /\ x \in Nat \ {0} /\ d \in Nat /\ Q \in Nat \ {0}
  BY MathConstants DEF Ratios
<1>1. Upper(p, x) = x /\ Lower(p, x) = p
  BY <1>0 DEF Upper, Lower
<1>2. cost = DivCeil(L * d, Q)
  BY <1>1 DEF CostUp, AmountIn, Amount1Delta, MulDivRoundingUp
<1>3. out = (((L * Q) * d) \div x) \div p
  BY <1>1 DEF GiveUp, AmountOut, Amount0Delta, MulDiv
<1>. HIDE DEF d
<1>4. L * d \in Nat /\ L * d <= cost * Q
  BY <1>0, <1>2, Product, Ceiling
<1>5. L * d = 0
  BY <1>0, <1>4
<1>6. L = 0 \/ d = 0
  BY <1>0, <1>5
<1>7. (L * Q) * d = 0
  BY <1>0, <1>6
<1>. QED
  BY <1>0, <1>3, <1>7, CeilingZero

\* What was paid with the fee on top is left once the fee is taken off.
LEMMA FeeCovered ==
    ASSUME NEW in \in Nat, NEW fee \in 0..(MaxFee - 1), NEW rem \in Nat,
           in + MulDivRoundingUp(in, fee, MaxFee - fee) <= rem
    PROVE  in <= MulDiv(rem, MaxFee - fee, MaxFee)
<1>. DEFINE M == MaxFee
            g == M - fee
            c == DivCeil(in * fee, g)
<1>0. M \in Nat \ {0} /\ g \in Nat \ {0} /\ fee \in Nat /\ M = g + fee
  BY MathConstants
<1>1. MulDiv(rem, MaxFee - fee, MaxFee) = (rem * g) \div M /\ MulDivRoundingUp(in, fee, MaxFee - fee) = c
  BY DEF MulDiv, MulDivRoundingUp
<1>2. in + c <= rem
  BY <1>1, Zenon
<1>. HIDE DEF M, g
<1>3. in * fee \in Nat
  BY <1>0
<1>4. c \in Nat /\ in * fee <= c * g
  BY <1>0, <1>3, Ceiling
<1>. HIDE DEF c
<1>5. (in + c) * g <= rem * g /\ rem * g \in Nat /\ in + c \in Nat
  <2>1. in + c \in Nat /\ rem * g \in Nat
    BY <1>0, <1>4
  <2>. QED
    BY <1>0, <1>2, <2>1, Monotone
<1>6. (in + c) * g = in * g + c * g /\ in * M = in * g + in * fee /\ in * g \in Nat /\ c * g \in Nat
  BY <1>0, <1>4
<1>7. in * M <= rem * g
  BY <1>3, <1>4, <1>5, <1>6
<1>8. in <= (rem * g) \div M
  <2>. DEFINE n == rem * g
  <2>1. n \in Int /\ in \in Int /\ in * M <= n
    BY <1>5, <1>7
  <2>. HIDE DEF n
  <2>2. in <= n \div M
    BY <1>0, <2>1, FloorAtLeast
  <2>. QED
    BY <2>2 DEF n
<1>. QED
  BY <1>1, <1>8, Zenon

\* The input that a price short of the target costs, or more, gives the output
\* that led there.
Leads(p, t, L, rem, x, a, y) ==
    LET z == p >= t
    IN  /\ x = NextSqrtPriceFromOutput(p, L, rem, z) /\ AmountIn(p, x, L, z) <= a
        /\ y = NextSqrtPriceFromInput(p, L, a, z)
Gives(p, t, L, y, rem) ==
    LET z == p >= t
    IN  rem <= AmountOut(p, y, L, z)

LEMMA PaidIsGiven ==
    ASSUME NEW p \in Ratios, NEW t \in Ratios, NEW L \in Nat \ {0}, NEW rem \in Nat, NEW a \in Nat,
           NEW x \in Ratios, NEW y \in Ratios, Between(p, t, x), Leads(p, t, L, rem, x, a, y)
    PROVE  Gives(p, t, L, y, rem)
<1>0. p \in Nat /\ x \in Nat /\ y \in Nat
  BY DEF Ratios
<1>1. CASE (p >= t) = TRUE
  <2>1. x <= p
    BY <1>1 DEF Between
  <2>2. /\ x = TakeDown(p, L, rem) /\ CostDown(p, x, L) <= a /\ y = PayDown(p, L, a)
    BY <1>1, Zenon DEF Leads, TakeDown, CostDown, PayDown
  <2>3. y <= x
    BY <2>1, <2>2, InputLeadsDown
  <2>4. rem <= GiveDown(p, x, L)
    BY <2>2, OutputGivenDown
  <2>5. GiveDown(p, x, L) <= GiveDown(p, y, L)
    BY <2>1, <2>3, OutputGrowsDown
  <2>6. GiveDown(p, x, L) \in Nat /\ GiveDown(p, y, L) \in Nat
    <3>1. TRUE \in BOOLEAN
      OBVIOUS
    <3>2. L \in Nat
      OBVIOUS
    <3>. QED
      BY <3>1, <3>2, AmountTypes DEF GiveDown
  <2>7. rem <= GiveDown(p, y, L)
    BY <2>4, <2>5, <2>6
  <2>. QED
    BY <1>1, <2>7, Zenon DEF Gives, GiveDown
<1>2. CASE (p >= t) = FALSE
  <2>1. p <= x
    BY <1>2 DEF Between
  <2>2. /\ x = TakeUp(p, L, rem) /\ CostUp(p, x, L) <= a /\ y = PayUp(p, L, a)
    BY <1>2, Zenon DEF Leads, TakeUp, CostUp, PayUp
  <2>3. x <= y
    BY <2>1, <2>2, InputLeadsUp
  <2>4. rem <= GiveUp(p, x, L)
    BY <2>1, <2>2, OutputGivenUp
  <2>5. GiveUp(p, x, L) <= GiveUp(p, y, L)
    BY <2>1, <2>3, OutputGrowsUp
  <2>6. GiveUp(p, x, L) \in Nat /\ GiveUp(p, y, L) \in Nat
    <3>1. FALSE \in BOOLEAN
      OBVIOUS
    <3>2. L \in Nat
      OBVIOUS
    <3>. QED
      BY <3>1, <3>2, AmountTypes DEF GiveUp
  <2>7. rem <= GiveUp(p, y, L)
    BY <2>4, <2>5, <2>6
  <2>. QED
    BY <1>2, <2>7, Zenon DEF Gives, GiveUp
<1>3. (p >= t) = TRUE \/ (p >= t) = FALSE
  OBVIOUS
<1>. QED
  BY <1>1, <1>2, <1>3, Zenon

LEMMA FreeGivesNothing ==
    ASSUME NEW p \in Ratios, NEW t \in Ratios, NEW L \in Nat, NEW x \in Ratios, Between(p, t, x),
           NEW z, z = (p >= t), AmountIn(p, x, L, z) = 0
    PROVE  AmountOut(p, x, L, z) = 0
<1>1. CASE z = TRUE
  <2>1. x <= p
    BY <1>1 DEF Between
  <2>2. CostDown(p, x, L) = 0
    BY <1>1, Zenon DEF CostDown
  <2>3. GiveDown(p, x, L) = 0
    BY <2>1, <2>2, FreeDown
  <2>. QED
    BY <1>1, <2>3, Zenon DEF GiveDown
<1>2. CASE z = FALSE
  <2>1. p <= x
    BY <1>2 DEF Between
  <2>2. CostUp(p, x, L) = 0
    BY <1>2, Zenon DEF CostUp
  <2>3. GiveUp(p, x, L) = 0
    BY <2>1, <2>2, FreeUp
  <2>. QED
    BY <1>2, <2>3, Zenon DEF GiveUp
<1>3. z = TRUE \/ z = FALSE
  OBVIOUS
<1>. QED
  BY <1>1, <1>2, <1>3, Zenon

\* A step by output that was paid for, taken again by input, is the same step or
\* gives more than what was wanted of it.
LEMMA InputBuysStep ==
    ASSUME NEW p \in Ratios, NEW t \in Ratios, NEW L \in Nat, NEW rem \in Nat, NEW paid \in Nat,
           NEW fee \in 0..(MaxFee - 1), NEW o, o = StepExactOut(p, t, L, rem, fee),
           o.in + o.fee <= paid, NEW i, i = StepExactIn(p, t, L, paid, fee)
    PROVE  i = o \/ rem <= i.out
<1>. DEFINE z == p >= t
            g == MaxFee - fee
            fullOut == AmountOut(p, t, L, z)
            fullIn == AmountIn(p, t, L, z)
            gives == rem >= fullOut
            x == IF gives THEN t ELSE NextSqrtPriceFromOutput(p, L, rem, z)
            cost == IF x = NoPrice THEN 0 ELSE AmountIn(p, x, L, z)
            lessFee == MulDiv(paid, g, MaxFee)
            reaches == lessFee >= fullIn
            in == IF reaches THEN fullIn ELSE lessFee
            y == IF reaches THEN t ELSE NextSqrtPriceFromInput(p, L, in, z)
            out == IF y = NoPrice THEN 0 ELSE AmountOut(p, y, L, z)
<1>1. o = [price |-> x, in |-> cost, out |-> IF gives THEN fullOut ELSE rem,
           fee |-> MulDivRoundingUp(cost, fee, g)]
  BY DEF StepExactOut
<1>2. i = [price |-> y, in |-> in, out |-> out,
           fee |-> IF reaches THEN MulDivRoundingUp(in, fee, g) ELSE paid - in]
  BY DEF StepExactIn
<1>3. z \in BOOLEAN
  OBVIOUS
<1>4. fullOut \in Nat /\ fullIn \in Nat /\ (L = 0 => fullOut = 0)
  BY <1>3, AmountTypes
<1>5. StepResult(o, p, t, L) /\ StepResult(i, p, t, L)
  BY StepOutResult, StepInResult
<1>6. x \in Ratios /\ Between(p, t, x) /\ y \in Ratios /\ t # NoPrice
  <2>1. o.price = x /\ i.price = y
    BY <1>1, <1>2
  <2>. HIDE DEF x, y
  <2>. QED
    BY <1>5, <2>1 DEF StepResult, Ratios, NoPrice
<1>7. cost = AmountIn(p, x, L, z) /\ out = AmountOut(p, y, L, z)
  <2>1. x # NoPrice /\ y # NoPrice
    <3>. HIDE DEF x, y
    <3>. QED
      BY <1>6 DEF Ratios, NoPrice
  <2>. QED
    BY <2>1
<1>8. cost \in Nat /\ cost <= lessFee /\ lessFee \in Nat
  <2>. DEFINE due == MulDivRoundingUp(cost, fee, g)
  <2>1. o.in = cost /\ o.fee = due
    BY <1>1
  <2>2. cost \in Nat
    <3>. HIDE DEF cost
    <3>. QED
      BY <1>5, <2>1 DEF StepResult
  <2>3. cost + due <= paid
    BY <2>1, Zenon
  <2>. HIDE DEF cost
  <2>4. cost <= lessFee
    BY <2>2, <2>3, FeeCovered DEF due, lessFee, g
  <2>5. g \in Nat /\ MaxFee \in Nat \ {0} /\ paid * g \in Nat
    BY MathConstants, Product
  <2>6. lessFee \in Nat
    <3>. HIDE DEF g
    <3>. QED
      BY <2>5, Quotient DEF MulDiv
  <2>. QED
    BY <2>2, <2>4, <2>6
<1>9. CASE gives
  <2>1. x = t
    BY <1>9
  <2>2. cost = fullIn
    <3>. HIDE DEF x, cost
    <3>. QED
      BY <1>7, <2>1, Zenon
  <2>3. reaches
    <3>. HIDE DEF cost, fullIn, lessFee
    <3>. QED
      BY <1>4, <1>8, <2>2
  <2>4. in = cost /\ y = t
    BY <2>2, <2>3
  <2>5. out = fullOut
    <3>. HIDE DEF y, out
    <3>. QED
      BY <1>7, <2>4, Zenon
  <2>. HIDE DEF x, cost, in, y, out, fullOut, gives, reaches
  <2>. QED
    BY <1>1, <1>2, <1>9, <2>1, <2>3, <2>4, <2>5
<1>10. CASE ~gives
  <2>1. x = NextSqrtPriceFromOutput(p, L, rem, z) /\ rem < fullOut
    <3>1. x = NextSqrtPriceFromOutput(p, L, rem, z)
      BY <1>10
    <3>2. rem < fullOut
      <4>. HIDE DEF fullOut
      <4>. QED
        BY <1>4, <1>10
    <3>. QED
      BY <3>1, <3>2
  <2>2. L # 0
    <3>. HIDE DEF fullOut
    <3>. QED
      BY <1>4, <2>1
  <2>3. i.out = out
    BY <1>2
  <2>4. rem <= out
    <3>1. CASE reaches
      <4>1. y = t
        BY <3>1
      <4>2. out = fullOut
        <5>. HIDE DEF y, out
        <5>. QED
          BY <1>7, <4>1, Zenon
      <4>. HIDE DEF out, fullOut
      <4>. QED
        BY <1>4, <2>1, <4>2
    <3>2. CASE ~reaches
      <4>1. y = NextSqrtPriceFromInput(p, L, lessFee, z)
        BY <3>2
      <4>. HIDE DEF x, y, out, cost, lessFee
      <4>2. Leads(p, t, L, rem, x, lessFee, y)
        BY <1>7, <1>8, <2>1, <4>1, Zenon DEF Leads
      <4>3. Gives(p, t, L, y, rem)
        BY <1>6, <1>8, <2>2, <4>2, PaidIsGiven
      <4>. QED
        BY <1>7, <4>3, Zenon DEF Gives
    <3>. QED
      BY <3>1, <3>2
  <2>. QED
    BY <2>3, <2>4, Zenon
<1>. QED
  BY <1>9, <1>10

\* A step that costs nothing gives nothing.
LEMMA FreeStep ==
    ASSUME NEW p \in Ratios, NEW t \in Ratios, NEW L \in Nat, NEW rem \in Nat,
           NEW fee \in 0..(MaxFee - 1), NEW o, o = StepExactOut(p, t, L, rem, fee), o.in = 0
    PROVE  o.out = 0
<1>. DEFINE z == p >= t
            fullOut == AmountOut(p, t, L, z)
            gives == rem >= fullOut
            x == IF gives THEN t ELSE NextSqrtPriceFromOutput(p, L, rem, z)
            cost == IF x = NoPrice THEN 0 ELSE AmountIn(p, x, L, z)
<1>1. o.price = x /\ o.in = cost /\ o.out = IF gives THEN fullOut ELSE rem
  BY DEF StepExactOut
<1>2. fullOut \in Nat /\ (L = 0 => fullOut = 0)
  <2>1. z \in BOOLEAN
    OBVIOUS
  <2>. QED
    BY <2>1, AmountTypes
<1>3. x \in Ratios /\ Between(p, t, x)
  <2>1. StepResult(o, p, t, L)
    BY StepOutResult
  <2>. HIDE DEF x
  <2>. QED
    BY <1>1, <2>1 DEF StepResult
<1>4. AmountIn(p, x, L, z) = 0
  <2>1. x # NoPrice
    <3>. HIDE DEF x
    <3>. QED
      BY <1>3 DEF Ratios, NoPrice
  <2>2. cost = 0
    BY <1>1, Zenon
  <2>. HIDE DEF x, z
  <2>. QED
    BY <2>1, <2>2
<1>5. AmountOut(p, x, L, z) = 0
  <2>. HIDE DEF x
  <2>. QED
    BY <1>3, <1>4, FreeGivesNothing
<1>6. CASE gives
  <2>1. x = t
    BY <1>6
  <2>2. fullOut = 0
    <3>. HIDE DEF x
    <3>. QED
      BY <1>5, <2>1, Zenon
  <2>. HIDE DEF fullOut, gives
  <2>. QED
    BY <1>1, <1>6, <2>2
<1>7. CASE ~gives
  <2>1. x = NextSqrtPriceFromOutput(p, L, rem, z) /\ L # 0
    <3>1. x = NextSqrtPriceFromOutput(p, L, rem, z)
      BY <1>7
    <3>2. L # 0
      <4>. HIDE DEF fullOut
      <4>. QED
        BY <1>2, <1>7
    <3>. QED
      BY <3>1, <3>2
  <2>2. rem <= AmountOut(p, x, L, z)
    <3>. HIDE DEF x
    <3>1. CASE z = TRUE
      <4>1. x = TakeDown(p, L, rem)
        BY <2>1, <3>1, Zenon DEF TakeDown
      <4>2. rem <= GiveDown(p, x, L)
        BY <1>3, <2>1, <4>1, OutputGivenDown
      <4>. QED
        BY <3>1, <4>2, Zenon DEF GiveDown
    <3>2. CASE z = FALSE
      <4>1. x = TakeUp(p, L, rem)
        BY <2>1, <3>2, Zenon DEF TakeUp
      <4>2. p <= x
        BY <1>3, <3>2 DEF Between
      <4>3. rem <= GiveUp(p, x, L)
        BY <1>3, <2>1, <4>1, <4>2, OutputGivenUp
      <4>. QED
        BY <3>2, <4>3, Zenon DEF GiveUp
    <3>3. z = TRUE \/ z = FALSE
      OBVIOUS
    <3>. QED
      BY <3>1, <3>2, <3>3, Zenon
  <2>3. o.out = rem
    <3>. HIDE DEF gives, fullOut
    <3>. QED
      BY <1>1, <1>7
  <2>4. rem <= 0
    BY <1>5, <2>2, Zenon
  <2>. QED
    BY <2>3, <2>4
<1>. QED
  BY <1>6, <1>7

----------------------------------------------------------------------------
(* The search for the tick a step ends at. *)

LEMMA IntMonotone ==
    ASSUME NEW a \in Int, NEW b \in Int, NEW c \in Nat, a <= b
    PROVE  a * c <= b * c
<1>1. PICK k \in Nat : b = a + k
  OBVIOUS
<1>2. b * c = a * c + k * c /\ k * c \in Nat /\ a * c \in Int
  BY <1>1
<1>. QED
  BY <1>2

\* The end of a downward step: no initialized tick is passed over, and the net
\* liquidity that would be crossed there is the chain's.
EndsBelow(book, p, e, n, tick) ==
    /\ n \in MinTick..tick /\ e.initialized \in BOOLEAN
    /\ \A t \in Initialized(book) : ~(n < t /\ t <= tick)
    /\ (IF e.initialized THEN p.ticks[n].net ELSE 0) = NetAt(book, n)
\* Of an upward one, which may find that nothing is above.
EndsAbove(book, p, e, n, tick) ==
    /\ n \in (tick + 1)..MaxTick /\ e.initialized \in BOOLEAN
    /\ \A t \in Initialized(book) : ~(tick < t /\ t < n)
    /\ (IF e.initialized THEN p.ticks[n].net ELSE 0) = NetAt(book, n)
NothingAbove(book, n, tick) == n = tick /\ \A t \in Initialized(book) : t <= tick

LEMMA ClampStays ==
    ASSUME NEW t \in MinTick..MaxTick PROVE Clamp(t) = t
BY MathConstants DEF Clamp, Lower, Upper

LEMMA FoundBelow ==
    ASSUME NEW book \in Books, NEW p \in Pools(book), NEW tick \in MinTick..(MaxTick - 1),
           NEW m \in Initialized(book), m <= tick,
           \A t \in Initialized(book) : ~(m < t /\ t <= tick)
    PROVE  EndsBelow(book, p, Ended(m, TRUE), Clamp(m), tick)
<1>1. m \in MinTick..MaxTick /\ m \in Int /\ MinTick \in Int
  BY InitializedTicks, MathConstants
<1>2. Clamp(m) = m
  BY <1>1, ClampStays
<1>3. p.ticks[m].net = NetAt(book, m)
  <2>1. p.ticks = TicksOf(book)
    BY PoolFields
  <2>. QED
    BY <2>1 DEF TicksOf
<1>4. m \in MinTick..tick
  BY <1>1
<1>5. Ended(m, TRUE).initialized = TRUE
  BY DEF Ended
<1>. QED
  BY <1>2, <1>3, <1>4, <1>5 DEF EndsBelow

LEMMA EdgeBelow ==
    ASSUME NEW book \in Books, NEW p, NEW tick \in MinTick..(MaxTick - 1),
           NEW lo \in Int, lo <= tick,
           \A t \in Initialized(book) : ~(lo <= t /\ t <= tick)
    PROVE  EndsBelow(book, p, Ended(lo, FALSE), Clamp(lo), tick)
<1>. DEFINE n == Clamp(lo)
<1>0. MinTick \in Int /\ MaxTick \in Int /\ tick \in Int /\ MinTick <= tick /\ tick < MaxTick
  BY MathConstants
<1>1. n = IF lo < MinTick THEN MinTick ELSE lo
  BY <1>0 DEF Clamp, Lower, Upper
<1>. HIDE DEF n
<1>2. n \in MinTick..tick /\ lo <= n /\ n \in MinTick..MaxTick
  BY <1>0, <1>1
<1>3. n \notin Initialized(book)
  BY <1>2
<1>4. NetAt(book, n) = 0
  BY <1>2, <1>3, InitializedTicks
<1>5. \A t \in Initialized(book) : ~(n < t /\ t <= tick)
  <2>1. \A t \in Initialized(book) : t \in Int
    BY InitializedTicks, MathConstants
  <2>. QED
    BY <1>0, <1>2, <2>1
<1>6. Ended(lo, FALSE).initialized = FALSE
  BY DEF Ended
<1>7. EndsBelow(book, p, Ended(lo, FALSE), n, tick)
  BY <1>2, <1>4, <1>5, <1>6 DEF EndsBelow
<1>. QED
  BY <1>7 DEF n

LEMMA FoundAbove ==
    ASSUME NEW book \in Books, NEW p \in Pools(book), NEW tick \in MinTick..(MaxTick - 1),
           NEW m \in Initialized(book), tick < m,
           \A t \in Initialized(book) : ~(tick < t /\ t < m)
    PROVE  EndsAbove(book, p, Ended(m, TRUE), Clamp(m), tick)
<1>1. m \in MinTick..MaxTick /\ m \in Int /\ MinTick \in Int /\ MaxTick \in Int
  BY InitializedTicks, MathConstants
<1>2. Clamp(m) = m
  BY <1>1, ClampStays
<1>3. p.ticks[m].net = NetAt(book, m)
  <2>1. p.ticks = TicksOf(book)
    BY PoolFields
  <2>. QED
    BY <2>1 DEF TicksOf
<1>4. m \in (tick + 1)..MaxTick
  BY <1>1
<1>5. Ended(m, TRUE).initialized = TRUE
  BY DEF Ended
<1>. QED
  BY <1>2, <1>3, <1>4, <1>5 DEF EndsAbove

LEMMA EdgeAbove ==
    ASSUME NEW book \in Books, NEW p, NEW tick \in MinTick..(MaxTick - 1),
           NEW hi \in Int, tick < hi,
           \A t \in Initialized(book) : ~(tick < t /\ t <= hi)
    PROVE  EndsAbove(book, p, Ended(hi, FALSE), Clamp(hi), tick)
<1>. DEFINE n == Clamp(hi)
<1>0. MinTick \in Int /\ MaxTick \in Int /\ tick \in Int /\ MinTick <= tick /\ tick < MaxTick
  BY MathConstants
<1>1. n = IF hi > MaxTick THEN MaxTick ELSE hi
  BY <1>0 DEF Clamp, Lower, Upper
<1>. HIDE DEF n
<1>2. n \in (tick + 1)..MaxTick /\ n <= hi /\ n \in MinTick..MaxTick
  BY <1>0, <1>1
<1>3. n \notin Initialized(book)
  BY <1>0, <1>2
<1>4. NetAt(book, n) = 0
  BY <1>2, <1>3, InitializedTicks
<1>5. \A t \in Initialized(book) : ~(tick < t /\ t < n)
  <2>1. \A t \in Initialized(book) : t \in Int
    BY InitializedTicks, MathConstants
  <2>. QED
    BY <1>0, <1>2, <2>1
<1>6. Ended(hi, FALSE).initialized = FALSE
  BY DEF Ended
<1>7. EndsAbove(book, p, Ended(hi, FALSE), n, tick)
  BY <1>2, <1>4, <1>5, <1>6 DEF EndsAbove
<1>. QED
  BY <1>7 DEF n

\* The greatest and the least of some initialized ticks.
LEMMA TicksMax ==
    ASSUME NEW book \in Books, NEW S \in SUBSET Initialized(book), S # {}
    PROVE  Max(S) \in S /\ \A t \in S : t <= Max(S)
<1>1. S \subseteq Int /\ \A t \in S : t <= MaxTick
  BY InitializedTicks, MathConstants
<1>2. \E m \in S : \A x \in S : m >= x
  <2>1. MaxTick \in Int
    BY MathConstants
  <2>. QED
    BY <1>1, <2>1, GreatestMember
<1>3. Max(S) \in S /\ \A t \in S : Max(S) >= t
  BY <1>2 DEF Max
<1>. QED
  BY <1>1, <1>3

LEMMA TicksMin ==
    ASSUME NEW book \in Books, NEW S \in SUBSET Initialized(book), S # {}
    PROVE  Min(S) \in S /\ \A t \in S : Min(S) <= t
<1>1. S \subseteq Int /\ \A t \in S : MinTick <= t
  BY InitializedTicks, MathConstants
<1>2. \E m \in S : \A x \in S : m <= x
  BY <1>1, MathConstants, LeastMember
<1>. QED
  BY <1>2 DEF Min

\* The words: where the search of one begins and ends, and that no initialized
\* tick is between the current tick and the first usable one.
LEMMA WordEdges ==
    ASSUME NEW book \in Books, NEW tick \in Int, NEW c, c = tick \div Spacing,
           NEW low, low = ((c \div WordSize) * WordSize) * Spacing,
           NEW high, high = (((c + 1) \div WordSize) * WordSize + WordSize - 1) * Spacing
    PROVE  /\ low \in Int /\ high \in Int /\ c * Spacing \in Int /\ (c + 1) * Spacing \in Int
           /\ low <= c * Spacing /\ c * Spacing <= tick
           /\ tick < (c + 1) * Spacing /\ (c + 1) * Spacing <= high
           /\ \A t \in Initialized(book) : /\ t <= tick => t <= c * Spacing
                                           /\ t > tick => t >= (c + 1) * Spacing
<1>. DEFINE first(i) == (i \div WordSize) * WordSize
<1>1. low = first(c) * Spacing /\ high = (first(c + 1) + WordSize - 1) * Spacing
  OBVIOUS
<1>2. Spacing \in Nat \ {0} /\ WordSize \in Nat \ {0}
  BY PoolConstants, MathConstants
<1>3. c \in Int /\ c * Spacing <= tick /\ tick < c * Spacing + Spacing
  BY <1>2, Floor
<1>4. c * Spacing \in Int /\ (c + 1) * Spacing = c * Spacing + Spacing /\ c + 1 \in Int
  BY <1>2, <1>3
<1>5. \A i \in Int : first(i) \in Int /\ first(i) <= i /\ i <= first(i) + WordSize - 1
  <2>. SUFFICES ASSUME NEW i \in Int
                PROVE  first(i) \in Int /\ first(i) <= i /\ i <= first(i) + WordSize - 1
    OBVIOUS
  <2>1. i \div WordSize \in Int /\ first(i) <= i /\ i < first(i) + WordSize
    BY <1>2, Floor
  <2>2. first(i) \in Int
    BY <1>2, <2>1
  <2>. HIDE DEF first
  <2>. QED
    BY <1>2, <2>1, <2>2
<1>. HIDE DEF first
<1>6. /\ first(c) \in Int /\ first(c) <= c
      /\ first(c + 1) + WordSize - 1 \in Int /\ c + 1 <= first(c + 1) + WordSize - 1
  BY <1>2, <1>3, <1>4, <1>5
<1>7. low \in Int /\ high \in Int
  BY <1>2, <1>6, <1>1
<1>8. low <= c * Spacing /\ (c + 1) * Spacing <= high
  BY <1>2, <1>3, <1>4, <1>6, <1>1, IntMonotone
<1>9. ASSUME NEW t \in Initialized(book)
      PROVE  /\ t <= tick => t <= c * Spacing
             /\ t > tick => t >= (c + 1) * Spacing
  <2>. DEFINE k == t \div Spacing
  <2>1. t \in Int /\ t % Spacing = 0
    BY InitializedTicks, MathConstants
  <2>2. k \in Int /\ t = k * Spacing
    BY <1>2, <2>1, FloorExact
  <2>. HIDE DEF k
  <2>3. ASSUME t <= tick PROVE t <= c * Spacing
    <3>1. k <= c
      BY <1>2, <2>2, <2>3, FloorAtLeast
    <3>. QED
      BY <1>2, <1>3, <2>2, <3>1, IntMonotone
  <2>4. ASSUME t > tick PROVE t >= (c + 1) * Spacing
    <3>1. tick < k * Spacing
      BY <2>1, <2>2, <2>4
    <3>2. c < k
      BY <1>2, <2>2, <3>1, FloorBelow
    <3>3. c + 1 <= k
      BY <1>3, <2>2, <3>2
    <3>4. (c + 1) * Spacing <= k * Spacing
      BY <1>2, <1>4, <2>2, <3>3, IntMonotone
    <3>. QED
      BY <1>4, <2>1, <2>2, <3>4
  <2>. QED
    BY <2>3, <2>4
<1>. QED
  <2>1. tick < (c + 1) * Spacing /\ (c + 1) * Spacing \in Int
    BY <1>2, <1>3, <1>4
  <2>. QED
    BY <1>3, <1>4, <1>7, <1>8, <1>9, <2>1

LEMMA SearchBelow ==
    ASSUME NEW book \in Books, NEW p \in Pools(book), NEW tick \in MinTick..(MaxTick - 1),
           NEW e, e = NextInitializedTick(p, tick, TRUE)
    PROVE  EndsBelow(book, p, e, Clamp(e.tick), tick)
<1>. DEFINE ticks == p.ticks
<1>0. DOMAIN ticks = Initialized(book) /\ p.spacing = Spacing
      /\ p.search \in {"WordBounded", "NextInitialized"}
  <2>1. ticks = TicksOf(book) /\ p.spacing = Spacing /\ p.search \in {"WordBounded", "NextInitialized"}
    BY PoolFields
  <2>2. DOMAIN TicksOf(book) = Initialized(book)
    BY DEF TicksOf
  <2>. HIDE DEF ticks
  <2>. QED
    BY <2>1, <2>2
<1>1. tick \in Int /\ \A t \in Initialized(book) : t \in Int
  BY InitializedTicks, MathConstants
<1>2. \A m, init : Ended(m, init).tick = m
  BY DEF Ended
<1>3. CASE p.search = "NextInitialized"
  <2>. DEFINE below == {t \in DOMAIN ticks : t <= tick}
  <2>1. e = IF below = {} THEN Ended(tick, FALSE) ELSE Ended(Max(below), TRUE)
    BY <1>3 DEF NextInitializedTick, NextInitialized
  <2>2. CASE below = {}
    <3>1. e = Ended(tick, FALSE) /\ e.tick = tick
      BY <1>2, <2>1, <2>2
    <3>2. \A t \in Initialized(book) : ~(tick <= t /\ t <= tick)
      BY <1>0, <1>1, <2>2
    <3>3. EndsBelow(book, p, Ended(tick, FALSE), Clamp(tick), tick)
      <4>1. tick <= tick
        BY <1>1
      <4>. QED
        BY <1>1, <3>2, <4>1, EdgeBelow
    <3>. QED
      BY <3>1, <3>3
  <2>3. CASE below # {}
    <3>. DEFINE m == Max(below)
    <3>1. e = Ended(m, TRUE) /\ e.tick = m
      BY <1>2, <2>1, <2>3
    <3>2. below \in SUBSET Initialized(book)
      BY <1>0
    <3>3. m \in below /\ \A t \in below : t <= m
      BY <2>3, <3>2, TicksMax
    <3>. HIDE DEF m
    <3>4. m \in Initialized(book) /\ m <= tick /\ \A t \in Initialized(book) : ~(m < t /\ t <= tick)
      BY <1>0, <1>1, <3>3
    <3>5. EndsBelow(book, p, Ended(m, TRUE), Clamp(m), tick)
      BY <3>4, FoundBelow
    <3>. QED
      BY <3>1, <3>5
  <2>. QED
    BY <2>2, <2>3
<1>4. CASE p.search # "NextInitialized"
  <2>. DEFINE c == tick \div Spacing
              lo == ((c \div WordSize) * WordSize) * Spacing
              hi == c * Spacing
              below == {t \in DOMAIN ticks : lo <= t /\ t <= hi}
  <2>1. e = IF below = {} THEN Ended(lo, FALSE) ELSE Ended(Max(below), TRUE)
    BY <1>0, <1>4 DEF NextInitializedTick, WordBounded
  <2>2. /\ lo \in Int /\ hi \in Int /\ lo <= hi /\ hi <= tick
        /\ \A t \in Initialized(book) : t <= tick => t <= hi
    BY <1>1, WordEdges
  <2>. HIDE DEF lo, hi
  <2>3. CASE below = {}
    <3>1. e = Ended(lo, FALSE) /\ e.tick = lo
      BY <1>2, <2>1, <2>3
    <3>2. lo <= tick /\ \A t \in Initialized(book) : ~(lo <= t /\ t <= tick)
      BY <1>0, <1>1, <2>2, <2>3
    <3>3. EndsBelow(book, p, Ended(lo, FALSE), Clamp(lo), tick)
      BY <2>2, <3>2, EdgeBelow
    <3>. QED
      BY <3>1, <3>3
  <2>4. CASE below # {}
    <3>. DEFINE m == Max(below)
    <3>1. e = Ended(m, TRUE) /\ e.tick = m
      BY <1>2, <2>1, <2>4
    <3>2. below \in SUBSET Initialized(book)
      BY <1>0
    <3>3. m \in below /\ \A t \in below : t <= m
      BY <2>4, <3>2, TicksMax
    <3>. HIDE DEF m
    <3>4. m \in Initialized(book) /\ m <= tick /\ \A t \in Initialized(book) : ~(m < t /\ t <= tick)
      <4>1. m \in Initialized(book) /\ lo <= m /\ m <= hi /\ m \in Int
        BY <1>0, <1>1, <3>3
      <4>2. ASSUME NEW t \in Initialized(book), m < t, t <= tick PROVE FALSE
        <5>1. t \in below
          <6>1. t \in Int /\ lo <= t /\ t <= hi
            BY <1>1, <2>2, <4>1, <4>2
          <6>. QED
            BY <1>0, <6>1
        <5>2. t <= m
          BY <3>3, <5>1
        <5>. QED
          BY <1>1, <4>1, <4>2, <5>2
      <4>. QED
        BY <1>1, <2>2, <4>1, <4>2
    <3>5. EndsBelow(book, p, Ended(m, TRUE), Clamp(m), tick)
      BY <3>4, FoundBelow
    <3>. QED
      BY <3>1, <3>5
  <2>. QED
    BY <2>3, <2>4
<1>. QED
  BY <1>3, <1>4

LEMMA SearchAbove ==
    ASSUME NEW book \in Books, NEW p \in Pools(book), NEW tick \in MinTick..(MaxTick - 1),
           NEW e, e = NextInitializedTick(p, tick, FALSE)
    PROVE  EndsAbove(book, p, e, Clamp(e.tick), tick) \/ NothingAbove(book, Clamp(e.tick), tick)
<1>. DEFINE ticks == p.ticks
<1>0. DOMAIN ticks = Initialized(book) /\ p.spacing = Spacing
      /\ p.search \in {"WordBounded", "NextInitialized"}
  <2>1. ticks = TicksOf(book) /\ p.spacing = Spacing /\ p.search \in {"WordBounded", "NextInitialized"}
    BY PoolFields
  <2>2. DOMAIN TicksOf(book) = Initialized(book)
    BY DEF TicksOf
  <2>. HIDE DEF ticks
  <2>. QED
    BY <2>1, <2>2
<1>1. tick \in Int /\ (\A t \in Initialized(book) : t \in Int) /\ tick \in MinTick..MaxTick
  BY InitializedTicks, MathConstants
<1>2. \A m, init : Ended(m, init).tick = m
  BY DEF Ended
<1>3. CASE p.search = "NextInitialized"
  <2>. DEFINE above == {t \in DOMAIN ticks : t > tick}
  <2>1. e = IF above = {} THEN Ended(tick, FALSE) ELSE Ended(Min(above), TRUE)
    BY <1>3 DEF NextInitializedTick, NextInitialized
  <2>2. CASE above = {}
    <3>1. e.tick = tick
      BY <1>2, <2>1, <2>2
    <3>2. \A t \in Initialized(book) : t <= tick
      BY <1>0, <1>1, <2>2
    <3>3. Clamp(tick) = tick
      BY <1>1, ClampStays
    <3>. QED
      BY <3>1, <3>2, <3>3 DEF NothingAbove
  <2>3. CASE above # {}
    <3>. DEFINE m == Min(above)
    <3>1. e = Ended(m, TRUE) /\ e.tick = m
      BY <1>2, <2>1, <2>3
    <3>2. above \in SUBSET Initialized(book)
      BY <1>0
    <3>3. m \in above /\ \A t \in above : m <= t
      BY <2>3, <3>2, TicksMin
    <3>. HIDE DEF m
    <3>4. m \in Initialized(book) /\ tick < m /\ \A t \in Initialized(book) : ~(tick < t /\ t < m)
      BY <1>0, <1>1, <3>3
    <3>5. EndsAbove(book, p, Ended(m, TRUE), Clamp(m), tick)
      BY <3>4, FoundAbove
    <3>. QED
      BY <3>1, <3>5
  <2>. QED
    BY <2>2, <2>3
<1>4. CASE p.search # "NextInitialized"
  <2>. DEFINE c == tick \div Spacing
              hi == (((c + 1) \div WordSize) * WordSize + WordSize - 1) * Spacing
              lo == (c + 1) * Spacing
              above == {t \in DOMAIN ticks : lo <= t /\ t <= hi}
  <2>1. e = IF above = {} THEN Ended(hi, FALSE) ELSE Ended(Min(above), TRUE)
    BY <1>0, <1>4 DEF NextInitializedTick, WordBounded
  <2>2. /\ lo \in Int /\ hi \in Int /\ lo <= hi /\ tick < lo
        /\ \A t \in Initialized(book) : t > tick => t >= lo
    BY <1>1, WordEdges
  <2>. HIDE DEF lo, hi
  <2>3. CASE above = {}
    <3>1. e = Ended(hi, FALSE) /\ e.tick = hi
      BY <1>2, <2>1, <2>3
    <3>2. tick < hi /\ \A t \in Initialized(book) : ~(tick < t /\ t <= hi)
      BY <1>0, <1>1, <2>2, <2>3
    <3>3. EndsAbove(book, p, Ended(hi, FALSE), Clamp(hi), tick)
      BY <2>2, <3>2, EdgeAbove
    <3>. QED
      BY <3>1, <3>3
  <2>4. CASE above # {}
    <3>. DEFINE m == Min(above)
    <3>1. e = Ended(m, TRUE) /\ e.tick = m
      BY <1>2, <2>1, <2>4
    <3>2. above \in SUBSET Initialized(book)
      BY <1>0
    <3>3. m \in above /\ \A t \in above : m <= t
      BY <2>4, <3>2, TicksMin
    <3>. HIDE DEF m
    <3>4. m \in Initialized(book) /\ tick < m /\ \A t \in Initialized(book) : ~(tick < t /\ t < m)
      <4>1. m \in Initialized(book) /\ lo <= m /\ m <= hi /\ m \in Int
        BY <1>0, <1>1, <3>3
      <4>2. ASSUME NEW t \in Initialized(book), tick < t, t < m PROVE FALSE
        <5>1. t \in above
          <6>1. t \in Int /\ t > tick
            BY <1>1, <4>2
          <6>2. lo <= t /\ t <= hi
            BY <2>2, <4>1, <4>2, <6>1
          <6>. QED
            BY <1>0, <6>2
        <5>2. m <= t
          BY <3>3, <5>1
        <5>. QED
          BY <1>1, <4>1, <4>2, <5>2
      <4>. QED
        BY <1>1, <2>2, <4>1, <4>2
    <3>5. EndsAbove(book, p, Ended(m, TRUE), Clamp(m), tick)
      BY <3>4, FoundAbove
    <3>. QED
      BY <3>1, <3>5
  <2>. QED
    BY <2>3, <2>4
<1>. QED
  BY <1>3, <1>4

----------------------------------------------------------------------------
(* The swap loop. *)

LEMMA Limits ==
    /\ SqrtPriceLimit(TRUE) = Ratio[MinTick] + 1 /\ SqrtPriceLimit(TRUE) \in Ratios
    /\ SqrtPriceLimit(FALSE) = Ratio[MaxTick] - 1 /\ SqrtPriceLimit(FALSE) \in Ratios
<1>1. MinTick \in MinTick..MaxTick /\ MaxTick \in MinTick..MaxTick /\ MinTick < MaxTick
  BY MathConstants
<1>2. Ratio[MinTick] \in Nat \ {0} /\ Ratio[MaxTick] \in Nat \ {0} /\ Ratio[MinTick] < Ratio[MaxTick]
  BY <1>1, RatioType, RatioMonotone
<1>. QED
  BY <1>2 DEF SqrtPriceLimit, MinSqrtRatio, MaxSqrtRatio, Ratios

LEMMA TickFound ==
    ASSUME NEW price \in Ratios, Ratio[MinTick] <= price
    PROVE  LET t == TickAtSqrtRatio(price)
           IN  /\ t \in MinTick..MaxTick /\ Ratio[t] <= price
               /\ \A u \in MinTick..MaxTick : Ratio[u] <= price => u <= t
<1>. DEFINE S == {t \in MinTick..MaxTick : Ratio[t] <= price}
<1>1. MinTick \in MinTick..MaxTick /\ MaxTick \in Int /\ MinTick \in Int
  BY MathConstants
<1>2. S # {} /\ S \subseteq Int /\ \A t \in S : t <= MaxTick
  BY <1>1
<1>3. \E m \in S : \A x \in S : m >= x
  <2>. HIDE DEF S
  <2>. QED
    BY <1>1, <1>2, GreatestMember
<1>4. Max(S) \in S /\ \A t \in S : Max(S) >= t
  <2>. HIDE DEF S
  <2>. QED
    BY <1>3 DEF Max
<1>5. TickAtSqrtRatio(price) = Max(S)
  BY DEF TickAtSqrtRatio
<1>. DEFINE m == Max(S)
<1>. HIDE DEF m
<1>6. m \in MinTick..MaxTick /\ Ratio[m] <= price
  BY <1>4 DEF m
<1>7. \A u \in MinTick..MaxTick : Ratio[u] <= price => u <= m
  <2>. TAKE u \in MinTick..MaxTick
  <2>. HAVE Ratio[u] <= price
  <2>1. u \in S
    OBVIOUS
  <2>2. m >= u
    BY <1>4, <2>1 DEF m
  <2>. QED
    BY <1>1, <1>6, <2>2
<1>8. TickAtSqrtRatio(price) = m
  BY <1>5 DEF m
<1>. QED
  BY <1>6, <1>7, <1>8

\* The tick of a price x that a step to tick n ends at.
Landing(n, x, price, tick, crossed) ==
    CASE x = Ratio[n] -> crossed
      [] x # Ratio[n] /\ x # price -> TickAtSqrtRatio(x)
      [] OTHER -> tick

StepBelow(book, tick, price, n, x, to) ==
    /\ book \in Books /\ tick \in MinTick..(MaxTick - 1) /\ price \in Ratios
    /\ Ratio[tick] <= price /\ price <= Ratio[tick + 1]
    /\ n \in MinTick..tick /\ \A t \in Initialized(book) : ~(n < t /\ t <= tick)
    /\ x \in Ratios /\ Ratio[n] <= x /\ x <= price /\ SqrtPriceLimit(TRUE) <= x
    /\ to = Landing(n, x, price, tick, n - 1)
LandedBelow(book, tick, n, x, to) ==
    /\ to \in MinTick..(MaxTick - 1) /\ Ratio[to] <= x /\ x <= Ratio[to + 1]
    /\ LiquidityAt(book, to) = LiquidityAt(book, tick)
                               - (IF x = Ratio[n] THEN NetAt(book, n) ELSE 0)
StepAbove(book, tick, price, n, x, to) ==
    /\ book \in Books /\ tick \in MinTick..(MaxTick - 1) /\ price \in Ratios
    /\ Ratio[tick] <= price /\ price <= Ratio[tick + 1]
    /\ n \in (tick + 1)..MaxTick /\ \A t \in Initialized(book) : ~(tick < t /\ t < n)
    /\ x \in Ratios /\ x <= Ratio[n] /\ price <= x /\ x <= SqrtPriceLimit(FALSE)
    /\ to = Landing(n, x, price, tick, n)
LandedAbove(book, tick, n, x, to) ==
    /\ to \in MinTick..(MaxTick - 1) /\ Ratio[to] <= x /\ x <= Ratio[to + 1]
    /\ LiquidityAt(book, to) = LiquidityAt(book, tick)
                               + (IF x = Ratio[n] THEN NetAt(book, n) ELSE 0)

\* Where a step lands, on the way down,
LEMMA LandsBelow ==
    ASSUME NEW book, NEW tick, NEW price, NEW n, NEW x, NEW to,
           StepBelow(book, tick, price, n, x, to)
    PROVE  LandedBelow(book, tick, n, x, to)
<1>. USE DEF StepBelow, LandedBelow
<1>0. /\ MinTick \in Int /\ MaxTick \in Int /\ tick \in Int /\ n \in Int /\ n <= tick
      /\ tick \in MinTick..MaxTick /\ n \in MinTick..MaxTick /\ tick + 1 \in MinTick..MaxTick
      /\ MinTick \in MinTick..MaxTick
  BY MathConstants
<1>1. x \in Nat \ {0} /\ price \in Nat \ {0} /\ Ratio[MinTick] \in Nat /\ Ratio[MinTick] < x
  <2>1. Ratio[MinTick] + 1 <= x
    BY Limits, Zenon
  <2>2. x \in Nat \ {0} /\ price \in Nat \ {0} /\ Ratio[MinTick] \in Nat
    BY <1>0, RatioType DEF Ratios
  <2>. QED
    BY <2>1, <2>2
<1>2. LiquidityAt(book, n) = LiquidityAt(book, tick)
  BY <1>0, LiquidityFlat
<1>3. LiquidityAt(book, tick) \in Nat
  BY AccountTypes
<1>4. CASE x = Ratio[n]
  <2>1. n # MinTick
    BY <1>1, <1>4
  <2>2. to = n - 1 /\ n - 1 \in MinTick..(MaxTick - 1) /\ n - 1 \in MinTick..MaxTick /\ to + 1 = n
    BY <1>0, <1>4, <2>1 DEF Landing
  <2>3. Ratio[n - 1] <= Ratio[n] /\ Ratio[n] <= Ratio[n]
    <3>1. n - 1 <= n
      BY <1>0
    <3>2. Ratio[n] \in Nat
      BY <1>0, RatioType
    <3>. QED
      BY <1>0, <2>2, <3>1, <3>2, RatioMonotone
  <2>4. LiquidityAt(book, n) = LiquidityAt(book, n - 1) + NetAt(book, n)
    BY <1>0, LiquidityCrosses
  <2>5. LiquidityAt(book, n - 1) \in Nat /\ NetAt(book, n) \in Int
    BY AccountTypes
  <2>6. LiquidityAt(book, to) = LiquidityAt(book, tick) - NetAt(book, n)
    <3>1. LiquidityAt(book, to) = LiquidityAt(book, n - 1)
      BY <2>2, Zenon
    <3>2. LiquidityAt(book, n - 1) = LiquidityAt(book, tick) - NetAt(book, n)
      BY <1>2, <1>3, <2>4, <2>5
    <3>. QED
      BY <3>1, <3>2
  <2>. QED
    BY <1>4, <2>2, <2>3, <2>6
<1>5. CASE x # Ratio[n] /\ x # price
  <2>. DEFINE t == TickAtSqrtRatio(x)
  <2>1. to = t
    BY <1>5 DEF Landing
  <2>2. Ratio[MinTick] <= x
    BY <1>1
  <2>3. /\ t \in MinTick..MaxTick /\ Ratio[t] <= x
        /\ \A u \in MinTick..MaxTick : Ratio[u] <= x => u <= t
    BY <2>2, TickFound
  <2>. HIDE DEF t
  <2>4. n <= t
    BY <1>0, <2>3
  <2>5. t <= tick
    <3>. SUFFICES ASSUME t > tick PROVE FALSE
      BY <1>0, <2>3
    <3>1. tick + 1 <= t
      BY <1>0, <2>3
    <3>2. Ratio[tick + 1] <= Ratio[t]
      BY <1>0, <2>3, <3>1, RatioMonotone
    <3>3. Ratio[tick + 1] \in Nat /\ Ratio[t] \in Nat
      BY <1>0, <2>3, RatioType
    <3>. QED
      BY <1>1, <1>5, <2>3, <3>2, <3>3
  <2>6. t \in MinTick..(MaxTick - 1) /\ t + 1 \in MinTick..MaxTick
    BY <1>0, <2>3, <2>5
  <2>7. x <= Ratio[t + 1]
    <3>1. ~(Ratio[t + 1] <= x)
      BY <1>0, <2>3, <2>6
    <3>2. Ratio[t + 1] \in Nat
      BY <2>6, RatioType
    <3>. QED
      BY <1>1, <3>1, <3>2
  <2>8. LiquidityAt(book, t) = LiquidityAt(book, tick)
    <3>1. \A u \in Initialized(book) : ~(t < u /\ u <= tick)
      <4>1. \A u \in Initialized(book) : u \in Int
        BY InitializedTicks, MathConstants
      <4>. QED
        BY <1>0, <2>3, <2>4, <4>1
    <3>. QED
      BY <1>0, <2>3, <2>5, <3>1, LiquidityFlat
  <2>. QED
    BY <1>3, <1>5, <2>1, <2>3, <2>6, <2>7, <2>8
<1>6. CASE x # Ratio[n] /\ x = price
  <2>1. to = tick
    BY <1>6 DEF Landing
  <2>. QED
    BY <1>3, <1>6, <2>1
<1>. QED
  BY <1>4, <1>5, <1>6

\* and on the way up.
LEMMA LandsAbove ==
    ASSUME NEW book, NEW tick, NEW price, NEW n, NEW x, NEW to,
           StepAbove(book, tick, price, n, x, to)
    PROVE  LandedAbove(book, tick, n, x, to)
<1>. USE DEF StepAbove, LandedAbove
<1>0. /\ MinTick \in Int /\ MaxTick \in Int /\ tick \in Int /\ n \in Int /\ tick < n
      /\ tick \in MinTick..MaxTick /\ n \in MinTick..MaxTick /\ tick + 1 \in MinTick..MaxTick
      /\ MinTick \in MinTick..MaxTick /\ MaxTick \in MinTick..MaxTick
      /\ n - 1 \in MinTick..MaxTick /\ tick <= n - 1
  BY MathConstants
<1>1. x \in Nat \ {0} /\ price \in Nat \ {0} /\ Ratio[MaxTick] \in Nat /\ x < Ratio[MaxTick]
  <2>1. x <= Ratio[MaxTick] - 1
    BY Limits, Zenon
  <2>2. x \in Nat \ {0} /\ price \in Nat \ {0} /\ Ratio[MaxTick] \in Nat
    BY <1>0, RatioType DEF Ratios
  <2>. QED
    BY <2>1, <2>2
<1>2. LiquidityAt(book, tick) \in Nat
  BY AccountTypes
<1>3. ASSUME NEW t \in MinTick..MaxTick, tick <= t, t <= n - 1
      PROVE  LiquidityAt(book, t) = LiquidityAt(book, tick)
  <2>1. \A u \in Initialized(book) : ~(tick < u /\ u <= t)
    <3>1. \A u \in Initialized(book) : u \in Int
      BY InitializedTicks, MathConstants
    <3>. QED
      BY <1>0, <1>3, <3>1
  <2>. QED
    BY <1>0, <1>3, <2>1, LiquidityFlat
<1>4. CASE x = Ratio[n]
  <2>1. n # MaxTick
    BY <1>1, <1>4
  <2>2. to = n /\ n \in MinTick..(MaxTick - 1) /\ n + 1 \in MinTick..MaxTick
    BY <1>0, <1>4, <2>1 DEF Landing
  <2>3. Ratio[n] <= Ratio[n + 1] /\ Ratio[n] <= Ratio[n]
    <3>1. n <= n + 1
      BY <1>0
    <3>2. Ratio[n] \in Nat
      BY <1>0, RatioType
    <3>. QED
      BY <1>0, <2>2, <3>1, <3>2, RatioMonotone
  <2>4. LiquidityAt(book, n) = LiquidityAt(book, n - 1) + NetAt(book, n)
    BY <1>0, LiquidityCrosses
  <2>5. LiquidityAt(book, n - 1) = LiquidityAt(book, tick)
    <3>1. n - 1 <= n - 1
      BY <1>0
    <3>. QED
      BY <1>0, <1>3, <3>1
  <2>. QED
    BY <1>4, <2>2, <2>3, <2>4, <2>5
<1>5. CASE x # Ratio[n] /\ x # price
  <2>. DEFINE t == TickAtSqrtRatio(x)
  <2>1. to = t
    BY <1>5 DEF Landing
  <2>2. Ratio[MinTick] <= x
    <3>1. MinTick <= tick
      BY <1>0
    <3>2. Ratio[MinTick] <= Ratio[tick] /\ Ratio[MinTick] \in Nat /\ Ratio[tick] \in Nat
      BY <1>0, <3>1, RatioMonotone, RatioType
    <3>. QED
      BY <1>1, <3>2
  <2>3. /\ t \in MinTick..MaxTick /\ Ratio[t] <= x
        /\ \A u \in MinTick..MaxTick : Ratio[u] <= x => u <= t
    BY <2>2, TickFound
  <2>. HIDE DEF t
  <2>4. tick <= t
    <3>1. Ratio[tick] <= x
      <4>1. Ratio[tick] \in Nat
        BY <1>0, RatioType
      <4>. QED
        BY <1>1, <4>1
    <3>. QED
      BY <1>0, <2>3, <3>1
  <2>5. t <= n - 1
    <3>. SUFFICES ASSUME n <= t PROVE FALSE
      BY <1>0, <2>3
    <3>1. Ratio[n] <= Ratio[t]
      BY <1>0, <2>3, RatioMonotone
    <3>2. Ratio[n] \in Nat /\ Ratio[t] \in Nat
      BY <1>0, <2>3, RatioType
    <3>. QED
      BY <1>1, <1>5, <2>3, <3>1, <3>2
  <2>6. t \in MinTick..(MaxTick - 1) /\ t + 1 \in MinTick..MaxTick
    BY <1>0, <2>3, <2>5
  <2>7. x <= Ratio[t + 1]
    <3>1. ~(Ratio[t + 1] <= x)
      BY <1>0, <2>3, <2>6
    <3>2. Ratio[t + 1] \in Nat
      BY <2>6, RatioType
    <3>. QED
      BY <1>1, <3>1, <3>2
  <2>8. LiquidityAt(book, t) = LiquidityAt(book, tick)
    BY <1>3, <2>3, <2>4, <2>5
  <2>. QED
    BY <1>2, <1>5, <2>1, <2>3, <2>6, <2>7, <2>8
<1>6. CASE x # Ratio[n] /\ x = price
  <2>1. to = tick
    BY <1>6 DEF Landing
  <2>. QED
    BY <1>2, <1>6, <2>1
<1>. QED
  BY <1>4, <1>5, <1>6

\* The loop's states: on the pool, on the near side of the limit, with no more
\* left than there was.
SwapRecords(amount) ==
    [remaining : 0..amount, calculated : Nat, price : Ratios, tick : MinTick..(MaxTick - 1),
     liquidity : Nat, status : {"loop", "done", "error"}]
OnPool(book, s) ==
    /\ s.liquidity = LiquidityAt(book, s.tick)
    /\ Ratio[s.tick] <= s.price /\ s.price <= Ratio[s.tick + 1]
Within(s, z) ==
    IF z THEN SqrtPriceLimit(TRUE) <= s.price ELSE s.price <= SqrtPriceLimit(FALSE)
SwapStates(book, amount, z) == {s \in SwapRecords(amount) : OnPool(book, s) /\ Within(s, z)}

LEMMA StateFields ==
    ASSUME NEW book, NEW amount, NEW z, NEW s \in SwapStates(book, amount, z)
    PROVE  /\ s.remaining \in 0..amount /\ s.calculated \in Nat /\ s.price \in Ratios
           /\ s.tick \in MinTick..(MaxTick - 1) /\ s.liquidity \in Nat
           /\ s.liquidity = LiquidityAt(book, s.tick)
           /\ Ratio[s.tick] <= s.price /\ s.price <= Ratio[s.tick + 1] /\ Within(s, z)
BY DEF SwapStates, SwapRecords, OnPool

LEMMA StatusMoves ==
    ASSUME NEW book, NEW amount, NEW z, NEW s \in SwapStates(book, amount, z),
           NEW status \in {"loop", "done", "error"}
    PROVE  [s EXCEPT !.status = status] \in SwapStates(book, amount, z)
<1>. DEFINE r == [s EXCEPT !.status = status]
<1>1. s \in SwapRecords(amount) /\ OnPool(book, s) /\ Within(s, z)
  BY DEF SwapStates
<1>2. r \in SwapRecords(amount)
  BY <1>1 DEF SwapRecords
<1>3. r.liquidity = s.liquidity /\ r.tick = s.tick /\ r.price = s.price
  BY <1>1 DEF SwapRecords
<1>. HIDE DEF r
<1>4. OnPool(book, r)
  BY <1>1, <1>3 DEF OnPool
<1>5. Within(r, z)
  BY <1>1, <1>3 DEF Within
<1>6. r \in SwapStates(book, amount, z)
  BY <1>2, <1>4, <1>5 DEF SwapStates
<1>. QED
  BY <1>6 DEF r

\* An iteration adds to what was calculated, and one that leaves more to do has
\* moved a tick on.
MovesOn(s, r, z) ==
    /\ s.calculated <= r.calculated
    /\ r.status = "loop" => \/ r.remaining = 0 \/ r.price = SqrtPriceLimit(z)
                            \/ IF z THEN r.tick < s.tick ELSE s.tick < r.tick

StepOutcome(s, p, t, L, rem, e) ==
    /\ StepResult(s, p, t, L)
    /\ (IF e THEN rem - s.in - s.fee ELSE rem - s.out) \in 0..rem
    /\ (IF e THEN s.out ELSE s.in + s.fee) \in Nat
    /\ s.price = t \/ (IF e THEN rem - s.in - s.fee ELSE rem - s.out) = 0

\* compute_swap_step, either way of asking.
LEMMA StepComputed ==
    ASSUME NEW p \in Ratios, NEW t \in Ratios, NEW L \in Nat, NEW rem \in Nat,
           NEW fee \in 0..(MaxFee - 1), NEW e \in BOOLEAN,
           NEW s, s = ComputeSwapStep(p, t, L, rem, fee, e)
    PROVE  StepOutcome(s, p, t, L, rem, e)
<1>. USE DEF StepOutcome
<1>1. CASE e
  <2>1. s = StepExactIn(p, t, L, rem, fee)
    BY <1>1 DEF ComputeSwapStep
  <2>2. StepResult(s, p, t, L) /\ s.in + s.fee <= rem /\ (s.price = t \/ s.in + s.fee = rem)
    BY <2>1, StepInResult
  <2>3. s.in \in Nat /\ s.fee \in Nat /\ s.out \in Nat
    BY <2>2 DEF StepResult
  <2>4. rem - s.in - s.fee \in 0..rem /\ (s.price = t \/ rem - s.in - s.fee = 0)
    BY <2>2, <2>3
  <2>. QED
    BY <1>1, <2>2, <2>3, <2>4
<1>2. CASE ~e
  <2>1. s = StepExactOut(p, t, L, rem, fee)
    BY <1>2 DEF ComputeSwapStep
  <2>2. StepResult(s, p, t, L) /\ s.out <= rem /\ (s.price = t \/ s.out = rem)
    BY <2>1, StepOutResult
  <2>3. s.in \in Nat /\ s.fee \in Nat /\ s.out \in Nat
    BY <2>2 DEF StepResult
  <2>4. rem - s.out \in 0..rem /\ s.in + s.fee \in Nat /\ (s.price = t \/ rem - s.out = 0)
    BY <2>2, <2>3
  <2>. QED
    BY <1>2, <2>2, <2>4
<1>. QED
  BY <1>1, <1>2

\* A new state of the loop from its parts.
LEMMA StateMade ==
    ASSUME NEW book, NEW amount, NEW z, NEW r, NEW remaining \in 0..amount, NEW calculated \in Nat,
           NEW price \in Ratios, NEW tick \in MinTick..(MaxTick - 1), NEW liquidity \in Nat,
           NEW status \in {"loop", "done", "error"},
           r = [remaining |-> remaining, calculated |-> calculated, price |-> price, tick |-> tick,
                liquidity |-> liquidity, status |-> status],
           liquidity = LiquidityAt(book, tick), Ratio[tick] <= price, price <= Ratio[tick + 1],
           IF z THEN SqrtPriceLimit(TRUE) <= price ELSE price <= SqrtPriceLimit(FALSE)
    PROVE  r \in SwapStates(book, amount, z)
<1>1. r \in SwapRecords(amount)
  BY DEF SwapRecords
<1>2. r.price = price /\ r.tick = tick /\ r.liquidity = liquidity
  OBVIOUS
<1>3. OnPool(book, r)
  BY <1>2 DEF OnPool
<1>4. Within(r, z)
  BY <1>2 DEF Within
<1>. QED
  BY <1>1, <1>3, <1>4 DEF SwapStates

LEMMA IterationBelow ==
    ASSUME NEW book \in Books, NEW p \in Pools(book), NEW amount \in Nat,
           NEW s \in SwapStates(book, amount, TRUE), NEW e \in BOOLEAN
    PROVE  /\ SwapIteration(p, s, TRUE, e) \in SwapStates(book, amount, TRUE)
           /\ MovesOn(s, SwapIteration(p, s, TRUE, e), TRUE)
<1>. DEFINE ended == NextInitializedTick(p, s.tick, TRUE)
            next == Clamp(ended.tick)
            limit == SqrtPriceLimit(TRUE)
            target == Upper(Ratio[next], limit)
            step == ComputeSwapStep(s.price, target, s.liquidity, s.remaining, p.fee, e)
            crossed == step.price = Ratio[next]
            net == IF ended.initialized THEN p.ticks[next].net ELSE 0
            liquidity == IF crossed THEN CrossedLiquidity(s.liquidity, net, TRUE) ELSE s.liquidity
            bad == step.price = NoPrice \/ NoProgress(s, step, next, TRUE) \/ liquidity < 0
            remaining == IF e THEN s.remaining - step.in - step.fee ELSE s.remaining - step.out
            calculated == IF e THEN s.calculated + step.out ELSE s.calculated + step.in + step.fee
            to == CASE crossed -> CrossedTick(next, TRUE)
                    [] ~crossed /\ step.price # s.price -> TickAtSqrtRatio(step.price)
                    [] OTHER -> s.tick
            status == IF crossed /\ liquidity = 0 THEN "done" ELSE "loop"
            made == [remaining |-> remaining, calculated |-> calculated, price |-> step.price,
                     tick |-> to, liquidity |-> liquidity, status |-> status]
<1>1. SwapIteration(p, s, TRUE, e) = IF bad THEN [s EXCEPT !.status = "error"] ELSE made
  BY DEF SwapIteration
<1>2. /\ s.remaining \in 0..amount /\ s.calculated \in Nat /\ s.price \in Ratios
      /\ s.tick \in MinTick..(MaxTick - 1) /\ s.liquidity \in Nat
      /\ s.liquidity = LiquidityAt(book, s.tick)
      /\ Ratio[s.tick] <= s.price /\ s.price <= Ratio[s.tick + 1]
  BY StateFields
<1>3. limit <= s.price /\ limit \in Ratios
  <2>1. Within(s, TRUE)
    BY StateFields
  <2>. QED
    BY <2>1, Limits DEF Within
<1>4. EndsBelow(book, p, ended, next, s.tick)
  BY <1>2, SearchBelow
<1>. HIDE DEF ended, limit, next
<1>5. /\ next \in MinTick..s.tick /\ ended.initialized \in BOOLEAN
      /\ \A t \in Initialized(book) : ~(next < t /\ t <= s.tick)
      /\ net = NetAt(book, next)
  BY <1>4 DEF EndsBelow
<1>6. next \in MinTick..MaxTick /\ s.tick \in MinTick..MaxTick /\ next <= s.tick
  BY <1>2, <1>5, MathConstants
<1>7. Ratio[next] \in Ratios /\ Ratio[next] <= Ratio[s.tick] /\ Ratio[s.tick] \in Ratios
  BY <1>6, RatioType, RatioMonotone DEF Ratios
<1>8. target \in Ratios /\ target <= s.price /\ Ratio[next] <= target /\ limit <= target
  BY <1>2, <1>3, <1>7 DEF Upper, Ratios
<1>. HIDE DEF target
<1>9. p.fee \in 0..(MaxFee - 1)
  BY PoolFields, V3PoolAssumption
<1>10. s.remaining \in Nat
  BY <1>2
<1>11. /\ StepResult(step, s.price, target, s.liquidity) /\ remaining \in 0..s.remaining
       /\ (IF e THEN step.out ELSE step.in + step.fee) \in Nat
       /\ step.price = target \/ remaining = 0
  <2>1. StepOutcome(step, s.price, target, s.liquidity, s.remaining, e)
    BY <1>2, <1>8, <1>9, <1>10, StepComputed
  <2>. HIDE DEF step
  <2>. QED
    BY <2>1 DEF StepOutcome
<1>. HIDE DEF step
<1>12. step.price \in Ratios /\ target <= step.price /\ step.price <= s.price
  <2>1. s.price >= target
    BY <1>2, <1>8 DEF Ratios
  <2>. QED
    BY <1>11, <2>1 DEF StepResult, Between
<1>13. Ratio[next] <= step.price /\ limit <= step.price
  BY <1>3, <1>7, <1>8, <1>12 DEF Ratios
<1>14. calculated \in Nat /\ s.calculated <= calculated
  <2>1. step.in \in Nat /\ step.fee \in Nat /\ step.out \in Nat
    BY <1>11 DEF StepResult
  <2>. QED
    BY <1>2, <2>1
<1>15. remaining \in 0..amount
  <2>. HIDE DEF remaining
  <2>. QED
    BY <1>2, <1>11
<1>16. /\ to \in MinTick..(MaxTick - 1) /\ Ratio[to] <= step.price /\ step.price <= Ratio[to + 1]
       /\ LiquidityAt(book, to) = LiquidityAt(book, s.tick)
                                  - (IF step.price = Ratio[next] THEN NetAt(book, next) ELSE 0)
  <2>1. to = Landing(next, step.price, s.price, s.tick, next - 1)
    <3>1. CrossedTick(next, TRUE) = next - 1
      BY DEF CrossedTick
    <3>. QED
      BY <3>1, Zenon DEF Landing
  <2>2. SqrtPriceLimit(TRUE) <= step.price
    BY <1>13, Zenon DEF limit
  <2>. DEFINE x == step.price
              tick == s.tick
              price == s.price
  <2>3. /\ tick \in MinTick..(MaxTick - 1) /\ price \in Ratios /\ Ratio[tick] <= price
        /\ price <= Ratio[tick + 1] /\ next \in MinTick..tick
        /\ \A t \in Initialized(book) : ~(next < t /\ t <= tick)
        /\ x \in Ratios /\ Ratio[next] <= x /\ x <= price /\ SqrtPriceLimit(TRUE) <= x
    BY <1>2, <1>5, <1>12, <1>13, <2>2, Zenon
  <2>4. to = Landing(next, x, price, tick, next - 1)
    BY <2>1, Zenon
  <2>. HIDE DEF to, x, tick, price
  <2>5. StepBelow(book, tick, price, next, x, to)
    BY <2>3, <2>4 DEF StepBelow
  <2>6. /\ to \in MinTick..(MaxTick - 1) /\ Ratio[to] <= x /\ x <= Ratio[to + 1]
        /\ LiquidityAt(book, to) = LiquidityAt(book, tick)
                                   - (IF x = Ratio[next] THEN NetAt(book, next) ELSE 0)
    BY <2>5, LandsBelow DEF LandedBelow
  <2>. QED
    BY <2>6 DEF x, tick
<1>17. liquidity = LiquidityAt(book, to)
  <2>1. LiquidityAt(book, s.tick) \in Nat
    BY AccountTypes
  <2>. HIDE DEF to, net
  <2>. QED
    BY <1>2, <1>5, <1>16, <2>1 DEF CrossedLiquidity
<1>18. CASE bad
  <2>. DEFINE failed == [s EXCEPT !.status = "error"]
  <2>1. failed \in SwapStates(book, amount, TRUE)
    BY StatusMoves
  <2>2. failed.status = "error" /\ failed.calculated = s.calculated
    BY DEF SwapStates, SwapRecords
  <2>3. SwapIteration(p, s, TRUE, e) = failed
    BY <1>1, <1>18
  <2>. HIDE DEF failed
  <2>4. s.calculated <= failed.calculated
    BY <1>2, <2>2
  <2>5. MovesOn(s, failed, TRUE)
    BY <2>2, <2>4 DEF MovesOn
  <2>. QED
    BY <2>1, <2>3, <2>5, Zenon
<1>19. CASE ~bad
  <2>1. SwapIteration(p, s, TRUE, e) = made
    BY <1>1, <1>19
  <2>2. liquidity \in Nat
    BY <1>17, AccountTypes
  <2>3. status \in {"loop", "done", "error"}
    OBVIOUS
  <2>. HIDE DEF bad, remaining, calculated, to, liquidity, status, crossed
  <2>4. IF TRUE THEN SqrtPriceLimit(TRUE) <= step.price ELSE step.price <= SqrtPriceLimit(FALSE)
    BY <1>13 DEF limit
  <2>5. made \in SwapStates(book, amount, TRUE)
    BY <1>12, <1>14, <1>15, <1>16, <1>17, <2>2, <2>3, <2>4, StateMade
  <2>6. remaining = 0 \/ step.price = limit \/ to < s.tick
    <3>1. CASE crossed
      <4>1. to = next - 1
        BY <3>1 DEF to, CrossedTick
      <4>. QED
        BY <1>2, <1>5, <4>1, MathConstants
    <3>2. CASE ~crossed
      <4>1. target = Ratio[next] \/ target = limit
        BY DEF target, Upper
      <4>. QED
        BY <1>11, <3>2, <4>1 DEF crossed
    <3>. QED
      BY <3>1, <3>2
  <2>7. MovesOn(s, made, TRUE)
    <3>1. /\ made.remaining = remaining /\ made.price = step.price /\ made.tick = to
          /\ made.calculated = calculated
      OBVIOUS
    <3>. HIDE DEF made
    <3>. QED
      BY <1>14, <2>6, <3>1 DEF MovesOn, limit
  <2>. QED
    BY <2>1, <2>5, <2>7
<1>. QED
  BY <1>18, <1>19

LEMMA IterationAbove ==
    ASSUME NEW book \in Books, NEW p \in Pools(book), NEW amount \in Nat,
           NEW s \in SwapStates(book, amount, FALSE), NEW e \in BOOLEAN
    PROVE  /\ SwapIteration(p, s, FALSE, e) \in SwapStates(book, amount, FALSE)
           /\ MovesOn(s, SwapIteration(p, s, FALSE, e), FALSE)
<1>. DEFINE ended == NextInitializedTick(p, s.tick, FALSE)
            next == Clamp(ended.tick)
            limit == SqrtPriceLimit(FALSE)
            target == Lower(Ratio[next], limit)
            step == ComputeSwapStep(s.price, target, s.liquidity, s.remaining, p.fee, e)
            crossed == step.price = Ratio[next]
            net == IF ended.initialized THEN p.ticks[next].net ELSE 0
            liquidity == IF crossed THEN CrossedLiquidity(s.liquidity, net, FALSE) ELSE s.liquidity
            bad == step.price = NoPrice \/ NoProgress(s, step, next, FALSE) \/ liquidity < 0
            remaining == IF e THEN s.remaining - step.in - step.fee ELSE s.remaining - step.out
            calculated == IF e THEN s.calculated + step.out ELSE s.calculated + step.in + step.fee
            to == CASE crossed -> CrossedTick(next, FALSE)
                    [] ~crossed /\ step.price # s.price -> TickAtSqrtRatio(step.price)
                    [] OTHER -> s.tick
            status == IF crossed /\ liquidity = 0 THEN "done" ELSE "loop"
            made == [remaining |-> remaining, calculated |-> calculated, price |-> step.price,
                     tick |-> to, liquidity |-> liquidity, status |-> status]
<1>1. SwapIteration(p, s, FALSE, e) = IF bad THEN [s EXCEPT !.status = "error"] ELSE made
  BY DEF SwapIteration
<1>2. /\ s.remaining \in 0..amount /\ s.calculated \in Nat /\ s.price \in Ratios
      /\ s.tick \in MinTick..(MaxTick - 1) /\ s.liquidity \in Nat
      /\ s.liquidity = LiquidityAt(book, s.tick)
      /\ Ratio[s.tick] <= s.price /\ s.price <= Ratio[s.tick + 1]
  BY StateFields
<1>3. s.price <= limit /\ limit \in Ratios
  <2>1. Within(s, FALSE)
    BY StateFields
  <2>. QED
    BY <2>1, Limits DEF Within
<1>4. EndsAbove(book, p, ended, next, s.tick) \/ NothingAbove(book, next, s.tick)
  BY <1>2, SearchAbove
<1>. HIDE DEF ended, limit, next
<1>5. s.tick \in MinTick..MaxTick /\ s.tick + 1 \in MinTick..MaxTick /\ s.tick \in Int
      /\ MinTick \in Int /\ MaxTick \in Int
  BY <1>2, MathConstants
<1>6. next \in MinTick..MaxTick
  BY <1>4, <1>5 DEF EndsAbove, NothingAbove
<1>7. Ratio[next] \in Ratios /\ Ratio[s.tick + 1] \in Ratios
  BY <1>5, <1>6, RatioType DEF Ratios
<1>8. target \in Ratios /\ target <= Ratio[next] /\ target <= limit
  BY <1>3, <1>7 DEF Lower, Ratios
<1>9. p.fee \in 0..(MaxFee - 1)
  BY PoolFields, V3PoolAssumption
<1>10. s.remaining \in Nat
  BY <1>2
<1>11. /\ StepResult(step, s.price, target, s.liquidity) /\ remaining \in 0..s.remaining
       /\ (IF e THEN step.out ELSE step.in + step.fee) \in Nat
       /\ step.price = target \/ remaining = 0
  <2>. HIDE DEF target
  <2>1. StepOutcome(step, s.price, target, s.liquidity, s.remaining, e)
    BY <1>2, <1>8, <1>9, <1>10, StepComputed
  <2>. HIDE DEF step
  <2>. QED
    BY <2>1 DEF StepOutcome
<1>. HIDE DEF step
<1>12. CASE bad
  <2>. DEFINE failed == [s EXCEPT !.status = "error"]
  <2>1. failed \in SwapStates(book, amount, FALSE)
    BY StatusMoves
  <2>2. failed.status = "error" /\ failed.calculated = s.calculated
    BY DEF SwapStates, SwapRecords
  <2>3. SwapIteration(p, s, FALSE, e) = failed
    BY <1>1, <1>12
  <2>. HIDE DEF failed
  <2>4. s.calculated <= failed.calculated
    BY <1>2, <2>2
  <2>5. MovesOn(s, failed, FALSE)
    BY <2>2, <2>4 DEF MovesOn
  <2>. QED
    BY <2>1, <2>3, <2>5, Zenon
<1>13. CASE ~bad
  <2>1. SwapIteration(p, s, FALSE, e) = made
    BY <1>1, <1>13
  <2>2. ~NothingAbove(book, next, s.tick)
    <3>. SUFFICES ASSUME NothingAbove(book, next, s.tick) PROVE FALSE
      OBVIOUS
    <3>1. next = s.tick /\ \A t \in Initialized(book) : t <= s.tick
      BY DEF NothingAbove
    <3>2. s.liquidity = 0
      BY <1>2, <1>5, <3>1, LiquidityNone
    <3>3. step.in = 0 /\ step.out = 0 /\ step.fee = 0
      BY <1>11, <3>2 DEF StepResult
    <3>4. next <= s.tick
      BY <1>5, <3>1
    <3>5. NoProgress(s, step, next, FALSE)
      BY <3>3, <3>4 DEF NoProgress
    <3>. QED
      BY <1>13, <3>5
  <2>3. EndsAbove(book, p, ended, next, s.tick)
    BY <1>4, <2>2
  <2>4. /\ next \in (s.tick + 1)..MaxTick /\ ended.initialized \in BOOLEAN
        /\ \A t \in Initialized(book) : ~(s.tick < t /\ t < next)
        /\ net = NetAt(book, next)
    BY <2>3 DEF EndsAbove
  <2>5. Ratio[s.tick + 1] <= Ratio[next]
    <3>1. s.tick + 1 <= next
      BY <1>5, <2>4
    <3>. QED
      BY <1>5, <1>6, <3>1, RatioMonotone
  <2>6. s.price <= target
    BY <1>2, <1>3, <1>7, <2>5 DEF Lower, Ratios
  <2>. HIDE DEF target
  <2>7. step.price \in Ratios /\ s.price <= step.price /\ step.price <= target
    <3>1. s.price \in Nat /\ target \in Nat /\ (s.price >= target => s.price = target)
      BY <1>2, <1>8, <2>6 DEF Ratios
    <3>2. step.price \in Ratios /\ step.price \in Nat /\ Between(s.price, target, step.price)
      BY <1>11 DEF StepResult, Ratios
    <3>. QED
      BY <3>1, <3>2 DEF Between
  <2>8. step.price <= Ratio[next] /\ step.price <= limit
    BY <1>3, <1>7, <1>8, <2>7 DEF Ratios
  <2>9. calculated \in Nat /\ s.calculated <= calculated
    <3>1. step.in \in Nat /\ step.fee \in Nat /\ step.out \in Nat
      BY <1>11 DEF StepResult
    <3>. QED
      BY <1>2, <3>1
  <2>10. remaining \in 0..amount
    <3>. HIDE DEF remaining
    <3>. QED
      BY <1>2, <1>11
  <2>11. /\ to \in MinTick..(MaxTick - 1) /\ Ratio[to] <= step.price /\ step.price <= Ratio[to + 1]
         /\ LiquidityAt(book, to) = LiquidityAt(book, s.tick)
                                    + (IF step.price = Ratio[next] THEN NetAt(book, next) ELSE 0)
    <3>1. to = Landing(next, step.price, s.price, s.tick, next)
      <4>1. CrossedTick(next, FALSE) = next
        BY DEF CrossedTick
      <4>. QED
        BY <4>1, Zenon DEF Landing
    <3>2. step.price <= SqrtPriceLimit(FALSE)
      BY <2>8, Zenon DEF limit
    <3>. DEFINE x == step.price
                tick == s.tick
                price == s.price
    <3>3. /\ tick \in MinTick..(MaxTick - 1) /\ price \in Ratios /\ Ratio[tick] <= price
          /\ price <= Ratio[tick + 1] /\ next \in (tick + 1)..MaxTick
          /\ \A t \in Initialized(book) : ~(tick < t /\ t < next)
          /\ x \in Ratios /\ price <= x /\ x <= Ratio[next] /\ x <= SqrtPriceLimit(FALSE)
      BY <1>2, <2>4, <2>7, <2>8, <3>2, Zenon
    <3>4. to = Landing(next, x, price, tick, next)
      BY <3>1, Zenon
    <3>. HIDE DEF to, x, tick, price
    <3>5. StepAbove(book, tick, price, next, x, to)
      BY <3>3, <3>4 DEF StepAbove
    <3>6. /\ to \in MinTick..(MaxTick - 1) /\ Ratio[to] <= x /\ x <= Ratio[to + 1]
          /\ LiquidityAt(book, to) = LiquidityAt(book, tick)
                                     + (IF x = Ratio[next] THEN NetAt(book, next) ELSE 0)
      BY <3>5, LandsAbove DEF LandedAbove
    <3>. QED
      BY <3>6 DEF x, tick
  <2>12. liquidity = LiquidityAt(book, to)
    <3>1. LiquidityAt(book, s.tick) \in Nat
      BY AccountTypes
    <3>. HIDE DEF to, net
    <3>. QED
      BY <1>2, <2>4, <2>11, <3>1 DEF CrossedLiquidity
  <2>13. liquidity \in Nat
    BY <2>12, AccountTypes
  <2>14. status \in {"loop", "done", "error"}
    OBVIOUS
  <2>. HIDE DEF bad, remaining, calculated, to, liquidity, status, crossed
  <2>15. IF FALSE THEN SqrtPriceLimit(TRUE) <= step.price ELSE step.price <= SqrtPriceLimit(FALSE)
    BY <2>8 DEF limit
  <2>16. made \in SwapStates(book, amount, FALSE)
    BY <2>7, <2>9, <2>10, <2>11, <2>12, <2>13, <2>14, <2>15, StateMade
  <2>17. remaining = 0 \/ step.price = limit \/ s.tick < to
    <3>1. CASE crossed
      <4>1. to = next
        BY <3>1 DEF to, CrossedTick
      <4>. QED
        BY <1>5, <2>4, <4>1
    <3>2. CASE ~crossed
      <4>1. target = Ratio[next] \/ target = limit
        BY DEF target, Lower
      <4>. QED
        BY <1>11, <3>2, <4>1 DEF crossed
    <3>. QED
      BY <3>1, <3>2
  <2>18. MovesOn(s, made, FALSE)
    <3>1. /\ made.remaining = remaining /\ made.price = step.price /\ made.tick = to
          /\ made.calculated = calculated
      OBVIOUS
    <3>. HIDE DEF made
    <3>. QED
      BY <2>9, <2>17, <3>1 DEF MovesOn, limit
  <2>. QED
    BY <2>1, <2>16, <2>18
<1>. QED
  BY <1>12, <1>13

\* The loop's step keeps to them.
Continues(s, r, z) ==
    /\ s.calculated <= r.calculated
    /\ r.status = "loop" => /\ s.status = "loop" /\ s.remaining # 0 /\ s.price # SqrtPriceLimit(z)
                            /\ MovesOn(s, r, z)

LEMMA IterationLands ==
    ASSUME NEW book \in Books, NEW p \in Pools(book), NEW amount \in Nat, NEW z \in BOOLEAN,
           NEW e \in BOOLEAN, NEW s \in SwapStates(book, amount, z)
    PROVE  /\ SwapIteration(p, s, z, e) \in SwapStates(book, amount, z)
           /\ MovesOn(s, SwapIteration(p, s, z, e), z)
<1>1. CASE z = TRUE
  <2>1. s \in SwapStates(book, amount, TRUE)
    BY <1>1, Zenon
  <2>2. /\ SwapIteration(p, s, TRUE, e) \in SwapStates(book, amount, TRUE)
        /\ MovesOn(s, SwapIteration(p, s, TRUE, e), TRUE)
    BY <2>1, IterationBelow
  <2>. QED
    BY <1>1, <2>2, Zenon
<1>2. CASE z = FALSE
  <2>1. s \in SwapStates(book, amount, FALSE)
    BY <1>2, Zenon
  <2>2. /\ SwapIteration(p, s, FALSE, e) \in SwapStates(book, amount, FALSE)
        /\ MovesOn(s, SwapIteration(p, s, FALSE, e), FALSE)
    BY <2>1, IterationAbove
  <2>. QED
    BY <1>2, <2>2, Zenon
<1>. QED
  BY <1>1, <1>2, Zenon

LEMMA StepLands ==
    ASSUME NEW book \in Books, NEW p \in Pools(book), NEW amount \in Nat, NEW z \in BOOLEAN,
           NEW e \in BOOLEAN, NEW s \in SwapStates(book, amount, z)
    PROVE  SwapStep(p, s, z, e) \in SwapStates(book, amount, z) /\ Continues(s, SwapStep(p, s, z, e), z)
<1>. DEFINE done == [s EXCEPT !.status = "done"]
            next == SwapIteration(p, s, z, e)
            stops == s.remaining = 0 \/ s.price = SqrtPriceLimit(z)
<1>1. done \in SwapStates(book, amount, z)
  BY StatusMoves
<1>2. done.status = "done" /\ done.calculated = s.calculated /\ s.calculated <= s.calculated
  BY DEF SwapStates, SwapRecords
<1>3. next \in SwapStates(book, amount, z) /\ MovesOn(s, next, z)
  BY IterationLands
<1>4. SwapStep(p, s, z, e) = IF s.status # "loop" THEN s ELSE IF stops THEN done ELSE next
  BY DEF SwapStep
<1>5. Continues(s, s, z) \/ s.status = "loop"
  BY <1>2 DEF Continues
<1>. HIDE DEF done
<1>6. Continues(s, done, z)
  BY <1>2 DEF Continues
<1>. HIDE DEF next
<1>7. stops \/ s.status # "loop" \/ Continues(s, next, z)
  BY <1>3 DEF Continues, MovesOn
<1>. HIDE DEF stops
<1>. QED
  BY <1>1, <1>3, <1>4, <1>5, <1>6, <1>7, Zenon

\* The loop's states one after the other.
IsLoop(f, book, amount, p, start, z, e) ==
    /\ f \in [0..MaxSteps -> SwapStates(book, amount, z)] /\ f[0] = start
    /\ \A n \in 1..MaxSteps : f[n] = SwapStep(p, f[n - 1], z, e)
    /\ SwapLoop(p, start, z, e) = f[MaxSteps]

LEMMA LoopRuns ==
    ASSUME NEW book \in Books, NEW p \in Pools(book), NEW amount \in Nat, NEW z \in BOOLEAN,
           NEW e \in BOOLEAN, NEW start \in SwapStates(book, amount, z)
    PROVE  \E f : IsLoop(f, book, amount, p, start, z, e)
<1>. DEFINE D == SwapStates(book, amount, z)
            N == MaxSteps
            IsStep(f) == f = [n \in 0..N |-> IF n = 0 THEN start ELSE SwapStep(p, f[n - 1], z, e)]
            after == CHOOSE f : IsStep(f)
            G == [s \in D |-> SwapStep(p, s, z, e)]
<1>0. N \in Nat /\ start \in D
  BY V3MathAssumption
<1>1. SwapLoop(p, start, z, e) = after[N]
  BY DEF SwapLoop
<1>2. ASSUME NEW f, IsStep(f) PROVE IsStep(after)
  BY <1>2
<1>3. \A s \in D : SwapStep(p, s, z, e) \in D
  BY StepLands
<1>. HIDE DEF D, N
<1>4. G \in [D -> D] /\ \A s \in D : G[s] = SwapStep(p, s, z, e)
  BY <1>3
<1>. HIDE DEF G
<1>5. PICK f : IsIteration(f, D, G, start, N)
  BY <1>0, <1>4, Iterates
<1>6. IsStep(f)
  <2>1. \A n \in 0..N : n # 0 => n \in 1..N /\ n - 1 \in 0..N
    BY <1>0
  <2>. QED
    BY <1>4, <1>5, <2>1 DEF IsIteration
<1>7. IsStep(after)
  <2>. HIDE DEF IsStep, after
  <2>. QED
    BY <1>2, <1>6
<1>. HIDE DEF after
<1>8. /\ after[0] = start /\ after = [n \in 0..N |-> after[n]]
      /\ \A n \in 1..N : after[n] = SwapStep(p, after[n - 1], z, e)
  <2>1. 0 \in 0..N /\ \A n \in 1..N : n \in 0..N /\ n # 0
    BY <1>0
  <2>. QED
    BY <1>7, <2>1
<1>. HIDE DEF IsStep
<1>9. \A n \in 0..N : after[n] \in D
  <2>. DEFINE S == {n \in 0..N : after[n] \in D}
  <2>1. 0 \in S
    BY <1>0, <1>8
  <2>2. ASSUME NEW n \in 1..N, n - 1 \in S PROVE n \in S
    <3>1. n \in 0..N /\ after[n - 1] \in D
      BY <1>0, <2>2
    <3>2. after[n] = SwapStep(p, after[n - 1], z, e)
      BY <1>8
    <3>3. after[n] \in D
      BY <1>3, <3>1, <3>2
    <3>. QED
      BY <3>1, <3>3
  <2>3. \A n \in 0..N : n \in S
    <3>. HIDE DEF S
    <3>. QED
      BY <1>0, <2>1, <2>2, BoundedInduction
  <2>. QED
    BY <2>3
<1>10. after \in [0..N -> D]
  BY <1>8, <1>9
<1>11. IsLoop(after, book, amount, p, start, z, e)
  BY <1>1, <1>8, <1>10 DEF IsLoop, N, D
<1>. QED
  BY <1>11

\* The loop moves a tick on each time, so there are no more iterations than ticks
\* and it ends.
Onward(s, start, n, z) ==
    IF z THEN s.tick + n <= start.tick ELSE start.tick + n <= s.tick
Going(s, start, n, z) ==
    s.status = "loop" => \/ s.remaining = 0 \/ s.price = SqrtPriceLimit(z)
                         \/ Onward(s, start, n, z)

LEMMA LoopGoes ==
    ASSUME NEW book \in Books, NEW p \in Pools(book), NEW amount \in Nat, NEW z \in BOOLEAN,
           NEW e \in BOOLEAN, NEW start \in SwapStates(book, amount, z),
           NEW f, IsLoop(f, book, amount, p, start, z, e)
    PROVE  \A n \in 0..MaxSteps : Going(f[n], start, n, z)
<1>. DEFINE S == {n \in 0..MaxSteps : Going(f[n], start, n, z)}
<1>0. MaxSteps \in Nat /\ 0 \in 0..MaxSteps
  BY V3MathAssumption
<1>1. 0 \in S
  <2>1. f[0] = start /\ start.tick \in Int
    BY StateFields, MathConstants DEF IsLoop
  <2>2. Onward(f[0], start, 0, z)
    BY <2>1 DEF Onward
  <2>. QED
    BY <1>0, <2>2 DEF Going
<1>2. ASSUME NEW n \in 1..MaxSteps, n - 1 \in S PROVE n \in S
  <2>. DEFINE s == f[n - 1]
              r == f[n]
  <2>1. n \in 0..MaxSteps /\ n - 1 \in 0..MaxSteps /\ n \in Nat
    BY <1>0
  <2>2. s \in SwapStates(book, amount, z) /\ r \in SwapStates(book, amount, z)
    BY <2>1 DEF IsLoop
  <2>3. r = SwapStep(p, s, z, e)
    BY DEF IsLoop
  <2>4. Going(s, start, n - 1, z)
    BY <1>2
  <2>. HIDE DEF s, r
  <2>5. Continues(s, r, z)
    BY <2>2, <2>3, StepLands
  <2>6. s.tick \in Int /\ r.tick \in Int /\ start.tick \in Int
    BY <2>2, StateFields, MathConstants
  <2>. SUFFICES ASSUME r.status = "loop", r.remaining # 0, r.price # SqrtPriceLimit(z)
                PROVE  Onward(r, start, n, z)
    BY <2>1 DEF Going, r
  <2>7. Onward(s, start, n - 1, z) /\ IF z THEN r.tick < s.tick ELSE s.tick < r.tick
    BY <2>4, <2>5, Zenon DEF Going, Continues, MovesOn
  <2>. QED
    BY <2>1, <2>6, <2>7 DEF Onward
<1>3. \A n \in 0..MaxSteps : n \in S
  <2>. HIDE DEF S
  <2>. QED
    BY <1>0, <1>1, <1>2, BoundedInduction
<1>. QED
  BY <1>3

LEMMA LoopEnds ==
    ASSUME NEW book \in Books, NEW p \in Pools(book), NEW amount \in Nat, NEW z \in BOOLEAN,
           NEW e \in BOOLEAN, NEW start \in SwapStates(book, amount, z), MaxSteps > 2 * MaxTick
    PROVE  SwapLoop(p, start, z, e).status # "loop"
<1>1. PICK f : IsLoop(f, book, amount, p, start, z, e)
  BY LoopRuns
<1>. DEFINE N == MaxSteps
            s == f[N - 1]
            r == f[N]
<1>2. N \in Nat \ {0} /\ N \in 1..N /\ N \in 0..N /\ N - 1 \in 0..N /\ N - 1 \in Nat
  BY V3MathAssumption
<1>3. s \in SwapStates(book, amount, z) /\ r = SwapStep(p, s, z, e) /\ SwapLoop(p, start, z, e) = r
  BY <1>1, <1>2 DEF IsLoop
<1>4. Going(s, start, N - 1, z)
  BY <1>1, <1>2, LoopGoes
<1>. HIDE DEF s, r
<1>5. Continues(s, r, z)
  BY <1>3, StepLands
<1>. SUFFICES ASSUME r.status = "loop" PROVE FALSE
  BY <1>3
<1>6. Onward(s, start, N - 1, z)
  BY <1>4, <1>5, Zenon DEF Going, Continues
<1>7. /\ s.tick \in MinTick..(MaxTick - 1) /\ start.tick \in MinTick..(MaxTick - 1)
      /\ MaxTick \in Nat /\ MinTick = -MaxTick
  BY <1>3, StateFields, MathConstants DEF MinTick
<1>8. N - 1 >= 2 * MaxTick
  BY <1>2, <1>7
<1>9. CASE z
  <2>1. s.tick + (N - 1) <= start.tick
    BY <1>6, <1>9 DEF Onward
  <2>. QED
    BY <1>2, <1>7, <1>8, <2>1
<1>10. CASE ~z
  <2>1. start.tick + (N - 1) <= s.tick
    BY <1>6, <1>10 DEF Onward
  <2>. QED
    BY <1>2, <1>7, <1>8, <2>1
<1>. QED
  BY <1>9, <1>10

LEMMA Ordered ==
    ASSUME NEW a \in Ratios, NEW b \in Ratios
    PROVE  (~(a >= b) => a <= b) /\ (~(a <= b) => b <= a)
BY DEF Ratios

\* A quote is refused at the start, or it is the loop's from a state of the pool.
Start(p, amount) ==
    [remaining |-> amount, calculated |-> 0, price |-> p.price, tick |-> p.tick,
     liquidity |-> p.liquidity, status |-> "loop"]

LEMMA SwapStarts ==
    ASSUME NEW book \in Books, NEW p \in Pools(book), NEW amount \in Nat, NEW z \in BOOLEAN,
           NEW e \in BOOLEAN, NEW s, s = V3Swap(p, z, e, amount)
    PROVE  \/ s.status = "error"
           \/ Start(p, amount) \in SwapStates(book, amount, z) /\ s = SwapLoop(p, Start(p, amount), z, e)
<1>. DEFINE start == Start(p, amount)
            refused == (z /\ SqrtPriceLimit(z) >= p.price) \/ (~z /\ SqrtPriceLimit(z) <= p.price)
<1>1. s = IF refused THEN [start EXCEPT !.status = "error"] ELSE SwapLoop(p, start, z, e)
  BY DEF V3Swap, Start
<1>2. [start EXCEPT !.status = "error"].status = "error"
  BY DEF Start
<1>. SUFFICES ASSUME s.status # "error"
              PROVE  start \in SwapStates(book, amount, z) /\ s = SwapLoop(p, start, z, e)
  OBVIOUS
<1>3. ~refused /\ s = SwapLoop(p, start, z, e)
  <2>. HIDE DEF refused, start
  <2>. QED
    BY <1>1, <1>2
<1>4. /\ p.price \in Nat \ {0} /\ p.tick \in MinTick..(MaxTick - 1) /\ p.liquidity \in Nat
      /\ p.liquidity = LiquidityAt(book, p.tick)
      /\ Ratio[p.tick] <= p.price /\ p.price <= Ratio[p.tick + 1]
  BY PoolFields
<1>5. p.price \in Ratios /\ amount \in 0..amount /\ 0 \in Nat
  BY <1>4 DEF Ratios
<1>6. IF z THEN SqrtPriceLimit(TRUE) <= p.price ELSE p.price <= SqrtPriceLimit(FALSE)
  <2>1. CASE z = TRUE
    <3>1. ~(SqrtPriceLimit(TRUE) >= p.price)
      BY <1>3, <2>1, Zenon
    <3>2. SqrtPriceLimit(TRUE) <= p.price
      <4>1. PICK l : l = SqrtPriceLimit(TRUE) /\ l \in Ratios /\ ~(l >= p.price)
        BY <3>1, Limits, Zenon
      <4>2. l <= p.price
        BY <1>5, <4>1, Ordered, Zenon
      <4>. QED
        BY <4>1, <4>2, Zenon
    <3>. QED
      BY <2>1, <3>2, Zenon
  <2>2. CASE z = FALSE
    <3>1. ~(SqrtPriceLimit(FALSE) <= p.price)
      BY <1>3, <2>2, Zenon
    <3>2. p.price <= SqrtPriceLimit(FALSE)
      <4>1. PICK l : l = SqrtPriceLimit(FALSE) /\ l \in Ratios /\ ~(l <= p.price)
        BY <3>1, Limits, Zenon
      <4>2. p.price <= l
        BY <1>5, <4>1, Ordered, Zenon
      <4>. QED
        BY <4>1, <4>2, Zenon
    <3>. QED
      BY <2>2, <3>2, Zenon
  <2>. QED
    BY <2>1, <2>2, Zenon
<1>7. start \in SwapStates(book, amount, z)
  <2>1. "loop" \in {"loop", "done", "error"}
    OBVIOUS
  <2>. QED
    BY <1>4, <1>5, <1>6, <2>1, StateMade DEF Start
<1>. QED
  BY <1>3, <1>7

\* A quote that ends well ends in a state of the pool; every quote ends.
LEMMA SwapLands ==
    ASSUME NEW book \in Books, NEW p \in Pools(book), NEW amount \in Nat, NEW z \in BOOLEAN,
           NEW e \in BOOLEAN, NEW s, s = V3Swap(p, z, e, amount), s.status = "done"
    PROVE  s \in SwapStates(book, amount, z)
<1>. DEFINE start == Start(p, amount)
<1>1. start \in SwapStates(book, amount, z) /\ s = SwapLoop(p, start, z, e)
  BY SwapStarts
<1>. HIDE DEF start
<1>2. PICK f : IsLoop(f, book, amount, p, start, z, e)
  BY <1>1, LoopRuns
<1>3. MaxSteps \in 0..MaxSteps
  BY V3MathAssumption
<1>. QED
  BY <1>1, <1>2, <1>3 DEF IsLoop

LEMMA SwapEnds ==
    ASSUME NEW book \in Books, NEW p \in Pools(book), NEW amount \in Nat, NEW z \in BOOLEAN,
           NEW e \in BOOLEAN, NEW s, s = V3Swap(p, z, e, amount), MaxSteps > 2 * MaxTick
    PROVE  s.status # "loop"
<1>. DEFINE start == Start(p, amount)
<1>1. \/ s.status = "error"
      \/ start \in SwapStates(book, amount, z) /\ s = SwapLoop(p, start, z, e)
  BY SwapStarts
<1>. HIDE DEF start
<1>. QED
  BY <1>1, LoopEnds

----------------------------------------------------------------------------
(* The input that an exact output asks for, given as an exact input: the two   *)
(* loops go in lockstep until the last step of the first.                    *)

\* The parts of an iteration: what depends on the price, tick and liquidity, and
\* what depends on the step.
Ending(p, w, z) == NextInitializedTick(p, w.tick, z)
NextTick(p, w, z) == Clamp(Ending(p, w, z).tick)
Target(p, w, z) ==
    IF z THEN Upper(Ratio[NextTick(p, w, z)], SqrtPriceLimit(z))
    ELSE Lower(Ratio[NextTick(p, w, z)], SqrtPriceLimit(z))
Net(p, w, z) == IF Ending(p, w, z).initialized THEN p.ticks[NextTick(p, w, z)].net ELSE 0
LiquidityAfter(p, w, z, step) ==
    IF step.price = Ratio[NextTick(p, w, z)] THEN CrossedLiquidity(w.liquidity, Net(p, w, z), z)
    ELSE w.liquidity
TickAfter(p, w, z, step) ==
    CASE step.price = Ratio[NextTick(p, w, z)] -> CrossedTick(NextTick(p, w, z), z)
      [] step.price # Ratio[NextTick(p, w, z)] /\ step.price # w.price -> TickAtSqrtRatio(step.price)
      [] OTHER -> w.tick
StatusAfter(p, w, z, step) ==
    IF step.price = Ratio[NextTick(p, w, z)] /\ LiquidityAfter(p, w, z, step) = 0 THEN "done" ELSE "loop"
Fails(p, w, z, step) ==
    step.price = NoPrice \/ NoProgress(w, step, NextTick(p, w, z), z) \/ LiquidityAfter(p, w, z, step) < 0

Iterated(p, w, z, step, r, left, made) ==
    IF Fails(p, w, z, step) THEN r.status = "error" /\ r.remaining = w.remaining
    ELSE /\ r.remaining = left /\ r.calculated = made
         /\ r.price = step.price /\ r.tick = TickAfter(p, w, z, step)
         /\ r.liquidity = LiquidityAfter(p, w, z, step) /\ r.status = StatusAfter(p, w, z, step)

LEMMA IterationIs ==
    ASSUME NEW p, NEW book, NEW amount, NEW z \in BOOLEAN, NEW e \in BOOLEAN,
           NEW w \in SwapStates(book, amount, z),
           NEW step, step = ComputeSwapStep(w.price, Target(p, w, z), w.liquidity, w.remaining, p.fee, e),
           NEW left, left = IF e THEN w.remaining - step.in - step.fee ELSE w.remaining - step.out,
           NEW made, made = IF e THEN w.calculated + step.out ELSE w.calculated + step.in + step.fee
    PROVE  Iterated(p, w, z, step, SwapIteration(p, w, z, e), left, made)
<1>. DEFINE r == SwapIteration(p, w, z, e)
            goes == [remaining |-> left, calculated |-> made, price |-> step.price,
                     tick |-> TickAfter(p, w, z, step), liquidity |-> LiquidityAfter(p, w, z, step),
                     status |-> StatusAfter(p, w, z, step)]
            fails == [w EXCEPT !.status = "error"]
<1>1. r = IF Fails(p, w, z, step) THEN fails ELSE goes
  BY DEF SwapIteration, Fails, TickAfter, LiquidityAfter, StatusAfter, NextTick, Target, Ending, Net
<1>2. /\ goes.remaining = left /\ goes.calculated = made
      /\ goes.price = step.price /\ goes.tick = TickAfter(p, w, z, step)
      /\ goes.liquidity = LiquidityAfter(p, w, z, step) /\ goes.status = StatusAfter(p, w, z, step)
  OBVIOUS
<1>3. fails.status = "error" /\ fails.remaining = w.remaining
  BY DEF SwapStates, SwapRecords
<1>. HIDE DEF goes, fails, r
<1>4. Iterated(p, w, z, step, r, left, made)
  BY <1>1, <1>2, <1>3, Zenon DEF Iterated
<1>. QED
  BY <1>4 DEF r

\* A step of the loop: it has ended, it ends, or it iterates.
Stepped(p, s, z, step, r, left, made) ==
    /\ s.status # "loop" => r = s
    /\ s.status = "loop" /\ (s.remaining = 0 \/ s.price = SqrtPriceLimit(z))
           => /\ r.status = "done" /\ r.price = s.price
              /\ r.remaining = s.remaining /\ r.calculated = s.calculated
    /\ s.status = "loop" /\ s.remaining # 0 /\ s.price # SqrtPriceLimit(z)
           => Iterated(p, s, z, step, r, left, made)

LEMMA StepIs ==
    ASSUME NEW p, NEW book, NEW amount, NEW z \in BOOLEAN, NEW e \in BOOLEAN,
           NEW s \in SwapStates(book, amount, z),
           NEW step, step = ComputeSwapStep(s.price, Target(p, s, z), s.liquidity, s.remaining, p.fee, e),
           NEW left, left = IF e THEN s.remaining - step.in - step.fee ELSE s.remaining - step.out,
           NEW made, made = IF e THEN s.calculated + step.out ELSE s.calculated + step.in + step.fee
    PROVE  Stepped(p, s, z, step, SwapStep(p, s, z, e), left, made)
<1>. DEFINE r == SwapStep(p, s, z, e)
            next == SwapIteration(p, s, z, e)
            done == [s EXCEPT !.status = "done"]
<1>1. r = IF s.status # "loop" THEN s
          ELSE IF s.remaining = 0 \/ s.price = SqrtPriceLimit(z) THEN done ELSE next
  BY Zenon DEF SwapStep
<1>2. /\ done.status = "done" /\ done.remaining = s.remaining /\ done.calculated = s.calculated
      /\ done.price = s.price
  BY DEF SwapStates, SwapRecords
<1>3. Iterated(p, s, z, step, next, left, made)
  BY IterationIs
<1>. HIDE DEF r, next, done
<1>4. Stepped(p, s, z, step, r, left, made)
  BY <1>1, <1>2, <1>3, Zenon DEF Stepped
<1>. QED
  BY <1>4 DEF r

\* A step of the loop that asks for an output, and of the one that gives an input.
AskStep(p, s, z) == SwapStep(p, s, z, FALSE)
GiveStep(p, s, z) == SwapStep(p, s, z, TRUE)
Asked(p, s, z) == StepExactOut(s.price, Target(p, s, z), s.liquidity, s.remaining, p.fee)
Given(p, s, z) == StepExactIn(s.price, Target(p, s, z), s.liquidity, s.remaining, p.fee)

LEMMA AskStepIs ==
    ASSUME NEW p, NEW book, NEW amount, NEW z \in BOOLEAN, NEW s \in SwapStates(book, amount, z),
           NEW o, o = Asked(p, s, z), NEW r, r = AskStep(p, s, z)
    PROVE  Stepped(p, s, z, o, r, s.remaining - o.out, s.calculated + o.in + o.fee)
<1>1. PICK e \in BOOLEAN : e = FALSE
  OBVIOUS
<1>2. r = SwapStep(p, s, z, e)
  BY <1>1, Zenon DEF AskStep
<1>3. o = ComputeSwapStep(s.price, Target(p, s, z), s.liquidity, s.remaining, p.fee, e)
  BY <1>1, Zenon DEF ComputeSwapStep, Asked
<1>4. s.remaining - o.out = IF e THEN s.remaining - o.in - o.fee ELSE s.remaining - o.out
  BY <1>1, Zenon
<1>5. s.calculated + o.in + o.fee = IF e THEN s.calculated + o.out ELSE s.calculated + o.in + o.fee
  BY <1>1, Zenon
<1>6. Stepped(p, s, z, o, SwapStep(p, s, z, e), s.remaining - o.out, s.calculated + o.in + o.fee)
  BY <1>3, <1>4, <1>5, StepIs, Zenon
<1>. QED
  BY <1>2, <1>6, Zenon

LEMMA GiveStepIs ==
    ASSUME NEW p, NEW book, NEW amount, NEW z \in BOOLEAN, NEW s \in SwapStates(book, amount, z),
           NEW i, i = Given(p, s, z), NEW r, r = GiveStep(p, s, z)
    PROVE  Stepped(p, s, z, i, r, s.remaining - i.in - i.fee, s.calculated + i.out)
<1>1. PICK e \in BOOLEAN : e = TRUE
  OBVIOUS
<1>2. r = SwapStep(p, s, z, e)
  BY <1>1, Zenon DEF GiveStep
<1>3. i = ComputeSwapStep(s.price, Target(p, s, z), s.liquidity, s.remaining, p.fee, e)
  BY <1>1, Zenon DEF ComputeSwapStep, Given
<1>4. s.remaining - i.in - i.fee = IF e THEN s.remaining - i.in - i.fee ELSE s.remaining - i.out
  BY <1>1, Zenon
<1>5. s.calculated + i.out = IF e THEN s.calculated + i.out ELSE s.calculated + i.in + i.fee
  BY <1>1, Zenon
<1>6. Stepped(p, s, z, i, SwapStep(p, s, z, e), s.remaining - i.in - i.fee, s.calculated + i.out)
  BY <1>3, <1>4, <1>5, StepIs, Zenon
<1>. QED
  BY <1>2, <1>6, Zenon

LEMMA SameParts ==
    ASSUME NEW p, NEW s, NEW u, NEW z, NEW step,
           s.price = u.price, s.tick = u.tick, s.liquidity = u.liquidity
    PROVE  /\ Target(p, s, z) = Target(p, u, z)
           /\ TickAfter(p, s, z, step) = TickAfter(p, u, z, step)
           /\ LiquidityAfter(p, s, z, step) = LiquidityAfter(p, u, z, step)
           /\ StatusAfter(p, s, z, step) = StatusAfter(p, u, z, step)
           /\ Fails(p, s, z, step) <=> Fails(p, u, z, step)
<1>1. Ending(p, s, z) = Ending(p, u, z)
  BY Zenon DEF Ending
<1>2. NextTick(p, s, z) = NextTick(p, u, z)
  BY <1>1, Zenon DEF NextTick
<1>3. Target(p, s, z) = Target(p, u, z)
  BY <1>2, Zenon DEF Target
<1>4. TickAfter(p, s, z, step) = TickAfter(p, u, z, step)
  BY <1>2, Zenon DEF TickAfter
<1>5. LiquidityAfter(p, s, z, step) = LiquidityAfter(p, u, z, step)
  <2>1. Net(p, s, z) = Net(p, u, z)
    BY <1>1, <1>2, Zenon DEF Net
  <2>2. CrossedLiquidity(s.liquidity, Net(p, s, z), z) = CrossedLiquidity(u.liquidity, Net(p, u, z), z)
    BY <2>1, Zenon
  <2>3. Ratio[NextTick(p, s, z)] = Ratio[NextTick(p, u, z)]
    BY <1>2, Zenon
  <2>. QED
    BY <2>2, <2>3, Zenon DEF LiquidityAfter
<1>6. StatusAfter(p, s, z, step) = StatusAfter(p, u, z, step)
  BY <1>2, <1>5, Zenon DEF StatusAfter
<1>7. NoProgress(s, step, NextTick(p, s, z), z) <=> NoProgress(u, step, NextTick(p, u, z), z)
  BY <1>2, Zenon DEF NoProgress
<1>8. Fails(p, s, z, step) <=> Fails(p, u, z, step)
  BY <1>5, <1>7, Zenon DEF Fails
<1>. QED
  BY <1>3, <1>4, <1>5, <1>6, <1>8, Zenon

LEMMA TargetType ==
    ASSUME NEW book \in Books, NEW p \in Pools(book), NEW amount, NEW z \in BOOLEAN,
           NEW s \in SwapStates(book, amount, z)
    PROVE  Target(p, s, z) \in Ratios
<1>1. s.tick \in MinTick..(MaxTick - 1) /\ s.tick + 1 \in MinTick..MaxTick /\ s.tick \in MinTick..MaxTick
      /\ MinTick \in Int /\ MaxTick \in Int
  BY StateFields, MathConstants
<1>. DEFINE next == NextTick(p, s, z)
<1>2. next \in MinTick..MaxTick /\ SqrtPriceLimit(z) \in Ratios
  <2>1. CASE z = TRUE
    <3>. DEFINE ended == NextInitializedTick(p, s.tick, TRUE)
    <3>1. next = Clamp(ended.tick)
      BY <2>1, Zenon DEF NextTick, Ending
    <3>2. EndsBelow(book, p, ended, Clamp(ended.tick), s.tick)
      BY <1>1, SearchBelow
    <3>. HIDE DEF ended, next
    <3>3. next \in MinTick..s.tick
      BY <3>1, <3>2 DEF EndsBelow
    <3>4. SqrtPriceLimit(z) \in Ratios
      BY <2>1, Limits, Zenon
    <3>. QED
      BY <1>1, <3>3, <3>4
  <2>2. CASE z = FALSE
    <3>. DEFINE ended == NextInitializedTick(p, s.tick, FALSE)
    <3>1. next = Clamp(ended.tick)
      BY <2>2, Zenon DEF NextTick, Ending
    <3>2. EndsAbove(book, p, ended, Clamp(ended.tick), s.tick) \/ NothingAbove(book, Clamp(ended.tick), s.tick)
      BY <1>1, SearchAbove
    <3>. HIDE DEF ended, next
    <3>3. next \in MinTick..MaxTick
      BY <1>1, <3>1, <3>2 DEF EndsAbove, NothingAbove
    <3>4. SqrtPriceLimit(z) \in Ratios
      BY <2>2, Limits, Zenon
    <3>. QED
      BY <3>3, <3>4
  <2>. QED
    BY <2>1, <2>2, Zenon
<1>. DEFINE limit == SqrtPriceLimit(z)
<1>3. Target(p, s, z) = IF z THEN Upper(Ratio[next], limit) ELSE Lower(Ratio[next], limit)
  BY Zenon DEF Target
<1>4. next \in MinTick..MaxTick /\ limit \in Ratios
  BY <1>2
<1>. HIDE DEF next, limit
<1>5. Ratio[next] \in Ratios
  BY <1>4, RatioType DEF Ratios
<1>6. Upper(Ratio[next], limit) \in Ratios /\ Lower(Ratio[next], limit) \in Ratios
  BY <1>4, <1>5 DEF Upper, Lower
<1>. QED
  BY <1>3, <1>6

\* In lockstep; an output that has been paid for and is not there, which never
\* comes any more.
InStep(s, u, wanted, paid) ==
    /\ s.status = "loop" /\ u.status = "loop"
    /\ s.price = u.price /\ s.tick = u.tick /\ s.liquidity = u.liquidity
    /\ u.remaining = paid - s.calculated /\ u.calculated = wanted - s.remaining
Spent(s, paid) == s.remaining # 0 /\ (s.status # "loop" \/ s.calculated = paid)
Paired(s, u, wanted, paid) ==
    InStep(s, u, wanted, paid) \/ Spent(s, paid) \/ u.status = "error" \/ wanted <= u.calculated

LEMMA AskedType ==
    ASSUME NEW book \in Books, NEW p \in Pools(book), NEW amount \in Nat, NEW z \in BOOLEAN,
           NEW s \in SwapStates(book, amount, z), NEW o, o = Asked(p, s, z)
    PROVE  /\ s.price \in Ratios /\ Target(p, s, z) \in Ratios /\ s.liquidity \in Nat
           /\ s.remaining \in Nat /\ s.calculated \in Nat /\ p.fee \in 0..(MaxFee - 1)
           /\ o.in \in Nat /\ o.fee \in Nat /\ o.out \in Nat /\ o.out <= s.remaining
           /\ o.in = 0 => o.out = 0
<1>. DEFINE t == Target(p, s, z)
<1>1. s.price \in Ratios /\ s.liquidity \in Nat /\ s.remaining \in Nat /\ t \in Ratios /\ s.calculated \in Nat
  BY StateFields, TargetType
<1>2. p.fee \in 0..(MaxFee - 1)
  BY PoolFields, V3PoolAssumption
<1>3. o = StepExactOut(s.price, t, s.liquidity, s.remaining, p.fee)
  BY DEF Asked
<1>4. StepResult(o, s.price, t, s.liquidity) /\ o.out <= s.remaining
  <2>. HIDE DEF t
  <2>. QED
    BY <1>1, <1>2, <1>3, StepOutResult
<1>5. o.in = 0 => o.out = 0
  <2>. HIDE DEF t
  <2>. QED
    BY <1>1, <1>2, <1>3, FreeStep
<1>6. o.in \in Nat /\ o.fee \in Nat /\ o.out \in Nat
  BY <1>4 DEF StepResult
<1>. QED
  BY <1>1, <1>2, <1>4, <1>5, <1>6

LEMMA SpentStays ==
    ASSUME NEW book \in Books, NEW p \in Pools(book), NEW amount \in Nat, NEW z \in BOOLEAN,
           NEW s \in SwapStates(book, amount, z), NEW paid \in Nat, Spent(s, paid),
           NEW r, r = AskStep(p, s, z), r.calculated <= paid
    PROVE  Spent(r, paid)
<1>1. PICK o : o = Asked(p, s, z)
  OBVIOUS
<1>2. /\ s.calculated \in Nat /\ s.remaining \in Nat
      /\ o.in \in Nat /\ o.fee \in Nat /\ o.out \in Nat /\ (o.in = 0 => o.out = 0)
  BY <1>1, AskedType
<1>3. Stepped(p, s, z, o, r, s.remaining - o.out, s.calculated + o.in + o.fee)
  BY <1>1, AskStepIs
<1>4. s.remaining # 0
  BY DEF Spent
<1>5. CASE s.status # "loop"
  BY <1>3, <1>5 DEF Stepped, Spent
<1>6. CASE s.status = "loop" /\ s.price = SqrtPriceLimit(z)
  BY <1>3, <1>4, <1>6 DEF Stepped, Spent
<1>7. CASE s.status = "loop" /\ s.price # SqrtPriceLimit(z)
  <2>1. Iterated(p, s, z, o, r, s.remaining - o.out, s.calculated + o.in + o.fee) /\ s.calculated = paid
    BY <1>3, <1>4, <1>7 DEF Stepped, Spent
  <2>2. CASE r.status = "error" /\ r.remaining = s.remaining
    BY <1>4, <2>2 DEF Spent
  <2>3. CASE r.remaining = s.remaining - o.out /\ r.calculated = s.calculated + o.in + o.fee
    <3>1. o.in = 0 /\ o.fee = 0
      BY <1>2, <2>1, <2>3
    <3>2. r.remaining = s.remaining /\ r.calculated = paid
      BY <1>2, <2>1, <2>3, <3>1
    <3>. QED
      BY <1>4, <3>2 DEF Spent
  <2>. QED
    BY <2>1, <2>2, <2>3, Zenon DEF Iterated
<1>. QED
  BY <1>5, <1>6, <1>7

\* A step keeps the two together.
LEMMA BothIterate ==
    ASSUME NEW book \in Books, NEW p \in Pools(book), NEW z \in BOOLEAN,
           NEW wanted \in Nat, NEW paid \in Nat,
           NEW s \in SwapStates(book, wanted, z), NEW u \in SwapStates(book, paid, z),
           InStep(s, u, wanted, paid), s.remaining # 0, u.remaining # 0, s.price # SqrtPriceLimit(z),
           NEW r, r = AskStep(p, s, z), r.calculated <= paid, NEW v, v = GiveStep(p, u, z)
    PROVE  Paired(r, v, wanted, paid)
<1>. DEFINE t == Target(p, s, z)
<1>1. PICK o : o = Asked(p, s, z)
  OBVIOUS
<1>2. PICK i : i = Given(p, u, z)
  OBVIOUS
<1>3. /\ s.status = "loop" /\ u.status = "loop"
      /\ s.price = u.price /\ s.tick = u.tick /\ s.liquidity = u.liquidity
      /\ u.remaining = paid - s.calculated /\ u.calculated = wanted - s.remaining
  BY DEF InStep
<1>4. /\ s.price \in Ratios /\ t \in Ratios /\ s.liquidity \in Nat
      /\ s.remaining \in Nat /\ s.calculated \in Nat /\ p.fee \in 0..(MaxFee - 1)
      /\ o.in \in Nat /\ o.fee \in Nat /\ o.out \in Nat /\ o.out <= s.remaining
  BY <1>1, AskedType
<1>5. Stepped(p, s, z, o, r, s.remaining - o.out, s.calculated + o.in + o.fee)
  BY <1>1, AskStepIs
<1>6. Stepped(p, u, z, i, v, u.remaining - i.in - i.fee, u.calculated + i.out)
  BY <1>2, GiveStepIs
<1>7. Iterated(p, s, z, o, r, s.remaining - o.out, s.calculated + o.in + o.fee)
  BY <1>3, <1>5 DEF Stepped
<1>8. Iterated(p, u, z, i, v, u.remaining - i.in - i.fee, u.calculated + i.out)
  BY <1>3, <1>6 DEF Stepped
<1>9. u.remaining \in Nat /\ u.calculated \in Nat
  BY StateFields
<1>10. CASE Fails(p, s, z, o)
  <2>1. r.status = "error" /\ r.remaining = s.remaining
    BY <1>7, <1>10, Zenon DEF Iterated
  <2>. QED
    BY <2>1 DEF Spent, Paired
<1>11. CASE ~Fails(p, s, z, o)
  <2>1. /\ r.remaining = s.remaining - o.out /\ r.calculated = s.calculated + o.in + o.fee
        /\ r.price = o.price /\ r.tick = TickAfter(p, s, z, o)
        /\ r.liquidity = LiquidityAfter(p, s, z, o) /\ r.status = StatusAfter(p, s, z, o)
    BY <1>7, <1>11, Zenon DEF Iterated
  <2>2. o.in + o.fee <= u.remaining
    BY <1>3, <1>4, <2>1
  <2>3. o = StepExactOut(s.price, t, s.liquidity, s.remaining, p.fee)
    BY <1>1, Zenon DEF Asked
  <2>4. i = StepExactIn(s.price, t, s.liquidity, u.remaining, p.fee)
    BY <1>2, <1>3, SameParts, Zenon DEF Given
  <2>5. i = o \/ s.remaining <= i.out
    <3>1. PICK L \in Nat : L = s.liquidity
      BY <1>4
    <3>2. PICK rem \in Nat : rem = s.remaining
      BY <1>4
    <3>3. PICK price \in Ratios : price = s.price
      BY <1>4
    <3>4. PICK left \in Nat : left = u.remaining
      BY <1>9
    <3>5. PICK fee \in 0..(MaxFee - 1) : fee = p.fee
      BY <1>4
    <3>6. t \in Ratios
      BY <1>4
    <3>. HIDE DEF t
    <3>7. o = StepExactOut(price, t, L, rem, fee) /\ i = StepExactIn(price, t, L, left, fee)
      BY <2>3, <2>4, <3>1, <3>2, <3>3, <3>4, <3>5, Zenon
    <3>8. o.in + o.fee <= left
      BY <2>2, <3>4, Zenon
    <3>9. i = o \/ rem <= i.out
      BY <3>6, <3>7, <3>8, InputBuysStep
    <3>. QED
      BY <3>2, <3>9
  <2>6. CASE i = o
    <3>1. ~Fails(p, u, z, o)
      BY <1>3, <1>11, SameParts, Zenon
    <3>2. /\ TickAfter(p, s, z, o) = TickAfter(p, u, z, o)
          /\ LiquidityAfter(p, s, z, o) = LiquidityAfter(p, u, z, o)
          /\ StatusAfter(p, s, z, o) = StatusAfter(p, u, z, o)
      BY <1>3, SameParts
    <3>3. Iterated(p, u, z, o, v, u.remaining - o.in - o.fee, u.calculated + o.out)
      BY <1>8, <2>6, Zenon
    <3>4. /\ v.remaining = u.remaining - o.in - o.fee /\ v.calculated = u.calculated + o.out
          /\ v.price = o.price /\ v.tick = TickAfter(p, u, z, o)
          /\ v.liquidity = LiquidityAfter(p, u, z, o) /\ v.status = StatusAfter(p, u, z, o)
      BY <3>1, <3>3, Zenon DEF Iterated
    <3>5. v.price = r.price /\ v.tick = r.tick /\ v.liquidity = r.liquidity /\ v.status = r.status
      BY <2>1, <3>2, <3>4, Zenon
    <3>6. v.remaining = paid - r.calculated /\ v.calculated = wanted - r.remaining
      BY <1>3, <1>4, <2>1, <3>4
    <3>7. CASE r.status = "loop"
      BY <3>5, <3>6, <3>7 DEF InStep, Paired
    <3>8. CASE r.status # "loop" /\ r.remaining # 0
      BY <3>8 DEF Spent, Paired
    <3>9. CASE r.remaining = 0
      <4>1. wanted <= v.calculated
        BY <3>6, <3>9
      <4>. QED
        BY <4>1 DEF Paired
    <3>. QED
      BY <3>7, <3>8, <3>9
  <2>7. CASE s.remaining <= i.out
    <3>1. v.status = "error" \/ v.calculated = u.calculated + i.out
      BY <1>8, Zenon DEF Iterated
    <3>2. i.out \in Nat
      <4>1. StepResult(i, s.price, t, s.liquidity)
        <5>. HIDE DEF t
        <5>. QED
          BY <1>4, <1>9, <2>4, StepInResult
      <4>. QED
        BY <4>1 DEF StepResult
    <3>3. v.calculated = u.calculated + i.out => wanted <= v.calculated
      BY <1>3, <1>4, <1>9, <2>7, <3>2
    <3>. QED
      BY <3>1, <3>3 DEF Paired
  <2>. QED
    BY <2>5, <2>6, <2>7
<1>. QED
  BY <1>10, <1>11

LEMMA PairStays ==
    ASSUME NEW book \in Books, NEW p \in Pools(book), NEW z \in BOOLEAN,
           NEW wanted \in Nat, NEW paid \in Nat,
           NEW s \in SwapStates(book, wanted, z), NEW u \in SwapStates(book, paid, z),
           Paired(s, u, wanted, paid),
           NEW r, r = AskStep(p, s, z), r.calculated <= paid, NEW v, v = GiveStep(p, u, z),
           u.calculated <= v.calculated, v.calculated \in Nat
    PROVE  Paired(r, v, wanted, paid)
<1>1. /\ s.remaining \in Nat /\ s.calculated \in Nat /\ u.remaining \in Nat /\ u.calculated \in Nat
  BY StateFields
<1>2. CASE wanted <= u.calculated
  <2>1. wanted <= v.calculated
    BY <1>1, <1>2
  <2>. QED
    BY <2>1 DEF Paired
<1>3. CASE Spent(s, paid)
  <2>1. Spent(r, paid)
    BY <1>3, SpentStays
  <2>. QED
    BY <2>1 DEF Paired
<1>4. CASE u.status = "error"
  <2>1. Stepped(p, u, z, Given(p, u, z), v, u.remaining - Given(p, u, z).in - Given(p, u, z).fee,
                u.calculated + Given(p, u, z).out)
    BY GiveStepIs
  <2>2. v = u
    BY <1>4, <2>1 DEF Stepped
  <2>. QED
    BY <1>4, <2>2 DEF Paired
<1>5. CASE InStep(s, u, wanted, paid)
  <2>1. /\ s.status = "loop" /\ u.status = "loop"
        /\ u.remaining = paid - s.calculated /\ u.calculated = wanted - s.remaining
    BY <1>5 DEF InStep
  <2>2. CASE s.remaining = 0
    <3>1. wanted <= u.calculated
      BY <2>1, <2>2
    <3>. QED
      BY <1>2, <3>1
  <2>3. CASE s.remaining # 0 /\ u.remaining = 0
    <3>1. s.calculated = paid
      BY <1>1, <2>1, <2>3
    <3>. QED
      BY <1>3, <2>3, <3>1 DEF Spent
  <2>4. CASE s.remaining # 0 /\ u.remaining # 0 /\ s.price = SqrtPriceLimit(z)
    <3>1. PICK o : o = Asked(p, s, z)
      OBVIOUS
    <3>2. Stepped(p, s, z, o, r, s.remaining - o.out, s.calculated + o.in + o.fee)
      BY <3>1, AskStepIs
    <3>3. r.status = "done" /\ r.remaining = s.remaining
      BY <2>1, <2>4, <3>2 DEF Stepped
    <3>. QED
      BY <2>4, <3>3 DEF Spent, Paired
  <2>5. CASE s.remaining # 0 /\ u.remaining # 0 /\ s.price # SqrtPriceLimit(z)
    BY <1>5, <2>5, BothIterate
  <2>. QED
    BY <2>2, <2>3, <2>4, <2>5
<1>. QED
  BY <1>2, <1>3, <1>4, <1>5 DEF Paired

\* The states of a loop that asks for an output, and of one that gives an input.
Grows(f, book, amount, z) ==
    /\ \A n \in 0..MaxSteps : f[n] \in SwapStates(book, amount, z)
    /\ \A n \in 1..MaxSteps : f[n - 1].calculated <= f[n].calculated

LEMMA LoopGrows ==
    ASSUME NEW book \in Books, NEW p \in Pools(book), NEW amount \in Nat, NEW z \in BOOLEAN,
           NEW e \in BOOLEAN, NEW start, NEW f, IsLoop(f, book, amount, p, start, z, e)
    PROVE  Grows(f, book, amount, z)
<1>1. \A n \in 0..MaxSteps : f[n] \in SwapStates(book, amount, z)
  BY DEF IsLoop
<1>2. ASSUME NEW n \in 1..MaxSteps PROVE f[n - 1].calculated <= f[n].calculated
  <2>1. n - 1 \in 0..MaxSteps
    BY V3MathAssumption
  <2>2. PICK s \in SwapStates(book, amount, z) : s = f[n - 1]
    BY <1>1, <2>1
  <2>3. f[n] = SwapStep(p, s, z, e)
    BY <2>2 DEF IsLoop
  <2>4. Continues(s, f[n], z)
    BY <2>3, StepLands
  <2>. QED
    BY <2>2, <2>4 DEF Continues
<1>. QED
  BY <1>1, <1>2 DEF Grows

AskRun(f, p, start, z) ==
    /\ f[0] = start /\ SwapLoop(p, start, z, FALSE) = f[MaxSteps]
    /\ \A n \in 1..MaxSteps : f[n] = AskStep(p, f[n - 1], z)
GiveRun(f, p, start, z) ==
    /\ f[0] = start /\ SwapLoop(p, start, z, TRUE) = f[MaxSteps]
    /\ \A n \in 1..MaxSteps : f[n] = GiveStep(p, f[n - 1], z)

LEMMA AskRuns ==
    ASSUME NEW book \in Books, NEW p \in Pools(book), NEW amount \in Nat, NEW z \in BOOLEAN,
           NEW start \in SwapStates(book, amount, z)
    PROVE  \E f : AskRun(f, p, start, z) /\ Grows(f, book, amount, z)
<1>1. PICK e \in BOOLEAN : e = FALSE
  OBVIOUS
<1>2. PICK f : IsLoop(f, book, amount, p, start, z, e)
  BY LoopRuns
<1>3. Grows(f, book, amount, z)
  BY <1>2, LoopGrows
<1>4. /\ f[0] = start /\ SwapLoop(p, start, z, e) = f[MaxSteps]
      /\ \A n \in 1..MaxSteps : f[n] = SwapStep(p, f[n - 1], z, e)
  BY <1>2 DEF IsLoop
<1>5. AskRun(f, p, start, z)
  BY <1>1, <1>4, Zenon DEF AskRun, AskStep
<1>. QED
  BY <1>3, <1>5

LEMMA GiveRuns ==
    ASSUME NEW book \in Books, NEW p \in Pools(book), NEW amount \in Nat, NEW z \in BOOLEAN,
           NEW start \in SwapStates(book, amount, z)
    PROVE  \E f : GiveRun(f, p, start, z) /\ Grows(f, book, amount, z)
<1>1. PICK e \in BOOLEAN : e = TRUE
  OBVIOUS
<1>2. PICK f : IsLoop(f, book, amount, p, start, z, e)
  BY LoopRuns
<1>3. Grows(f, book, amount, z)
  BY <1>2, LoopGrows
<1>4. /\ f[0] = start /\ SwapLoop(p, start, z, e) = f[MaxSteps]
      /\ \A n \in 1..MaxSteps : f[n] = SwapStep(p, f[n - 1], z, e)
  BY <1>2 DEF IsLoop
<1>5. GiveRun(f, p, start, z)
  BY <1>1, <1>4, Zenon DEF GiveRun, GiveStep
<1>. QED
  BY <1>3, <1>5

LEMMA GrowsUpTo ==
    ASSUME NEW f, NEW book, NEW amount, NEW z, Grows(f, book, amount, z)
    PROVE  \A n \in 0..MaxSteps : f[n].calculated <= f[MaxSteps].calculated
<1>. DEFINE N == MaxSteps
            S == {k \in 0..N : f[N - k].calculated <= f[N].calculated}
<1>1. N \in Nat /\ \A n \in 0..N : f[n].calculated \in Nat
  BY V3MathAssumption, StateFields DEF Grows
<1>. SUFFICES \A n \in 0..N : f[n].calculated <= f[N].calculated
  OBVIOUS
<1>2. \A n \in 1..N : f[n - 1].calculated <= f[n].calculated
  BY DEF Grows
<1>. HIDE DEF N
<1>3. 0 \in S
  BY <1>1
<1>4. ASSUME NEW k \in 1..N, k - 1 \in S PROVE k \in S
  <2>1. N - (k - 1) \in 1..N /\ k \in 0..N /\ N - k \in 0..N /\ N - (k - 1) \in 0..N /\ N \in 0..N
        /\ N - (k - 1) - 1 = N - k
    BY <1>1
  <2>2. f[N - k].calculated <= f[N - (k - 1)].calculated
    BY <1>2, <2>1
  <2>3. f[N - (k - 1)].calculated <= f[N].calculated
    BY <1>4
  <2>4. f[N - k].calculated <= f[N].calculated
    BY <1>1, <2>1, <2>2, <2>3
  <2>. QED
    BY <2>1, <2>4
<1>5. \A k \in 0..N : k \in S
  <2>. HIDE DEF S
  <2>. QED
    BY <1>1, <1>3, <1>4, BoundedInduction
<1>6. ASSUME NEW n \in 0..N PROVE f[n].calculated <= f[N].calculated
  <2>1. N - n \in 0..N /\ N - (N - n) = n
    BY <1>1
  <2>2. f[N - (N - n)].calculated <= f[N].calculated
    BY <1>5, <2>1
  <2>. QED
    BY <2>1, <2>2
<1>. QED
  BY <1>6

LEMMA PairRuns ==
    ASSUME NEW book \in Books, NEW p \in Pools(book), NEW z \in BOOLEAN,
           NEW wanted \in Nat, NEW paid \in Nat, NEW start, NEW other, InStep(start, other, wanted, paid),
           NEW f, AskRun(f, p, start, z), Grows(f, book, wanted, z), f[MaxSteps].calculated = paid,
           NEW g, GiveRun(g, p, other, z), Grows(g, book, paid, z)
    PROVE  Paired(f[MaxSteps], g[MaxSteps], wanted, paid)
<1>. DEFINE N == MaxSteps
            S == {n \in 0..N : Paired(f[n], g[n], wanted, paid)}
<1>0. N \in Nat /\ 0 \in 0..N /\ N \in 0..N
  BY V3MathAssumption
<1>1. 0 \in S
  <2>1. f[0] = start /\ g[0] = other
    BY DEF AskRun, GiveRun
  <2>. QED
    BY <1>0, <2>1 DEF Paired
<1>2. ASSUME NEW n \in 1..N, n - 1 \in S PROVE n \in S
  <2>1. n \in 0..N /\ n - 1 \in 0..N
    BY <1>0
  <2>2. PICK s \in SwapStates(book, wanted, z) : s = f[n - 1]
    BY <2>1 DEF Grows
  <2>3. PICK u \in SwapStates(book, paid, z) : u = g[n - 1]
    BY <2>1 DEF Grows
  <2>4. PICK r : r = f[n]
    OBVIOUS
  <2>5. PICK v : v = g[n]
    OBVIOUS
  <2>6. Paired(s, u, wanted, paid)
    BY <1>2, <2>2, <2>3
  <2>7. r = AskStep(p, s, z) /\ v = GiveStep(p, u, z)
    BY <2>2, <2>3, <2>4, <2>5 DEF AskRun, GiveRun
  <2>8. r.calculated <= paid
    BY <2>1, <2>4, GrowsUpTo
  <2>9. u.calculated <= v.calculated
    BY <2>3, <2>5 DEF Grows
  <2>10. v.calculated \in Nat
    <3>1. v \in SwapStates(book, paid, z)
      BY <2>1, <2>5 DEF Grows
    <3>. QED
      BY <3>1, StateFields
  <2>11. Paired(r, v, wanted, paid)
    BY <2>6, <2>7, <2>8, <2>9, <2>10, PairStays
  <2>. QED
    BY <2>1, <2>4, <2>5, <2>11
<1>3. \A n \in 0..N : n \in S
  <2>. HIDE DEF S, N
  <2>. QED
    BY <1>0, <1>1, <1>2, BoundedInduction
<1>. QED
  BY <1>0, <1>3

\* The input an exact output asks for gives at least that output.
AskSwap(p, z, amount) == V3Swap(p, z, FALSE, amount)
GiveSwap(p, z, amount) == V3Swap(p, z, TRUE, amount)

LEMMA AskStarts ==
    ASSUME NEW book \in Books, NEW p \in Pools(book), NEW amount \in Nat, NEW z \in BOOLEAN,
           NEW s, s = AskSwap(p, z, amount), s.status = "done"
    PROVE  \E f : AskRun(f, p, Start(p, amount), z) /\ Grows(f, book, amount, z) /\ s = f[MaxSteps]
<1>1. PICK e \in BOOLEAN : e = FALSE
  OBVIOUS
<1>2. s = V3Swap(p, z, e, amount)
  BY <1>1, Zenon DEF AskSwap
<1>3. PICK start \in SwapStates(book, amount, z) : start = Start(p, amount) /\ s = SwapLoop(p, start, z, e)
  BY <1>2, SwapStarts
<1>4. PICK f : AskRun(f, p, start, z) /\ Grows(f, book, amount, z)
  BY AskRuns
<1>5. s = SwapLoop(p, start, z, FALSE)
  BY <1>1, <1>3, Zenon
<1>6. s = f[MaxSteps]
  BY <1>4, <1>5, Zenon DEF AskRun
<1>. QED
  BY <1>3, <1>4, <1>6, Zenon

LEMMA GiveStarts ==
    ASSUME NEW book \in Books, NEW p \in Pools(book), NEW amount \in Nat, NEW z \in BOOLEAN,
           NEW s, s = GiveSwap(p, z, amount), s.status = "done"
    PROVE  \E f : GiveRun(f, p, Start(p, amount), z) /\ Grows(f, book, amount, z) /\ s = f[MaxSteps]
<1>1. PICK e \in BOOLEAN : e = TRUE
  OBVIOUS
<1>2. s = V3Swap(p, z, e, amount)
  BY <1>1, Zenon DEF GiveSwap
<1>3. PICK start \in SwapStates(book, amount, z) : start = Start(p, amount) /\ s = SwapLoop(p, start, z, e)
  BY <1>2, SwapStarts
<1>4. PICK f : GiveRun(f, p, start, z) /\ Grows(f, book, amount, z)
  BY GiveRuns
<1>5. s = SwapLoop(p, start, z, TRUE)
  BY <1>1, <1>3, Zenon
<1>6. s = f[MaxSteps]
  BY <1>4, <1>5, Zenon DEF GiveRun
<1>. QED
  BY <1>3, <1>4, <1>6, Zenon

LEMMA InputIsEnough ==
    ASSUME NEW book \in Books, NEW p \in Pools(book), NEW z \in BOOLEAN, NEW wanted \in Nat,
           NEW s, s = AskSwap(p, z, wanted), s.status = "done", s.remaining = 0,
           NEW u, u = GiveSwap(p, z, s.calculated), u.status = "done"
    PROVE  wanted <= u.calculated
<1>1. PICK f : AskRun(f, p, Start(p, wanted), z) /\ Grows(f, book, wanted, z) /\ s = f[MaxSteps]
  BY AskStarts
<1>2. MaxSteps \in 0..MaxSteps
  BY V3MathAssumption
<1>3. s \in SwapStates(book, wanted, z)
  BY <1>1, <1>2 DEF Grows
<1>4. PICK paid \in Nat : paid = s.calculated
  BY <1>3, StateFields
<1>5. u = GiveSwap(p, z, paid)
  BY <1>4, Zenon
<1>6. PICK g : GiveRun(g, p, Start(p, paid), z) /\ Grows(g, book, paid, z) /\ u = g[MaxSteps]
  BY <1>5, GiveStarts
<1>7. InStep(Start(p, wanted), Start(p, paid), wanted, paid)
  BY DEF InStep, Start
<1>8. Paired(s, u, wanted, paid)
  BY <1>1, <1>4, <1>6, <1>7, PairRuns
<1>9. ~InStep(s, u, wanted, paid) /\ ~Spent(s, paid) /\ u.status # "error"
  BY DEF InStep, Spent
<1>. QED
  BY <1>8, <1>9 DEF Paired

----------------------------------------------------------------------------
(* What the positions hold of each token at a price: a swap moves it, and      *)
(* takes in at least what it moves, and gives out at most that.              *)

\* Reciprocals of the prices up to M, as naturals over a common multiple d.
Reciprocals(h, d, M) ==
    /\ d \in Nat \ {0} /\ h \in [1..M -> Nat \ {0}]
    /\ \A n \in 1..M : n * h[n] = d

LEMMA ReciprocalsExist ==
    ASSUME NEW M \in Nat PROVE \E h, d : Reciprocals(h, d, M)
<1>. DEFINE S == {m \in 0..M : \E h, d : Reciprocals(h, d, m)}
<1>1. 0 \in S
  <2>1. Reciprocals([n \in 1..0 |-> 1], 1, 0)
    BY DEF Reciprocals
  <2>. QED
    BY <2>1
<1>2. ASSUME NEW m \in 1..M, m - 1 \in S PROVE m \in S
  <2>1. PICK h, d : Reciprocals(h, d, m - 1)
    BY <1>2
  <2>2. /\ d \in Nat \ {0} /\ \A n \in 1..(m - 1) : h[n] \in Nat \ {0} /\ n * h[n] = d
    BY <2>1 DEF Reciprocals
  <2>. DEFINE g == [n \in 1..m |-> IF n = m THEN d ELSE h[n] * m]
  <2>3. m \in Nat \ {0} /\ d * m \in Nat \ {0}
    BY <2>2
  <2>4. ASSUME NEW n \in 1..m PROVE g[n] \in Nat \ {0} /\ n * g[n] = d * m
    <3>1. CASE n = m
      BY <2>2, <2>3, <3>1
    <3>2. CASE n # m
      <4>1. n \in 1..(m - 1) /\ g[n] = h[n] * m
        BY <3>2
      <4>2. h[n] \in Nat \ {0} /\ n * h[n] = d
        BY <2>2, <4>1
      <4>3. n * (h[n] * m) = (n * h[n]) * m /\ h[n] * m \in Nat \ {0}
        BY <2>3, <4>2
      <4>. QED
        BY <4>1, <4>2, <4>3
    <3>. QED
      BY <3>1, <3>2
  <2>5. g = [n \in 1..m |-> g[n]]
    OBVIOUS
  <2>. HIDE DEF g
  <2>6. Reciprocals(g, d * m, m)
    BY <2>3, <2>4, <2>5 DEF Reciprocals
  <2>. QED
    BY <2>6
<1>3. \A m \in 0..M : m \in S
  <2>. HIDE DEF S
  <2>. QED
    BY <1>1, <1>2, BoundedInduction
<1>. QED
  BY <1>3

\* Books that differ by a multiple of a third on some members.
Differ(f, g, book, R, A, k) == \A r \in R : f[r] - g[r] = IF r \in A THEN book[r] * k ELSE 0

LEMMA SumScaled ==
    ASSUME NEW R, IsFiniteSet(R), NEW f \in [R -> Int], NEW g \in [R -> Int], NEW book \in [R -> Int],
           NEW A \in SUBSET R, NEW k \in Int, Differ(f, g, book, R, A, k)
    PROVE  SumFunctionOnSet(f, R) - SumFunctionOnSet(g, R) = SumFunctionOnSet(book, A) * k
<1>. DEFINE F == {s \in SUBSET R : SumFunctionOnSet(f, s) - SumFunctionOnSet(g, s)
                                       = SumFunctionOnSet(book, s \cap A) * k}
<1>1. {} \in F
  <2>1. {} \cap A = {} /\ 0 - 0 = 0 * k
    OBVIOUS
  <2>. QED
    BY <2>1, SumBase
<1>2. ASSUME NEW s \in SUBSET R, s # {}, \A x \in s : s \ {x} \in F PROVE s \in F
  <2>1. PICK x \in s : TRUE
    BY <1>2
  <2>. DEFINE u == s \ {x}
  <2>2. IsFiniteSet(s) /\ IsFiniteSet(u) /\ IsFiniteSet(s \cap A) /\ IsFiniteSet(u \cap A)
        /\ u \in SUBSET R /\ s \cap A \in SUBSET R /\ u \cap A \in SUBSET R
    <3>1. s \cap A \in SUBSET R /\ u \in SUBSET R /\ u \cap A \in SUBSET R
      OBVIOUS
    <3>. QED
      BY <3>1, FS_Subset
  <2>3. /\ SumFunctionOnSet(f, s) = f[x] + SumFunctionOnSet(f, u)
        /\ SumFunctionOnSet(g, s) = g[x] + SumFunctionOnSet(g, u)
    BY <2>1, <2>2, SumRemove
  <2>4. /\ SumFunctionOnSet(f, u) \in Int /\ SumFunctionOnSet(g, u) \in Int
        /\ SumFunctionOnSet(book, u \cap A) \in Int
    BY <2>2, SumType
  <2>5. SumFunctionOnSet(f, u) - SumFunctionOnSet(g, u) = SumFunctionOnSet(book, u \cap A) * k
    BY <1>2, <2>1
  <2>6. f[x] \in Int /\ g[x] \in Int /\ book[x] \in Int
    BY <2>1
  <2>7. CASE x \in A
    <3>1. (s \cap A) \ {x} = u \cap A /\ x \in s \cap A
      BY <2>1, <2>7
    <3>2. SumFunctionOnSet(book, s \cap A) = book[x] + SumFunctionOnSet(book, u \cap A)
      BY <2>2, <3>1, SumRemove
    <3>3. f[x] - g[x] = book[x] * k
      BY <2>1, <2>7 DEF Differ
    <3>4. PICK b \in Int : b = SumFunctionOnSet(book, u \cap A)
      BY <2>4
    <3>. HIDE DEF u
    <3>5. (book[x] + b) * k = book[x] * k + b * k /\ book[x] * k \in Int /\ b * k \in Int
      BY <2>6
    <3>6. SumFunctionOnSet(f, s) - SumFunctionOnSet(g, s) = book[x] * k + b * k
      BY <2>3, <2>4, <2>5, <2>6, <3>3, <3>4, <3>5
    <3>. QED
      BY <3>2, <3>4, <3>5, <3>6
  <2>8. CASE x \notin A
    <3>1. s \cap A = u \cap A
      BY <2>8
    <3>2. f[x] - g[x] = 0
      BY <2>1, <2>8 DEF Differ
    <3>. HIDE DEF u
    <3>3. SumFunctionOnSet(f, s) - SumFunctionOnSet(g, s) = SumFunctionOnSet(f, u) - SumFunctionOnSet(g, u)
      BY <2>3, <2>4, <2>6, <3>2
    <3>. QED
      BY <2>5, <3>1, <3>3
  <2>. QED
    BY <2>7, <2>8
<1>3. \A s \in SUBSET R : s \in F
  <2>. HIDE DEF F
  <2>. QED
    BY <1>1, <1>2, FiniteInduction
<1>4. R \cap A = A
  OBVIOUS
<1>. QED
  BY <1>3, <1>4

\* The price as a position sees it, and what the positions hold at a price, of
\* token 1 and of token 0.
Clip(price, r) == Upper(Ratio[r[1]], Lower(Ratio[r[2]], price))
Holds1(book, price) == SumFunctionOnSet([r \in Ranges |-> book[r] * Clip(price, r)], Ranges)
Holds0(book, h, price) == SumFunctionOnSet([r \in Ranges |-> book[r] * h[Clip(price, r)]], Ranges)
Prices == 1..MaxSqrtRatio

LEMMA ClipType ==
    ASSUME NEW r \in Ranges, NEW price \in Prices
    PROVE  /\ Clip(price, r) \in Prices
           /\ Ratio[r[1]] \in Prices /\ Ratio[r[2]] \in Prices /\ Ratio[r[1]] < Ratio[r[2]]
<1>1. r[1] \in MinTick..MaxTick /\ r[2] \in MinTick..MaxTick /\ r[1] < r[2]
  BY RangeEnds
<1>2. MaxTick \in MinTick..MaxTick /\ r[1] <= MaxTick /\ r[2] <= MaxTick
  BY <1>1, MathConstants
<1>3. /\ Ratio[r[1]] \in Nat \ {0} /\ Ratio[r[2]] \in Nat \ {0} /\ MaxSqrtRatio \in Nat \ {0}
      /\ Ratio[r[1]] <= MaxSqrtRatio /\ Ratio[r[2]] <= MaxSqrtRatio /\ Ratio[r[1]] < Ratio[r[2]]
  BY <1>1, <1>2, RatioType, RatioMonotone DEF MaxSqrtRatio
<1>. QED
  BY <1>3 DEF Clip, Upper, Lower, Prices

LEMMA HoldsType ==
    ASSUME NEW book \in Books, NEW price \in Prices, NEW h, NEW d, Reciprocals(h, d, MaxSqrtRatio)
    PROVE  /\ [r \in Ranges |-> book[r] * Clip(price, r)] \in [Ranges -> Int]
           /\ [r \in Ranges |-> book[r] * h[Clip(price, r)]] \in [Ranges -> Int]
           /\ Holds1(book, price) \in Int /\ Holds0(book, h, price) \in Int
<1>. DEFINE f == [r \in Ranges |-> book[r] * Clip(price, r)]
            g == [r \in Ranges |-> book[r] * h[Clip(price, r)]]
<1>1. ASSUME NEW r \in Ranges PROVE book[r] * Clip(price, r) \in Int /\ book[r] * h[Clip(price, r)] \in Int
  <2>1. Clip(price, r) \in Prices /\ book[r] \in Nat
    BY ClipType DEF Books
  <2>2. PICK c \in Nat : c = Clip(price, r)
    BY <2>1 DEF Prices
  <2>3. PICK k \in Nat : k = h[Clip(price, r)]
    BY <2>1 DEF Prices, Reciprocals
  <2>4. book[r] * c \in Int /\ book[r] * k \in Int
    BY <2>1
  <2>. QED
    BY <2>2, <2>3, <2>4
<1>2. f \in [Ranges -> Int] /\ g \in [Ranges -> Int]
  BY <1>1
<1>. HIDE DEF f, g
<1>3. SumFunctionOnSet(f, Ranges) \in Int /\ SumFunctionOnSet(g, Ranges) \in Int
  BY <1>2, RangesFinite, SumType
<1>. QED
  BY <1>2, <1>3 DEF f, g, Holds1, Holds0

\* Between two prices that no position ends between, each position sees both, or
\* neither.
LEMMA ClipMoves ==
    ASSUME NEW book \in Books, NEW r \in Ranges, book[r] # 0,
           NEW lo \in MinTick..MaxTick, NEW hi \in MinTick..MaxTick, NEW at \in lo..(hi - 1),
           \A t \in Initialized(book) : ~(lo < t /\ t < hi),
           NEW a \in Prices, NEW b \in Prices, Ratio[lo] <= a, a <= b, b <= Ratio[hi]
    PROVE  IF Covers(r, at) THEN Clip(a, r) = a /\ Clip(b, r) = b ELSE Clip(a, r) = Clip(b, r)
<1>1. /\ r[1] \in MinTick..MaxTick /\ r[2] \in MinTick..MaxTick /\ r[1] < r[2]
      /\ r[1] \in Int /\ r[2] \in Int /\ lo \in Int /\ hi \in Int /\ at \in Int
  BY RangeEnds, MathConstants
<1>2. r[1] \in Initialized(book) /\ r[2] \in Initialized(book)
  <2>1. ASSUME NEW t \in {r[1], r[2]} PROVE t \in Initialized(book)
    <3>. DEFINE S == {x \in Ranges : t \in {x[1], x[2]}}
    <3>1. S \in SUBSET Ranges /\ r \in S /\ IsFiniteSet(S)
      BY <2>1, RangesFinite
    <3>. HIDE DEF S
    <3>2. SumFunctionOnSet(book, S) \in Nat /\ SumFunctionOnSet(book, S) >= book[r]
      BY <3>1, SumNat DEF Books
    <3>3. book[r] \in Nat \ {0}
      BY DEF Books
    <3>4. GrossAt(book, t) > 0
      BY <3>2, <3>3 DEF GrossAt, S
    <3>. QED
      BY <1>1, <2>1, <3>4 DEF Initialized
  <2>. QED
    BY <2>1
<1>3. ~(lo < r[1] /\ r[1] < hi) /\ ~(lo < r[2] /\ r[2] < hi)
  BY <1>2
<1>4. /\ Ratio[lo] \in Nat /\ Ratio[hi] \in Nat /\ Ratio[r[1]] \in Nat /\ Ratio[r[2]] \in Nat
      /\ Ratio[r[1]] < Ratio[r[2]] /\ a \in Nat /\ b \in Nat
  BY <1>1, RatioType, RatioMonotone DEF Prices
<1>5. CASE Covers(r, at)
  <2>1. r[1] <= lo /\ hi <= r[2]
    BY <1>1, <1>3, <1>5 DEF Covers
  <2>2. Ratio[r[1]] <= Ratio[lo] /\ Ratio[hi] <= Ratio[r[2]]
    BY <1>1, <2>1, RatioMonotone
  <2>. QED
    BY <1>4, <1>5, <2>2 DEF Clip, Upper, Lower
<1>6. CASE ~Covers(r, at)
  <2>1. r[2] <= lo \/ hi <= r[1]
    BY <1>1, <1>3, <1>6 DEF Covers
  <2>2. Ratio[r[2]] <= Ratio[lo] \/ Ratio[hi] <= Ratio[r[1]]
    BY <1>1, <2>1, RatioMonotone
  <2>. QED
    BY <1>4, <1>6, <2>2 DEF Clip, Upper, Lower
<1>. QED
  BY <1>5, <1>6

LEMMA HoldsMove ==
    ASSUME NEW book \in Books, NEW h, NEW d, Reciprocals(h, d, MaxSqrtRatio),
           NEW lo \in MinTick..MaxTick, NEW hi \in MinTick..MaxTick, NEW at \in lo..(hi - 1),
           \A t \in Initialized(book) : ~(lo < t /\ t < hi),
           NEW a \in Prices, NEW b \in Prices, Ratio[lo] <= a, a <= b, b <= Ratio[hi],
           NEW L, L = LiquidityAt(book, at)
    PROVE  /\ Holds1(book, b) - Holds1(book, a) = L * (b - a)
           /\ Holds0(book, h, a) - Holds0(book, h, b) = L * (h[a] - h[b])
<1>. DEFINE A == {r \in Ranges : Covers(r, at)}
            f1 == [r \in Ranges |-> book[r] * Clip(b, r)]
            g1 == [r \in Ranges |-> book[r] * Clip(a, r)]
            f0 == [r \in Ranges |-> book[r] * h[Clip(a, r)]]
            g0 == [r \in Ranges |-> book[r] * h[Clip(b, r)]]
            k1 == b - a
            k0 == h[a] - h[b]
<1>1. f1 \in [Ranges -> Int] /\ g1 \in [Ranges -> Int] /\ f0 \in [Ranges -> Int] /\ g0 \in [Ranges -> Int]
  BY HoldsType
<1>2. a \in Nat /\ b \in Nat /\ h[a] \in Nat /\ h[b] \in Nat /\ k1 \in Int /\ k0 \in Int
  BY DEF Prices, Reciprocals
<1>3. ASSUME NEW r \in Ranges
      PROVE  /\ f1[r] - g1[r] = IF r \in A THEN book[r] * k1 ELSE 0
             /\ f0[r] - g0[r] = IF r \in A THEN book[r] * k0 ELSE 0
  <2>1. /\ f1[r] = book[r] * Clip(b, r) /\ g1[r] = book[r] * Clip(a, r)
        /\ f0[r] = book[r] * h[Clip(a, r)] /\ g0[r] = book[r] * h[Clip(b, r)]
        /\ book[r] \in Nat /\ f1[r] \in Int /\ g1[r] \in Int /\ f0[r] \in Int /\ g0[r] \in Int
    BY <1>1 DEF Books
  <2>. HIDE DEF f1, g1, f0, g0
  <2>2. CASE book[r] = 0
    <3>1. Clip(a, r) \in Nat /\ Clip(b, r) \in Nat /\ h[Clip(a, r)] \in Nat /\ h[Clip(b, r)] \in Nat
      <4>1. Clip(a, r) \in Prices /\ Clip(b, r) \in Prices
        BY ClipType
      <4>2. \A n \in Prices : n \in Nat /\ h[n] \in Nat
        BY DEF Prices, Reciprocals
      <4>. QED
        BY <4>1, <4>2, Zenon
    <3>2. f1[r] = 0 /\ g1[r] = 0 /\ f0[r] = 0 /\ g0[r] = 0
      BY <2>1, <2>2, <3>1
    <3>3. book[r] * k1 = 0 /\ book[r] * k0 = 0
      BY <1>2, <2>2
    <3>. QED
      BY <3>2, <3>3
  <2>3. CASE book[r] # 0 /\ Covers(r, at)
    <3>1. Clip(a, r) = a /\ Clip(b, r) = b
      BY <2>3, ClipMoves
    <3>2. /\ book[r] * b - book[r] * a = book[r] * (b - a)
          /\ book[r] * h[a] - book[r] * h[b] = book[r] * (h[a] - h[b])
      BY <1>2, <2>1
    <3>3. r \in A
      BY <2>3
    <3>. QED
      BY <2>1, <3>1, <3>2, <3>3
  <2>4. CASE book[r] # 0 /\ ~Covers(r, at)
    <3>1. Clip(a, r) = Clip(b, r)
      BY <2>4, ClipMoves
    <3>2. f1[r] = g1[r] /\ f0[r] = g0[r] /\ r \notin A
      BY <2>1, <2>4, <3>1
    <3>. QED
      BY <2>1, <3>2
  <2>. QED
    BY <2>2, <2>3, <2>4
<1>4. book \in [Ranges -> Int] /\ IsFiniteSet(Ranges) /\ A \in SUBSET Ranges
  BY RangesFinite DEF Books
<1>5. SumFunctionOnSet(book, A) = L
  BY DEF LiquidityAt
<1>6. /\ Holds1(book, b) = SumFunctionOnSet(f1, Ranges) /\ Holds1(book, a) = SumFunctionOnSet(g1, Ranges)
      /\ Holds0(book, h, a) = SumFunctionOnSet(f0, Ranges) /\ Holds0(book, h, b) = SumFunctionOnSet(g0, Ranges)
  BY DEF Holds1, Holds0
<1>. HIDE DEF A, f1, g1, f0, g0
<1>7. SumFunctionOnSet(f1, Ranges) - SumFunctionOnSet(g1, Ranges) = SumFunctionOnSet(book, A) * k1
  <2>1. Differ(f1, g1, book, Ranges, A, k1)
    BY <1>3, Zenon DEF Differ
  <2>2. k1 \in Int
    BY <1>2
  <2>. HIDE DEF k1
  <2>. QED
    BY <1>1, <1>4, <2>1, <2>2, SumScaled
<1>8. SumFunctionOnSet(f0, Ranges) - SumFunctionOnSet(g0, Ranges) = SumFunctionOnSet(book, A) * k0
  <2>1. Differ(f0, g0, book, Ranges, A, k0)
    BY <1>3, Zenon DEF Differ
  <2>2. k0 \in Int
    BY <1>2
  <2>. HIDE DEF k0
  <2>. QED
    BY <1>1, <1>4, <2>1, <2>2, SumScaled
<1>. QED
  BY <1>5, <1>6, <1>7, <1>8

\* At a higher price the positions hold no less of token 1 and no more of token 0,
\* and where one stays the other does.
LEMMA ClipMonotone ==
    ASSUME NEW r \in Ranges, NEW a \in Prices, NEW b \in Prices, a <= b
    PROVE  Clip(a, r) <= Clip(b, r)
<1>1. /\ Ratio[r[1]] \in Nat /\ Ratio[r[2]] \in Nat /\ Ratio[r[1]] < Ratio[r[2]]
      /\ a \in Nat /\ b \in Nat
  BY ClipType DEF Prices
<1>. QED
  BY <1>1 DEF Clip, Upper, Lower

LEMMA ReciprocalFalls ==
    ASSUME NEW h, NEW d, Reciprocals(h, d, MaxSqrtRatio), NEW a \in Prices, NEW b \in Prices, a <= b
    PROVE  h[b] <= h[a] /\ (h[b] = h[a] => a = b)
<1>1. /\ a \in Nat \ {0} /\ b \in Nat \ {0} /\ h[a] \in Nat \ {0} /\ h[b] \in Nat \ {0}
      /\ a * h[a] = d /\ b * h[b] = d
  BY DEF Prices, Reciprocals
<1>2. PICK k \in Nat : b = a + k
  BY <1>1
<1>3. PICK x \in Nat \ {0} : x = h[a]
  BY <1>1
<1>4. PICK y \in Nat \ {0} : y = h[b]
  BY <1>1
<1>5. a * x = b * y
  BY <1>1, <1>3, <1>4
<1>6. b * y = a * y + k * y /\ k * y \in Nat /\ a * y \in Nat /\ a * x \in Nat
  BY <1>1, <1>2
<1>7. y <= x
  <2>. SUFFICES ASSUME x < y PROVE FALSE
    OBVIOUS
  <2>1. PICK j \in Nat \ {0} : y = x + j
    OBVIOUS
  <2>2. a * y = a * x + a * j /\ a * j \in Nat \ {0}
    BY <1>1, <2>1
  <2>. QED
    BY <1>5, <1>6, <2>2
<1>8. y = x => a = b
  <2>. SUFFICES ASSUME y = x, k # 0 PROVE FALSE
    BY <1>1, <1>2
  <2>1. k * y \in Nat \ {0}
    OBVIOUS
  <2>. QED
    BY <1>5, <1>6, <2>1
<1>. QED
  BY <1>3, <1>4, <1>7, <1>8

LEMMA HoldsOrdered ==
    ASSUME NEW book \in Books, NEW h, NEW d, Reciprocals(h, d, MaxSqrtRatio),
           NEW a \in Prices, NEW b \in Prices, a <= b
    PROVE  /\ Holds1(book, a) <= Holds1(book, b) /\ Holds0(book, h, b) <= Holds0(book, h, a)
           /\ Holds1(book, a) = Holds1(book, b) <=> Holds0(book, h, b) = Holds0(book, h, a)
<1>. DEFINE f1 == [r \in Ranges |-> book[r] * Clip(b, r)]
            g1 == [r \in Ranges |-> book[r] * Clip(a, r)]
            f0 == [r \in Ranges |-> book[r] * h[Clip(a, r)]]
            g0 == [r \in Ranges |-> book[r] * h[Clip(b, r)]]
            e1 == [r \in Ranges |-> f1[r] - g1[r]]
            e0 == [r \in Ranges |-> f0[r] - g0[r]]
<1>1. f1 \in [Ranges -> Int] /\ g1 \in [Ranges -> Int] /\ f0 \in [Ranges -> Int] /\ g0 \in [Ranges -> Int]
  BY HoldsType
<1>2. ASSUME NEW r \in Ranges
      PROVE  e1[r] \in Nat /\ e0[r] \in Nat /\ (e1[r] = 0 <=> e0[r] = 0)
  <2>1. /\ f1[r] = book[r] * Clip(b, r) /\ g1[r] = book[r] * Clip(a, r)
        /\ f0[r] = book[r] * h[Clip(a, r)] /\ g0[r] = book[r] * h[Clip(b, r)]
        /\ e1[r] = f1[r] - g1[r] /\ e0[r] = f0[r] - g0[r]
    OBVIOUS
  <2>. HIDE DEF f1, g1, f0, g0, e1, e0
  <2>2. PICK x \in Prices : x = Clip(a, r)
    BY ClipType
  <2>3. PICK y \in Prices : y = Clip(b, r)
    BY ClipType
  <2>4. x <= y
    BY <2>2, <2>3, ClipMonotone
  <2>5. h[y] <= h[x] /\ (h[y] = h[x] => x = y)
    BY <2>4, ReciprocalFalls
  <2>6. x \in Nat /\ y \in Nat /\ h[x] \in Nat /\ h[y] \in Nat
    BY DEF Prices, Reciprocals
  <2>7. PICK n \in Nat : n = book[r]
    BY DEF Books
  <2>8. PICK i \in Nat : y = x + i
    BY <2>4, <2>6
  <2>9. PICK j \in Nat : h[x] = h[y] + j
    <3>1. \A u, v \in Nat : v <= u => \E j \in Nat : u = v + j
      OBVIOUS
    <3>. QED
      BY <2>5, <2>6, <3>1, Zenon
  <2>10. e1[r] = n * i
    <3>1. n * y = n * x + n * i /\ n * x \in Nat /\ n * i \in Nat
      BY <2>6, <2>8
    <3>2. e1[r] = n * y - n * x
      BY <2>1, <2>2, <2>3, <2>7
    <3>. QED
      BY <3>1, <3>2
  <2>11. e0[r] = n * j
    <3>1. PICK u \in Nat : u = h[x]
      BY <2>6
    <3>2. PICK v \in Nat : v = h[y]
      BY <2>6
    <3>3. n * u = n * v + n * j /\ n * v \in Nat /\ n * j \in Nat
      BY <2>9, <3>1, <3>2
    <3>4. e0[r] = n * u - n * v
      BY <2>1, <2>2, <2>3, <2>7, <3>1, <3>2
    <3>. QED
      BY <3>3, <3>4
  <2>12. i = 0 <=> j = 0
    BY <2>5, <2>6, <2>8, <2>9
  <2>13. n * i \in Nat /\ n * j \in Nat /\ (n * i = 0 <=> n = 0 \/ i = 0) /\ (n * j = 0 <=> n = 0 \/ j = 0)
    OBVIOUS
  <2>. QED
    BY <2>10, <2>11, <2>12, <2>13
<1>3. /\ Holds1(book, b) = SumFunctionOnSet(f1, Ranges) /\ Holds1(book, a) = SumFunctionOnSet(g1, Ranges)
      /\ Holds0(book, h, a) = SumFunctionOnSet(f0, Ranges) /\ Holds0(book, h, b) = SumFunctionOnSet(g0, Ranges)
  BY DEF Holds1, Holds0
<1>4. e1 \in [Ranges -> Nat] /\ e0 \in [Ranges -> Nat] /\ e1 \in [Ranges -> Int] /\ e0 \in [Ranges -> Int]
  BY <1>2
<1>5. Differ(f1, g1, e1, Ranges, Ranges, 1) /\ Differ(f0, g0, e0, Ranges, Ranges, 1)
  <2>1. ASSUME NEW r \in Ranges PROVE f1[r] - g1[r] = e1[r] * 1 /\ f0[r] - g0[r] = e0[r] * 1
    <3>1. e1[r] = f1[r] - g1[r] /\ e0[r] = f0[r] - g0[r] /\ e1[r] \in Int /\ e0[r] \in Int
      BY <1>2
    <3>. HIDE DEF f1, g1, f0, g0, e1, e0
    <3>. QED
      BY <3>1
  <2>. HIDE DEF f1, g1, f0, g0, e1, e0
  <2>. QED
    BY <2>1 DEF Differ
<1>. HIDE DEF f1, g1, f0, g0, e1, e0
<1>6. IsFiniteSet(Ranges) /\ Ranges \in SUBSET Ranges /\ 1 \in Int
  BY RangesFinite
<1>7. /\ SumFunctionOnSet(f1, Ranges) - SumFunctionOnSet(g1, Ranges) = SumFunctionOnSet(e1, Ranges) * 1
      /\ SumFunctionOnSet(f0, Ranges) - SumFunctionOnSet(g0, Ranges) = SumFunctionOnSet(e0, Ranges) * 1
  BY <1>1, <1>4, <1>5, <1>6, SumScaled
<1>8. /\ SumFunctionOnSet(e1, Ranges) \in Nat /\ SumFunctionOnSet(e0, Ranges) \in Nat
      /\ (\A r \in Ranges : e1[r] = 0) => SumFunctionOnSet(e1, Ranges) = 0
      /\ (\A r \in Ranges : e0[r] = 0) => SumFunctionOnSet(e0, Ranges) = 0
      /\ \A r \in Ranges : SumFunctionOnSet(e1, Ranges) >= e1[r] /\ SumFunctionOnSet(e0, Ranges) >= e0[r]
  BY <1>4, <1>6, SumNat
<1>9. /\ Holds1(book, a) \in Int /\ Holds1(book, b) \in Int
      /\ Holds0(book, h, a) \in Int /\ Holds0(book, h, b) \in Int
  BY HoldsType
<1>10. SumFunctionOnSet(e1, Ranges) = 0 <=> SumFunctionOnSet(e0, Ranges) = 0
  <2>1. ASSUME SumFunctionOnSet(e1, Ranges) = 0 PROVE SumFunctionOnSet(e0, Ranges) = 0
    <3>1. \A r \in Ranges : e1[r] = 0
      BY <1>2, <1>8, <2>1
    <3>2. \A r \in Ranges : e0[r] = 0
      BY <1>2, <3>1
    <3>. QED
      BY <1>8, <3>2
  <2>2. ASSUME SumFunctionOnSet(e0, Ranges) = 0 PROVE SumFunctionOnSet(e1, Ranges) = 0
    <3>1. \A r \in Ranges : e0[r] = 0
      BY <1>2, <1>8, <2>2
    <3>2. \A r \in Ranges : e1[r] = 0
      BY <1>2, <3>1
    <3>. QED
      BY <1>8, <3>2
  <2>. QED
    BY <2>1, <2>2
<1>. QED
  BY <1>3, <1>7, <1>8, <1>9, <1>10

LEMMA HoldsOpposed ==
    ASSUME NEW book \in Books, NEW h, NEW d, Reciprocals(h, d, MaxSqrtRatio),
           NEW a \in Prices, NEW b \in Prices
    PROVE  Holds1(book, a) <= Holds1(book, b) <=> Holds0(book, h, b) <= Holds0(book, h, a)
<1>1. a \in Nat /\ b \in Nat
  BY DEF Prices
<1>2. /\ Holds1(book, a) \in Int /\ Holds1(book, b) \in Int
      /\ Holds0(book, h, a) \in Int /\ Holds0(book, h, b) \in Int
  BY HoldsType
<1>3. CASE a <= b
  BY <1>2, <1>3, HoldsOrdered
<1>4. CASE b <= a
  <2>1. /\ Holds1(book, b) <= Holds1(book, a) /\ Holds0(book, h, a) <= Holds0(book, h, b)
        /\ Holds1(book, b) = Holds1(book, a) <=> Holds0(book, h, a) = Holds0(book, h, b)
    BY <1>4, HoldsOrdered
  <2>. QED
    BY <1>2, <2>1
<1>. QED
  BY <1>1, <1>3, <1>4

----------------------------------------------------------------------------
(* A step takes in at least what the positions' holdings grow by, and gives    *)
(* at most what they shrink by.                                              *)

CoveredDown(p, x, L, in, out) == (L * Q) * (p - x) <= in * (x * p) /\ out * Q <= L * (p - x)
CoveredUp(p, x, L, in, out) == L * (x - p) <= in * Q /\ out * (x * p) <= (L * Q) * (x - p)

\* The full cost of a way down, and what a price paid for down has cost.
LEMMA CostCoversDown ==
    ASSUME NEW p \in Ratios, NEW x \in Ratios, x <= p, NEW L \in Nat, NEW in, in = CostDown(p, x, L)
    PROVE  (L * Q) * (p - x) <= in * (x * p)
<1>. DEFINE N == L * Q
            w == N * (p - x)
            y == DivCeil(w, p)
<1>0. p \in Nat \ {0} /\ x \in Nat \ {0} /\ p - x \in Nat /\ Q \in Nat \ {0}
  BY MathConstants DEF Ratios
<1>1. N \in Nat /\ w \in Nat
  BY <1>0, Product
<1>2. in = DivCeil(y, x)
  BY <1>0 DEF CostDown, AmountIn, Amount0Delta, MulDivRoundingUp, Lower, Upper
<1>. HIDE DEF w
<1>3. y \in Nat /\ w <= y * p
  BY <1>0, <1>1, Ceiling
<1>. HIDE DEF y
<1>4. in \in Nat /\ y <= in * x
  BY <1>0, <1>2, <1>3, Ceiling
<1>5. PICK k \in Nat : k = in * x
  BY <1>0, <1>4
<1>6. y * p <= k * p /\ y * p \in Nat /\ k * p \in Nat
  BY <1>0, <1>3, <1>4, <1>5, Monotone
<1>7. k * p = in * (x * p)
  BY <1>0, <1>4, <1>5
<1>8. w <= in * (x * p)
  BY <1>1, <1>3, <1>6, <1>7
<1>. QED
  BY <1>8 DEF w

LEMMA PaymentCoversDown ==
    ASSUME NEW p \in Ratios, NEW L \in Nat \ {0}, NEW in \in Nat, NEW x \in Ratios, x = PayDown(p, L, in)
    PROVE  (L * Q) * (p - x) <= in * (x * p)
<1>. DEFINE N == L * Q
            D == N + in * p
<1>0. p \in Nat \ {0} /\ x \in Nat \ {0} /\ Q \in Nat \ {0} /\ in * p \in Nat
  BY MathConstants DEF Ratios
<1>1. N \in Nat \ {0} /\ N * p \in Nat /\ D \in Nat \ {0}
  BY <1>0, Product
<1>2. x = IF in = 0 THEN p ELSE DivCeil(N * p, D)
  BY DEF PayDown, NextSqrtPriceFromInput, NextSqrtPriceFromAmount0RoundingUp, MulDivRoundingUp
<1>. HIDE DEF N
<1>3. x * D = N * x + in * (x * p) /\ N * (p - x) = N * p - N * x /\ N * x \in Int /\ in * (x * p) \in Int
  BY <1>0, <1>1
<1>. HIDE DEF D
<1>4. CASE in = 0
  <2>1. x = p
    BY <1>2, <1>4
  <2>2. N * (p - x) = 0 /\ in * (x * p) = 0
    BY <1>0, <1>1, <1>4, <2>1
  <2>3. N * (p - x) <= in * (x * p)
    BY <2>2
  <2>. QED
    BY <2>3 DEF N
<1>5. CASE in # 0
  <2>1. x = DivCeil(N * p, D)
    BY <1>2, <1>5
  <2>2. N * p <= x * D
    BY <1>1, <2>1, Ceiling
  <2>3. N * (p - x) <= in * (x * p)
    BY <1>1, <1>3, <2>2
  <2>. QED
    BY <2>3 DEF N
<1>. QED
  BY <1>4, <1>5

LEMMA GiftCoveredDown ==
    ASSUME NEW p \in Ratios, NEW x \in Ratios, x <= p, NEW L \in Nat, NEW out, out = GiveDown(p, x, L)
    PROVE  out * Q <= L * (p - x)
<1>0. p \in Nat \ {0} /\ x \in Nat \ {0} /\ p - x \in Nat /\ Q \in Nat \ {0} /\ L * (p - x) \in Nat
  BY MathConstants DEF Ratios
<1>1. Upper(p, x) = p /\ Lower(p, x) = x
  BY <1>0 DEF Upper, Lower
<1>2. out = (L * (p - x)) \div Q
  BY <1>1 DEF GiveDown, AmountOut, Amount1Delta, MulDiv
<1>. QED
  BY <1>0, <1>2, Quotient

LEMMA CostCoversUp ==
    ASSUME NEW p \in Ratios, NEW x \in Ratios, p <= x, NEW L \in Nat, NEW in, in = CostUp(p, x, L)
    PROVE  L * (x - p) <= in * Q
<1>0. p \in Nat \ {0} /\ x \in Nat \ {0} /\ x - p \in Nat /\ Q \in Nat \ {0} /\ L * (x - p) \in Nat
  BY MathConstants DEF Ratios
<1>1. Upper(p, x) = x /\ Lower(p, x) = p
  BY <1>0 DEF Upper, Lower
<1>2. in = DivCeil(L * (x - p), Q)
  BY <1>1 DEF CostUp, AmountIn, Amount1Delta, MulDivRoundingUp
<1>. QED
  BY <1>0, <1>2, Ceiling

LEMMA PaymentCoversUp ==
    ASSUME NEW p \in Ratios, NEW L \in Nat \ {0}, NEW in \in Nat, NEW x, x = PayUp(p, L, in)
    PROVE  L * (x - p) <= in * Q
<1>. DEFINE n == in * Q
            d == n \div L
<1>0. p \in Nat \ {0} /\ n \in Nat
  BY MathConstants DEF Ratios
<1>1. x = p + d
  BY DEF PayUp, NextSqrtPriceFromInput, NextSqrtPriceFromAmount1RoundingDown
<1>. HIDE DEF n
<1>2. d \in Nat /\ d * L <= n
  BY <1>0, Quotient
<1>. HIDE DEF d
<1>3. x - p = d /\ L * d = d * L
  BY <1>0, <1>1, <1>2
<1>4. L * (x - p) <= n
  BY <1>2, <1>3
<1>. QED
  BY <1>4 DEF n

LEMMA GiftCoveredUp ==
    ASSUME NEW p \in Ratios, NEW x \in Ratios, p <= x, NEW L \in Nat, NEW out, out = GiveUp(p, x, L)
    PROVE  out * (x * p) <= (L * Q) * (x - p)
<1>. DEFINE N == L * Q
            w == N * (x - p)
            y == w \div x
<1>0. p \in Nat \ {0} /\ x \in Nat \ {0} /\ x - p \in Nat /\ Q \in Nat \ {0}
  BY MathConstants DEF Ratios
<1>1. N \in Nat /\ w \in Nat
  BY <1>0, Product
<1>2. Upper(p, x) = x /\ Lower(p, x) = p
  BY <1>0 DEF Upper, Lower
<1>3. out = y \div p
  BY <1>2 DEF GiveUp, AmountOut, Amount0Delta, MulDiv
<1>. HIDE DEF w
<1>4. y \in Nat /\ y * x <= w
  BY <1>0, <1>1, Quotient
<1>. HIDE DEF y
<1>5. out \in Nat /\ out * p <= y
  BY <1>0, <1>3, <1>4, Quotient
<1>6. PICK k \in Nat : k = out * p
  BY <1>0, <1>5
<1>7. k * x <= y * x /\ k * x \in Nat /\ y * x \in Nat
  BY <1>0, <1>4, <1>5, <1>6, Monotone
<1>8. k * x = out * (x * p)
  BY <1>0, <1>5, <1>6
<1>9. out * (x * p) <= w
  BY <1>1, <1>4, <1>7, <1>8
<1>. QED
  BY <1>9 DEF w

Taken(p, t, L, i, z) ==
    /\ i.out = AmountOut(p, i.price, L, z)
    /\ \/ i.price = t /\ i.in = AmountIn(p, t, L, z)
       \/ L # 0 /\ i.price = NextSqrtPriceFromInput(p, L, i.in, z)

LEMMA StepTaken ==
    ASSUME NEW p \in Ratios, NEW t \in Ratios, NEW L \in Nat, NEW rem \in Nat,
           NEW fee \in 0..(MaxFee - 1), NEW i, i = StepExactIn(p, t, L, rem, fee)
    PROVE  Taken(p, t, L, i, p >= t)
<1>. DEFINE z == p >= t
            lessFee == MulDiv(rem, MaxFee - fee, MaxFee)
            full == AmountIn(p, t, L, z)
            reaches == lessFee >= full
            in == IF reaches THEN full ELSE lessFee
            x == IF reaches THEN t ELSE NextSqrtPriceFromInput(p, L, in, z)
            out == IF x = NoPrice THEN 0 ELSE AmountOut(p, x, L, z)
<1>1. i.price = x /\ i.in = in /\ i.out = out
  BY DEF StepExactIn
<1>2. StepResult(i, p, t, L)
  BY StepInResult
<1>3. x \in Ratios /\ x # NoPrice
  <2>. HIDE DEF x
  <2>. QED
    BY <1>1, <1>2 DEF StepResult, Ratios, NoPrice
<1>4. out = AmountOut(p, x, L, z)
  <2>. HIDE DEF x
  <2>. QED
    BY <1>3
<1>5. CASE reaches
  <2>1. x = t /\ in = full
    BY <1>5
  <2>. HIDE DEF x, in, out, full, reaches
  <2>2. i.price = t /\ i.in = full /\ i.out = AmountOut(p, i.price, L, z)
    BY <1>1, <1>4, <2>1, Zenon
  <2>. QED
    BY <2>2, Zenon DEF Taken, full
<1>6. CASE ~reaches
  <2>1. x = NextSqrtPriceFromInput(p, L, in, z)
    BY <1>6
  <2>2. L # 0
    <3>1. z \in BOOLEAN
      OBVIOUS
    <3>2. full \in Nat /\ (L = 0 => full = 0)
      BY <3>1, AmountTypes
    <3>3. lessFee \in Nat
      <4>. DEFINE g == MaxFee - fee
      <4>1. g \in Nat /\ MaxFee \in Nat \ {0} /\ rem * g \in Nat
        BY MathConstants, Product
      <4>. HIDE DEF g
      <4>2. MulDiv(rem, g, MaxFee) \in Nat
        BY <4>1, Quotient DEF MulDiv
      <4>. QED
        BY <4>2 DEF g
    <3>. HIDE DEF full, lessFee, z
    <3>. QED
      BY <1>6, <3>2, <3>3
  <2>. HIDE DEF x, in, out, reaches
  <2>3. i.price = NextSqrtPriceFromInput(p, L, i.in, z) /\ i.out = AmountOut(p, i.price, L, z)
    BY <1>1, <1>4, <2>1, Zenon
  <2>. QED
    BY <2>2, <2>3, Zenon DEF Taken
<1>. QED
  BY <1>5, <1>6

LEMMA StepCovered ==
    ASSUME NEW p \in Ratios, NEW t \in Ratios, NEW L \in Nat, NEW rem \in Nat,
           NEW fee \in 0..(MaxFee - 1), NEW i, i = StepExactIn(p, t, L, rem, fee)
    PROVE  /\ t <= p => CoveredDown(p, i.price, L, i.in, i.out) /\ i.price <= p /\ t <= i.price
           /\ p <= t => CoveredUp(p, i.price, L, i.in, i.out) /\ p <= i.price /\ i.price <= t
<1>. DEFINE x == i.price
            in == i.in
            out == i.out
<1>1. Taken(p, t, L, i, p >= t)
  BY StepTaken
<1>2. StepResult(i, p, t, L)
  BY StepInResult
<1>3. x \in Ratios /\ Between(p, t, x) /\ in \in Nat /\ out \in Nat
  BY <1>2 DEF StepResult
<1>4. p \in Nat \ {0} /\ t \in Nat \ {0} /\ Q \in Nat \ {0} /\ x \in Nat \ {0}
  BY <1>3, MathConstants DEF Ratios
<1>5. CASE (p >= t) = TRUE
  <2>1. x <= p /\ t <= x /\ t <= p
    BY <1>5 , <1>3 DEF Between
  <2>2. Taken(p, t, L, i, TRUE)
    BY <1>1, <1>5, Zenon
  <2>3. /\ out = GiveDown(p, x, L)
        /\ (x = t /\ in = CostDown(p, t, L)) \/ (L # 0 /\ x = PayDown(p, L, in))
    BY <2>2, Zenon DEF Taken, GiveDown, CostDown, PayDown
  <2>. HIDE DEF x, in, out
  <2>4. out * Q <= L * (p - x)
    BY <1>3, <2>1, <2>3, GiftCoveredDown
  <2>5. (L * Q) * (p - x) <= in * (x * p)
    <3>1. CASE x = t /\ in = CostDown(p, t, L)
      <4>1. in = CostDown(p, x, L)
        BY <3>1
      <4>. QED
        BY <1>3, <2>1, <4>1, CostCoversDown
    <3>2. CASE L # 0 /\ x = PayDown(p, L, in)
      <4>1. L \in Nat \ {0}
        BY <3>2
      <4>. QED
        BY <1>3, <3>2, <4>1, PaymentCoversDown
    <3>. QED
      BY <2>3, <3>1, <3>2
  <2>6. CoveredDown(p, x, L, in, out)
    BY <2>4, <2>5 DEF CoveredDown
  <2>7. p <= t => CoveredUp(p, x, L, in, out) /\ p <= x /\ x <= t
    <3>. SUFFICES ASSUME p <= t PROVE CoveredUp(p, x, L, in, out) /\ p <= x /\ x <= t
      OBVIOUS
    <3>1. x = p /\ p - x = 0 /\ x - p = 0 /\ x <= t /\ p <= x
      BY <1>4, <2>1
    <3>2. L * (p - x) = 0 /\ L * (x - p) = 0 /\ (L * Q) * (x - p) = 0
      BY <1>4, <3>1
    <3>3. out * Q <= 0
      BY <2>4, <3>2
    <3>4. out = 0
      BY <1>3, <1>4, <3>3
    <3>5. out * (x * p) = 0 /\ in * Q \in Nat
      BY <1>3, <1>4, <3>4
    <3>6. CoveredUp(p, x, L, in, out)
      BY <3>2, <3>5 DEF CoveredUp
    <3>. QED
      BY <3>1, <3>6
  <2>. QED
    BY <2>1, <2>6, <2>7 DEF x, in, out
<1>6. CASE (p >= t) = FALSE
  <2>1. p <= x /\ x <= t /\ ~(t <= p)
    BY <1>3, <1>4, <1>6 DEF Between
  <2>2. Taken(p, t, L, i, FALSE)
    BY <1>1, <1>6, Zenon
  <2>3. /\ out = GiveUp(p, x, L)
        /\ (x = t /\ in = CostUp(p, t, L)) \/ (L # 0 /\ x = PayUp(p, L, in))
    BY <2>2, Zenon DEF Taken, GiveUp, CostUp, PayUp
  <2>. HIDE DEF x, in, out
  <2>4. out * (x * p) <= (L * Q) * (x - p)
    BY <1>3, <2>1, <2>3, GiftCoveredUp
  <2>5. L * (x - p) <= in * Q
    <3>1. CASE x = t /\ in = CostUp(p, t, L)
      <4>1. in = CostUp(p, x, L)
        BY <3>1
      <4>. QED
        BY <1>3, <2>1, <4>1, CostCoversUp
    <3>2. CASE L # 0 /\ x = PayUp(p, L, in)
      <4>1. L \in Nat \ {0}
        BY <3>2
      <4>. QED
        BY <1>3, <3>2, <4>1, PaymentCoversUp
    <3>. QED
      BY <2>3, <3>1, <3>2
  <2>6. CoveredUp(p, x, L, in, out)
    BY <2>4, <2>5 DEF CoveredUp
  <2>. QED
    BY <2>1, <2>6 DEF x, in, out
<1>7. (p >= t) = TRUE \/ (p >= t) = FALSE
  OBVIOUS
<1>. QED
  BY <1>5, <1>6, <1>7

\* The same in terms of reciprocals.
LEMMA Reciprocate ==
    ASSUME NEW N \in Nat, NEW c \in Nat, NEW d \in Nat \ {0}, NEW x \in Nat \ {0}, NEW p \in Nat \ {0},
           NEW hx \in Nat, NEW hp \in Nat, x * hx = d, p * hp = d, NEW diff \in Nat, p = x + diff
    PROVE  /\ N * diff <= c * (x * p) => N * (hx - hp) <= c * d
           /\ c * (x * p) <= N * diff => c * d <= N * (hx - hp)
<1>1. PICK e \in Int : e = hx - hp
  OBVIOUS
<1>2. PICK k \in Nat : k = hx * hp
  OBVIOUS
<1>3. diff * k = e * d
  <2>1. p * k = hx * d
    <3>1. p * (hx * hp) = hx * (p * hp)
      OBVIOUS
    <3>. QED
      BY <1>2, <3>1
  <2>2. x * k = hp * d
    <3>1. x * (hx * hp) = hp * (x * hx)
      OBVIOUS
    <3>. QED
      BY <1>2, <3>1
  <2>3. p * k = x * k + diff * k /\ x * k \in Nat /\ diff * k \in Nat /\ hx * d \in Nat /\ hp * d \in Nat
    OBVIOUS
  <2>4. e * d = hx * d - hp * d
    BY <1>1
  <2>. QED
    BY <2>1, <2>2, <2>3, <2>4
<1>4. (x * p) * k = d * d
  <2>1. (x * p) * (hx * hp) = (x * hx) * (p * hp)
    OBVIOUS
  <2>. QED
    BY <1>2, <2>1
<1>5. PICK m \in Nat : m = x * p
  OBVIOUS
<1>6. (N * diff) * k = (N * e) * d
  <2>1. (N * diff) * k = N * (diff * k)
    OBVIOUS
  <2>2. N * (e * d) = (N * e) * d
    BY <1>1
  <2>. QED
    BY <1>3, <2>1, <2>2
<1>7. (c * m) * k = (c * d) * d
  <2>1. (c * m) * k = c * (m * k) /\ c * (d * d) = (c * d) * d
    OBVIOUS
  <2>. QED
    BY <1>4, <1>5, <2>1
<1>8. PICK a \in Int : a = N * e
  OBVIOUS
<1>9. PICK b \in Int : b = c * d
  OBVIOUS
<1>10. PICK nd \in Int : nd = N * diff
  OBVIOUS
<1>11. PICK cm \in Int : cm = c * m
  OBVIOUS
<1>12. nd * k = a * d /\ cm * k = b * d
  BY <1>6, <1>7, <1>8, <1>9, <1>10, <1>11
<1>13. nd <= cm => a <= b
  <2>. SUFFICES ASSUME nd <= cm, b < a PROVE FALSE
    OBVIOUS
  <2>1. nd * k <= cm * k
    BY IntMonotone
  <2>2. PICK j \in Nat \ {0} : a = b + j
    OBVIOUS
  <2>3. a * d = b * d + j * d /\ j * d \in Nat \ {0} /\ b * d \in Int
    BY <2>2
  <2>. QED
    BY <1>12, <2>1, <2>3
<1>14. cm <= nd => b <= a
  <2>. SUFFICES ASSUME cm <= nd, a < b PROVE FALSE
    OBVIOUS
  <2>1. cm * k <= nd * k
    BY IntMonotone
  <2>2. PICK j \in Nat \ {0} : b = a + j
    OBVIOUS
  <2>3. b * d = a * d + j * d /\ j * d \in Nat \ {0} /\ a * d \in Int
    BY <2>2
  <2>. QED
    BY <1>12, <2>1, <2>3
<1>. QED
  BY <1>1, <1>5, <1>8, <1>9, <1>10, <1>11, <1>13, <1>14

----------------------------------------------------------------------------
(* An exact input, step by step and over the whole loop. *)

\* A step between two prices that no position ends between.
LEMMA TradesDown ==
    ASSUME NEW book \in Books, NEW h, NEW d, Reciprocals(h, d, MaxSqrtRatio),
           NEW lo \in MinTick..MaxTick, NEW hi \in MinTick..MaxTick, NEW at \in lo..(hi - 1),
           \A t \in Initialized(book) : ~(lo < t /\ t < hi),
           NEW p \in Ratios, NEW x \in Ratios, Ratio[lo] <= x, x <= p, p <= Ratio[hi],
           NEW L \in Nat, L = LiquidityAt(book, at),
           NEW in \in Nat, NEW out \in Nat, CoveredDown(p, x, L, in, out)
    PROVE  /\ p \in Prices /\ x \in Prices
           /\ Q * (Holds0(book, h, x) - Holds0(book, h, p)) <= in * d
           /\ out * Q <= Holds1(book, p) - Holds1(book, x)
<1>1. Q \in Nat \ {0} /\ MaxTick \in MinTick..MaxTick /\ hi <= MaxTick
  BY MathConstants
<1>2. p \in Prices /\ x \in Prices
  <2>1. Ratio[hi] <= MaxSqrtRatio /\ Ratio[hi] \in Nat /\ MaxSqrtRatio \in Nat
    BY <1>1, RatioType, RatioMonotone DEF MaxSqrtRatio
  <2>. QED
    BY <2>1 DEF Prices, Ratios
<1>3. /\ p \in Nat \ {0} /\ x \in Nat \ {0} /\ h[p] \in Nat \ {0} /\ h[x] \in Nat \ {0}
      /\ p * h[p] = d /\ x * h[x] = d /\ d \in Nat \ {0}
  BY <1>2 DEF Prices, Reciprocals
<1>4. /\ Holds1(book, p) - Holds1(book, x) = L * (p - x)
      /\ Holds0(book, h, x) - Holds0(book, h, p) = L * (h[x] - h[p])
  BY <1>2, HoldsMove
<1>5. (L * Q) * (p - x) <= in * (x * p) /\ out * Q <= L * (p - x)
  BY DEF CoveredDown
<1>6. PICK hp \in Nat : hp = h[p]
  BY <1>3
<1>7. PICK hx \in Nat : hx = h[x]
  BY <1>3
<1>8. PICK diff \in Nat : p = x + diff /\ diff = p - x
  BY <1>3
<1>9. PICK N \in Nat : N = L * Q
  BY <1>1
<1>10. N * (hx - hp) <= in * d
  <2>1. p * hp = d /\ x * hx = d
    BY <1>3, <1>6, <1>7
  <2>2. N * diff <= in * (x * p)
    BY <1>5, <1>8, <1>9
  <2>. QED
    BY <1>3, <1>8, <2>1, <2>2, Reciprocate
<1>11. Q * (L * (hx - hp)) = N * (hx - hp)
  BY <1>1, <1>9
<1>12. Q * (Holds0(book, h, x) - Holds0(book, h, p)) <= in * d
  BY <1>4, <1>6, <1>7, <1>10, <1>11
<1>. QED
  BY <1>2, <1>4, <1>5, <1>12

LEMMA TradesUp ==
    ASSUME NEW book \in Books, NEW h, NEW d, Reciprocals(h, d, MaxSqrtRatio),
           NEW lo \in MinTick..MaxTick, NEW hi \in MinTick..MaxTick, NEW at \in lo..(hi - 1),
           \A t \in Initialized(book) : ~(lo < t /\ t < hi),
           NEW p \in Ratios, NEW x \in Ratios, Ratio[lo] <= p, p <= x, x <= Ratio[hi],
           NEW L \in Nat, L = LiquidityAt(book, at),
           NEW in \in Nat, NEW out \in Nat, CoveredUp(p, x, L, in, out)
    PROVE  /\ p \in Prices /\ x \in Prices
           /\ Holds1(book, x) - Holds1(book, p) <= in * Q
           /\ out * d <= Q * (Holds0(book, h, p) - Holds0(book, h, x))
<1>1. Q \in Nat \ {0} /\ MaxTick \in MinTick..MaxTick /\ hi <= MaxTick
  BY MathConstants
<1>2. p \in Prices /\ x \in Prices
  <2>1. Ratio[hi] <= MaxSqrtRatio /\ Ratio[hi] \in Nat /\ MaxSqrtRatio \in Nat
    BY <1>1, RatioType, RatioMonotone DEF MaxSqrtRatio
  <2>. QED
    BY <2>1 DEF Prices, Ratios
<1>3. /\ p \in Nat \ {0} /\ x \in Nat \ {0} /\ h[p] \in Nat \ {0} /\ h[x] \in Nat \ {0}
      /\ p * h[p] = d /\ x * h[x] = d /\ d \in Nat \ {0}
  BY <1>2 DEF Prices, Reciprocals
<1>4. /\ Holds1(book, x) - Holds1(book, p) = L * (x - p)
      /\ Holds0(book, h, p) - Holds0(book, h, x) = L * (h[p] - h[x])
  BY <1>2, HoldsMove
<1>5. L * (x - p) <= in * Q /\ out * (x * p) <= (L * Q) * (x - p)
  BY DEF CoveredUp
<1>6. PICK hp \in Nat : hp = h[p]
  BY <1>3
<1>7. PICK hx \in Nat : hx = h[x]
  BY <1>3
<1>8. PICK diff \in Nat : x = p + diff /\ diff = x - p
  BY <1>3
<1>9. PICK N \in Nat : N = L * Q
  BY <1>1
<1>10. out * d <= N * (hp - hx)
  <2>1. p * hp = d /\ x * hx = d
    BY <1>3, <1>6, <1>7
  <2>2. out * (p * x) <= N * diff
    <3>1. p * x = x * p
      BY <1>3
    <3>. QED
      BY <1>5, <1>8, <1>9, <3>1
  <2>. QED
    BY <1>3, <1>8, <2>1, <2>2, Reciprocate
<1>11. Q * (L * (hp - hx)) = N * (hp - hx)
  BY <1>1, <1>9
<1>12. out * d <= Q * (Holds0(book, h, p) - Holds0(book, h, x))
  BY <1>4, <1>6, <1>7, <1>10, <1>11
<1>. QED
  BY <1>2, <1>4, <1>5, <1>12

\* What a loop has taken in and given from one of its states to another.
TradedDown(book, h, d, s, r) ==
    /\ r.price \in Prices
    /\ Q * (Holds0(book, h, r.price) - Holds0(book, h, s.price)) <= (s.remaining - r.remaining) * d
    /\ (r.calculated - s.calculated) * Q <= Holds1(book, s.price) - Holds1(book, r.price)
TradedUp(book, h, d, s, r) ==
    /\ r.price \in Prices
    /\ Holds1(book, r.price) - Holds1(book, s.price) <= (s.remaining - r.remaining) * Q
    /\ (r.calculated - s.calculated) * d <= Q * (Holds0(book, h, s.price) - Holds0(book, h, r.price))

LEMMA PriceInRange ==
    ASSUME NEW book, NEW amount, NEW z, NEW s \in SwapStates(book, amount, z)
    PROVE  s.price \in Prices
<1>1. s.price \in Ratios /\ s.tick \in MinTick..(MaxTick - 1) /\ s.price <= Ratio[s.tick + 1]
  BY StateFields
<1>2. s.tick + 1 \in MinTick..MaxTick /\ MaxTick \in MinTick..MaxTick /\ s.tick + 1 <= MaxTick
  BY <1>1, MathConstants
<1>3. Ratio[s.tick + 1] <= MaxSqrtRatio /\ Ratio[s.tick + 1] \in Nat /\ MaxSqrtRatio \in Nat
  BY <1>2, RatioType, RatioMonotone DEF MaxSqrtRatio
<1>. QED
  BY <1>1, <1>3 DEF Prices, Ratios

\* What a step of a loop that gives an input does.
Kept(s, r) == r.remaining = s.remaining /\ r.calculated = s.calculated /\ r.price = s.price
Bought(s, i, r) ==
    /\ r.remaining = s.remaining - i.in - i.fee /\ r.calculated = s.calculated + i.out
    /\ r.price = i.price

LEMMA GiveStepMakes ==
    ASSUME NEW p, NEW book, NEW amount, NEW z \in BOOLEAN, NEW s \in SwapStates(book, amount, z),
           NEW i, i = Given(p, s, z), NEW r, r = GiveStep(p, s, z)
    PROVE  r.status = "error" \/ Kept(s, r) \/ (~Fails(p, s, z, i) /\ Bought(s, i, r))
<1>1. Stepped(p, s, z, i, r, s.remaining - i.in - i.fee, s.calculated + i.out)
  BY GiveStepIs
<1>2. CASE s.status # "loop"
  BY <1>1, <1>2 DEF Stepped, Kept
<1>3. CASE s.status = "loop" /\ (s.remaining = 0 \/ s.price = SqrtPriceLimit(z))
  BY <1>1, <1>3 DEF Stepped, Kept
<1>4. CASE s.status = "loop" /\ s.remaining # 0 /\ s.price # SqrtPriceLimit(z)
  <2>1. Iterated(p, s, z, i, r, s.remaining - i.in - i.fee, s.calculated + i.out)
    BY <1>1, <1>4, Zenon DEF Stepped
  <2>. QED
    BY <2>1, Zenon DEF Iterated, Bought
<1>. QED
  BY <1>2, <1>3, <1>4

LEMMA StateAt ==
    ASSUME NEW book, NEW amount \in Nat, NEW z, NEW s \in SwapStates(book, amount, z)
    PROVE  /\ s.remaining \in Nat /\ s.calculated \in Nat /\ s.price \in Ratios /\ s.liquidity \in Nat
           /\ s.tick \in MinTick..(MaxTick - 1) /\ s.liquidity = LiquidityAt(book, s.tick)
           /\ Ratio[s.tick] <= s.price /\ s.price <= Ratio[s.tick + 1] /\ s.price \in Prices
<1>1. s.price \in Prices
  BY PriceInRange
<1>. QED
  BY <1>1, StateFields

\* From the step to the loop's state.
LEMMA BoughtDown ==
    ASSUME NEW book, NEW h, NEW d \in Nat, NEW s, NEW i, NEW r, Bought(s, i, r), s.remaining \in Nat,
           s.calculated \in Nat, i.in \in Nat, i.fee \in Nat, i.out \in Nat, i.price \in Prices,
           Holds0(book, h, i.price) \in Int, Holds0(book, h, s.price) \in Int,
           Q * (Holds0(book, h, i.price) - Holds0(book, h, s.price)) <= i.in * d,
           i.out * Q <= Holds1(book, s.price) - Holds1(book, i.price)
    PROVE  TradedDown(book, h, d, s, r)
<1>1. r.price = i.price /\ s.remaining - r.remaining = i.in + i.fee /\ r.calculated - s.calculated = i.out
  BY DEF Bought
<1>2. (i.in + i.fee) * d = i.in * d + i.fee * d /\ i.fee * d \in Nat /\ i.in * d \in Nat
  OBVIOUS
<1>3. PICK k \in Int : k = Holds0(book, h, i.price) - Holds0(book, h, s.price)
  OBVIOUS
<1>4. Q * k \in Int
  BY MathConstants
<1>5. Q * k <= (i.in + i.fee) * d
  BY <1>2, <1>3, <1>4
<1>. QED
  BY <1>1, <1>3, <1>5 DEF TradedDown

LEMMA BoughtUp ==
    ASSUME NEW book, NEW h, NEW d \in Nat, NEW s, NEW i, NEW r, Bought(s, i, r), s.remaining \in Nat,
           s.calculated \in Nat, i.in \in Nat, i.fee \in Nat, i.out \in Nat, i.price \in Prices,
           Holds1(book, i.price) \in Int, Holds1(book, s.price) \in Int,
           Holds1(book, i.price) - Holds1(book, s.price) <= i.in * Q,
           i.out * d <= Q * (Holds0(book, h, s.price) - Holds0(book, h, i.price))
    PROVE  TradedUp(book, h, d, s, r)
<1>1. r.price = i.price /\ s.remaining - r.remaining = i.in + i.fee /\ r.calculated - s.calculated = i.out
  BY DEF Bought
<1>2. (i.in + i.fee) * Q = i.in * Q + i.fee * Q /\ i.fee * Q \in Nat /\ i.in * Q \in Nat
  <2>1. PICK a \in Nat : a = i.in
    OBVIOUS
  <2>2. PICK b \in Nat : b = i.fee
    OBVIOUS
  <2>3. (a + b) * Q = a * Q + b * Q /\ a * Q \in Nat /\ b * Q \in Nat
    BY MathConstants
  <2>. QED
    BY <2>1, <2>2, <2>3
<1>3. Holds1(book, i.price) - Holds1(book, s.price) <= (i.in + i.fee) * Q
  BY <1>2
<1>. QED
  BY <1>1, <1>3 DEF TradedUp

LEMMA KeptTrades ==
    ASSUME NEW book \in Books, NEW h, NEW d, Reciprocals(h, d, MaxSqrtRatio),
           NEW s, NEW r, Kept(s, r), s.price \in Prices, s.remaining \in Nat, s.calculated \in Nat
    PROVE  TradedDown(book, h, d, s, r) /\ TradedUp(book, h, d, s, r)
<1>1. /\ Holds1(book, s.price) \in Int /\ Holds0(book, h, s.price) \in Int
      /\ Q \in Nat /\ d \in Nat
  BY HoldsType, MathConstants DEF Reciprocals
<1>2. /\ r.price = s.price /\ s.remaining - r.remaining = 0 /\ r.calculated - s.calculated = 0
  BY DEF Kept
<1>3. /\ Holds0(book, h, s.price) - Holds0(book, h, s.price) = 0
      /\ Holds1(book, s.price) - Holds1(book, s.price) = 0
      /\ Q * 0 = 0 /\ 0 * d = 0 /\ 0 * Q = 0
  BY <1>1
<1>. QED
  BY <1>2, <1>3 DEF TradedDown, TradedUp

\* A step down ends at or above the tick that the search found.
LEMMA TargetBelow ==
    ASSUME NEW book \in Books, NEW p \in Pools(book), NEW amount \in Nat,
           NEW s \in SwapStates(book, amount, TRUE), NEW t, t = Target(p, s, TRUE)
    PROVE  \E n \in MinTick..s.tick :
               /\ \A u \in Initialized(book) : ~(n < u /\ u <= s.tick)
               /\ t \in Ratios /\ t <= s.price /\ Ratio[n] <= t
<1>. DEFINE ended == NextInitializedTick(p, s.tick, TRUE)
            next == Clamp(ended.tick)
            limit == SqrtPriceLimit(TRUE)
            target == Upper(Ratio[next], limit)
<1>1. t = target
  BY Zenon DEF Target, NextTick, Ending
<1>2. /\ s.price \in Ratios /\ s.tick \in MinTick..(MaxTick - 1) /\ Ratio[s.tick] <= s.price
  BY StateFields
<1>3. limit <= s.price /\ limit \in Ratios
  <2>1. Within(s, TRUE)
    BY StateFields
  <2>. QED
    BY <2>1, Limits DEF Within
<1>4. EndsBelow(book, p, ended, next, s.tick)
  BY <1>2, SearchBelow
<1>. HIDE DEF ended, limit, next
<1>5. next \in MinTick..s.tick /\ \A u \in Initialized(book) : ~(next < u /\ u <= s.tick)
  BY <1>4 DEF EndsBelow
<1>6. next \in MinTick..MaxTick /\ s.tick \in MinTick..MaxTick /\ next <= s.tick
  BY <1>2, <1>5, MathConstants
<1>7. Ratio[next] \in Ratios /\ Ratio[next] <= Ratio[s.tick] /\ Ratio[s.tick] \in Ratios
  BY <1>6, RatioType, RatioMonotone DEF Ratios
<1>8. target \in Ratios /\ target <= s.price /\ Ratio[next] <= target
  BY <1>2, <1>3, <1>7 DEF Upper, Ratios
<1>. QED
  BY <1>1, <1>5, <1>8

LEMMA StepTradesDown ==
    ASSUME NEW book \in Books, NEW p \in Pools(book), NEW amount \in Nat, NEW z \in BOOLEAN, z = TRUE,
           NEW h, NEW d, Reciprocals(h, d, MaxSqrtRatio),
           NEW s \in SwapStates(book, amount, z), NEW r, r = GiveStep(p, s, z)
    PROVE  r.status = "error" \/ TradedDown(book, h, d, s, r)
<1>1. PICK i : i = Given(p, s, z)
  OBVIOUS
<1>2. PICK t : t = Target(p, s, z)
  OBVIOUS
<1>3. /\ s.remaining \in Nat /\ s.calculated \in Nat /\ s.price \in Ratios /\ s.liquidity \in Nat
      /\ s.tick \in MinTick..(MaxTick - 1) /\ s.liquidity = LiquidityAt(book, s.tick)
      /\ s.price <= Ratio[s.tick + 1] /\ s.price \in Prices
  BY StateAt, Zenon
<1>4. PICK n \in MinTick..s.tick :
               /\ \A u \in Initialized(book) : ~(n < u /\ u <= s.tick)
               /\ t \in Ratios /\ t <= s.price /\ Ratio[n] <= t
  <2>1. s \in SwapStates(book, amount, TRUE) /\ t = Target(p, s, TRUE)
    BY <1>2, Zenon
  <2>. QED
    BY <2>1, TargetBelow
<1>5. PICK fee \in 0..(MaxFee - 1) : fee = p.fee
  BY PoolFields, V3PoolAssumption
<1>6. i = StepExactIn(s.price, t, s.liquidity, s.remaining, fee)
  BY <1>1, <1>2, <1>5, Zenon DEF Given
<1>7. PICK price \in Ratios : price = s.price
  BY <1>3
<1>8. PICK L \in Nat : L = s.liquidity
  BY <1>3
<1>9. PICK rem \in Nat : rem = s.remaining
  BY <1>3
<1>10. i = StepExactIn(price, t, L, rem, fee)
  BY <1>6, <1>7, <1>8, <1>9, Zenon
<1>11. StepResult(i, price, t, L)
  BY <1>4, <1>10, StepInResult
<1>12. i.in \in Nat /\ i.fee \in Nat /\ i.out \in Nat /\ i.price \in Ratios
  BY <1>11 DEF StepResult
<1>13. CoveredDown(price, i.price, L, i.in, i.out) /\ i.price <= price /\ t <= i.price
  BY <1>4, <1>7, <1>10, StepCovered
<1>14. /\ s.tick + 1 \in MinTick..MaxTick /\ n \in MinTick..MaxTick /\ s.tick \in n..((s.tick + 1) - 1)
       /\ \A u \in Initialized(book) : ~(n < u /\ u < s.tick + 1)
       /\ Ratio[n] <= i.price
  <2>1. s.tick + 1 \in MinTick..MaxTick /\ n \in MinTick..MaxTick /\ s.tick \in n..((s.tick + 1) - 1)
    BY <1>3, MathConstants
  <2>2. \A u \in Initialized(book) : u \in Int
    BY MathConstants DEF Initialized
  <2>3. \A u \in Initialized(book) : ~(n < u /\ u < s.tick + 1)
    BY <1>3, <1>4, <2>1, <2>2, MathConstants
  <2>4. Ratio[n] \in Nat /\ t \in Nat /\ i.price \in Nat
    BY <1>4, <1>12, <2>1, RatioType DEF Ratios
  <2>. QED
    BY <1>4, <1>13, <2>1, <2>3, <2>4
<1>15. /\ i.price \in Prices
       /\ Q * (Holds0(book, h, i.price) - Holds0(book, h, s.price)) <= i.in * d
       /\ i.out * Q <= Holds1(book, s.price) - Holds1(book, i.price)
  <2>1. PICK hi \in MinTick..MaxTick : hi = s.tick + 1
    BY <1>14
  <2>2. PICK x \in Ratios : x = i.price
    BY <1>12
  <2>3. PICK at \in n..(hi - 1) : at = s.tick
    BY <1>14, <2>1
  <2>4. PICK in \in Nat : in = i.in
    BY <1>12
  <2>5. PICK out \in Nat : out = i.out
    BY <1>12
  <2>6. /\ n \in MinTick..MaxTick /\ \A u \in Initialized(book) : ~(n < u /\ u < hi)
        /\ Ratio[n] <= x /\ x <= price /\ price <= Ratio[hi] /\ L = LiquidityAt(book, at)
        /\ CoveredDown(price, x, L, in, out)
    BY <1>3, <1>7, <1>8, <1>13, <1>14, <2>1, <2>2, <2>3, <2>4, <2>5
  <2>7. /\ x \in Prices
        /\ Q * (Holds0(book, h, x) - Holds0(book, h, price)) <= in * d
        /\ out * Q <= Holds1(book, price) - Holds1(book, x)
    BY <2>6, TradesDown
  <2>. QED
    BY <1>7, <2>2, <2>4, <2>5, <2>7
<1>16. r.status = "error" \/ Kept(s, r) \/ Bought(s, i, r)
  BY <1>1, GiveStepMakes
<1>17. CASE Kept(s, r)
  BY <1>3, <1>17, KeptTrades
<1>18. CASE Bought(s, i, r)
  <2>1. Holds0(book, h, i.price) \in Int /\ Holds0(book, h, s.price) \in Int /\ d \in Nat
    BY <1>3, <1>15, HoldsType DEF Reciprocals
  <2>. QED
    BY <1>3, <1>12, <1>15, <1>18, <2>1, BoughtDown
<1>. QED
  BY <1>16, <1>17, <1>18

\* A step up ends at or below the tick that the search found, or nothing is above.
LEMMA TargetAbove ==
    ASSUME NEW book \in Books, NEW p \in Pools(book), NEW amount \in Nat,
           NEW s \in SwapStates(book, amount, FALSE), NEW t, t = Target(p, s, FALSE),
           NEW n, n = NextTick(p, s, FALSE)
    PROVE  \/ n <= s.tick /\ s.liquidity = 0
           \/ /\ n \in (s.tick + 1)..MaxTick
              /\ \A u \in Initialized(book) : ~(s.tick < u /\ u < n)
              /\ t \in Ratios /\ s.price <= t /\ t <= Ratio[n]
<1>. DEFINE ended == NextInitializedTick(p, s.tick, FALSE)
            next == Clamp(ended.tick)
            limit == SqrtPriceLimit(FALSE)
            target == Lower(Ratio[next], limit)
<1>1. t = target /\ n = next
  BY Zenon DEF Target, NextTick, Ending
<1>2. /\ s.price \in Ratios /\ s.tick \in MinTick..(MaxTick - 1) /\ s.price <= Ratio[s.tick + 1]
      /\ s.liquidity = LiquidityAt(book, s.tick)
  BY StateFields
<1>3. s.price <= limit /\ limit \in Ratios
  <2>1. Within(s, FALSE)
    BY StateFields
  <2>. QED
    BY <2>1, Limits DEF Within
<1>4. EndsAbove(book, p, ended, next, s.tick) \/ NothingAbove(book, next, s.tick)
  BY <1>2, SearchAbove
<1>. HIDE DEF ended, limit, next
<1>5. s.tick \in MinTick..MaxTick /\ s.tick + 1 \in MinTick..MaxTick /\ s.tick \in Int
      /\ MinTick \in Int /\ MaxTick \in Int
  BY <1>2, MathConstants
<1>6. CASE NothingAbove(book, next, s.tick)
  <2>1. next = s.tick /\ \A u \in Initialized(book) : u <= s.tick
    BY <1>6 DEF NothingAbove
  <2>2. s.liquidity = 0
    BY <1>2, <1>5, <2>1, LiquidityNone
  <2>3. s.tick <= s.tick
    BY <1>5
  <2>. QED
    BY <1>1, <2>1, <2>2, <2>3, Zenon
<1>7. CASE EndsAbove(book, p, ended, next, s.tick)
  <2>1. /\ next \in (s.tick + 1)..MaxTick
        /\ \A u \in Initialized(book) : ~(s.tick < u /\ u < next)
    BY <1>7 DEF EndsAbove
  <2>2. next \in MinTick..MaxTick /\ s.tick + 1 <= next
    BY <1>5, <2>1
  <2>3. Ratio[next] \in Ratios /\ Ratio[s.tick + 1] \in Ratios /\ Ratio[s.tick + 1] <= Ratio[next]
    BY <1>5, <2>2, RatioType, RatioMonotone DEF Ratios
  <2>4. target \in Ratios /\ s.price <= target /\ target <= Ratio[next]
    BY <1>2, <1>3, <2>3 DEF Lower, Ratios
  <2>. QED
    BY <1>1, <2>1, <2>4
<1>. QED
  BY <1>4, <1>6, <1>7

LEMMA StepTradesUp ==
    ASSUME NEW book \in Books, NEW p \in Pools(book), NEW amount \in Nat, NEW z \in BOOLEAN, z = FALSE,
           NEW h, NEW d, Reciprocals(h, d, MaxSqrtRatio),
           NEW s \in SwapStates(book, amount, z), NEW r, r = GiveStep(p, s, z)
    PROVE  r.status = "error" \/ TradedUp(book, h, d, s, r)
<1>1. PICK i : i = Given(p, s, z)
  OBVIOUS
<1>2. PICK t : t = Target(p, s, z)
  OBVIOUS
<1>3. PICK n : n = NextTick(p, s, z)
  OBVIOUS
<1>4. /\ s.remaining \in Nat /\ s.calculated \in Nat /\ s.price \in Ratios /\ s.liquidity \in Nat
      /\ s.tick \in MinTick..(MaxTick - 1) /\ s.liquidity = LiquidityAt(book, s.tick)
      /\ Ratio[s.tick] <= s.price /\ s.price \in Prices
  BY StateAt, Zenon
<1>5. \/ n <= s.tick /\ s.liquidity = 0
      \/ /\ n \in (s.tick + 1)..MaxTick
         /\ \A u \in Initialized(book) : ~(s.tick < u /\ u < n)
         /\ t \in Ratios /\ s.price <= t /\ t <= Ratio[n]
  <2>1. s \in SwapStates(book, amount, FALSE) /\ t = Target(p, s, FALSE) /\ n = NextTick(p, s, FALSE)
    BY <1>2, <1>3, Zenon
  <2>. QED
    BY <2>1, TargetAbove
<1>6. PICK fee \in 0..(MaxFee - 1) : fee = p.fee
  BY PoolFields, V3PoolAssumption
<1>7. i = StepExactIn(s.price, t, s.liquidity, s.remaining, fee)
  BY <1>1, <1>2, <1>6, Zenon DEF Given
<1>8. PICK price \in Ratios : price = s.price
  BY <1>4
<1>9. PICK L \in Nat : L = s.liquidity
  BY <1>4
<1>10. PICK rem \in Nat : rem = s.remaining
  BY <1>4
<1>11. i = StepExactIn(price, t, L, rem, fee)
  BY <1>7, <1>8, <1>9, <1>10, Zenon
<1>12. t \in Ratios
  BY <1>2, TargetType
<1>13. StepResult(i, price, t, L)
  BY <1>11, <1>12, StepInResult
<1>14. i.in \in Nat /\ i.fee \in Nat /\ i.out \in Nat /\ i.price \in Ratios
  BY <1>13 DEF StepResult
<1>15. r.status = "error" \/ Kept(s, r) \/ (~Fails(p, s, z, i) /\ Bought(s, i, r))
  BY <1>1, GiveStepMakes
<1>16. CASE Kept(s, r)
  BY <1>4, <1>16, KeptTrades
<1>17. CASE ~Fails(p, s, z, i) /\ Bought(s, i, r)
  <2>1. ~(n <= s.tick /\ s.liquidity = 0)
    <3>. SUFFICES ASSUME n <= s.tick, s.liquidity = 0 PROVE FALSE
      OBVIOUS
    <3>1. i.in = 0 /\ i.out = 0 /\ i.fee = 0
      BY <1>9, <1>13 DEF StepResult
    <3>2. NoProgress(s, i, n, FALSE)
      BY <3>1 DEF NoProgress
    <3>3. Fails(p, s, z, i)
      BY <1>3, <3>2, Zenon DEF Fails
    <3>. QED
      BY <1>17, <3>3
  <2>2. /\ n \in (s.tick + 1)..MaxTick
        /\ \A u \in Initialized(book) : ~(s.tick < u /\ u < n)
        /\ s.price <= t /\ t <= Ratio[n]
    BY <1>5, <2>1
  <2>3. CoveredUp(price, i.price, L, i.in, i.out) /\ price <= i.price /\ i.price <= t
    BY <1>8, <1>11, <1>12, <2>2, StepCovered
  <2>4. /\ n \in MinTick..MaxTick /\ s.tick \in MinTick..MaxTick /\ s.tick \in s.tick..(n - 1)
        /\ i.price <= Ratio[n]
    <3>1. n \in MinTick..MaxTick /\ s.tick \in MinTick..MaxTick /\ s.tick \in s.tick..(n - 1)
      BY <1>4, <2>2, MathConstants
    <3>2. Ratio[n] \in Nat /\ t \in Nat /\ i.price \in Nat
      BY <1>12, <1>14, <3>1, RatioType DEF Ratios
    <3>. QED
      BY <2>2, <2>3, <3>1, <3>2
  <2>5. /\ i.price \in Prices
        /\ Holds1(book, i.price) - Holds1(book, s.price) <= i.in * Q
        /\ i.out * d <= Q * (Holds0(book, h, s.price) - Holds0(book, h, i.price))
    <3>1. PICK lo \in MinTick..MaxTick : lo = s.tick
      BY <2>4
    <3>2. PICK x \in Ratios : x = i.price
      BY <1>14
    <3>3. PICK in \in Nat : in = i.in
      BY <1>14
    <3>4. PICK out \in Nat : out = i.out
      BY <1>14
    <3>5. /\ n \in MinTick..MaxTick /\ lo \in lo..(n - 1)
          /\ \A u \in Initialized(book) : ~(lo < u /\ u < n)
          /\ Ratio[lo] <= price /\ price <= x /\ x <= Ratio[n] /\ L = LiquidityAt(book, lo)
          /\ CoveredUp(price, x, L, in, out)
      BY <1>4, <1>8, <1>9, <2>2, <2>3, <2>4, <3>1, <3>2, <3>3, <3>4
    <3>6. /\ x \in Prices
          /\ Holds1(book, x) - Holds1(book, price) <= in * Q
          /\ out * d <= Q * (Holds0(book, h, price) - Holds0(book, h, x))
      BY <3>5, TradesUp
    <3>. QED
      BY <1>8, <3>2, <3>3, <3>4, <3>6
  <2>6. Holds1(book, i.price) \in Int /\ Holds1(book, s.price) \in Int /\ d \in Nat
    BY <1>4, <2>5, HoldsType DEF Reciprocals
  <2>. QED
    BY <1>4, <1>14, <1>17, <2>5, <2>6, BoughtUp
<1>. QED
  BY <1>15, <1>16, <1>17

\* Over a whole loop, in either direction.
Traded(book, h, d, s, r, z) == IF z THEN TradedDown(book, h, d, s, r) ELSE TradedUp(book, h, d, s, r)

LEMMA StepTrades ==
    ASSUME NEW book \in Books, NEW p \in Pools(book), NEW amount \in Nat, NEW z \in BOOLEAN,
           NEW h, NEW d, Reciprocals(h, d, MaxSqrtRatio),
           NEW s \in SwapStates(book, amount, z), NEW r, r = GiveStep(p, s, z)
    PROVE  r.status = "error" \/ Traded(book, h, d, s, r, z)
<1>1. CASE z = TRUE
  <2>1. r.status = "error" \/ TradedDown(book, h, d, s, r)
    BY <1>1, StepTradesDown
  <2>. QED
    BY <1>1, <2>1, Zenon DEF Traded
<1>2. CASE z = FALSE
  <2>1. r.status = "error" \/ TradedUp(book, h, d, s, r)
    BY <1>2, StepTradesUp
  <2>. QED
    BY <1>2, <2>1, Zenon DEF Traded
<1>. QED
  BY <1>1, <1>2

LEMMA Splits ==
    ASSUME NEW m \in Nat, NEW a \in Int, NEW b \in Int, NEW c \in Int
    PROVE  /\ m * (c - a) = m * (b - a) + m * (c - b)
           /\ (c - a) * m = (b - a) * m + (c - b) * m
           /\ m * (c - a) \in Int /\ m * (b - a) \in Int /\ m * (c - b) \in Int
           /\ (c - a) * m \in Int /\ (b - a) * m \in Int /\ (c - b) * m \in Int
<1>1. PICK x \in Int : x = b - a
  OBVIOUS
<1>2. PICK y \in Int : y = c - b
  OBVIOUS
<1>3. m * (x + y) = m * x + m * y /\ (x + y) * m = x * m + y * m
  OBVIOUS
<1>4. c - a = x + y
  BY <1>1, <1>2
<1>. QED
  BY <1>1, <1>2, <1>3, <1>4

LEMMA TradesAdd ==
    ASSUME NEW book \in Books, NEW h, NEW d, Reciprocals(h, d, MaxSqrtRatio), NEW z \in BOOLEAN,
           NEW amount \in Nat, NEW a \in SwapStates(book, amount, z), NEW b \in SwapStates(book, amount, z),
           NEW c \in SwapStates(book, amount, z), Traded(book, h, d, a, b, z), Traded(book, h, d, b, c, z)
    PROVE  Traded(book, h, d, a, c, z)
<1>1. /\ a.remaining \in Nat /\ a.calculated \in Nat /\ a.price \in Prices
      /\ b.remaining \in Nat /\ b.calculated \in Nat /\ b.price \in Prices
      /\ c.remaining \in Nat /\ c.calculated \in Nat /\ c.price \in Prices
  BY StateAt
<1>2. d \in Nat /\ Q \in Nat
  BY MathConstants DEF Reciprocals
<1>. DEFINE X(s) == Holds0(book, h, s.price)
            Y(s) == Holds1(book, s.price)
<1>3. X(a) \in Int /\ X(b) \in Int /\ X(c) \in Int /\ Y(a) \in Int /\ Y(b) \in Int /\ Y(c) \in Int
  BY <1>1, HoldsType
<1>4. CASE z
  <2>1. /\ Q * (X(b) - X(a)) <= (a.remaining - b.remaining) * d
        /\ (b.calculated - a.calculated) * Q <= Y(a) - Y(b)
        /\ Q * (X(c) - X(b)) <= (b.remaining - c.remaining) * d
        /\ (c.calculated - b.calculated) * Q <= Y(b) - Y(c)
    BY <1>4 DEF Traded, TradedDown
  <2>. HIDE DEF X, Y
  <2>2. /\ Q * (X(c) - X(a)) <= (a.remaining - c.remaining) * d
        /\ (c.calculated - a.calculated) * Q <= Y(a) - Y(c)
    <3>1. Q * (X(c) - X(a)) = Q * (X(b) - X(a)) + Q * (X(c) - X(b))
          /\ Q * (X(b) - X(a)) \in Int /\ Q * (X(c) - X(b)) \in Int
      BY <1>2, <1>3, Splits
    <3>2. (a.remaining - c.remaining) * d = (a.remaining - b.remaining) * d + (b.remaining - c.remaining) * d
          /\ (a.remaining - b.remaining) * d \in Int /\ (b.remaining - c.remaining) * d \in Int
      BY <1>1, <1>2, Splits
    <3>3. (c.calculated - a.calculated) * Q = (b.calculated - a.calculated) * Q + (c.calculated - b.calculated) * Q
          /\ (b.calculated - a.calculated) * Q \in Int /\ (c.calculated - b.calculated) * Q \in Int
      BY <1>1, <1>2, Splits
    <3>. QED
      BY <1>3, <2>1, <3>1, <3>2, <3>3
  <2>. QED
    BY <1>1, <1>4, <2>2 DEF Traded, TradedDown, X, Y
<1>5. CASE ~z
  <2>1. /\ Y(b) - Y(a) <= (a.remaining - b.remaining) * Q
        /\ (b.calculated - a.calculated) * d <= Q * (X(a) - X(b))
        /\ Y(c) - Y(b) <= (b.remaining - c.remaining) * Q
        /\ (c.calculated - b.calculated) * d <= Q * (X(b) - X(c))
    BY <1>5 DEF Traded, TradedUp
  <2>. HIDE DEF X, Y
  <2>2. /\ Y(c) - Y(a) <= (a.remaining - c.remaining) * Q
        /\ (c.calculated - a.calculated) * d <= Q * (X(a) - X(c))
    <3>1. Q * (X(a) - X(c)) = Q * (X(b) - X(c)) + Q * (X(a) - X(b))
          /\ Q * (X(b) - X(c)) \in Int /\ Q * (X(a) - X(b)) \in Int
      BY <1>2, <1>3, Splits
    <3>2. (a.remaining - c.remaining) * Q = (a.remaining - b.remaining) * Q + (b.remaining - c.remaining) * Q
          /\ (a.remaining - b.remaining) * Q \in Int /\ (b.remaining - c.remaining) * Q \in Int
      BY <1>1, <1>2, Splits
    <3>3. (c.calculated - a.calculated) * d = (b.calculated - a.calculated) * d + (c.calculated - b.calculated) * d
          /\ (b.calculated - a.calculated) * d \in Int /\ (c.calculated - b.calculated) * d \in Int
      BY <1>1, <1>2, Splits
    <3>. QED
      BY <1>3, <2>1, <3>1, <3>2, <3>3
  <2>. QED
    BY <1>1, <1>5, <2>2 DEF Traded, TradedUp, X, Y
<1>. QED
  BY <1>4, <1>5

LEMMA RunTrades ==
    ASSUME NEW book \in Books, NEW p \in Pools(book), NEW amount \in Nat, NEW z \in BOOLEAN,
           NEW h, NEW d, Reciprocals(h, d, MaxSqrtRatio),
           NEW start, NEW g, GiveRun(g, p, start, z), Grows(g, book, amount, z)
    PROVE  g[MaxSteps].status = "error" \/ Traded(book, h, d, start, g[MaxSteps], z)
<1>. DEFINE N == MaxSteps
            S == {n \in 0..N : g[n].status = "error" \/ Traded(book, h, d, start, g[n], z)}
<1>0. N \in Nat /\ 0 \in 0..N /\ N \in 0..N
  BY V3MathAssumption
<1>1. start \in SwapStates(book, amount, z) /\ g[0] = start
  BY <1>0 DEF GiveRun, Grows
<1>2. 0 \in S
  <2>1. /\ start.remaining \in Nat /\ start.calculated \in Nat /\ start.price \in Prices
    BY <1>1, StateAt
  <2>2. Kept(start, start)
    BY DEF Kept
  <2>3. TradedDown(book, h, d, start, start) /\ TradedUp(book, h, d, start, start)
    BY <2>1, <2>2, KeptTrades
  <2>4. Traded(book, h, d, start, g[0], z)
    BY <1>1, <2>3, Zenon DEF Traded
  <2>. QED
    BY <1>0, <2>4
<1>3. ASSUME NEW n \in 1..N, n - 1 \in S PROVE n \in S
  <2>1. n \in 0..N /\ n - 1 \in 0..N
    BY <1>0
  <2>2. PICK s \in SwapStates(book, amount, z) : s = g[n - 1]
    BY <2>1 DEF Grows
  <2>3. PICK r \in SwapStates(book, amount, z) : r = g[n]
    BY <2>1 DEF Grows
  <2>4. r = GiveStep(p, s, z)
    BY <2>2, <2>3 DEF GiveRun
  <2>5. s.status = "error" \/ Traded(book, h, d, start, s, z)
    BY <1>3, <2>2
  <2>6. r.status = "error" \/ Traded(book, h, d, start, r, z)
    <3>1. CASE s.status = "error"
      <4>1. Stepped(p, s, z, Given(p, s, z), r, s.remaining - Given(p, s, z).in - Given(p, s, z).fee,
                    s.calculated + Given(p, s, z).out)
        BY <2>4, GiveStepIs
      <4>2. r = s
        BY <3>1, <4>1 DEF Stepped
      <4>. QED
        BY <3>1, <4>2
    <3>2. CASE Traded(book, h, d, start, s, z)
      <4>1. r.status = "error" \/ Traded(book, h, d, s, r, z)
        BY <2>4, StepTrades
      <4>2. Traded(book, h, d, s, r, z) => Traded(book, h, d, start, r, z)
        BY <1>1, <3>2, TradesAdd
      <4>. QED
        BY <4>1, <4>2
    <3>. QED
      BY <2>5, <3>1, <3>2
  <2>. QED
    BY <2>1, <2>3, <2>6
<1>4. \A n \in 0..N : n \in S
  <2>. HIDE DEF S, N
  <2>. QED
    BY <1>0, <1>2, <1>3, BoundedInduction
<1>. QED
  BY <1>0, <1>4

\* A swap that took all of its input and did not fail.
Exchanged(book, h, d, p, s, amount, z) ==
    /\ p.price \in Prices /\ s.price \in Prices /\ s.calculated \in Nat
    /\ z => /\ Q * (Holds0(book, h, s.price) - Holds0(book, h, p.price)) <= amount * d
            /\ s.calculated * Q <= Holds1(book, p.price) - Holds1(book, s.price)
    /\ ~z => /\ Holds1(book, s.price) - Holds1(book, p.price) <= amount * Q
             /\ s.calculated * d <= Q * (Holds0(book, h, p.price) - Holds0(book, h, s.price))

LEMMA SwapTrades ==
    ASSUME NEW book \in Books, NEW p \in Pools(book), NEW amount \in Nat, NEW z \in BOOLEAN,
           NEW h, NEW d, Reciprocals(h, d, MaxSqrtRatio),
           NEW s, s = GiveSwap(p, z, amount), s.status = "done", s.remaining = 0
    PROVE  Exchanged(book, h, d, p, s, amount, z)
<1>1. PICK start : start = Start(p, amount)
  OBVIOUS
<1>2. PICK g : GiveRun(g, p, start, z) /\ Grows(g, book, amount, z) /\ s = g[MaxSteps]
  BY <1>1, GiveStarts
<1>3. start \in SwapStates(book, amount, z) /\ s \in SwapStates(book, amount, z)
  <2>1. 0 \in 0..MaxSteps /\ MaxSteps \in 0..MaxSteps
    BY V3MathAssumption
  <2>. QED
    BY <1>2, <2>1 DEF GiveRun, Grows
<1>4. Traded(book, h, d, start, s, z)
  BY <1>2, RunTrades
<1>5. start.price = p.price /\ start.remaining = amount /\ start.calculated = 0
  BY <1>1 DEF Start
<1>6. start.price \in Prices /\ s.price \in Prices /\ s.calculated \in Nat
  BY <1>3, StateAt
<1>7. start.remaining - s.remaining = amount /\ s.calculated - start.calculated = s.calculated
  BY <1>5, <1>6
<1>. QED
  BY <1>4, <1>5, <1>6, <1>7 DEF Exchanged, Traded, TradedDown, TradedUp

\* There and back.
LEMMA Undo ==
    ASSUME NEW m \in Nat \ {0}, NEW back \in Nat, NEW put \in Nat, back * m <= put * m
    PROVE  back <= put
<1>. SUFFICES ASSUME put < back PROVE FALSE
  OBVIOUS
<1>1. PICK k \in Nat \ {0} : back = put + k
  OBVIOUS
<1>2. back * m = put * m + k * m /\ k * m \in Nat \ {0} /\ put * m \in Nat
  BY <1>1
<1>. QED
  BY <1>2

LEMMA ThereAndBack ==
    ASSUME NEW book \in Books, NEW p \in Pools(book), NEW z \in BOOLEAN, NEW amount \in Nat,
           NEW s, s = GiveSwap(p, z, amount), s.status = "done", s.remaining = 0,
           NEW q \in Pools(book), q.price = s.price,
           NEW y \in BOOLEAN, y = ~z, NEW u, u = GiveSwap(q, y, s.calculated), u.status = "done", u.remaining = 0
    PROVE  u.calculated <= amount
<1>1. MaxSqrtRatio \in Nat
  <2>1. MaxTick \in MinTick..MaxTick
    BY MathConstants
  <2>. QED
    BY <2>1, RatioType DEF MaxSqrtRatio
<1>2. PICK h, d : Reciprocals(h, d, MaxSqrtRatio)
  BY <1>1, ReciprocalsExist
<1>3. d \in Nat \ {0} /\ Q \in Nat \ {0}
  BY <1>2, MathConstants DEF Reciprocals
<1>4. Exchanged(book, h, d, p, s, amount, z)
  BY <1>2, SwapTrades
<1>5. PICK out \in Nat : out = s.calculated
  BY <1>4 DEF Exchanged
<1>6. u = GiveSwap(q, y, out)
  BY <1>5, Zenon
<1>7. Exchanged(book, h, d, q, u, out, y)
  BY <1>2, <1>6, SwapTrades
<1>8. PICK back \in Nat : back = u.calculated
  BY <1>7 DEF Exchanged
<1>9. p.price \in Prices /\ s.price \in Prices /\ u.price \in Prices
  BY <1>4, <1>7 DEF Exchanged
<1>10. PICK X0 \in Int : X0 = Holds0(book, h, p.price)
  BY <1>2, <1>9, HoldsType
<1>11. PICK Xs \in Int : Xs = Holds0(book, h, s.price)
  BY <1>2, <1>9, HoldsType
<1>12. PICK Xu \in Int : Xu = Holds0(book, h, u.price)
  BY <1>2, <1>9, HoldsType
<1>13. PICK Y0 \in Int : Y0 = Holds1(book, p.price)
  BY <1>2, <1>9, HoldsType
<1>14. PICK Ys \in Int : Ys = Holds1(book, s.price)
  BY <1>2, <1>9, HoldsType
<1>15. PICK Yu \in Int : Yu = Holds1(book, u.price)
  BY <1>2, <1>9, HoldsType
<1>16. Yu <= Y0 <=> X0 <= Xu
  <2>1. Holds1(book, u.price) <= Holds1(book, p.price) <=> Holds0(book, h, p.price) <= Holds0(book, h, u.price)
    BY <1>2, <1>9, HoldsOpposed
  <2>. QED
    BY <1>10, <1>12, <1>13, <1>15, <2>1, Zenon
<1>17. Y0 <= Yu <=> Xu <= X0
  <2>1. Holds1(book, p.price) <= Holds1(book, u.price) <=> Holds0(book, h, u.price) <= Holds0(book, h, p.price)
    BY <1>2, <1>9, HoldsOpposed
  <2>. QED
    BY <1>10, <1>12, <1>13, <1>15, <2>1, Zenon
<1>18. CASE z
  <2>1. Q * (Xs - X0) <= amount * d /\ out * Q <= Y0 - Ys
    BY <1>4, <1>5, <1>10, <1>11, <1>13, <1>14, <1>18, Zenon DEF Exchanged
  <2>2. Yu - Ys <= out * Q /\ back * d <= Q * (Xs - Xu)
    BY <1>7, <1>8, <1>11, <1>12, <1>14, <1>15, <1>18, Zenon DEF Exchanged
  <2>3. out * Q \in Nat /\ amount * d \in Nat /\ back * d \in Nat
    BY <1>3
  <2>4. X0 <= Xu
    BY <1>16, <2>1, <2>2, <2>3
  <2>5. Q * (Xs - Xu) <= Q * (Xs - X0) /\ Q * (Xs - Xu) \in Int /\ Q * (Xs - X0) \in Int
    <3>1. PICK k \in Nat : Xu = X0 + k
      BY <2>4
    <3>2. PICK e \in Int : e = Xs - Xu
      OBVIOUS
    <3>3. Q * (e + k) = Q * e + Q * k /\ Q * k \in Nat /\ Q * e \in Int
      BY <1>3
    <3>4. Xs - X0 = e + k
      BY <3>1, <3>2
    <3>. QED
      BY <3>2, <3>3, <3>4
  <2>6. back * d <= amount * d
    BY <2>1, <2>2, <2>3, <2>5
  <2>. QED
    BY <1>3, <1>8, <2>6, Undo
<1>19. CASE ~z
  <2>1. Ys - Y0 <= amount * Q /\ out * d <= Q * (X0 - Xs)
    BY <1>4, <1>5, <1>10, <1>11, <1>13, <1>14, <1>19, Zenon DEF Exchanged
  <2>2. Q * (Xu - Xs) <= out * d /\ back * Q <= Ys - Yu
    BY <1>7, <1>8, <1>11, <1>12, <1>14, <1>15, <1>19, Zenon DEF Exchanged
  <2>3. out * d \in Nat /\ amount * Q \in Nat /\ back * Q \in Nat
    BY <1>3
  <2>4. Xu <= X0
    <3>. SUFFICES ASSUME X0 < Xu PROVE FALSE
      OBVIOUS
    <3>1. PICK k \in Nat \ {0} : Xu = X0 + k
      OBVIOUS
    <3>2. PICK e \in Int : e = X0 - Xs
      OBVIOUS
    <3>3. Q * (e + k) = Q * e + Q * k /\ Q * k \in Nat \ {0} /\ Q * e \in Int
      BY <1>3
    <3>4. Xu - Xs = e + k
      BY <3>1, <3>2
    <3>5. Q * (Xu - Xs) > Q * (X0 - Xs) /\ Q * (Xu - Xs) \in Int /\ Q * (X0 - Xs) \in Int
      BY <3>2, <3>3, <3>4
    <3>. QED
      BY <2>1, <2>2, <2>3, <3>5
  <2>5. Y0 <= Yu
    BY <1>17, <2>4
  <2>6. back * Q <= amount * Q
    BY <2>1, <2>2, <2>3, <2>5
  <2>. QED
    BY <1>3, <1>8, <2>6, Undo
<1>. QED
  BY <1>18, <1>19

----------------------------------------------------------------------------
(* The pool and the quotes asked of it. *)

\* A call that has been answered, of a pool that the positions could have.
Answered(call, book) ==
    /\ call.pool \in Pools(book) /\ call.amount \in Nat
    /\ call.zeroForOne \in BOOLEAN /\ call.exactIn \in BOOLEAN
    /\ call.result = V3Swap(call.pool, call.zeroForOne, call.exactIn, call.amount)
\* What follows an output asked for is its input, given; what turns back after an
\* input given is its output, given to the pool that the swap left.
AskedAgain(c, d) == d.result = GiveSwap(c.pool, c.zeroForOne, c.result.calculated)
TurnedBack(c, d) ==
    \E z \in BOOLEAN : /\ z = ~c.zeroForOne
                       /\ d.result = GiveSwap(After(c.pool, c.result), z, c.result.calculated)
Follows(c, d) ==
    /\ ~c.exactIn => AskedAgain(c, d)
    /\ d.zeroForOne # c.zeroForOne => c.exactIn /\ TurnedBack(c, d)
CallsInv ==
    \/ calls = <<>>
    \/ \E c : calls = <<c>> /\ Answered(c, positions)
    \/ \E c, d : /\ calls = <<c, d>> /\ Answered(c, positions) /\ Answered(d, positions)
                 /\ Follows(c, d)

\* The pool is one that the positions could have, and so is every copy a caller
\* was quoted of.
PoolInv ==
    /\ positions \in [Ranges -> 0..MaxPosition]
    /\ pool \in Pools(positions)
    /\ CallsInv

LEMMA BooksHeld ==
    ASSUME positions \in [Ranges -> 0..MaxPosition]
    PROVE  positions \in Books
<1>1. MaxPosition \in Nat
  BY V3PoolAssumption
<1>. QED
  BY <1>1 DEF Books

\* What the first call of a pool, and what the next of a first one, may be.
LEMMA CallAnswered ==
    ASSUME NEW book, NEW p \in Pools(book), NEW z \in BOOLEAN, NEW e \in BOOLEAN, NEW a \in Nat,
           NEW call, call = Call(p, z, e, a), NEW made,
           made = [call EXCEPT !.result = V3Swap(call.pool, call.zeroForOne, call.exactIn, call.amount)]
    PROVE  Answered(made, book)
<1>1. call.pool = p /\ call.zeroForOne = z /\ call.exactIn = e /\ call.amount = a
  BY DEF Call
<1>. DEFINE result == V3Swap(call.pool, call.zeroForOne, call.exactIn, call.amount)
<1>2. made.pool = p /\ made.zeroForOne = z /\ made.exactIn = e /\ made.amount = a
  BY DEF Call
<1>3. made.result = result
  BY DEF Call
<1>4. result = V3Swap(made.pool, made.zeroForOne, made.exactIn, made.amount)
  BY <1>1, <1>2, Zenon
<1>. HIDE DEF result
<1>. QED
  BY <1>2, <1>3, <1>4 DEF Answered

LEMMA SecondCall ==
    ASSUME NEW c, NEW d
    PROVE  Append(<<c>>, d) = <<c, d>>
<1>1. <<c>> \in Seq({c, d}) /\ d \in {c, d} /\ Len(<<c>>) = 1 /\ <<c>>[1] = c
  OBVIOUS
<1>2. /\ Append(<<c>>, d) \in Seq({c, d}) /\ Len(Append(<<c>>, d)) = 2
      /\ Append(<<c>>, d)[1] = c /\ Append(<<c>>, d)[2] = d
  BY <1>1
<1>3. <<c, d>> \in Seq({c, d}) /\ Len(<<c, d>>) = 2 /\ <<c, d>>[1] = c /\ <<c, d>>[2] = d
  OBVIOUS
<1>. DEFINE f == Append(<<c>>, d)
            g == <<c, d>>
<1>4. \A i \in 1..Len(f) : f[i] = g[i]
  BY <1>2, <1>3
<1>5. f \in Seq({c, d}) /\ g \in Seq({c, d}) /\ Len(f) = Len(g)
  BY <1>2, <1>3
<1>. HIDE DEF f, g
<1>6. f = g
  BY <1>4, <1>5
<1>. QED
  BY <1>6 DEF f, g

LEMMA SwapLeaves ==
    ASSUME NEW book \in Books, NEW p \in Pools(book), NEW amount, NEW z,
           NEW s \in SwapStates(book, amount, z)
    PROVE  After(p, s) \in Pools(book) /\ After(p, s).price = s.price
<1>1. /\ s.price \in Nat \ {0} /\ s.tick \in MinTick..(MaxTick - 1)
      /\ s.liquidity = LiquidityAt(book, s.tick)
      /\ Ratio[s.tick] <= s.price /\ s.price <= Ratio[s.tick + 1]
  BY StateFields DEF Ratios
<1>2. After(p, s) \in Pools(book)
  BY <1>1, SwapMoves DEF After
<1>3. After(p, s).price = s.price
  BY DEF After, Pools, PoolRecords
<1>. QED
  BY <1>2, <1>3

LEMMA NextCallPool ==
    ASSUME NEW book \in Books, NEW c, Answered(c, book), NEW call \in NextCalls(c)
    PROVE  \E p \in Pools(book), z \in BOOLEAN, e \in BOOLEAN, a \in Nat : call = Call(p, z, e, a)
<1>1. /\ c.pool \in Pools(book) /\ c.amount \in Nat
      /\ c.zeroForOne \in BOOLEAN /\ c.exactIn \in BOOLEAN
      /\ c.result = V3Swap(c.pool, c.zeroForOne, c.exactIn, c.amount)
  BY DEF Answered
<1>2. Succeeded(c)
  BY DEF NextCalls
<1>. DEFINE s == c.result
<1>3. s \in SwapStates(book, c.amount, c.zeroForOne)
  <2>1. s.status = "done"
    BY <1>2 DEF Succeeded
  <2>. HIDE DEF s
  <2>2. s = V3Swap(c.pool, c.zeroForOne, c.exactIn, c.amount)
    BY <1>1 DEF s
  <2>. QED
    BY <1>1, <2>1, <2>2, SwapLands
<1>. HIDE DEF s
<1>4. s.calculated \in Nat
  BY <1>3, StateFields
<1>5. After(c.pool, s) \in Pools(book)
  BY <1>1, <1>3, SwapLeaves
<1>6. [c.pool EXCEPT !.search = "NextInitialized"] \in Pools(book)
  <2>. DEFINE p == c.pool
  <2>1. p \in Pools(book)
    BY <1>1
  <2>. HIDE DEF p
  <2>2. [p EXCEPT !.search = "NextInitialized"] \in Pools(book)
    BY <2>1 DEF Pools, PoolRecords
  <2>. QED
    BY <2>2 DEF p
<1>7. \/ call = Call(After(c.pool, s), ~c.zeroForOne, TRUE, s.calculated)
      \/ call = Call([c.pool EXCEPT !.search = "NextInitialized"], c.zeroForOne, TRUE, c.amount)
      \/ call = Call(c.pool, c.zeroForOne, TRUE, s.calculated)
  BY <1>2 DEF NextCalls, s
<1>8. (~c.zeroForOne) \in BOOLEAN /\ TRUE \in BOOLEAN
  BY <1>1
<1>. QED
  BY <1>1, <1>4, <1>5, <1>6, <1>7, <1>8, Zenon

\* A call that gives an input, answered.
GivenCall(p, z, a) == Call(p, z, TRUE, a)
Made(call) == [call EXCEPT !.result = V3Swap(call.pool, call.zeroForOne, call.exactIn, call.amount)]

LEMMA CallMade ==
    ASSUME NEW p, NEW z, NEW a
    PROVE  /\ Made(GivenCall(p, z, a)).zeroForOne = z
           /\ Made(GivenCall(p, z, a)).result = GiveSwap(p, z, a)
<1>. DEFINE call == GivenCall(p, z, a)
<1>1. call.pool = p /\ call.zeroForOne = z /\ call.amount = a
  BY DEF Call, GivenCall
<1>2. call.exactIn = TRUE
  BY DEF Call, GivenCall
<1>3. Made(call).result = V3Swap(call.pool, call.zeroForOne, call.exactIn, call.amount)
  BY DEF Call, GivenCall, Made
<1>4. Made(call).zeroForOne = call.zeroForOne
  BY DEF Call, GivenCall, Made
<1>. QED
  BY <1>1, <1>2, <1>3, <1>4, Zenon DEF GiveSwap

LEMMA NextCallFollows ==
    ASSUME NEW book, NEW c, Answered(c, book), NEW call \in NextCalls(c), NEW made, made = Made(call)
    PROVE  Follows(c, made)
<1>0. c.zeroForOne \in BOOLEAN
  BY DEF Answered
<1>. DEFINE paid == c.result.calculated
            left == After(c.pool, c.result)
            same == [c.pool EXCEPT !.search = "NextInitialized"]
<1>1. \/ c.exactIn /\ call = GivenCall(left, ~c.zeroForOne, paid)
      \/ c.exactIn /\ call = GivenCall(same, c.zeroForOne, c.amount)
      \/ ~c.exactIn /\ call = GivenCall(c.pool, c.zeroForOne, paid)
  BY DEF NextCalls, GivenCall
<1>. HIDE DEF paid, left, same
<1>2. CASE c.exactIn /\ call = GivenCall(left, ~c.zeroForOne, paid)
  <2>1. PICK z \in BOOLEAN : z = ~c.zeroForOne
    OBVIOUS
  <2>2. made.zeroForOne = z /\ made.result = GiveSwap(left, z, paid)
    <3>1. made = Made(GivenCall(left, z, paid))
      BY <1>2, <2>1, Zenon
    <3>2. /\ Made(GivenCall(left, z, paid)).zeroForOne = z
          /\ Made(GivenCall(left, z, paid)).result = GiveSwap(left, z, paid)
      BY CallMade
    <3>. QED
      BY <3>1, <3>2, Zenon
  <2>3. TurnedBack(c, made)
    BY <2>1, <2>2, Zenon DEF TurnedBack, left, paid
  <2>. QED
    BY <1>2, <2>3, Zenon DEF Follows
<1>3. CASE c.exactIn /\ call = GivenCall(same, c.zeroForOne, c.amount)
  <2>1. made = Made(GivenCall(same, c.zeroForOne, c.amount))
    BY <1>3, Zenon
  <2>2. Made(GivenCall(same, c.zeroForOne, c.amount)).zeroForOne = c.zeroForOne
    BY CallMade
  <2>3. made.zeroForOne = c.zeroForOne
    BY <2>1, <2>2, Zenon
  <2>. QED
    BY <1>3, <2>3, Zenon DEF Follows
<1>4. CASE ~c.exactIn /\ call = GivenCall(c.pool, c.zeroForOne, paid)
  <2>1. made.zeroForOne = c.zeroForOne /\ made.result = GiveSwap(c.pool, c.zeroForOne, paid)
    <3>1. made = Made(GivenCall(c.pool, c.zeroForOne, paid))
      BY <1>4, Zenon
    <3>2. /\ Made(GivenCall(c.pool, c.zeroForOne, paid)).zeroForOne = c.zeroForOne
          /\ Made(GivenCall(c.pool, c.zeroForOne, paid)).result = GiveSwap(c.pool, c.zeroForOne, paid)
      BY CallMade
    <3>. QED
      BY <3>1, <3>2, Zenon
  <2>2. AskedAgain(c, made)
    BY <2>1, Zenon DEF AskedAgain, paid
  <2>. QED
    BY <1>4, <2>1, <2>2, Zenon DEF Follows
<1>. QED
  BY <1>1, <1>2, <1>3, <1>4

----------------------------------------------------------------------------
(* The invariant. *)

LEMMA PoolInit == Init => PoolInv
<1>. SUFFICES ASSUME Init PROVE PoolInv
  OBVIOUS
<1>1. positions \in [Ranges -> 0..MaxPosition] /\ positions \in Books /\ calls = <<>>
  BY V3PoolAssumption DEF Init, Books
<1>2. PICK contract \in DOMAIN Answers, fee \in Fees :
          pool = FetchPool(TickSearch(PoolType(Answers[contract])), fee, positions, Ratio[0], 0)
  BY DEF Init
<1>3. TickSearch(PoolType(Answers[contract])) \in {"WordBounded", "NextInitialized"}
  BY DEF TickSearch
<1>4. 0 \in MinTick..(MaxTick - 1) /\ 0 \in MinTick..MaxTick /\ 0 + 1 \in MinTick..MaxTick /\ 0 <= 0 + 1
  BY MathConstants
<1>5. Ratio[0] \in Nat \ {0} /\ Ratio[0] <= Ratio[0] /\ Ratio[0] <= Ratio[0 + 1]
  BY <1>4, RatioType, RatioMonotone
<1>6. pool \in Pools(positions)
  <2>. DEFINE search == TickSearch(PoolType(Answers[contract]))
              price == Ratio[0]
  <2>. HIDE DEF search
  <2>1. search \in {"WordBounded", "NextInitialized"} /\ fee \in Fees
    BY <1>2, <1>3 DEF search
  <2>2. FetchPool(search, fee, positions, Ratio[0], 0) \in Pools(positions)
    BY <1>1, <1>4, <1>5, <2>1, PoolFetched
  <2>. QED
    BY <1>2, <2>2 DEF search
<1>. QED
  BY <1>1, <1>6 DEF PoolInv, CallsInv

LEMMA MintKeeps ==
    ASSUME PoolInv, NEW r \in Ranges, Mint(r)
    PROVE  PoolInv'
<1>1. positions \in [Ranges -> 0..MaxPosition] /\ pool \in Pools(positions) /\ calls = <<>>
  BY DEF PoolInv, Mint
<1>2. /\ positions' = [positions EXCEPT ![r] = @ + Amount] /\ positions[r] + Amount <= MaxPosition
      /\ pool' = ApplyMint(pool, r[1], r[2], Amount) /\ calls' = <<>>
  BY <1>1 DEF Mint
<1>3. Amount \in Nat /\ MaxPosition \in Nat
  BY V3PoolAssumption
<1>4. /\ positions' \in [Ranges -> 0..MaxPosition] /\ positions'[r] = positions[r] + Amount
      /\ \A x \in Ranges \ {r} : positions'[x] = positions[x]
  BY <1>1, <1>2, <1>3
<1>5. positions \in Books /\ positions' \in Books
  BY <1>1, <1>3, <1>4 DEF Books
<1>6. pool' \in Pools(positions')
  BY <1>1, <1>2, <1>3, <1>4, <1>5, MintFollows
<1>. QED
  BY <1>2, <1>4, <1>6 DEF PoolInv, CallsInv

LEMMA BurnKeeps ==
    ASSUME PoolInv, NEW r \in Ranges, Burn(r)
    PROVE  PoolInv'
<1>1. positions \in [Ranges -> 0..MaxPosition] /\ pool \in Pools(positions) /\ calls = <<>>
  BY DEF PoolInv, Burn
<1>2. PICK amount \in {0, Amount \div 2, positions[r]} :
          /\ amount <= positions[r] /\ positions' = [positions EXCEPT ![r] = @ - amount]
          /\ pool' = ApplyBurn(pool, r[1], r[2], amount)
  BY DEF Burn
<1>3. positions[r] > 0 /\ calls' = <<>>
  BY <1>1 DEF Burn
<1>4. Amount \in Nat /\ MaxPosition \in Nat /\ positions[r] \in Nat
  BY <1>1, V3PoolAssumption
<1>5. amount \in Nat
  BY <1>2, <1>4
<1>6. /\ positions' \in [Ranges -> 0..MaxPosition] /\ positions'[r] = positions[r] - amount
      /\ \A x \in Ranges \ {r} : positions'[x] = positions[x]
  BY <1>1, <1>2, <1>4, <1>5
<1>7. positions \in Books /\ positions' \in Books
  BY <1>1, <1>4, <1>6 DEF Books
<1>8. pool' \in Pools(positions')
  BY <1>1, <1>2, <1>3, <1>5, <1>6, <1>7, BurnFollows
<1>. QED
  BY <1>3, <1>6, <1>8 DEF PoolInv, CallsInv

LEMMA SwapKeeps ==
    ASSUME PoolInv, Swap
    PROVE  PoolInv'
<1>1. positions \in [Ranges -> 0..MaxPosition] /\ pool \in Pools(positions) /\ calls = <<>>
  BY DEF PoolInv, Swap
<1>2. positions' = positions /\ calls' = calls
  BY DEF Swap
<1>3. PICK tick \in MinTick..(MaxTick - 1), offset \in Offsets \cup {-1} :
          \E price :
              /\ price = IF offset = -1 THEN Ratio[tick + 1] ELSE Ratio[tick] + offset
              /\ offset # -1 => price < Ratio[tick + 1]
              /\ pool' = UpdateState(pool, price, tick, LiquidityAt(positions, tick))
  BY DEF Swap
<1>4. PICK price :
          /\ price = IF offset = -1 THEN Ratio[tick + 1] ELSE Ratio[tick] + offset
          /\ offset # -1 => price < Ratio[tick + 1]
          /\ pool' = UpdateState(pool, price, tick, LiquidityAt(positions, tick))
  BY <1>3
<1>5. tick \in MinTick..MaxTick /\ tick + 1 \in MinTick..MaxTick /\ tick <= tick + 1 /\ tick \in Int
  BY <1>3, MathConstants
<1>6. Ratio[tick] \in Nat \ {0} /\ Ratio[tick + 1] \in Nat \ {0} /\ Ratio[tick] <= Ratio[tick + 1]
  BY <1>5, RatioType, RatioMonotone
<1>7. offset = -1 \/ offset \in Nat
  BY <1>3, V3PoolAssumption
<1>8. price \in Nat \ {0} /\ Ratio[tick] <= price /\ price <= Ratio[tick + 1]
  BY <1>4, <1>6, <1>7
<1>9. positions \in Books
  BY <1>1, BooksHeld
<1>10. pool' = pool \/ pool' = [pool EXCEPT !.price = price, !.tick = tick,
                                           !.liquidity = LiquidityAt(positions, tick)]
  BY <1>4 DEF UpdateState
<1>11. pool' \in Pools(positions)
  <2>1. [pool EXCEPT !.price = price, !.tick = tick, !.liquidity = LiquidityAt(positions, tick)]
            \in Pools(positions)
    BY <1>1, <1>3, <1>8, <1>9, SwapMoves
  <2>. QED
    BY <1>1, <1>10, <2>1
<1>. QED
  BY <1>1, <1>2, <1>11 DEF PoolInv, CallsInv

LEMMA RefetchKeeps ==
    ASSUME PoolInv, Refetch
    PROVE  PoolInv'
<1>1. positions \in [Ranges -> 0..MaxPosition] /\ pool \in Pools(positions) /\ calls = <<>>
  BY DEF PoolInv, Refetch
<1>2. /\ positions' = positions /\ calls' = calls
      /\ pool' = FetchPool(pool.search, pool.fee, positions, pool.price, pool.tick)
  BY DEF Refetch
<1>3. positions \in Books
  BY <1>1, BooksHeld
<1>4. pool' \in Pools(positions)
  <2>1. /\ pool.search \in {"WordBounded", "NextInitialized"} /\ pool.fee \in Fees
        /\ pool.price \in Nat \ {0} /\ pool.tick \in MinTick..(MaxTick - 1)
        /\ Ratio[pool.tick] <= pool.price /\ pool.price <= Ratio[pool.tick + 1]
    BY <1>1, PoolFields
  <2>. QED
    BY <1>2, <1>3, <2>1, PoolFetched
<1>. QED
  BY <1>1, <1>2, <1>4 DEF PoolInv, CallsInv

LEMMA QuoteKeeps ==
    ASSUME PoolInv, Quote
    PROVE  PoolInv'
<1>1. positions \in [Ranges -> 0..MaxPosition] /\ pool \in Pools(positions) /\ CallsInv
  BY DEF PoolInv
<1>2. positions' = positions /\ pool' = pool
  BY DEF Quote
<1>3. positions \in Books
  BY <1>1, BooksHeld
<1>4. PICK call \in CASE calls = <<>> -> FirstCalls
                      [] Len(calls) = 1 -> NextCalls(calls[1])
                      [] OTHER -> {} :
          calls' = Append(calls, [call EXCEPT !.result =
                       V3Swap(call.pool, call.zeroForOne, call.exactIn, call.amount)])
  BY DEF Quote
<1>5. PICK made : made = [call EXCEPT !.result =
                       V3Swap(call.pool, call.zeroForOne, call.exactIn, call.amount)]
  OBVIOUS
<1>6. calls' = Append(calls, made)
  BY <1>4, <1>5
<1>7. CASE calls = <<>>
  <2>1. call \in FirstCalls
    BY <1>4, <1>7
  <2>2. PICK z \in BOOLEAN, e \in BOOLEAN, a \in Quotes : call = Call(pool, z, e, a)
    BY <2>1 DEF FirstCalls
  <2>3. a \in Nat
    BY V3PoolAssumption
  <2>4. Answered(made, positions)
    BY <1>1, <1>5, <2>2, <2>3, CallAnswered
  <2>5. calls' = <<made>>
    BY <1>6, <1>7
  <2>. QED
    BY <1>1, <1>2, <2>4, <2>5 DEF PoolInv, CallsInv
<1>8. ASSUME NEW c, calls = <<c>>, Answered(c, positions) PROVE PoolInv'
  <2>1. call \in NextCalls(c)
    BY <1>4, <1>8
  <2>2. PICK p \in Pools(positions), z \in BOOLEAN, e \in BOOLEAN, a \in Nat : call = Call(p, z, e, a)
    BY <1>3, <1>8, <2>1, NextCallPool
  <2>3. Answered(made, positions)
    BY <1>5, <2>2, CallAnswered
  <2>4. calls' = <<c, made>>
    BY <1>6, <1>8, SecondCall
  <2>5. Follows(c, made)
    BY <1>5, <1>8, <2>1, NextCallFollows DEF Made
  <2>. QED
    BY <1>1, <1>2, <1>8, <2>3, <2>4, <2>5 DEF PoolInv, CallsInv
<1>9. ASSUME NEW c, NEW d, calls = <<c, d>> PROVE FALSE
  BY <1>4, <1>9
<1>. QED
  BY <1>1, <1>7, <1>8, <1>9 DEF CallsInv

LEMMA PoolKept == PoolInv /\ [Next]_vars => PoolInv'
<1>. SUFFICES ASSUME PoolInv, [Next]_vars PROVE PoolInv'
  OBVIOUS
<1>1. ASSUME NEW r \in Ranges, Mint(r) PROVE PoolInv'
  BY <1>1, MintKeeps
<1>2. ASSUME NEW r \in Ranges, Burn(r) PROVE PoolInv'
  BY <1>2, BurnKeeps
<1>3. CASE Return
  BY <1>3 DEF PoolInv, CallsInv, Return
<1>4. CASE UNCHANGED vars
  BY <1>4 DEF PoolInv, CallsInv, vars
<1>. QED
  BY <1>1, <1>2, <1>3, <1>4, SwapKeeps, RefetchKeeps, QuoteKeeps DEF Next

LEMMA PoolFollows == Spec => []PoolInv
BY PoolInit, PoolKept, PTL DEF Spec

\* The state stays well-formed: positions within bounds, a pool whose tick and
\* price are on the table, and no tick kept without gross liquidity.
THEOREM V3Types == Spec => []TypeOK
<1>1. PoolInv => TypeOK
  <2>. SUFFICES ASSUME PoolInv PROVE TypeOK
    OBVIOUS
  <2>1. positions \in [Ranges -> 0..MaxPosition] /\ pool \in Pools(positions) /\ CallsInv
    BY DEF PoolInv
  <2>2. positions \in Books
    BY <2>1, BooksHeld
  <2>3. /\ pool.search \in {"WordBounded", "NextInitialized"} /\ pool.liquidity \in Nat
        /\ pool.price \in Nat /\ pool.tick \in MinTick..(MaxTick - 1) /\ pool.ticks = TicksOf(positions)
        /\ Ratio[pool.tick] <= pool.price /\ pool.price <= Ratio[pool.tick + 1]
    BY <2>1, PoolFields
  <2>4. /\ MinTick \in MinTick..MaxTick /\ MaxTick \in MinTick..MaxTick /\ pool.tick \in MinTick..MaxTick
        /\ pool.tick + 1 \in MinTick..MaxTick /\ MinTick <= pool.tick /\ pool.tick + 1 <= MaxTick
    BY <2>3, MathConstants
  <2>5. pool.price \in MinSqrtRatio..MaxSqrtRatio
    <3>1. Ratio[MinTick] <= Ratio[pool.tick] /\ Ratio[pool.tick + 1] <= Ratio[MaxTick]
      BY <2>4, RatioMonotone
    <3>2. /\ Ratio[MinTick] \in Nat /\ Ratio[MaxTick] \in Nat /\ Ratio[pool.tick] \in Nat
          /\ Ratio[pool.tick + 1] \in Nat
      BY <2>4, RatioType
    <3>. QED
      BY <2>3, <3>1, <3>2 DEF MinSqrtRatio, MaxSqrtRatio
  <2>6. /\ DOMAIN pool.ticks \subseteq MinTick..MaxTick
        /\ \A t \in DOMAIN pool.ticks : pool.ticks[t].gross \in Nat \ {0}
    <3>1. \A t \in Initialized(positions) : GrossAt(positions, t) \in Nat \ {0}
      BY <2>2, AccountTypes DEF Initialized
    <3>. QED
      BY <2>3, <3>1 DEF TicksOf, Initialized
  <2>7. Len(calls) <= 2
    <3>1. ASSUME NEW c, calls = <<c>> PROVE Len(calls) <= 2
      BY <3>1
    <3>2. ASSUME NEW c, NEW d, calls = <<c, d>> PROVE Len(calls) <= 2
      BY <3>2
    <3>3. CASE calls = <<>>
      BY <3>3
    <3>. QED
      BY <2>1, <3>1, <3>2, <3>3 DEF CallsInv
  <2>. QED
    BY <2>1, <2>3, <2>4, <2>5, <2>6, <2>7 DEF TypeOK
<1>. QED
  BY <1>1, PoolFollows, PTL

\* apply_mint_event, apply_burn_event, update_state and a fetch leave the chain's
\* own tick map and liquidity: for any positions, any spacing, any word and tree
\* size, and any sequence of logs.
THEOREM V3MapFollows == Spec => []MapMatchesPositions
<1>1. PoolInv => MapMatchesPositions
  <2>. SUFFICES ASSUME PoolInv PROVE MapMatchesPositions
    OBVIOUS
  <2>1. pool.ticks = TicksOf(positions) /\ pool.liquidity = LiquidityAt(positions, pool.tick)
    BY PoolFields DEF PoolInv
  <2>. QED
    BY <2>1 DEF MapMatchesPositions, TicksOf
<1>. QED
  BY <1>1, PoolFollows, PTL

\* Every quote v3_swap finishes, of the pool or of the pool after a first quote,
\* ends on the pool: whatever it crossed, its price lies in its tick and it holds
\* the liquidity that the positions have there.
THEOREM V3SwapsLand == Spec => []SwapLandsOnPool
<1>1. PoolInv => SwapLandsOnPool
  <2>. SUFFICES ASSUME PoolInv, NEW i \in 1..Len(calls), calls[i].result.status = "done"
                PROVE  LET s == calls[i].result
                       IN  /\ s.remaining \in 0..calls[i].amount
                           /\ Ratio[s.tick] <= s.price /\ s.price <= Ratio[s.tick + 1]
                           /\ s.liquidity = LiquidityAt(positions, s.tick)
    BY DEF SwapLandsOnPool
  <2>1. positions \in Books
    BY BooksHeld DEF PoolInv
  <2>2. Answered(calls[i], positions)
    BY DEF PoolInv, CallsInv
  <2>3. PICK c : c = calls[i]
    OBVIOUS
  <2>4. PICK s : s = c.result
    OBVIOUS
  <2>5. /\ c.pool \in Pools(positions) /\ c.amount \in Nat
        /\ c.zeroForOne \in BOOLEAN /\ c.exactIn \in BOOLEAN
        /\ s = V3Swap(c.pool, c.zeroForOne, c.exactIn, c.amount) /\ s.status = "done"
    BY <2>2, <2>3, <2>4 DEF Answered
  <2>6. s \in SwapStates(positions, c.amount, c.zeroForOne)
    BY <2>1, <2>5, SwapLands
  <2>7. /\ s.remaining \in 0..c.amount
        /\ Ratio[s.tick] <= s.price /\ s.price <= Ratio[s.tick + 1]
        /\ s.liquidity = LiquidityAt(positions, s.tick)
    BY <2>6, StateFields
  <2>. QED
    BY <2>3, <2>4, <2>7
<1>. QED
  BY <1>1, PoolFollows, PTL

\* v3_swap's loop ends within one iteration for each tick of the table and one
\* more: every iteration but the last moves at least a tick on, at a word edge and
\* without liquidity too, and stops as an error where it would not. The bound on
\* the loop, when it is above that, cuts nothing off.
THEOREM V3QuotesEnd ==
    ASSUME MaxSteps > 2 * MaxTick
    PROVE  Spec => []QuoteEnds
<1>1. PoolInv => QuoteEnds
  <2>. SUFFICES ASSUME PoolInv, NEW i \in 1..Len(calls)
                PROVE  calls[i].result.status # "loop"
    BY DEF QuoteEnds
  <2>1. positions \in Books
    BY BooksHeld DEF PoolInv
  <2>2. Answered(calls[i], positions)
    BY DEF PoolInv, CallsInv
  <2>3. PICK c : c = calls[i]
    OBVIOUS
  <2>4. PICK s : s = c.result
    OBVIOUS
  <2>5. /\ c.pool \in Pools(positions) /\ c.amount \in Nat
        /\ c.zeroForOne \in BOOLEAN /\ c.exactIn \in BOOLEAN
        /\ s = V3Swap(c.pool, c.zeroForOne, c.exactIn, c.amount)
    BY <2>2, <2>3, <2>4 DEF Answered
  <2>6. s.status # "loop"
    BY <2>1, <2>5, SwapEnds
  <2>. QED
    BY <2>3, <2>4, <2>6
<1>. QED
  BY <1>1, PoolFollows, PTL

\* The input calculate_input asks for is enough: over any number of ticks and word
\* edges, given to calculate_output it returns at least the output that was
\* wanted, whatever each step rounded.
THEOREM V3InputSuffices == Spec => []InputSuffices
<1>1. PoolInv => InputSuffices
  <2>. SUFFICES ASSUME PoolInv, TwoSucceeded, ~calls[1].exactIn
                PROVE  calls[2].result.calculated >= calls[1].amount
    BY DEF InputSuffices
  <2>1. positions \in Books /\ CallsInv
    BY BooksHeld DEF PoolInv
  <2>2. Len(calls) = 2 /\ Succeeded(calls[1]) /\ Succeeded(calls[2])
    BY DEF TwoSucceeded
  <2>3. PICK c, d : calls = <<c, d>> /\ Answered(c, positions) /\ Follows(c, d)
    <3>1. calls # <<>> /\ \A c : calls # <<c>>
      BY <2>2
    <3>. QED
      BY <2>1, <3>1 DEF CallsInv
  <2>4. calls[1] = c /\ calls[2] = d
    BY <2>3
  <2>5. PICK s : s = c.result
    OBVIOUS
  <2>6. PICK u : u = d.result
    OBVIOUS
  <2>7. s.status = "done" /\ s.remaining = 0 /\ u.status = "done" /\ ~c.exactIn
    BY <2>2, <2>4, <2>5, <2>6 DEF Succeeded
  <2>8. c.pool \in Pools(positions) /\ c.amount \in Nat /\ c.zeroForOne \in BOOLEAN /\ c.exactIn \in BOOLEAN
    BY <2>3 DEF Answered
  <2>9. s = AskSwap(c.pool, c.zeroForOne, c.amount)
    <3>1. s = V3Swap(c.pool, c.zeroForOne, c.exactIn, c.amount)
      BY <2>3, <2>5 DEF Answered
    <3>2. c.exactIn = FALSE
      BY <2>7, <2>8
    <3>. QED
      BY <3>1, <3>2, Zenon DEF AskSwap
  <2>10. u = GiveSwap(c.pool, c.zeroForOne, s.calculated)
    BY <2>3, <2>5, <2>6, <2>7, Zenon DEF Follows, AskedAgain
  <2>11. c.amount <= u.calculated
    BY <2>1, <2>7, <2>8, <2>9, <2>10, InputIsEnough
  <2>. QED
    BY <2>4, <2>6, <2>11
<1>. QED
  BY <1>1, PoolFollows, PTL

\* Swapping there and back never gains: whatever was crossed on the way, and
\* whatever each step rounded, each swap takes in at least what the positions'
\* holdings of one token grow by, and gives at most what the other's shrink by.
THEOREM V3NoRoundTripGain == Spec => []NoRoundTripGain
<1>1. PoolInv => NoRoundTripGain
  <2>. SUFFICES ASSUME PoolInv, TwoSucceeded, calls[2].zeroForOne # calls[1].zeroForOne
                PROVE  calls[2].result.calculated <= calls[1].amount
    BY DEF NoRoundTripGain
  <2>1. positions \in Books /\ CallsInv
    BY BooksHeld DEF PoolInv
  <2>2. Len(calls) = 2 /\ Succeeded(calls[1]) /\ Succeeded(calls[2])
    BY DEF TwoSucceeded
  <2>3. PICK c, d : calls = <<c, d>> /\ Answered(c, positions) /\ Follows(c, d)
    <3>1. calls # <<>> /\ \A c : calls # <<c>>
      BY <2>2
    <3>. QED
      BY <2>1, <3>1 DEF CallsInv
  <2>4. calls[1] = c /\ calls[2] = d
    BY <2>3
  <2>5. PICK s : s = c.result
    OBVIOUS
  <2>6. PICK u : u = d.result
    OBVIOUS
  <2>7. s.status = "done" /\ s.remaining = 0 /\ u.status = "done" /\ u.remaining = 0
    BY <2>2, <2>4, <2>5, <2>6 DEF Succeeded
  <2>8. /\ c.pool \in Pools(positions) /\ c.amount \in Nat /\ c.zeroForOne \in BOOLEAN /\ c.exactIn \in BOOLEAN
    BY <2>3 DEF Answered
  <2>9. c.exactIn /\ TurnedBack(c, d)
    BY <2>3, <2>4 DEF Follows
  <2>10. s = GiveSwap(c.pool, c.zeroForOne, c.amount)
    <3>1. s = V3Swap(c.pool, c.zeroForOne, c.exactIn, c.amount)
      BY <2>3, <2>5 DEF Answered
    <3>2. c.exactIn = TRUE
      BY <2>8, <2>9
    <3>. QED
      BY <3>1, <3>2, Zenon DEF GiveSwap
  <2>11. PICK z \in BOOLEAN : z = ~c.zeroForOne /\ u = GiveSwap(After(c.pool, s), z, s.calculated)
    BY <2>5, <2>6, <2>9, Zenon DEF TurnedBack
  <2>12. After(c.pool, s) \in Pools(positions) /\ After(c.pool, s).price = s.price
    <3>1. s = V3Swap(c.pool, c.zeroForOne, c.exactIn, c.amount)
      BY <2>3, <2>5 DEF Answered
    <3>2. s \in SwapStates(positions, c.amount, c.zeroForOne)
      BY <2>1, <2>7, <2>8, <3>1, SwapLands
    <3>. QED
      BY <2>1, <2>8, <3>2, SwapLeaves
  <2>13. PICK q \in Pools(positions) : q = After(c.pool, s)
    BY <2>12
  <2>14. q.price = s.price /\ u = GiveSwap(q, z, s.calculated)
    BY <2>11, <2>12, <2>13, Zenon
  <2>15. u.calculated <= c.amount
    <3>1. PICK p \in Pools(positions), y \in BOOLEAN, a \in Nat :
              p = c.pool /\ y = c.zeroForOne /\ a = c.amount
      BY <2>8
    <3>2. s = GiveSwap(p, y, a) /\ z = ~y
      BY <2>10, <2>11, <3>1, Zenon
    <3>3. u.calculated <= a
      BY <2>1, <2>7, <2>14, <3>2, ThereAndBack
    <3>. QED
      BY <3>1, <3>3
  <2>. QED
    BY <2>4, <2>6, <2>15
<1>. QED
  BY <1>1, PoolFollows, PTL

----------------------------------------------------------------------------
(* The pool's check on its own fee: the window of swap fees says what it       *)
(* should, for windows and thresholds of any size and any number of swaps.   *)

Swaps == Seq([paid : Nat, held : Nat])
Missed(i) == swapped[i].paid > swapped[i].held

\* How many of the swaps have left the window.
Gone == Len(swapped) - Len(misses)

WindowTypeOK == held \in SwapFeeValues /\ misses \in Seq(BOOLEAN) /\ swapped \in Swaps

\* The window is as long as it can be, and its entries are those of the last
\* swaps: the strengthening QuotesFollowSwaps needs.
WindowIsRecent ==
    /\ Len(misses) = IF Len(swapped) > SwapFeeWindow THEN SwapFeeWindow ELSE Len(swapped)
    /\ \A i \in 1..Len(misses) : misses[i] <=> Missed(Gone + i)

WindowInv == WindowTypeOK /\ WindowIsRecent

\* A comparison is a Boolean, as a window's entry must be.
LEMMA GreaterIsBoolean ==
    ASSUME NEW a \in Nat, NEW b \in Nat
    PROVE  (a > b) \in BOOLEAN
OBVIOUS

\* push_back on the window.
LEMMA AppendFacts ==
    ASSUME NEW S, NEW s \in Seq(S), NEW e \in S
    PROVE  /\ Append(s, e) \in Seq(S) /\ Len(Append(s, e)) = Len(s) + 1
           /\ Append(s, e)[Len(s) + 1] = e
           /\ \A i \in 1..Len(s) : Append(s, e)[i] = s[i]
OBVIOUS

\* A window of k entries out of n swaps: its entry i is swap n - k + i, before a
\* swap is recorded and after.
LEMMA WindowIndices ==
    ASSUME NEW n \in Nat, NEW k \in Nat, NEW w \in Nat \ {0}, k = IF n > w THEN w ELSE n
    PROVE  /\ k <= n /\ n - k \in Nat
           /\ \A i \in 1..k : n - k + i \in 1..n /\ n - k + i > n - w
           /\ \A j \in 1..n : j > n - w => /\ j - (n - k) \in 1..k
                                           /\ n - k + (j - (n - k)) = j
           /\ n - k + (k + 1) = n + 1
           /\ \A i \in 1..(k + 1) : i # k + 1 => i \in 1..k /\ n - k + i \in 1..n
OBVIOUS

\* The misses in the window and the recent misses of the history are equally
\* many: shifting by what has gone is a bijection.
LEMMA WindowCounts ==
    ASSUME WindowInv
    PROVE  QuotesFollowSwaps
<1> DEFINE n == Len(swapped)
           A == {i \in DOMAIN misses : misses[i]}
           B == {i \in 1..n : i > n - SwapFeeWindow /\ swapped[i].paid > swapped[i].held}
           f == [i \in A |-> Gone + i]
<1>1. n \in Nat /\ Len(misses) \in Nat /\ DOMAIN misses = 1..Len(misses) /\ Gone \in Nat
  BY SwapFeesAssumption DEF WindowInv, WindowTypeOK, WindowIsRecent, Swaps, Gone
<1>2. IsFiniteSet(A) /\ IsFiniteSet(B)
  <2>1. IsFiniteSet(1..n) /\ IsFiniteSet(1..Len(misses))
    BY <1>1, FS_Interval
  <2> QED BY <1>1, <2>1, FS_Subset
<1>3. /\ \A i \in 1..Len(misses) : Gone + i \in 1..n /\ Gone + i > n - SwapFeeWindow
      /\ \A j \in 1..n : j > n - SwapFeeWindow =>
             j - Gone \in 1..Len(misses) /\ Gone + (j - Gone) = j
  <2>1. /\ SwapFeeWindow \in Nat \ {0}
        /\ Len(misses) = IF n > SwapFeeWindow THEN SwapFeeWindow ELSE n
    BY SwapFeesAssumption, Zenon DEF WindowInv, WindowIsRecent
  <2> QED BY <1>1, <2>1, WindowIndices, ZenonT(40) DEF Gone
<1>4. \A i \in A : Gone + i \in B
  <2> SUFFICES ASSUME NEW i \in A PROVE Gone + i \in B
    OBVIOUS
  <2>1. i \in 1..Len(misses) /\ misses[i]
    BY <1>1, Zenon
  <2>2. swapped[Gone + i].paid > swapped[Gone + i].held
    BY <2>1, Zenon DEF WindowInv, WindowIsRecent, Missed
  <2> QED BY <1>3, <2>1, <2>2
<1>7. \A j \in B : j - Gone \in A /\ Gone + (j - Gone) = j
  <2> SUFFICES ASSUME NEW j \in B PROVE j - Gone \in A /\ Gone + (j - Gone) = j
    OBVIOUS
  <2>1. j - Gone \in 1..Len(misses) /\ Gone + (j - Gone) = j
    BY <1>3
  <2>2. misses[j - Gone] <=> Missed(Gone + (j - Gone))
    BY <2>1, Zenon DEF WindowInv, WindowIsRecent
  <2>3. Missed(Gone + (j - Gone))
    BY <2>1, Zenon DEF Missed
  <2> QED BY <1>1, <2>1, <2>2, <2>3, Zenon
<1>5. f \in Bijection(A, B)
  <2>1. f \in [A -> B]
    BY <1>4
  <2>2. \A i, j \in A : f[i] = f[j] => i = j
    BY <1>1
  <2>3. \A j \in B : \E i \in A : f[i] = j
    BY <1>7
  <2> QED BY <2>1, <2>2, <2>3 DEF Bijection, Injection, Surjection, IsInjective
<1>6. Cardinality(A) = Cardinality(B)
  BY <1>2, <1>5, FS_Bijection DEF ExistsBijection
<1> QED BY <1>6 DEF QuotesFollowSwaps, FeeUnpredictable

\* record_swap_fee, and the swaps it is called for, keep the window recent.
LEMMA WindowStep ==
    ASSUME WindowInv, [SwapFeesNext]_swapFeeVars
    PROVE  WindowInv'
<1>1. CASE ApplySwapFee
  <2>1. PICK override \in SwapFeeValues, plugin \in SwapFeeValues :
           /\ misses' = RecordSwapFee(PaidFee(override, plugin) > held)
           /\ swapped' = Append(swapped, [paid |-> PaidFee(override, plugin), held |-> held])
    BY <1>1 DEF ApplySwapFee
  <2> DEFINE paid == PaidFee(override, plugin)
             missed == paid > held
             all == Append(misses, missed)
             n == Len(swapped)
             k == Len(misses)
  <2>2. held \in Nat /\ paid \in Nat /\ held' = held
    BY <1>1, SwapFeesAssumption DEF WindowInv, WindowTypeOK, PaidFee, ApplySwapFee
  <2>0. /\ misses \in Seq(BOOLEAN) /\ swapped \in Swaps
        /\ n \in Nat /\ k \in Nat /\ SwapFeeWindow \in Nat \ {0}
        /\ k = IF n > SwapFeeWindow THEN SwapFeeWindow ELSE n
    BY SwapFeesAssumption DEF WindowInv, WindowTypeOK, WindowIsRecent, Swaps
  <2>3. /\ all \in Seq(BOOLEAN) /\ Len(all) = k + 1
        /\ all[k + 1] = missed
        /\ \A i \in 1..k : all[i] = misses[i]
    <3>1. missed \in BOOLEAN
      BY <2>2, GreaterIsBoolean, Zenon
    <3>2. \A e \in BOOLEAN :
              /\ Append(misses, e) \in Seq(BOOLEAN) /\ Len(Append(misses, e)) = k + 1
              /\ Append(misses, e)[k + 1] = e
              /\ \A i \in 1..k : Append(misses, e)[i] = misses[i]
      BY <2>0, AppendFacts
    <3> HIDE DEF missed
    <3> QED BY <3>1, <3>2, Zenon
  <2>4. /\ swapped' \in Swaps /\ Len(swapped') = n + 1
        /\ swapped'[n + 1].paid = paid /\ swapped'[n + 1].held = held
        /\ \A i \in 1..n : swapped'[i] = swapped[i]
    BY <2>1, <2>2 DEF WindowInv, WindowTypeOK, Swaps
  <2>5. misses' = IF k + 1 > SwapFeeWindow THEN Tail(all) ELSE all
    BY <2>1, <2>3 DEF RecordSwapFee
  <2>6. \A i \in 1..(k + 1) : all[i] <=> (swapped'[n - k + i].paid > swapped'[n - k + i].held)
    <3> SUFFICES ASSUME NEW i \in 1..(k + 1)
                 PROVE  all[i] <=> (swapped'[n - k + i].paid > swapped'[n - k + i].held)
      BY Zenon
    <3>1. CASE i = k + 1
      <4>1. n - k + i = n + 1
        BY <2>0, <3>1, WindowIndices, Zenon
      <4>2. all[i] <=> (paid > held)
        BY <2>3, <3>1, Zenon
      <4> QED BY <2>4, <4>1, <4>2, Zenon
    <3>2. CASE i # k + 1
      <4>1. i \in 1..k /\ n - k + i \in 1..n
        BY <2>0, <3>2, WindowIndices, Zenon
      <4>2. misses[i] <=> (swapped[n - k + i].paid > swapped[n - k + i].held)
        BY <4>1, Zenon DEF WindowInv, WindowIsRecent, Gone, Missed
      <4>3. all[i] = misses[i] /\ swapped'[n - k + i] = swapped[n - k + i]
        BY <2>3, <2>4, <4>1, Zenon
      <4> QED BY <4>2, <4>3, Zenon
    <3> QED BY <3>1, <3>2, Zenon
  <2>7. CASE k + 1 > SwapFeeWindow
    <3>1. misses' \in Seq(BOOLEAN) /\ Len(misses') = k
          /\ \A i \in 1..k : misses'[i] = all[i + 1]
      BY <2>3, <2>5, <2>7
    <3>2. k = SwapFeeWindow /\ n >= SwapFeeWindow
      BY <2>3, <2>7, SwapFeesAssumption DEF WindowInv, WindowIsRecent
    <3>3. \A i \in 1..k : misses'[i] <=> Missed(Gone + i)'
      <4> SUFFICES ASSUME NEW i \in 1..k
                   PROVE  misses'[i] <=> Missed(Gone + i)'
        BY Zenon
      <4>1. i + 1 \in 1..(k + 1) /\ Gone' + i = n - k + (i + 1)
        BY <2>0, <2>4, <3>1 DEF Gone
      <4>2. misses'[i] = all[i + 1]
        BY <3>1, Zenon
      <4>3. all[i + 1] <=> (swapped'[Gone' + i].paid > swapped'[Gone' + i].held)
        BY <2>6, <4>1, Zenon
      <4> QED BY <4>2, <4>3, Zenon DEF Missed
    <3>4. Len(misses') = IF Len(swapped') > SwapFeeWindow THEN SwapFeeWindow ELSE Len(swapped')
      BY <2>0, <2>4, <3>1, <3>2
    <3>5. WindowIsRecent'
      BY <3>1, <3>3, <3>4, Zenon DEF WindowIsRecent
    <3> QED BY <2>2, <2>4, <3>1, <3>5 DEF WindowInv, WindowTypeOK
  <2>8. CASE ~(k + 1 > SwapFeeWindow)
    <3>1. misses' = all /\ k = n
      BY <2>3, <2>5, <2>8, SwapFeesAssumption DEF WindowInv, WindowIsRecent
    <3>2. WindowIsRecent'
      BY <2>3, <2>4, <2>6, <2>8, <3>1, SwapFeesAssumption DEF WindowIsRecent, Gone, Missed
    <3> QED BY <2>2, <2>3, <2>4, <3>1, <3>2 DEF WindowInv, WindowTypeOK
  <2> QED BY <2>7, <2>8
<1>2. CASE SetHeldFee
  BY <1>2 DEF SetHeldFee, WindowInv, WindowTypeOK, WindowIsRecent, Gone, Missed
<1>3. CASE UNCHANGED swapFeeVars
  BY <1>3 DEF swapFeeVars, WindowInv, WindowTypeOK, WindowIsRecent, Gone, Missed
<1> QED BY <1>1, <1>2, <1>3 DEF SwapFeesNext

\* The pool quotes exactly while fewer than SwapFeeMissesToStop of its last
\* SwapFeeWindow swaps paid more than the fee held at their time, for every
\* window, threshold and set of fees (record_swap_fee, fee_unpredictable).
THEOREM QuotesFollowSwapsHolds == SwapFeesSpec => []QuotesFollowSwaps
<1>1. SwapFeesInit => WindowInv
  BY SwapFeesAssumption
  DEF SwapFeesInit, WindowInv, WindowTypeOK, WindowIsRecent, Swaps, Gone, Missed
<1>2. WindowInv /\ [SwapFeesNext]_swapFeeVars => WindowInv'
  BY WindowStep
<1>3. WindowInv => QuotesFollowSwaps
  BY WindowCounts
<1> QED BY <1>1, <1>2, <1>3, PTL DEF SwapFeesSpec
=============================================================================
