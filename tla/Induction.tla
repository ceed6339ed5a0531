------------------------------ MODULE Induction ------------------------------
(***************************************************************************)
(* Induction for sets of numbers. A recursive function is reasoned about     *)
(* through the set of the indices up to which it is as it should be.         *)
(***************************************************************************)
EXTENDS Integers, FiniteSets, WellFoundedInduction, TLAPS

\* A set that has zero and every successor has every number: the smallest number
\* outside it would have a predecessor.
LEMMA Induction ==
    ASSUME NEW S, 0 \in S, \A n \in Nat : n \in S => n + 1 \in S
    PROVE  \A n \in Nat : n \in S
<1>. DEFINE less == OpToRel(<, Nat)
            outside == Nat \ S
<1>. SUFFICES ASSUME outside # {} PROVE FALSE
  OBVIOUS
<1>1. IsWellFoundedOn(less, Nat)
  BY NatLessThanWellFounded
<1>2. \A x, y \in Nat : y < x => <<y, x>> \in less
  BY DEF OpToRel
<1>3. outside \subseteq Nat
  OBVIOUS
<1>. HIDE DEF less
<1>4. PICK x \in outside : \A y \in outside : ~(<<y, x>> \in less)
  <2>. HIDE DEF outside
  <2>. QED
    BY <1>1, <1>3, WFMin
<1>5. x \in Nat \ {0}
  OBVIOUS
<1>6. x - 1 \in Nat /\ x - 1 < x /\ (x - 1) + 1 = x
  BY <1>5
<1>7. x - 1 \in S
  BY <1>2, <1>4, <1>5, <1>6
<1>. QED
  BY <1>6, <1>7

LEMMA BoundedInduction ==
    ASSUME NEW N \in Nat, NEW S, 0 \in S, \A n \in 1..N : n - 1 \in S => n \in S
    PROVE  \A n \in 0..N : n \in S
<1>. DEFINE T == {n \in Nat : n <= N => n \in S}
<1>1. 0 \in T
  OBVIOUS
<1>2. ASSUME NEW n \in Nat, n \in T PROVE n + 1 \in T
  <2>. SUFFICES ASSUME n + 1 <= N PROVE n + 1 \in S
    OBVIOUS
  <2>1. n \in S /\ n + 1 \in 1..N /\ (n + 1) - 1 = n
    BY <1>2
  <2>. QED
    BY <2>1
<1>3. \A n \in Nat : n \in T
  <2>. HIDE DEF T
  <2>. QED
    BY <1>1, <1>2, Induction
<1>. QED
  BY <1>3

\* A step that stays in a set can be taken any number of times.
IsIteration(f, D, G, start, N) ==
    f \in [0..N -> D] /\ f[0] = start /\ \A n \in 1..N : f[n] = G[f[n - 1]]

LEMMA Iterates ==
    ASSUME NEW D, NEW G \in [D -> D], NEW start \in D, NEW N \in Nat
    PROVE  \E f : IsIteration(f, D, G, start, N)
<1>. DEFINE S == {m \in Nat : \E f : IsIteration(f, D, G, start, m)}
<1>1. 0 \in S
  <2>1. IsIteration([n \in 0..0 |-> start], D, G, start, 0)
    BY DEF IsIteration
  <2>. QED
    BY <2>1
<1>2. ASSUME NEW m \in Nat, m \in S PROVE m + 1 \in S
  <2>1. PICK f : IsIteration(f, D, G, start, m)
    BY <1>2
  <2>. DEFINE g == [n \in 0..(m + 1) |-> IF n = m + 1 THEN G[f[m]] ELSE f[n]]
  <2>2. g \in [0..(m + 1) -> D]
    BY <2>1 DEF IsIteration
  <2>3. g[0] = start /\ g[m + 1] = G[f[m]] /\ \A n \in 0..m : g[n] = f[n]
    BY <2>1 DEF IsIteration
  <2>4. ASSUME NEW n \in 1..(m + 1) PROVE g[n] = G[g[n - 1]]
    <3>. HIDE DEF g
    <3>1. CASE n = m + 1
      <4>1. n - 1 = m /\ m \in 0..m
        BY <3>1
      <4>. QED
        BY <2>3, <3>1, <4>1
    <3>2. CASE n # m + 1
      <4>1. n \in 1..m /\ n \in 0..m /\ n - 1 \in 0..m
        BY <3>2
      <4>. QED
        BY <2>1, <2>3, <4>1 DEF IsIteration
    <3>. QED
      BY <3>1, <3>2
  <2>5. IsIteration(g, D, G, start, m + 1)
    BY <2>2, <2>3, <2>4 DEF IsIteration
  <2>. QED
    BY <2>5
<1>3. \A m \in Nat : m \in S
  <2>. HIDE DEF S
  <2>. QED
    BY <1>1, <1>2, Induction
<1>. QED
  BY <1>3

----------------------------------------------------------------------------
(* Least and greatest members. *)

LEMMA LeastMember ==
    ASSUME NEW S, S # {}, S \subseteq Int, NEW low \in Int, \A x \in S : low <= x
    PROVE  \E m \in S : \A x \in S : m <= x
<1>. DEFINE T == {n \in Nat : \A x \in S : low + n <= x}
<1>. SUFFICES ASSUME \A m \in S : \E x \in S : ~(m <= x) PROVE FALSE
  OBVIOUS
<1>1. 0 \in T
  OBVIOUS
<1>2. ASSUME NEW n \in Nat, n \in T PROVE n + 1 \in T
  <2>1. \A x \in S : low + n <= x /\ x \in Int
    BY <1>2
  <2>2. low + n \notin S
    BY <2>1
  <2>. QED
    BY <2>1, <2>2
<1>3. \A n \in Nat : n \in T
  <2>. HIDE DEF T
  <2>. QED
    BY <1>1, <1>2, Induction
<1>4. PICK x \in S : TRUE
  OBVIOUS
<1>5. x \in Int /\ (x - low) + 1 \in Nat
  BY <1>4
<1>6. low + ((x - low) + 1) <= x
  BY <1>3, <1>5
<1>. QED
  BY <1>5, <1>6

LEMMA GreatestMember ==
    ASSUME NEW S, S # {}, S \subseteq Int, NEW high \in Int, \A x \in S : x <= high
    PROVE  \E m \in S : \A x \in S : m >= x
<1>. DEFINE T == {-x : x \in S}
<1>1. T # {} /\ T \subseteq Int /\ -high \in Int
  <2>1. PICK y \in S : TRUE
    OBVIOUS
  <2>2. -y \in T
    OBVIOUS
  <2>3. \A x \in S : -x \in Int
    OBVIOUS
  <2>. QED
    BY <2>2, <2>3
<1>a. \A x \in T : -high <= x
  <2>. TAKE x \in T
  <2>1. PICK y \in S : x = -y
    OBVIOUS
  <2>2. y \in Int /\ y <= high
    BY <2>1
  <2>. QED
    BY <2>1, <2>2
<1>2. PICK m \in T : \A x \in T : m <= x
  <2>. HIDE DEF T
  <2>. QED
    BY <1>1, <1>a, LeastMember
<1>3. PICK k \in S : m = -k
  BY <1>2
<1>4. \A x \in S : k >= x
  <2>. TAKE x \in S
  <2>1. -x \in T /\ k \in Int /\ x \in Int
    BY <1>3
  <2>2. m <= -x
    BY <1>2, <2>1
  <2>. QED
    BY <1>3, <2>1, <2>2
<1>. QED
  BY <1>4
=============================================================================
