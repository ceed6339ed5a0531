------------------------------ MODULE LBProofs ------------------------------
(***************************************************************************)
(* Proofs about LBPool, for every set of bins, fee parameters and amounts,   *)
(* and any number of logs waiting: the pool that has applied every log of    *)
(* its pair is its pair, and so it quotes what the pair pays; and the input  *)
(* it asks for an output is enough.                                         *)
(***************************************************************************)
EXTENDS LBPool, Induction, FiniteSetTheorems

----------------------------------------------------------------------------
(* What a pool is. *)

BinReserves == [x : Nat, y : Nat]
BinMaps ==
    {b \in UNION {[B -> BinReserves] : B \in SUBSET LBBins} : \A i \in DOMAIN b : b[i].x + b[i].y > 0}
LBStates == [active : LBBins, fees : LBFeeParameters, volRef : Nat, idRef : LBBins, volAcc : Nat,
             time : Nat \ {0}, bins : BinMaps]

\* Both volatilities are within the maximum of some fee parameters.
VolOK(acc, ref) == \E f \in LBFeeParameters : acc <= f.max /\ ref <= f.max

\* The states of a pool or pair at time t.
PoolsAt(t) == {p \in LBStates : p.time <= t /\ VolOK(p.volAcc, p.volRef)}

LEMMA Constants ==
    /\ LBScale \in Nat \ {0} /\ LBPrecision \in Nat \ {0} /\ LBMaxFee \in Nat \ {0}
    /\ LBUnit \in Nat \ {0} /\ LBFanout \in Nat \ {0} /\ LBDeposit \in Nat \ {0}
    /\ LBMaxTime \in Nat \ {0} /\ LBBinStep \in Nat /\ LBShift \in Nat
    /\ LBMaxFee < LBPrecision /\ LBPrecision - LBMaxFee \in Nat \ {0}
BY LBAssumption

LEMMA FeeTypes ==
    ASSUME NEW f \in LBFeeParameters
    PROVE  /\ f.base \in Nat /\ f.control \in Nat /\ f.max \in Nat /\ f.reduction \in 0..LBUnit
           /\ f.filter \in Nat \ {0} /\ f.decay \in Nat
BY LBAssumption

LEMMA BinMapFacts ==
    ASSUME NEW b
    PROVE  b \in BinMaps <=> /\ b = [i \in DOMAIN b |-> b[i]] /\ DOMAIN b \subseteq LBBins
                             /\ \A i \in DOMAIN b : b[i] \in BinReserves /\ b[i].x + b[i].y > 0
BY DEF BinMaps

LEMMA StateFacts ==
    ASSUME NEW p \in LBStates
    PROVE  /\ p.active \in LBBins /\ p.fees \in LBFeeParameters /\ p.volRef \in Nat
           /\ p.idRef \in LBBins /\ p.volAcc \in Nat /\ p.time \in Nat \ {0} /\ p.bins \in BinMaps
BY DEF LBStates

LEMMA ReservesType ==
    ASSUME NEW p \in LBStates, NEW id
    PROVE  /\ Reserves(p, id) \in BinReserves
           /\ Reserves(p, id).x \in Nat /\ Reserves(p, id).y \in Nat
           /\ \A forY \in BOOLEAN : ReserveOut(p, id, forY) \in Nat
           /\ id \in DOMAIN p.bins <=> Reserves(p, id).x + Reserves(p, id).y > 0
<1>1. p.bins \in BinMaps
  BY StateFacts
<1>2. CASE id \in DOMAIN p.bins
  <2>1. Reserves(p, id) = p.bins[id] /\ p.bins[id] \in BinReserves /\ p.bins[id].x + p.bins[id].y > 0
    BY <1>1, <1>2, BinMapFacts DEF Reserves
  <2>. QED
    BY <1>2, <2>1 DEF BinReserves, ReserveOut
<1>3. CASE id \notin DOMAIN p.bins
  <2>1. Reserves(p, id) = [x |-> 0, y |-> 0]
    BY <1>3 DEF Reserves
  <2>. QED
    BY <1>3, <2>1 DEF BinReserves, ReserveOut
<1>. QED
  BY <1>2, <1>3

\* update_bin changes the one bin.
LEMMA UpdateBinFacts ==
    ASSUME NEW bins \in BinMaps, NEW id \in LBBins, NEW x \in Nat, NEW y \in Nat
    PROVE  /\ UpdateBin(bins, id, x, y) \in BinMaps
           /\ \A i : i # id => (i \in DOMAIN UpdateBin(bins, id, x, y) <=> i \in DOMAIN bins)
           /\ \A i \in DOMAIN bins : i # id => UpdateBin(bins, id, x, y)[i] = bins[i]
           /\ id \in DOMAIN UpdateBin(bins, id, x, y) => /\ UpdateBin(bins, id, x, y)[id].x = x
                                                         /\ UpdateBin(bins, id, x, y)[id].y = y
           /\ id \notin DOMAIN UpdateBin(bins, id, x, y) => x = 0 /\ y = 0
<1>. DEFINE new == UpdateBin(bins, id, x, y)
<1>0. /\ bins = [i \in DOMAIN bins |-> bins[i]] /\ DOMAIN bins \subseteq LBBins
      /\ \A i \in DOMAIN bins : bins[i] \in BinReserves /\ bins[i].x + bins[i].y > 0
  BY BinMapFacts
<1>1. CASE x = 0 /\ y = 0
  <2>1. new = [i \in DOMAIN bins \ {id} |-> bins[i]]
    BY <1>1 DEF UpdateBin
  <2>2. /\ DOMAIN new = DOMAIN bins \ {id} /\ new = [i \in DOMAIN new |-> new[i]]
        /\ \A i \in DOMAIN bins \ {id} : new[i] = bins[i]
    BY <2>1
  <2>. HIDE DEF new
  <2>3. new \in BinMaps
    BY <1>0, <2>2, BinMapFacts
  <2>. QED
    BY <1>1, <2>2, <2>3 DEF new
<1>2. CASE ~(x = 0 /\ y = 0)
  <2>1. new = [i \in DOMAIN bins \cup {id} |-> IF i = id THEN [x |-> x, y |-> y] ELSE bins[i]]
    BY <1>2 DEF UpdateBin
  <2>2. /\ DOMAIN new = DOMAIN bins \cup {id} /\ new = [i \in DOMAIN new |-> new[i]]
        /\ \A i \in DOMAIN bins \ {id} : new[i] = bins[i]
    BY <2>1
  <2>3. new[id] = [x |-> x, y |-> y]
    BY <2>1
  <2>. HIDE DEF new
  <2>4. new[id] \in BinReserves /\ new[id].x = x /\ new[id].y = y
    BY <1>2, <2>3 DEF BinReserves
  <2>5. \A i \in DOMAIN new : new[i] \in BinReserves /\ new[i].x + new[i].y > 0
    <3>. TAKE i \in DOMAIN new
    <3>1. CASE i = id
      BY <1>2, <2>4, <3>1
    <3>2. CASE i # id
      BY <1>0, <2>2, <3>2
    <3>. QED
      BY <3>1, <3>2
  <2>6. new \in BinMaps
    BY <1>0, <2>2, <2>5, BinMapFacts
  <2>. QED
    BY <2>2, <2>4, <2>6 DEF new
<1>. QED
  BY <1>1, <1>2

\* The bins are bounded, so that there is a next one wherever there are some ahead.
LEMMA BinsBounded ==
    /\ -LBShift \in Int /\ LBFanout * LBFanout * LBFanout \in Int
    /\ \A i \in LBBins : i \in Int /\ -LBShift <= i /\ i <= LBFanout * LBFanout * LBFanout
<1>. DEFINE F == LBFanout * LBFanout * LBFanout
<1>1. F \in Int /\ LBShift \in Nat /\ LBBins \subseteq Int
  BY LBAssumption
<1>2. \A i \in LBBins : i + LBShift \in 0..(F - 1)
  BY LBAssumption
<1>. HIDE DEF F
<1>3. -LBShift \in Int /\ F \in Int /\ \A i \in LBBins : i \in Int /\ -LBShift <= i /\ i <= F
  BY <1>1, <1>2
<1>. QED
  BY <1>3 DEF F

LEMMA MinBin ==
    ASSUME NEW S, S # {}, S \subseteq LBBins
    PROVE  Min(S) \in S /\ \A i \in S : Min(S) <= i
<1>1. \E m \in S : \A x \in S : m <= x
  BY BinsBounded, LeastMember
<1>. QED
  BY <1>1 DEF Min

LEMMA MaxBin ==
    ASSUME NEW S, S # {}, S \subseteq LBBins
    PROVE  Max(S) \in S /\ \A i \in S : Max(S) >= i
<1>1. \E m \in S : \A x \in S : m >= x
  BY BinsBounded, GreatestMember
<1>. QED
  BY <1>1 DEF Max

LEMMA NextBinFacts ==
    ASSUME NEW p \in LBStates, NEW id, NEW forY \in BOOLEAN, Ahead(p, id, forY) # {}
    PROVE  /\ NextBin(p, id, forY) \in Ahead(p, id, forY) /\ NextBin(p, id, forY) \in LBBins
           /\ forY => NextBin(p, id, forY) < id
           /\ ~forY => NextBin(p, id, forY) > id
           /\ \A i \in Ahead(p, id, forY) : IF forY THEN i <= NextBin(p, id, forY)
                                            ELSE i >= NextBin(p, id, forY)
<1>1. Ahead(p, id, forY) \subseteq LBBins
  BY StateFacts, BinMapFacts DEF Ahead
<1>. DEFINE A == Ahead(p, id, forY)
<1>2. CASE forY
  <2>1. NextBin(p, id, forY) = Max(A)
    BY <1>2 DEF NextBin
  <2>2. Max(A) \in A /\ \A i \in A : Max(A) >= i
    <3>. HIDE DEF A
    <3>. QED
      BY <1>1, MaxBin DEF A
  <2>3. \A i \in A : i < id /\ i \in Int
    BY <1>1, <1>2, BinsBounded DEF Ahead
  <2>. QED
    BY <1>1, <1>2, <2>1, <2>2, <2>3
<1>3. CASE ~forY
  <2>1. NextBin(p, id, forY) = Min(A)
    BY <1>3 DEF NextBin
  <2>2. Min(A) \in A /\ \A i \in A : Min(A) <= i
    <3>. HIDE DEF A
    <3>. QED
      BY <1>1, MinBin DEF A
  <2>3. \A i \in A : i > id /\ i \in Int
    BY <1>1, <1>3, BinsBounded DEF Ahead
  <2>. QED
    BY <1>1, <1>3, <2>1, <2>2, <2>3
<1>. QED
  BY <1>2, <1>3

----------------------------------------------------------------------------
(* Division, fees and volatility. *)

LEMMA Quotient ==
    ASSUME NEW a \in Nat, NEW b \in Nat \ {0}
    PROVE  /\ a \div b \in Nat /\ (a \div b) * b <= a /\ a < (a \div b) * b + b
           /\ \A q \in Nat : q * b <= a => q <= a \div b
<1>1. a \div b \in Nat /\ a = b * (a \div b) + (a % b) /\ a % b \in 0..(b - 1)
  OBVIOUS
<1>. DEFINE d == a \div b
            m == a % b
<1>2. d \in Nat /\ a = b * d + m /\ m \in 0..(b - 1)
  BY <1>1
<1>. HIDE DEF d, m
<1>3. d * b <= a /\ a < d * b + b
  BY <1>2
<1>4. ASSUME NEW q \in Nat, q * b <= a PROVE q <= d
  <2>. SUFFICES ASSUME q >= d + 1 PROVE FALSE
    BY <1>2
  <2>1. q * b >= (d + 1) * b
    BY <1>2
  <2>2. (d + 1) * b = d * b + b
    BY <1>2
  <2>. QED
    BY <1>2, <1>3, <1>4, <2>1, <2>2
<1>. QED
  BY <1>2, <1>3, <1>4 DEF d

\* Rounding up: the least quotient that is enough.
LEMMA Ceiling ==
    ASSUME NEW a \in Nat, NEW b \in Nat \ {0}
    PROVE  /\ CeilDiv(a, b) \in Nat /\ a <= CeilDiv(a, b) * b
           /\ \A q \in Nat : a <= q * b => CeilDiv(a, b) <= q
           /\ CeilDiv(a, b) = 0 <=> a = 0
<1>. DEFINE c == CeilDiv(a, b)
            n == a + b - 1
<1>1. n \in Nat
  OBVIOUS
<1>2. c = n \div b
  BY DEF CeilDiv
<1>3. c \in Nat /\ c * b <= a + b - 1 /\ a + b - 1 < c * b + b
  <2>. HIDE DEF n
  <2>1. n \div b \in Nat /\ (n \div b) * b <= n /\ n < (n \div b) * b + b
    BY <1>1, Quotient
  <2>. QED
    BY <1>2, <2>1 DEF n
<1>. HIDE DEF c
<1>4. a <= c * b
  BY <1>3
<1>5. ASSUME NEW q \in Nat, a <= q * b PROVE c <= q
  <2>. SUFFICES ASSUME c >= q + 1 PROVE FALSE
    BY <1>3
  <2>1. c * b >= (q + 1) * b
    BY <1>3
  <2>2. (q + 1) * b = q * b + b
    OBVIOUS
  <2>. QED
    BY <1>3, <1>5, <2>1, <2>2
<1>6. c = 0 <=> a = 0
  <2>1. ASSUME a = 0 PROVE c = 0
    BY <1>3, <1>5, <2>1
  <2>2. ASSUME c = 0 PROVE a = 0
    BY <1>4, <2>2
  <2>. QED
    BY <2>1, <2>2
<1>. QED
  BY <1>3, <1>4, <1>5, <1>6 DEF c

LEMMA LesserOf ==
    ASSUME NEW a \in Int, NEW b \in Int
    PROVE  Min({a, b}) = IF a <= b THEN a ELSE b
<1>1. \E x \in {a, b} : \A y \in {a, b} : x <= y
  OBVIOUS
<1>2. Min({a, b}) \in {a, b} /\ \A y \in {a, b} : Min({a, b}) <= y
  BY <1>1 DEF Min
<1>. QED
  BY <1>2

LEMMA TotalFeeType ==
    ASSUME NEW f \in LBFeeParameters, NEW v \in Nat
    PROVE  TotalFee(f, v) \in 0..LBMaxFee
<1>. DEFINE w == v * LBBinStep * v * LBBinStep * f.control + 99
            b == f.base + VariableFee(f, v)
<1>1. f.base \in Nat /\ f.control \in Nat /\ LBBinStep \in Nat /\ LBMaxFee \in Nat
  BY FeeTypes, Constants
<1>2. w \in Nat
  <2>1. v * LBBinStep \in Nat
    BY <1>1
  <2>2. v * LBBinStep * v \in Nat
    BY <2>1
  <2>3. v * LBBinStep * v * LBBinStep \in Nat
    BY <1>1, <2>2
  <2>4. v * LBBinStep * v * LBBinStep * f.control \in Nat
    BY <1>1, <2>3
  <2>. QED
    BY <2>4
<1>3. VariableFee(f, v) = w \div 100
  BY DEF VariableFee
<1>. HIDE DEF w
<1>4. b \in Nat
  BY <1>1, <1>2, <1>3, Quotient
<1>5. TotalFee(f, v) = Min({b, LBMaxFee})
  BY DEF TotalFee
<1>. HIDE DEF b
<1>. QED
  BY <1>1, <1>4, <1>5, LesserOf

\* update_references: what it returns is a share of what was there, and nothing moves
\* within the filter period.
LEMMA ReferencesFacts ==
    ASSUME NEW p \in LBStates, NEW ts \in Nat
    PROVE  /\ UpdateReferences(p, ts) \in [vol : Nat, id : LBBins]
           /\ UpdateReferences(p, ts).vol <= p.volRef \/ UpdateReferences(p, ts).vol <= p.volAcc
           /\ ts = p.time => UpdateReferences(p, ts) = [vol |-> p.volRef, id |-> p.idRef]
<1>. DEFINE dt == ts - p.time
            f == p.fees
            ref == UpdateReferences(p, ts)
            part == (p.volAcc * f.reduction) \div LBUnit
<1>1. /\ f.filter \in Nat \ {0} /\ f.decay \in Nat /\ f.reduction \in 0..LBUnit
      /\ p.volAcc \in Nat /\ p.volRef \in Nat /\ p.time \in Nat /\ LBUnit \in Nat \ {0}
      /\ p.active \in LBBins /\ p.idRef \in LBBins
  BY StateFacts, FeeTypes, Constants
<1>2. dt \in Int
  BY <1>1
<1>3. part \in Nat /\ part <= p.volAcc
  <2>. DEFINE n == p.volAcc * f.reduction
              a == p.volAcc
              r == f.reduction
  <2>1. a \in Nat /\ r \in 0..LBUnit /\ n = a * r
    BY <1>1
  <2>. HIDE DEF a, r, n
  <2>2. n \in Nat /\ n <= a * LBUnit
    BY <1>1, <2>1
  <2>3. n \div LBUnit \in Nat /\ (n \div LBUnit) * LBUnit <= n
    BY <1>1, <2>2, Quotient
  <2>4. n \div LBUnit <= a
    <3>. DEFINE q == n \div LBUnit
    <3>1. q \in Nat /\ q * LBUnit <= a * LBUnit
      BY <1>1, <2>1, <2>2, <2>3
    <3>. HIDE DEF q
    <3>2. q <= a
      BY <1>1, <2>1, <3>1
    <3>. QED
      BY <3>2 DEF q
  <2>. QED
    BY <2>3, <2>4 DEF a, r, n
<1>4. ref = [vol |-> CASE dt < f.filter -> p.volRef
                     [] dt >= f.filter /\ dt < f.decay -> part
                     [] OTHER -> 0,
             id |-> IF dt < f.filter THEN p.idRef ELSE p.active]
  BY DEF UpdateReferences
<1>. HIDE DEF part, ref
<1>5. CASE dt < f.filter
  <2>1. ~(dt >= f.filter)
    BY <1>1, <1>2, <1>5
  <2>2. ref = [vol |-> p.volRef, id |-> p.idRef]
    BY <1>4, <1>5, <2>1
  <2>. QED
    BY <1>1, <2>2 DEF ref
<1>6. CASE ~(dt < f.filter)
  <2>1. dt >= f.filter /\ ts # p.time
    BY <1>1, <1>2, <1>6
  <2>2. ref.id = p.active /\ ref.vol \in {part, 0} /\ ref = [vol |-> ref.vol, id |-> ref.id]
    BY <1>4, <1>6, <2>1
  <2>. QED
    BY <1>1, <1>3, <2>1, <2>2 DEF ref
<1>. QED
  BY <1>5, <1>6

LEMMA VolatilityFacts ==
    ASSUME NEW p \in LBStates, NEW id \in LBBins, NEW ref \in [vol : Nat, id : LBBins]
    PROVE  VolatilityAt(p, id, ref) \in Nat /\ VolatilityAt(p, id, ref) <= p.fees.max
<1>. DEFINE delta == IF id < ref.id THEN ref.id - id ELSE id - ref.id
            a == ref.vol + delta * LBUnit
            m == p.fees.max
<1>1. m \in Nat /\ LBUnit \in Nat /\ ref.vol \in Nat /\ ref.id \in Int /\ id \in Int
  BY StateFacts, FeeTypes, Constants, BinsBounded
<1>2. delta \in Nat
  BY <1>1
<1>. HIDE DEF delta
<1>3. a \in Nat
  BY <1>1, <1>2
<1>4. VolatilityAt(p, id, ref) = Min({a, m})
  BY DEF VolatilityAt, delta
<1>. HIDE DEF a, m
<1>. QED
  BY <1>1, <1>3, <1>4, LesserOf DEF m

----------------------------------------------------------------------------
(* A bin's swap. *)

LEMMA PriceType ==
    ASSUME NEW id \in LBBins
    PROVE  Price[id] \in Nat \ {0} /\ LBScale \in Nat \ {0}
BY LBPriceAssumption, Constants

LEMMA ToInputFacts ==
    ASSUME NEW id \in LBBins, NEW out \in Nat, NEW forY \in BOOLEAN
    PROVE  ToInput(out, id, forY) \in Nat /\ (ToInput(out, id, forY) = 0 <=> out = 0)
<1>. DEFINE q == Price[id]
<1>1. q \in Nat \ {0} /\ LBScale \in Nat \ {0}
  BY PriceType
<1>2. ToInput(out, id, forY) = IF forY THEN CeilDiv(out * LBScale, q) ELSE CeilDiv(out * q, LBScale)
  BY DEF ToInput
<1>. HIDE DEF q
<1>3. out * LBScale \in Nat /\ out * q \in Nat /\ (out * LBScale = 0 <=> out = 0) /\ (out * q = 0 <=> out = 0)
  BY <1>1
<1>. QED
  BY <1>1, <1>2, <1>3, Ceiling

LEMMA ToOutputType ==
    ASSUME NEW id \in LBBins, NEW in \in Nat, NEW forY \in BOOLEAN
    PROVE  ToOutput(in, id, forY) \in Nat
<1>. DEFINE q == Price[id]
<1>1. q \in Nat \ {0} /\ LBScale \in Nat \ {0}
  BY PriceType
<1>2. ToOutput(in, id, forY) = IF forY THEN (in * q) \div LBScale ELSE (in * LBScale) \div q
  BY DEF ToOutput
<1>. HIDE DEF q
<1>3. in * LBScale \in Nat /\ in * q \in Nat
  BY <1>1
<1>. QED
  BY <1>1, <1>2, <1>3, Quotient

LEMMA FeeAmountTypes ==
    ASSUME NEW amount \in Nat, NEW fee \in 0..LBMaxFee
    PROVE  /\ FeeAmount(amount, fee) \in Nat
           /\ FeeAmountFrom(amount, fee) \in Nat /\ FeeAmountFrom(amount, fee) <= amount
           /\ amount = 0 => FeeAmount(amount, fee) = 0
<1>1. LBPrecision \in Nat \ {0} /\ LBPrecision - fee \in Nat \ {0} /\ fee \in Nat /\ fee <= LBPrecision
  BY Constants
<1>2. amount * fee \in Nat /\ amount * fee <= amount * LBPrecision /\ (amount = 0 => amount * fee = 0)
  BY <1>1
<1>. DEFINE n == amount * fee
<1>3. FeeAmount(amount, fee) = CeilDiv(n, LBPrecision - fee) /\ FeeAmountFrom(amount, fee) = CeilDiv(n, LBPrecision)
  BY DEF FeeAmount, FeeAmountFrom
<1>4. n \in Nat /\ n <= amount * LBPrecision /\ (amount = 0 => n = 0)
  BY <1>2
<1>. HIDE DEF n
<1>. QED
  BY <1>1, <1>3, <1>4, Ceiling

\* A bin takes no more than what is left, gives no more than it has, and gives all it has
\* when something stays left.
LEMMA SwapInBinFacts ==
    ASSUME NEW p \in LBStates, NEW id \in LBBins, NEW left \in Nat, NEW forY \in BOOLEAN,
           NEW fee \in 0..LBMaxFee
    PROVE  /\ SwapInBin(p, id, left, forY, fee).in \in 0..left
           /\ SwapInBin(p, id, left, forY, fee).out \in 0..ReserveOut(p, id, forY)
           /\ SwapInBin(p, id, left, forY, fee).in < left
                  => SwapInBin(p, id, left, forY, fee).out = ReserveOut(p, id, forY)
<1>. DEFINE reserve == ReserveOut(p, id, forY)
            most == ToInput(reserve, id, forY)
            mostFee == FeeAmount(most, fee)
            part == FeeAmountFrom(left, fee)
            o == ToOutput(left - part, id, forY)
            b == SwapInBin(p, id, left, forY, fee)
<1>1. reserve \in Nat
  BY ReservesType
<1>2. most \in Nat
  <2>. HIDE DEF reserve
  <2>. QED
    BY <1>1, ToInputFacts
<1>3. mostFee \in Nat /\ part \in Nat /\ part <= left
  <2>. HIDE DEF most
  <2>. QED
    BY <1>2, FeeAmountTypes
<1>4. left - part \in Nat
  <2>. HIDE DEF part
  <2>. QED
    BY <1>3
<1>5. o \in Nat
  <2>. HIDE DEF part
  <2>. QED
    BY <1>4, ToOutputType
<1>6. b = IF left >= most + mostFee
          THEN [in |-> most + mostFee, fee |-> mostFee, out |-> reserve]
          ELSE [in |-> left, fee |-> part, out |-> Min({o, reserve})]
  BY DEF SwapInBin
<1>. HIDE DEF reserve, most, mostFee, part, o, b
<1>7. Min({o, reserve}) \in 0..reserve
  BY <1>1, <1>5, LesserOf
<1>8. b.in \in 0..left /\ b.out \in 0..reserve /\ (b.in < left => b.out = reserve)
  BY <1>1, <1>2, <1>3, <1>6, <1>7
<1>. QED
  BY <1>8 DEF b, reserve

----------------------------------------------------------------------------
(* Replaying logs. *)

LBLogs ==
    [kind : {"swap"}, id : LBBins, ts : Nat, vol : Nat, forY : BOOLEAN, in : Nat, out : Nat]
    \cup [kind : {"deposit", "withdraw"}, id : LBBins, x : Nat, y : Nat]
    \cup [kind : {"composition"}, id : LBBins, ts : Nat]
    \cup [kind : {"flash"}, id : LBBins, total : Nat, protocol : Nat]
    \cup [kind : {"fees"}, fees : LBFeeParameters]

\* The logs lead from `from` to `to`, through states in D.
IsReplay(st, logs, from, to, D) ==
    /\ st \in [0..Len(logs) -> D] /\ st[0] = from /\ st[Len(logs)] = to
    /\ \A i \in 1..Len(logs) : st[i] = AppliedLB(st[i - 1], logs[i])
Replays(logs, from, to, D) == \E st : IsReplay(st, logs, from, to, D)

LEMMA ReplayNone ==
    ASSUME NEW D, NEW a \in D
    PROVE  Replays(<<>>, a, a, D)
<1>1. IsReplay([n \in 0..0 |-> a], <<>>, a, a, D)
  BY DEF IsReplay
<1>. QED
  BY <1>1 DEF Replays

LEMMA ReplayEnds ==
    ASSUME NEW logs \in Seq(LBLogs), NEW a, NEW c, NEW D, Replays(logs, a, c, D)
    PROVE  a \in D /\ c \in D /\ (logs = <<>> => a = c)
<1>1. PICK st : IsReplay(st, logs, a, c, D)
  BY DEF Replays
<1>. QED
  BY <1>1 DEF IsReplay

LEMMA ReplayWiden ==
    ASSUME NEW logs \in Seq(LBLogs), NEW a, NEW c, NEW D, NEW E, D \subseteq E, Replays(logs, a, c, D)
    PROVE  Replays(logs, a, c, E)
<1>1. PICK st : IsReplay(st, logs, a, c, D)
  BY DEF Replays
<1>2. IsReplay(st, logs, a, c, E)
  BY <1>1 DEF IsReplay
<1>. QED
  BY <1>2 DEF Replays

LEMMA ReplayAppend ==
    ASSUME NEW logs \in Seq(LBLogs), NEW a, NEW b, NEW D, Replays(logs, a, b, D),
           NEW log \in LBLogs, AppliedLB(b, log) \in D
    PROVE  Replays(Append(logs, log), a, AppliedLB(b, log), D)
<1>1. PICK st : IsReplay(st, logs, a, b, D)
  BY DEF Replays
<1>. DEFINE n == Len(logs)
            c == AppliedLB(b, log)
            more == Append(logs, log)
            su == [i \in 0..(n + 1) |-> IF i = n + 1 THEN c ELSE st[i]]
<1>2. n \in Nat /\ Len(more) = n + 1 /\ more[n + 1] = log /\ \A i \in 1..n : more[i] = logs[i]
  OBVIOUS
<1>3. /\ st \in [0..n -> D] /\ st[0] = a /\ st[n] = b
      /\ \A i \in 1..n : st[i] = AppliedLB(st[i - 1], logs[i])
  BY <1>1 DEF IsReplay
<1>. HIDE DEF n, more, c
<1>4. su \in [0..(n + 1) -> D]
  BY <1>2, <1>3 DEF c
<1>5. su[0] = a /\ su[n + 1] = c /\ \A i \in 0..n : su[i] = st[i]
  BY <1>2, <1>3
<1>. HIDE DEF su
<1>6. ASSUME NEW i \in 1..(n + 1) PROVE su[i] = AppliedLB(su[i - 1], more[i])
  <2>1. CASE i = n + 1
    <3>1. i - 1 = n /\ n \in 0..n
      BY <1>2, <2>1
    <3>. QED
      BY <1>2, <1>3, <1>5, <2>1, <3>1 DEF c
  <2>2. CASE i # n + 1
    <3>1. i \in 1..n /\ i \in 0..n /\ i - 1 \in 0..n
      BY <1>2, <2>2
    <3>. QED
      BY <1>2, <1>3, <1>5, <3>1
  <2>. QED
    BY <2>1, <2>2
<1>7. IsReplay(su, more, a, c, D)
  BY <1>2, <1>4, <1>5, <1>6 DEF IsReplay
<1>. QED
  BY <1>7 DEF Replays, more, c

LEMMA ReplayConcat ==
    ASSUME NEW logs \in Seq(LBLogs), NEW tail \in Seq(LBLogs), NEW a, NEW b, NEW c, NEW D,
           Replays(logs, a, b, D), Replays(tail, b, c, D)
    PROVE  Replays(logs \o tail, a, c, D)
<1>1. PICK st : IsReplay(st, logs, a, b, D)
  BY DEF Replays
<1>2. PICK tt : IsReplay(tt, tail, b, c, D)
  BY DEF Replays
<1>. DEFINE n == Len(logs)
            m == Len(tail)
            all == logs \o tail
            su == [i \in 0..(n + m) |-> IF i <= n THEN st[i] ELSE tt[i - n]]
<1>3. n \in Nat /\ m \in Nat /\ Len(all) = n + m
  OBVIOUS
<1>4. \A i \in 1..(n + m) : all[i] = IF i <= n THEN logs[i] ELSE tail[i - n]
  OBVIOUS
<1>5. /\ st \in [0..n -> D] /\ st[0] = a /\ st[n] = b
      /\ \A i \in 1..n : st[i] = AppliedLB(st[i - 1], logs[i])
  BY <1>1 DEF IsReplay
<1>6. /\ tt \in [0..m -> D] /\ tt[0] = b /\ tt[m] = c
      /\ \A i \in 1..m : tt[i] = AppliedLB(tt[i - 1], tail[i])
  BY <1>2 DEF IsReplay
<1>. HIDE DEF n, m, all
<1>7. /\ su \in [0..(n + m) -> D]
      /\ \A i \in 0..n : su[i] = st[i]
      /\ \A j \in 0..m : su[n + j] = tt[j]
  <2>1. \A i \in 0..(n + m) : (IF i <= n THEN st[i] ELSE tt[i - n]) \in D
    BY <1>3, <1>5, <1>6
  <2>2. ASSUME NEW j \in 0..m PROVE su[n + j] = tt[j]
    <3>1. CASE j = 0
      BY <1>3, <1>5, <1>6, <3>1
    <3>2. CASE j # 0
      <4>1. n + j \in 0..(n + m) /\ ~(n + j <= n) /\ (n + j) - n = j
        BY <1>3, <3>2
      <4>. QED
        BY <4>1
    <3>. QED
      BY <3>1, <3>2
  <2>3. su \in [0..(n + m) -> D]
    BY <2>1
  <2>4. \A i \in 0..n : i \in 0..(n + m) /\ i <= n
    BY <1>3
  <2>5. \A i \in 0..n : su[i] = st[i]
    BY <2>4
  <2>. QED
    BY <2>2, <2>3, <2>5
<1>. HIDE DEF su
<1>8. su[0] = a /\ su[n + m] = c
  BY <1>3, <1>5, <1>6, <1>7
<1>9. ASSUME NEW i \in 1..(n + m) PROVE su[i] = AppliedLB(su[i - 1], all[i])
  <2>1. CASE i <= n
    <3>1. i \in 1..n /\ i \in 0..n /\ i - 1 \in 0..n
      BY <1>3, <2>1
    <3>. QED
      BY <1>4, <1>5, <1>7, <2>1, <3>1
  <2>2. CASE ~(i <= n)
    <3>. DEFINE j == i - n
    <3>1. j \in 1..m /\ j \in 0..m /\ j - 1 \in 0..m /\ n + j = i /\ n + (j - 1) = i - 1
      BY <1>3, <2>2
    <3>2. su[i] = tt[j] /\ su[i - 1] = tt[j - 1] /\ all[i] = tail[j]
      BY <1>4, <1>7, <2>2, <3>1
    <3>. HIDE DEF j
    <3>. QED
      BY <1>6, <3>1, <3>2
  <2>. QED
    BY <2>1, <2>2
<1>10. IsReplay(su, all, a, c, D)
  BY <1>3, <1>7, <1>8, <1>9 DEF IsReplay
<1>. QED
  BY <1>10 DEF Replays, all

LEMMA ReplayTail ==
    ASSUME NEW logs \in Seq(LBLogs), logs # <<>>, NEW a, NEW c, NEW D, Replays(logs, a, c, D)
    PROVE  Replays(Tail(logs), AppliedLB(a, Head(logs)), c, D)
<1>1. PICK st : IsReplay(st, logs, a, c, D)
  BY DEF Replays
<1>. DEFINE n == Len(logs)
            rest == Tail(logs)
            su == [i \in 0..(n - 1) |-> st[i + 1]]
            b == AppliedLB(a, Head(logs))
<1>2. n \in Nat \ {0} /\ Len(rest) = n - 1 /\ Head(logs) = logs[1] /\ \A i \in 1..(n - 1) : rest[i] = logs[i + 1]
  OBVIOUS
<1>3. /\ st \in [0..n -> D] /\ st[0] = a /\ st[n] = c
      /\ \A i \in 1..n : st[i] = AppliedLB(st[i - 1], logs[i])
  BY <1>1 DEF IsReplay
<1>4. st[1] = b
  <2>1. 1 \in 1..n /\ 1 - 1 = 0
    BY <1>2
  <2>2. st[1] = AppliedLB(st[1 - 1], logs[1])
    BY <1>3, <2>1
  <2>. QED
    BY <1>2, <1>3, <2>1, <2>2
<1>. HIDE DEF n, rest, b
<1>5. su \in [0..(n - 1) -> D] /\ \A i \in 0..(n - 1) : su[i] = st[i + 1]
  BY <1>2, <1>3
<1>. HIDE DEF su
<1>6. su[0] = b /\ su[n - 1] = c
  BY <1>2, <1>3, <1>4, <1>5
<1>7. ASSUME NEW i \in 1..(n - 1) PROVE su[i] = AppliedLB(su[i - 1], rest[i])
  <2>1. i \in 0..(n - 1) /\ i - 1 \in 0..(n - 1) /\ i + 1 \in 1..n /\ (i + 1) - 1 = i /\ (i - 1) + 1 = i
    BY <1>2
  <2>2. su[i] = st[i + 1] /\ su[i - 1] = st[i] /\ rest[i] = logs[i + 1]
    BY <1>2, <1>5, <2>1
  <2>3. st[i + 1] = AppliedLB(st[(i + 1) - 1], logs[i + 1])
    BY <1>3, <2>1
  <2>. QED
    BY <2>1, <2>2, <2>3
<1>8. IsReplay(su, rest, b, c, D)
  BY <1>2, <1>5, <1>6, <1>7 DEF IsReplay
<1>. QED
  BY <1>8 DEF Replays, rest, b

----------------------------------------------------------------------------
(* States. *)

LEMMA PoolsAtFacts ==
    ASSUME NEW t \in Nat, NEW p \in PoolsAt(t)
    PROVE  p \in LBStates /\ p.time <= t /\ VolOK(p.volAcc, p.volRef)
BY DEF PoolsAt

LEMMA SameState ==
    ASSUME NEW a \in LBStates, NEW b \in LBStates, a.active = b.active, a.fees = b.fees,
           a.volRef = b.volRef, a.idRef = b.idRef, a.volAcc = b.volAcc, a.time = b.time, a.bins = b.bins
    PROVE  a = b
BY DEF LBStates

LEMMA WithBins ==
    ASSUME NEW t \in Nat, NEW p \in PoolsAt(t), NEW b \in BinMaps
    PROVE  [p EXCEPT !.bins = b] \in PoolsAt(t)
<1>1. p \in LBStates
  BY PoolsAtFacts
<1>. DEFINE q == [p EXCEPT !.bins = b]
<1>2. q \in LBStates /\ q.time = p.time /\ q.volAcc = p.volAcc /\ q.volRef = p.volRef
  BY <1>1 DEF LBStates
<1>. HIDE DEF q
<1>3. q \in PoolsAt(t)
  BY <1>2, PoolsAtFacts DEF PoolsAt
<1>. QED
  BY <1>3 DEF q

LEMMA WithActive ==
    ASSUME NEW p \in LBStates, NEW id \in LBBins
    PROVE  /\ [p EXCEPT !.active = id] \in LBStates /\ [p EXCEPT !.active = id].active = id
           /\ [p EXCEPT !.active = id].fees = p.fees /\ [p EXCEPT !.active = id].volRef = p.volRef
           /\ [p EXCEPT !.active = id].idRef = p.idRef /\ [p EXCEPT !.active = id].volAcc = p.volAcc
           /\ [p EXCEPT !.active = id].time = p.time /\ [p EXCEPT !.active = id].bins = p.bins
           /\ \A t \in Nat : p \in PoolsAt(t) => [p EXCEPT !.active = id] \in PoolsAt(t)
<1>. DEFINE q == [p EXCEPT !.active = id]
<1>1. /\ q \in LBStates /\ q.active = id /\ q.fees = p.fees /\ q.volRef = p.volRef /\ q.idRef = p.idRef
      /\ q.volAcc = p.volAcc /\ q.time = p.time /\ q.bins = p.bins
  BY DEF LBStates
<1>. HIDE DEF q
<1>2. \A t \in Nat : p \in PoolsAt(t) => q \in PoolsAt(t)
  BY <1>1 DEF PoolsAt
<1>. QED
  BY <1>1, <1>2 DEF q

LEMMA DepositedType ==
    ASSUME NEW t \in Nat, NEW p \in PoolsAt(t), NEW id \in LBBins, NEW x \in Nat, NEW y \in Nat
    PROVE  Deposited(p, id, x, y) \in PoolsAt(t)
<1>1. p \in LBStates /\ p.bins \in BinMaps
  BY PoolsAtFacts, StateFacts
<1>. DEFINE b == UpdateBin(p.bins, id, Reserves(p, id).x + x, Reserves(p, id).y + y)
<1>2. b \in BinMaps
  <2>1. Reserves(p, id).x + x \in Nat /\ Reserves(p, id).y + y \in Nat
    BY <1>1, ReservesType
  <2>. QED
    BY <1>1, <2>1, UpdateBinFacts
<1>3. Deposited(p, id, x, y) = [p EXCEPT !.bins = b]
  BY DEF Deposited
<1>. HIDE DEF b
<1>. QED
  BY <1>2, <1>3, WithBins

\* The references moved to time t, and the accumulator.
LEMMA MovedType ==
    ASSUME NEW t \in Nat, NEW p \in PoolsAt(t), NEW acc \in Nat,
           acc <= p.volAcc \/ acc <= p.fees.max
    PROVE  LET ref == UpdateReferences(p, t)
               q == [p EXCEPT !.volRef = ref.vol, !.idRef = ref.id, !.time = t, !.volAcc = acc]
           IN  /\ q \in PoolsAt(t) /\ q.volRef = ref.vol /\ q.idRef = ref.id /\ q.time = t
               /\ q.volAcc = acc /\ q.active = p.active /\ q.fees = p.fees /\ q.bins = p.bins
<1>. DEFINE ref == UpdateReferences(p, t)
            q == [p EXCEPT !.volRef = ref.vol, !.idRef = ref.id, !.time = t, !.volAcc = acc]
<1>1. p \in LBStates /\ p.time \in Nat \ {0} /\ p.time <= t /\ t \in Nat \ {0} /\ p.volAcc \in Nat
      /\ p.volRef \in Nat /\ p.fees \in LBFeeParameters
  BY PoolsAtFacts, StateFacts
<1>2. ref.vol \in Nat /\ ref.id \in LBBins /\ (ref.vol <= p.volRef \/ ref.vol <= p.volAcc)
  BY <1>1, ReferencesFacts
<1>. HIDE DEF ref
<1>3. /\ q \in LBStates /\ q.volRef = ref.vol /\ q.idRef = ref.id /\ q.time = t
      /\ q.volAcc = acc /\ q.active = p.active /\ q.fees = p.fees /\ q.bins = p.bins
  BY <1>1, <1>2 DEF LBStates
<1>4. VolOK(acc, ref.vol)
  <2>1. PICK f \in LBFeeParameters : p.volAcc <= f.max /\ p.volRef <= f.max
    BY PoolsAtFacts DEF VolOK
  <2>2. f.max \in Nat /\ p.fees.max \in Nat
    BY <1>1, FeeTypes
  <2>3. ref.vol <= f.max /\ (acc <= f.max \/ acc <= p.fees.max)
    BY <1>1, <1>2, <2>1, <2>2
  <2>4. CASE f.max <= p.fees.max
    <3>1. acc <= p.fees.max /\ ref.vol <= p.fees.max
      BY <1>2, <2>2, <2>3, <2>4
    <3>. QED
      BY <1>1, <3>1 DEF VolOK
  <2>5. CASE ~(f.max <= p.fees.max)
    <3>1. acc <= f.max /\ ref.vol <= f.max
      BY <1>2, <2>2, <2>3, <2>5
    <3>. QED
      BY <3>1 DEF VolOK
  <2>. QED
    BY <2>4, <2>5
<1>. HIDE DEF q
<1>5. q \in PoolsAt(t)
  BY <1>1, <1>3, <1>4 DEF PoolsAt
<1>. QED
  BY <1>3, <1>5 DEF q, ref

----------------------------------------------------------------------------
(* The transactions of one log. *)

LEMMA DepositReplays ==
    ASSUME NEW t \in Nat, NEW p \in PoolsAt(t), NEW id \in LBBins, NEW x \in Nat, NEW y \in Nat
    PROVE  LET log == [kind |-> "deposit", id |-> id, x |-> x, y |-> y]
           IN  /\ log \in LBLogs /\ AppliedLB(p, log) = Deposited(p, id, x, y)
               /\ AppliedLB(p, log) \in PoolsAt(t)
<1>. DEFINE log == [kind |-> "deposit", id |-> id, x |-> x, y |-> y]
<1>1. log \in LBLogs
  BY DEF LBLogs
<1>2. AppliedLB(p, log) = Deposited(p, id, x, y)
  BY DEF AppliedLB, ApplyDeposit
<1>. QED
  BY <1>1, <1>2, DepositedType

LEMMA WithdrawReplays ==
    ASSUME NEW t \in Nat, NEW p \in PoolsAt(t), NEW id \in LBBins
    PROVE  LET r == Reserves(p, id)
               log == [kind |-> "withdraw", id |-> id, x |-> r.x, y |-> r.y]
           IN  /\ log \in LBLogs /\ AppliedLB(p, log) = [p EXCEPT !.bins = UpdateBin(@, id, 0, 0)]
               /\ AppliedLB(p, log) \in PoolsAt(t)
<1>. DEFINE r == Reserves(p, id)
            log == [kind |-> "withdraw", id |-> id, x |-> r.x, y |-> r.y]
            b == UpdateBin(p.bins, id, 0, 0)
<1>1. p \in LBStates /\ p.bins \in BinMaps /\ r.x \in Nat /\ r.y \in Nat
  BY PoolsAtFacts, StateFacts, ReservesType
<1>2. log \in LBLogs
  <2>. HIDE DEF r
  <2>. QED
    BY <1>1 DEF LBLogs
<1>3. Saturate(r.x - r.x) = 0 /\ Saturate(r.y - r.y) = 0
  <2>. HIDE DEF r
  <2>. QED
    BY <1>1 DEF Saturate
<1>4. AppliedLB(p, log) = ApplyWithdraw(p, log) /\ log.id = id /\ log.x = r.x /\ log.y = r.y
  BY DEF AppliedLB
<1>. HIDE DEF log
<1>5. ApplyWithdraw(p, log) = [p EXCEPT !.bins = b]
  BY <1>3, <1>4 DEF ApplyWithdraw
<1>6. b \in BinMaps
  BY <1>1, UpdateBinFacts
<1>. HIDE DEF b
<1>7. AppliedLB(p, log) \in PoolsAt(t)
  BY <1>4, <1>5, <1>6, WithBins
<1>. QED
  BY <1>2, <1>4, <1>5, <1>7 DEF log, b

LEMMA FlashReplays ==
    ASSUME NEW t \in Nat, NEW p \in PoolsAt(t), NEW id \in LBBins
    PROVE  LET log == [kind |-> "flash", id |-> id, total |-> 2 * LBDeposit, protocol |-> LBDeposit]
           IN  /\ log \in LBLogs /\ AppliedLB(p, log) = Deposited(p, id, LBDeposit, LBDeposit)
               /\ AppliedLB(p, log) \in PoolsAt(t)
<1>. DEFINE log == [kind |-> "flash", id |-> id, total |-> 2 * LBDeposit, protocol |-> LBDeposit]
<1>1. log \in LBLogs
  BY Constants DEF LBLogs
<1>2. AppliedLB(p, log) = ApplyFlashLoan(p, log)
  BY DEF AppliedLB
<1>3. /\ log.id = id /\ log.total - log.protocol = LBDeposit /\ ~(log.protocol > log.total)
  BY Constants
<1>. HIDE DEF log
<1>4. ApplyFlashLoan(p, log) = Deposited(p, id, LBDeposit, LBDeposit)
  BY <1>3 DEF ApplyFlashLoan
<1>. QED
  BY <1>1, <1>2, <1>4, DepositedType, Constants DEF log

LEMMA FeesReplay ==
    ASSUME NEW t \in Nat, NEW p \in PoolsAt(t), NEW fees \in LBFeeParameters
    PROVE  LET log == [kind |-> "fees", fees |-> fees]
           IN  /\ log \in LBLogs /\ AppliedLB(p, log) = [p EXCEPT !.fees = fees]
               /\ AppliedLB(p, log) \in PoolsAt(t)
<1>. DEFINE log == [kind |-> "fees", fees |-> fees]
            q == [p EXCEPT !.fees = fees]
<1>1. log \in LBLogs
  BY DEF LBLogs
<1>2. AppliedLB(p, log) = q
  BY DEF AppliedLB
<1>3. p \in LBStates
  BY PoolsAtFacts
<1>4. q \in LBStates /\ q.time = p.time /\ q.volAcc = p.volAcc /\ q.volRef = p.volRef
  BY <1>3 DEF LBStates
<1>. HIDE DEF q
<1>5. q \in PoolsAt(t)
  BY <1>4, PoolsAtFacts DEF PoolsAt
<1>. QED
  BY <1>1, <1>2, <1>5 DEF q

LEMMA CompositionReplays ==
    ASSUME NEW t \in Nat, NEW p \in PoolsAt(t)
    PROVE  LET ref == UpdateReferences(p, t)
               moved == [p EXCEPT !.volRef = ref.vol, !.idRef = ref.id, !.time = t,
                                  !.volAcc = VolatilityAt(p, p.active, ref)]
               log == [kind |-> "composition", id |-> p.active, ts |-> t]
           IN  log \in LBLogs /\ AppliedLB(p, log) = moved /\ moved \in PoolsAt(t)
<1>. DEFINE ref == UpdateReferences(p, t)
            vol == VolatilityAt(p, p.active, ref)
            moved == [p EXCEPT !.volRef = ref.vol, !.idRef = ref.id, !.time = t, !.volAcc = vol]
            log == [kind |-> "composition", id |-> p.active, ts |-> t]
<1>1. p \in LBStates /\ p.active \in LBBins
  BY PoolsAtFacts, StateFacts
<1>2. log \in LBLogs
  BY <1>1 DEF LBLogs
<1>3. vol \in Nat /\ vol <= p.fees.max
  BY <1>1, ReferencesFacts, VolatilityFacts
<1>4. moved \in PoolsAt(t)
  <2>. HIDE DEF vol
  <2>. QED
    BY <1>3, MovedType
<1>5. AppliedLB(p, log) = ApplyComposition(p, log) /\ log.id = p.active /\ LogTimestamp(log) = t
  BY DEF AppliedLB, LogTimestamp
<1>. HIDE DEF log
<1>6. ApplyComposition(p, log) = moved
  BY <1>5 DEF ApplyComposition
<1>. QED
  BY <1>2, <1>4, <1>5, <1>6 DEF log

----------------------------------------------------------------------------
(* The pair's swap, bin by bin. *)

PairVol(p) == VolatilityAt(p, p.active, [vol |-> p.volRef, id |-> p.idRef])
PairBin(p, left, forY) == SwapInBin(p, p.active, left, forY, TotalFee(p.fees, PairVol(p)))
PairBins(p, left, forY) ==
    LET r == Reserves(p, p.active)
        b == PairBin(p, left, forY)
    IN IF forY THEN UpdateBin(p.bins, p.active, r.x + b.in, r.y - b.out)
       ELSE UpdateBin(p.bins, p.active, r.x - b.out, r.y + b.in)
PairSwapped(p, left, forY) == [p EXCEPT !.volAcc = PairVol(p), !.bins = PairBins(p, left, forY)]
PairLog(p, left, forY, ts) ==
    [kind |-> "swap", id |-> p.active, ts |-> ts, vol |-> PairVol(p), forY |-> forY,
     in |-> PairBin(p, left, forY).in, out |-> PairBin(p, left, forY).out]

LEMMA PairStepCases ==
    ASSUME NEW ts, NEW forY, NEW s, s.pair \in LBStates
    PROVE  PairStep(ts, forY, s) =
           LET p == s.pair
               b == PairBin(p, s.left, forY)
               q == PairSwapped(p, s.left, forY)
           IN IF s.left = 0 THEN s
              ELSE IF ReserveOut(p, p.active, forY) > 0
              THEN [pair |-> IF s.left > b.in /\ Ahead(q, p.active, forY) # {}
                             THEN [q EXCEPT !.active = NextBin(q, p.active, forY)] ELSE q,
                    left |-> s.left - b.in, out |-> s.out + b.out,
                    logs |-> Append(s.logs, PairLog(p, s.left, forY, ts))]
              ELSE IF Ahead(p, p.active, forY) # {}
              THEN [s EXCEPT !.pair = [p EXCEPT !.active = NextBin(p, p.active, forY)]]
              ELSE s
<1>. DEFINE p == s.pair
            id == p.active
            vol == VolatilityAt(p, id, [vol |-> p.volRef, id |-> p.idRef])
            b == SwapInBin(p, id, s.left, forY, TotalFee(p.fees, vol))
            r == Reserves(p, id)
            swapped == [p EXCEPT !.volAcc = vol,
                             !.bins = IF forY THEN UpdateBin(@, id, r.x + b.in, r.y - b.out)
                                      ELSE UpdateBin(@, id, r.x - b.out, r.y + b.in)]
<1>1. vol = PairVol(p) /\ b = PairBin(p, s.left, forY)
  BY DEF PairVol, PairBin
<1>2. swapped = PairSwapped(p, s.left, forY)
  <2>. HIDE DEF b, r
  <2>. QED
    BY <1>1 DEF PairSwapped, PairBins, LBStates, b, r
<1>3. [kind |-> "swap", id |-> id, ts |-> ts, vol |-> vol, forY |-> forY, in |-> b.in, out |-> b.out]
      = PairLog(p, s.left, forY, ts)
  BY <1>1 DEF PairLog
<1>. QED
  BY <1>1, <1>2, <1>3, ZenonT(60) DEF PairStep

LEMMA PairBinFacts ==
    ASSUME NEW p \in LBStates, NEW left \in Nat, NEW forY \in BOOLEAN
    PROVE  /\ PairVol(p) \in Nat /\ PairVol(p) <= p.fees.max
           /\ TotalFee(p.fees, PairVol(p)) \in 0..LBMaxFee
           /\ PairBin(p, left, forY).in \in 0..left
           /\ PairBin(p, left, forY).out \in 0..ReserveOut(p, p.active, forY)
           /\ PairBin(p, left, forY).in < left
                  => PairBin(p, left, forY).out = ReserveOut(p, p.active, forY)
<1>1. p.active \in LBBins /\ p.volRef \in Nat /\ p.idRef \in LBBins /\ p.fees \in LBFeeParameters
  BY StateFacts
<1>2. [vol |-> p.volRef, id |-> p.idRef] \in [vol : Nat, id : LBBins]
  BY <1>1
<1>3. PairVol(p) \in Nat /\ PairVol(p) <= p.fees.max
  BY <1>1, <1>2, VolatilityFacts DEF PairVol
<1>4. TotalFee(p.fees, PairVol(p)) \in 0..LBMaxFee
  BY <1>1, <1>3, TotalFeeType
<1>. QED
  BY <1>1, <1>3, <1>4, SwapInBinFacts DEF PairBin

LEMMA PairBinsFacts ==
    ASSUME NEW p \in LBStates, NEW left \in Nat, NEW forY \in BOOLEAN
    PROVE  LET r == Reserves(p, p.active)
               b == PairBin(p, left, forY)
           IN  /\ PairBins(p, left, forY) \in BinMaps
               /\ r.x + b.in \in Nat /\ r.y + b.in \in Nat
               /\ forY => r.y - b.out \in Nat
               /\ ~forY => r.x - b.out \in Nat
               /\ \A i : i # p.active => (i \in DOMAIN PairBins(p, left, forY) <=> i \in DOMAIN p.bins)
               /\ \A i \in DOMAIN p.bins : i # p.active => PairBins(p, left, forY)[i] = p.bins[i]
<1>. DEFINE r == Reserves(p, p.active)
            b == PairBin(p, left, forY)
<1>1. p.active \in LBBins /\ p.bins \in BinMaps
  BY StateFacts
<1>2. r.x \in Nat /\ r.y \in Nat /\ ReserveOut(p, p.active, forY) = IF forY THEN r.y ELSE r.x
  BY ReservesType DEF ReserveOut
<1>3. b.in \in Nat /\ b.out \in 0..(IF forY THEN r.y ELSE r.x)
  BY <1>2, PairBinFacts
<1>4. PairBins(p, left, forY) = IF forY THEN UpdateBin(p.bins, p.active, r.x + b.in, r.y - b.out)
                                ELSE UpdateBin(p.bins, p.active, r.x - b.out, r.y + b.in)
  BY DEF PairBins
<1>. HIDE DEF r, b
<1>5. /\ r.x + b.in \in Nat /\ r.y + b.in \in Nat
      /\ forY => r.y - b.out \in Nat
      /\ ~forY => r.x - b.out \in Nat
  BY <1>2, <1>3
<1>. DEFINE x == IF forY THEN r.x + b.in ELSE r.x - b.out
            y == IF forY THEN r.y - b.out ELSE r.y + b.in
<1>6. x \in Nat /\ y \in Nat
  BY <1>5
<1>7. PairBins(p, left, forY) = UpdateBin(p.bins, p.active, x, y)
  BY <1>4
<1>. HIDE DEF x, y
<1>8. /\ PairBins(p, left, forY) \in BinMaps
      /\ \A i : i # p.active => (i \in DOMAIN PairBins(p, left, forY) <=> i \in DOMAIN p.bins)
      /\ \A i \in DOMAIN p.bins : i # p.active => PairBins(p, left, forY)[i] = p.bins[i]
  BY <1>1, <1>6, <1>7, UpdateBinFacts
<1>. QED
  BY <1>5, <1>8 DEF r, b

LEMMA PairSwappedFacts ==
    ASSUME NEW ts \in Nat, NEW p \in PoolsAt(ts), NEW left \in Nat, NEW forY \in BOOLEAN
    PROVE  LET q == PairSwapped(p, left, forY)
           IN  /\ q \in PoolsAt(ts) /\ q.active = p.active /\ q.fees = p.fees /\ q.volRef = p.volRef
               /\ q.idRef = p.idRef /\ q.time = p.time /\ q.volAcc = PairVol(p)
               /\ q.bins = PairBins(p, left, forY)
<1>. DEFINE q == PairSwapped(p, left, forY)
            v == PairVol(p)
            b == PairBins(p, left, forY)
<1>1. p \in LBStates /\ p.volRef \in Nat /\ p.volAcc \in Nat /\ p.fees \in LBFeeParameters
  BY PoolsAtFacts, StateFacts
<1>2. v \in Nat /\ v <= p.fees.max /\ b \in BinMaps
  BY <1>1, PairBinFacts, PairBinsFacts
<1>3. q = [p EXCEPT !.volAcc = v, !.bins = b]
  BY DEF PairSwapped
<1>. HIDE DEF v, b, q
<1>4. /\ q \in LBStates /\ q.active = p.active /\ q.fees = p.fees /\ q.volRef = p.volRef
      /\ q.idRef = p.idRef /\ q.time = p.time /\ q.volAcc = v /\ q.bins = b
  BY <1>1, <1>2, <1>3 DEF LBStates
<1>5. VolOK(v, p.volRef)
  <2>1. PICK f \in LBFeeParameters : p.volAcc <= f.max /\ p.volRef <= f.max
    BY PoolsAtFacts DEF VolOK
  <2>2. f.max \in Nat /\ p.fees.max \in Nat
    BY <1>1, FeeTypes
  <2>3. CASE f.max <= p.fees.max
    <3>1. p.volRef <= p.fees.max
      BY <1>1, <2>1, <2>2, <2>3
    <3>. QED
      BY <1>1, <1>2, <3>1 DEF VolOK
  <2>4. CASE ~(f.max <= p.fees.max)
    <3>1. v <= f.max
      BY <1>2, <2>2, <2>4
    <3>. QED
      BY <2>1, <3>1 DEF VolOK
  <2>. QED
    BY <2>3, <2>4
<1>6. q \in PoolsAt(ts)
  BY <1>4, <1>5, PoolsAtFacts DEF PoolsAt
<1>. QED
  BY <1>4, <1>6 DEF q, v, b

\* apply_log of a bin's Swap makes of a pool whose bins and references are the pair's
\* what the pair becomes.
LEMMA SwapReplays ==
    ASSUME NEW ts \in Nat, NEW p \in PoolsAt(ts), p.time = ts, NEW left \in Nat, NEW forY \in BOOLEAN,
           NEW c \in PoolsAt(ts), c.bins = p.bins, c.fees = p.fees,
           UpdateReferences(c, ts) = [vol |-> p.volRef, id |-> p.idRef]
    PROVE  LET log == PairLog(p, left, forY, ts)
           IN  log \in LBLogs /\ AppliedLB(c, log) = PairSwapped(p, left, forY)
<1>. DEFINE log == PairLog(p, left, forY, ts)
            q == PairSwapped(p, left, forY)
            b == PairBin(p, left, forY)
            r == Reserves(p, p.active)
<1>1. p \in LBStates /\ c \in LBStates /\ p.active \in LBBins
  BY PoolsAtFacts, StateFacts
<1>2. PairVol(p) \in Nat /\ b.in \in Nat /\ b.out \in Nat
  BY <1>1, PairBinFacts, ReservesType
<1>3. /\ log.kind = "swap" /\ log.id = p.active /\ log.ts = ts /\ log.vol = PairVol(p) /\ log.forY = forY
      /\ log.in = b.in /\ log.out = b.out /\ log \in LBLogs
  BY <1>1, <1>2 DEF PairLog, LBLogs
<1>4. Reserves(c, p.active) = r
  BY DEF Reserves
<1>5. (forY => Saturate(r.y - b.out) = r.y - b.out) /\ (~forY => Saturate(r.x - b.out) = r.x - b.out)
  <2>1. (forY => r.y - b.out \in Nat) /\ (~forY => r.x - b.out \in Nat)
    BY <1>1, PairBinsFacts
  <2>. QED
    BY <2>1 DEF Saturate
<1>6. (IF log.forY THEN UpdateBin(c.bins, log.id, r.x + log.in, Saturate(r.y - log.out))
       ELSE UpdateBin(c.bins, log.id, Saturate(r.x - log.out), r.y + log.in)) = PairBins(p, left, forY)
  BY <1>3, <1>5 DEF PairBins
<1>7. AppliedLB(c, log) = ApplySwap(c, log)
  BY <1>3 DEF AppliedLB
<1>. DEFINE a == [c EXCEPT !.bins = PairBins(p, left, forY), !.volRef = p.volRef, !.idRef = p.idRef,
                           !.active = p.active, !.volAcc = PairVol(p), !.time = ts]
<1>8. ApplySwap(c, log) = a
  <2>. DEFINE ref == UpdateReferences(c, ts)
  <2>1. ref.vol = p.volRef /\ ref.id = p.idRef /\ LogTimestamp(log) = ts
    BY <1>3 DEF LogTimestamp
  <2>. HIDE DEF log, r, ref
  <2>2. ApplySwap(c, log) =
        [c EXCEPT !.bins = IF log.forY
                           THEN UpdateBin(c.bins, log.id, r.x + log.in, Saturate(r.y - log.out))
                           ELSE UpdateBin(c.bins, log.id, Saturate(r.x - log.out), r.y + log.in),
                  !.volRef = ref.vol, !.idRef = ref.id,
                  !.active = log.id, !.volAcc = log.vol, !.time = ts]
    BY <1>3, <1>4, <2>1 DEF ApplySwap, ref
  <2>. QED
    BY <1>3, <1>6, <2>1, <2>2
<1>9. /\ q \in LBStates /\ q.active = p.active /\ q.fees = p.fees /\ q.volRef = p.volRef
      /\ q.idRef = p.idRef /\ q.time = p.time /\ q.volAcc = PairVol(p)
      /\ q.bins = PairBins(p, left, forY)
  BY PairSwappedFacts, PoolsAtFacts
<1>. HIDE DEF q, log, r, b
<1>10. PairBins(p, left, forY) \in BinMaps /\ p.volRef \in Nat /\ p.idRef \in LBBins /\ ts \in Nat \ {0}
  BY <1>1, PairBinsFacts, StateFacts
<1>11. /\ a \in LBStates /\ a.active = p.active /\ a.fees = c.fees /\ a.volRef = p.volRef
       /\ a.idRef = p.idRef /\ a.time = ts /\ a.volAcc = PairVol(p)
       /\ a.bins = PairBins(p, left, forY)
  <2>1. PICK bins \in BinMaps, v \in Nat : bins = PairBins(p, left, forY) /\ v = PairVol(p)
    BY <1>2, <1>10
  <2>. DEFINE d == [c EXCEPT !.bins = bins, !.volRef = p.volRef, !.idRef = p.idRef,
                             !.active = p.active, !.volAcc = v, !.time = ts]
  <2>2. /\ d \in LBStates /\ d.active = p.active /\ d.fees = c.fees /\ d.volRef = p.volRef
        /\ d.idRef = p.idRef /\ d.time = ts /\ d.volAcc = v /\ d.bins = bins
    BY <1>1, <1>10 DEF LBStates
  <2>3. a = d
    BY <2>1
  <2>. HIDE DEF a, d
  <2>. QED
    BY <2>1, <2>2, <2>3
<1>. HIDE DEF a
<1>12. a = q
  BY <1>9, <1>11, SameState
<1>. QED
  BY <1>3, <1>7, <1>8, <1>12 DEF log, q

\* The states of a swap of p: a pool that replays the logs so far has the bins and the
\* references of the pair, and is the pair when nothing is left.
Shadows(c, p0, s, ts) ==
    /\ Replays(s.logs, p0, c, PoolsAt(ts)) /\ c.bins = s.pair.bins /\ c.fees = s.pair.fees
    /\ UpdateReferences(c, ts) = [vol |-> s.pair.volRef, id |-> s.pair.idRef]
    /\ s.left = 0 => c = s.pair
PairRuns(p0, ts) ==
    {s \in [pair : PoolsAt(ts), left : Nat, out : Nat, logs : Seq(LBLogs)] :
        s.pair.time = ts /\ \E c \in PoolsAt(ts) : Shadows(c, p0, s, ts)}

LEMMA PairRunTypes ==
    ASSUME NEW ts \in Nat, NEW p0, NEW s \in PairRuns(p0, ts)
    PROVE  /\ s.pair \in PoolsAt(ts) /\ s.pair \in LBStates /\ s.left \in Nat /\ s.out \in Nat
           /\ s.logs \in Seq(LBLogs) /\ s.pair.time = ts
           /\ \E c \in PoolsAt(ts) : Shadows(c, p0, s, ts)
<1>1. /\ s \in [pair : PoolsAt(ts), left : Nat, out : Nat, logs : Seq(LBLogs)]
      /\ s.pair.time = ts /\ \E c \in PoolsAt(ts) : Shadows(c, p0, s, ts)
  BY DEF PairRuns
<1>2. s.pair \in PoolsAt(ts) /\ s.left \in Nat /\ s.out \in Nat /\ s.logs \in Seq(LBLogs)
  BY <1>1
<1>. QED
  BY <1>1, <1>2, PoolsAtFacts

LEMMA PairRunState ==
    ASSUME NEW ts \in Nat, NEW p0, NEW p \in PoolsAt(ts), p.time = ts, NEW left \in Nat, NEW out \in Nat,
           NEW logs \in Seq(LBLogs), NEW c \in PoolsAt(ts),
           Replays(logs, p0, c, PoolsAt(ts)), c.bins = p.bins, c.fees = p.fees,
           UpdateReferences(c, ts) = [vol |-> p.volRef, id |-> p.idRef], left = 0 => c = p
    PROVE  [pair |-> p, left |-> left, out |-> out, logs |-> logs] \in PairRuns(p0, ts)
<1>. DEFINE s == [pair |-> p, left |-> left, out |-> out, logs |-> logs]
<1>1. /\ s \in [pair : PoolsAt(ts), left : Nat, out : Nat, logs : Seq(LBLogs)]
      /\ s.pair = p /\ s.left = left /\ s.logs = logs
  OBVIOUS
<1>. HIDE DEF s
<1>2. Shadows(c, p0, s, ts)
  BY <1>1 DEF Shadows
<1>3. s \in PairRuns(p0, ts)
  BY <1>1, <1>2 DEF PairRuns
<1>. QED
  BY <1>3 DEF s

LEMMA PairStepKeeps ==
    ASSUME NEW ts \in Nat, NEW p0, NEW forY \in BOOLEAN, NEW s \in PairRuns(p0, ts)
    PROVE  PairStep(ts, forY, s) \in PairRuns(p0, ts)
<1>. DEFINE p == s.pair
            b == PairBin(p, s.left, forY)
            q == PairSwapped(p, s.left, forY)
            log == PairLog(p, s.left, forY, ts)
            next == PairStep(ts, forY, s)
<1>1. /\ p \in PoolsAt(ts) /\ p \in LBStates /\ s.left \in Nat /\ s.out \in Nat
      /\ s.logs \in Seq(LBLogs) /\ p.time = ts
  BY PairRunTypes
<1>2. PICK c \in PoolsAt(ts) : Shadows(c, p0, s, ts)
  BY PairRunTypes
<1>3. /\ Replays(s.logs, p0, c, PoolsAt(ts)) /\ c.bins = p.bins /\ c.fees = p.fees
      /\ UpdateReferences(c, ts) = [vol |-> p.volRef, id |-> p.idRef]
  BY <1>2 DEF Shadows
<1>4. CASE s.left = 0
  BY <1>1, <1>4, PairStepCases
<1>5. CASE s.left # 0 /\ ReserveOut(p, p.active, forY) > 0
  <2>. DEFINE moved == IF s.left > b.in /\ Ahead(q, p.active, forY) # {}
                       THEN [q EXCEPT !.active = NextBin(q, p.active, forY)] ELSE q
  <2>1. next = [pair |-> moved, left |-> s.left - b.in, out |-> s.out + b.out, logs |-> Append(s.logs, log)]
    BY <1>1, <1>5, PairStepCases
  <2>2. b.in \in 0..s.left /\ b.out \in Nat
    BY <1>1, PairBinFacts, ReservesType
  <2>3. /\ q \in PoolsAt(ts) /\ q \in LBStates /\ q.fees = p.fees /\ q.volRef = p.volRef
        /\ q.idRef = p.idRef /\ q.time = p.time /\ q.bins = PairBins(p, s.left, forY)
    BY <1>1, PairSwappedFacts, PoolsAtFacts
  <2>4. log \in LBLogs /\ AppliedLB(c, log) = q
    BY <1>1, <1>3, SwapReplays
  <2>. HIDE DEF p, b, q, log
  <2>5. Replays(Append(s.logs, log), p0, q, PoolsAt(ts)) /\ Append(s.logs, log) \in Seq(LBLogs)
    BY <1>1, <1>3, <2>3, <2>4, ReplayAppend
  <2>6. UpdateReferences(q, ts) = [vol |-> q.volRef, id |-> q.idRef]
    BY <1>1, <2>3, ReferencesFacts
  <2>7. /\ moved \in PoolsAt(ts) /\ moved.fees = q.fees /\ moved.volRef = q.volRef
        /\ moved.idRef = q.idRef /\ moved.time = q.time /\ moved.bins = q.bins
        /\ s.left - b.in = 0 => q = moved
    <3>1. CASE s.left > b.in /\ Ahead(q, p.active, forY) # {}
      <4>1. NextBin(q, p.active, forY) \in LBBins
        BY <2>3, <3>1, NextBinFacts
      <4>2. moved = [q EXCEPT !.active = NextBin(q, p.active, forY)]
        BY <3>1
      <4>3. s.left - b.in # 0
        BY <1>1, <2>2, <3>1
      <4>. QED
        BY <2>3, <4>1, <4>2, <4>3, WithActive
    <3>2. CASE ~(s.left > b.in /\ Ahead(q, p.active, forY) # {})
      BY <2>3, <3>2
    <3>. QED
      BY <3>1, <3>2
  <2>. HIDE DEF moved
  <2>8. s.left - b.in \in Nat /\ s.out + b.out \in Nat
    BY <1>1, <2>2
  <2>9. moved.time = ts /\ q.bins = moved.bins /\ q.fees = moved.fees
        /\ UpdateReferences(q, ts) = [vol |-> moved.volRef, id |-> moved.idRef]
    BY <1>1, <2>3, <2>6, <2>7
  <2>10. PICK m \in PoolsAt(ts), left \in Nat, out \in Nat, logs \in Seq(LBLogs) :
             m = moved /\ left = s.left - b.in /\ out = s.out + b.out /\ logs = Append(s.logs, log)
    BY <2>5, <2>7, <2>8
  <2>11. /\ Replays(logs, p0, q, PoolsAt(ts)) /\ m.time = ts /\ q.bins = m.bins /\ q.fees = m.fees
         /\ UpdateReferences(q, ts) = [vol |-> m.volRef, id |-> m.idRef] /\ (left = 0 => q = m)
    BY <2>5, <2>7, <2>9, <2>10
  <2>12. [pair |-> m, left |-> left, out |-> out, logs |-> logs] \in PairRuns(p0, ts)
    BY <2>3, <2>10, <2>11, PairRunState
  <2>. QED
    BY <2>1, <2>10, <2>12
<1>6. CASE s.left # 0 /\ ~(ReserveOut(p, p.active, forY) > 0) /\ Ahead(p, p.active, forY) # {}
  <2>. DEFINE moved == [p EXCEPT !.active = NextBin(p, p.active, forY)]
  <2>1. next = [s EXCEPT !.pair = moved]
    BY <1>1, <1>6, PairStepCases
  <2>2. next = [pair |-> moved, left |-> s.left, out |-> s.out, logs |-> s.logs]
    <3>. HIDE DEF moved
    <3>1. s \in [pair : PoolsAt(ts), left : Nat, out : Nat, logs : Seq(LBLogs)]
      BY DEF PairRuns
    <3>. QED
      BY <2>1, <3>1
  <2>3. NextBin(p, p.active, forY) \in LBBins
    BY <1>1, <1>6, NextBinFacts
  <2>4. /\ moved \in PoolsAt(ts) /\ moved.fees = p.fees /\ moved.volRef = p.volRef
        /\ moved.idRef = p.idRef /\ moved.time = p.time /\ moved.bins = p.bins
    <3>. HIDE DEF p
    <3>. QED
      BY <1>1, <2>3, WithActive
  <2>. HIDE DEF moved, p
  <2>. QED
    BY <1>1, <1>3, <1>6, <2>2, <2>4, PairRunState
<1>7. CASE s.left # 0 /\ ~(ReserveOut(p, p.active, forY) > 0) /\ Ahead(p, p.active, forY) = {}
  BY <1>1, <1>7, PairStepCases
<1>. QED
  BY <1>4, <1>5, <1>6, <1>7

\* The bins are as many steps as a walk over them can take.
Steps == Cardinality(LBBins)

LEMMA StepsType == Steps \in Nat
BY LBAssumption, FS_CardinalityType DEF Steps

PairStart(p, amount, ts) ==
    LET ref == UpdateReferences(p, ts)
    IN [pair |-> [p EXCEPT !.volRef = ref.vol, !.idRef = ref.id, !.time = ts],
        left |-> amount, out |-> 0, logs |-> <<>>]

LEMMA PairStartType ==
    ASSUME NEW ts \in Nat, NEW p \in PoolsAt(ts), NEW amount \in Nat \ {0}
    PROVE  /\ PairStart(p, amount, ts) \in PairRuns(p, ts)
           /\ PairStart(p, amount, ts).left = amount /\ PairStart(p, amount, ts).out = 0
           /\ PairStart(p, amount, ts).pair.active = p.active
           /\ PairStart(p, amount, ts).pair.bins = p.bins
           /\ PairStart(p, amount, ts).pair.fees = p.fees
           /\ UpdateReferences(p, ts) = [vol |-> PairStart(p, amount, ts).pair.volRef,
                                         id |-> PairStart(p, amount, ts).pair.idRef]
<1>. DEFINE ref == UpdateReferences(p, ts)
            q == [p EXCEPT !.volRef = ref.vol, !.idRef = ref.id, !.time = ts]
            m == [p EXCEPT !.volRef = ref.vol, !.idRef = ref.id, !.time = ts, !.volAcc = p.volAcc]
<1>1. p \in LBStates /\ p.volAcc \in Nat /\ p.volAcc <= p.volAcc
  BY PoolsAtFacts, StateFacts
<1>2. m \in PoolsAt(ts)
  <2>1. PICK acc \in Nat : acc = p.volAcc
    BY <1>1
  <2>2. acc <= p.volAcc
    BY <1>1, <2>1
  <2>. HIDE DEF q, m
  <2>. DEFINE n == [p EXCEPT !.volRef = ref.vol, !.idRef = ref.id, !.time = ts, !.volAcc = acc]
  <2>3. n \in PoolsAt(ts)
    BY <2>2, MovedType
  <2>. HIDE DEF ref
  <2>4. n = m
    BY <2>1 DEF m
  <2>. QED
    BY <2>3, <2>4
<1>a. /\ m.volRef = ref.vol /\ m.idRef = ref.id /\ m.time = ts
      /\ m.active = p.active /\ m.fees = p.fees /\ m.bins = p.bins
  <2>. HIDE DEF ref
  <2>. QED
    BY <1>1 DEF LBStates
<1>3. ref = [vol |-> ref.vol, id |-> ref.id]
  <2>1. ref \in [vol : Nat, id : LBBins]
    BY <1>1, ReferencesFacts
  <2>. HIDE DEF ref
  <2>. QED
    BY <2>1
<1>4. q = m
  <2>. HIDE DEF ref
  <2>. QED
    BY <1>1 DEF LBStates
<1>5. PairStart(p, amount, ts) = [pair |-> q, left |-> amount, out |-> 0, logs |-> <<>>]
  BY DEF PairStart
<1>6. ref = [vol |-> q.volRef, id |-> q.idRef]
  <2>. HIDE DEF ref, q, m
  <2>. QED
    BY <1>a, <1>3, <1>4
<1>7. Replays(<<>>, p, p, PoolsAt(ts)) /\ <<>> \in Seq(LBLogs)
  BY ReplayNone
<1>8. q \in PoolsAt(ts) /\ q.time = ts /\ q.active = p.active /\ q.fees = p.fees /\ q.bins = p.bins
  BY <1>2, <1>a, <1>4
<1>. HIDE DEF q, m
<1>9. [pair |-> q, left |-> amount, out |-> 0, logs |-> <<>>] \in PairRuns(p, ts)
  BY <1>6, <1>7, <1>8, PairRunState
<1>. QED
  BY <1>5, <1>6, <1>8, <1>9

IsPairRun(f, p, amount, forY, ts) ==
    /\ f \in [0..Steps -> PairRuns(p, ts)] /\ f[0] = PairStart(p, amount, ts)
    /\ \A n \in 1..Steps : f[n] = PairStep(ts, forY, f[n - 1])
    /\ PairSwap(p, amount, forY, ts) = f[Steps]

LEMMA PairRun ==
    ASSUME NEW ts \in Nat, NEW p \in PoolsAt(ts), NEW amount \in Nat \ {0}, NEW forY \in BOOLEAN
    PROVE  \E f : IsPairRun(f, p, amount, forY, ts)
<1>. DEFINE D == PairRuns(p, ts)
            start == PairStart(p, amount, ts)
            N == Cardinality(LBBins)
            step[n \in 0..N] == IF n = 0 THEN start ELSE PairStep(ts, forY, step[n - 1])
            IsStep(f) == f = [n \in 0..N |-> IF n = 0 THEN start ELSE PairStep(ts, forY, f[n - 1])]
            G == [s \in D |-> PairStep(ts, forY, s)]
<1>0. N \in Nat /\ start \in D
  BY StepsType, PairStartType DEF Steps
<1>1. PairSwap(p, amount, forY, ts) = step[N]
  BY DEF PairSwap, PairStart
<1>2. step = CHOOSE f : IsStep(f)
  OBVIOUS
<1>3. \A s \in D : PairStep(ts, forY, s) \in D
  BY PairStepKeeps
<1>. HIDE DEF D, start, N
<1>4. G \in [D -> D] /\ \A s \in D : G[s] = PairStep(ts, forY, s)
  BY <1>3
<1>. HIDE DEF G
<1>5. PICK f : IsIteration(f, D, G, start, N)
  BY <1>0, <1>4, Iterates
<1>6. IsStep(f)
  <2>1. \A n \in 0..N : n # 0 => n \in 1..N /\ n - 1 \in 0..N
    BY <1>0
  <2>. QED
    BY <1>4, <1>5, <2>1 DEF IsIteration
<1>7. IsStep(step)
  <2>. HIDE DEF IsStep, step
  <2>. QED
    BY <1>2, <1>6
<1>. HIDE DEF step
<1>8. step[0] = start /\ (\A n \in 1..N : step[n] = PairStep(ts, forY, step[n - 1]))
      /\ DOMAIN step = 0..N /\ step = [n \in 0..N |-> step[n]]
  <2>1. 0 \in 0..N /\ \A n \in 1..N : n \in 0..N /\ n # 0
    BY <1>0
  <2>. QED
    BY <1>7, <2>1
<1>. HIDE DEF IsStep
<1>9. \A n \in 0..N : step[n] \in D
  <2>. DEFINE S == {n \in 0..N : step[n] \in D}
  <2>1. 0 \in S
    BY <1>0, <1>8
  <2>2. ASSUME NEW n \in 1..N, n - 1 \in S PROVE n \in S
    <3>1. n \in 0..N /\ step[n - 1] \in D
      BY <1>0, <2>2
    <3>2. step[n] = PairStep(ts, forY, step[n - 1])
      BY <1>8
    <3>3. step[n] \in D
      BY <1>3, <3>1, <3>2
    <3>. QED
      BY <3>1, <3>3
  <2>3. \A n \in 0..N : n \in S
    <3>. HIDE DEF S
    <3>. QED
      BY <1>0, <2>1, <2>2, BoundedInduction
  <2>. QED
    BY <2>3
<1>10. step \in [0..N -> D]
  BY <1>8, <1>9
<1>11. IsPairRun(step, p, amount, forY, ts)
  BY <1>1, <1>8, <1>10 DEF IsPairRun, N, D, start, Steps
<1>. QED
  BY <1>11

\* The logs of a swap that was paid lead from the pair before it to the pair after it.
LEMMA PairSwapReplays ==
    ASSUME NEW ts \in Nat, NEW p \in PoolsAt(ts), NEW amount \in Nat \ {0}, NEW forY \in BOOLEAN,
           PairSwap(p, amount, forY, ts).left = 0
    PROVE  LET paid == PairSwap(p, amount, forY, ts)
           IN  /\ paid.pair \in PoolsAt(ts) /\ paid.logs \in Seq(LBLogs)
               /\ Replays(paid.logs, p, paid.pair, PoolsAt(ts))
<1>1. PICK f : IsPairRun(f, p, amount, forY, ts)
  BY PairRun
<1>. DEFINE paid == PairSwap(p, amount, forY, ts)
<1>2. paid \in PairRuns(p, ts)
  BY <1>1, StepsType DEF IsPairRun
<1>. HIDE DEF paid
<1>3. /\ paid.pair \in PoolsAt(ts) /\ paid.logs \in Seq(LBLogs)
      /\ \E c \in PoolsAt(ts) : Shadows(c, p, paid, ts)
  BY <1>2, PairRunTypes
<1>4. PICK c \in PoolsAt(ts) : Shadows(c, p, paid, ts)
  BY <1>3
<1>5. c = paid.pair /\ Replays(paid.logs, p, c, PoolsAt(ts))
  BY <1>4 DEF Shadows, paid
<1>. QED
  BY <1>3, <1>5 DEF paid

----------------------------------------------------------------------------
(* Fetching: the tree and the walk both find every bin. *)

LEMMA Digits ==
    ASSUME NEW F \in Nat \ {0}, NEW m \in Nat \ {0}, NEW n \in Nat, n < m * F
    PROVE  \E k \in 0..(m - 1), b \in 0..(F - 1) : n = k * F + b
<1>. DEFINE k == n \div F
<1>1. k \in Nat /\ k * F <= n /\ n < k * F + F
  BY Quotient
<1>. HIDE DEF k
<1>2. k * F \in Nat /\ n - k * F \in 0..(F - 1)
  BY <1>1
<1>3. k < m
  <2>. SUFFICES ASSUME m <= k PROVE FALSE
    BY <1>1
  <2>1. PICK d \in Nat : k = m + d
    <3>1. k - m \in Nat /\ k = m + (k - m)
      BY <1>1
    <3>. QED
      BY <3>1
  <2>2. k * F = m * F + d * F /\ d * F \in Nat /\ m * F \in Nat
    BY <2>1
  <2>. QED
    BY <1>1, <2>2
<1>4. k \in 0..(m - 1) /\ n = k * F + (n - k * F)
  BY <1>1, <1>2, <1>3
<1>. QED
  BY <1>2, <1>4

LEMMA TreeFinds ==
    ASSUME NEW p \in LBStates, NEW id \in DOMAIN p.bins
    PROVE  id \in BinsFromTree(p)
<1>. DEFINE n == id + LBShift
            F == LBFanout
<1>1. F \in Nat \ {0} /\ F * F \in Nat \ {0} /\ LBShift \in Nat
  BY Constants
<1>2. id \in LBBins /\ id \in Int
  BY StateFacts, BinMapFacts, LBAssumption
<1>3. n \in Nat /\ n < (F * F) * F
  BY <1>1, <1>2, LBAssumption
<1>4. PICK k \in 0..(F * F - 1), b \in 0..(F - 1) : n = k * F + b
  BY <1>1, <1>3, Digits
<1>5. k \in Nat /\ k < F * F
  BY <1>1
<1>6. PICK j \in 0..(F - 1), c \in 0..(F - 1) : k = j * F + c
  BY <1>1, <1>5, Digits
<1>7. n \in NonEmpty(p)
  BY DEF NonEmpty
<1>8. b \in Level2(p, k)
  BY <1>4, <1>7 DEF Level2
<1>9. c \in Level1(p, j)
  BY <1>6, <1>8 DEF Level1
<1>10. j \in Level0(p)
  BY <1>9 DEF Level0
<1>. DEFINE keys == UNION {{i * LBFanout + d : d \in Level1(p, i)} : i \in Level0(p)}
<1>11. k \in keys
  BY <1>6, <1>9, <1>10
<1>12. id = k * LBFanout + b - LBShift
  BY <1>1, <1>2, <1>3, <1>4, <1>5
<1>13. BinsFromTree(p) = UNION {{i * LBFanout + d - LBShift : d \in Level2(p, i)} : i \in keys}
  BY DEF BinsFromTree
<1>. HIDE DEF keys
<1>. QED
  BY <1>8, <1>11, <1>12, <1>13

\* The bin a walk has come to, and what it knows: every bin between it and the start.
Reached(forY, seen) == IF forY THEN Min(seen) ELSE Max(seen)
Beyond(i, id, forY) == IF forY THEN i < id ELSE i > id
Walks(p, forY) ==
    {seen \in SUBSET LBBins :
        /\ p.active \in seen
        /\ \A i \in DOMAIN p.bins : Beyond(i, p.active, forY) /\ ~Beyond(i, Reached(forY, seen), forY)
                                        => i \in seen}

LEMMA ReachedFacts ==
    ASSUME NEW forY \in BOOLEAN, NEW seen, seen \subseteq LBBins, seen # {}
    PROVE  /\ Reached(forY, seen) \in seen
           /\ \A i \in seen : ~Beyond(i, Reached(forY, seen), forY)
<1>1. \A i \in seen : i \in Int
  BY LBAssumption
<1>2. CASE forY
  BY <1>1, <1>2, MinBin DEF Reached, Beyond
<1>3. CASE ~forY
  BY <1>1, <1>3, MaxBin DEF Reached, Beyond
<1>. QED
  BY <1>2, <1>3

\* One step either ends the walk or sees one more bin.
LEMMA WalkStepFacts ==
    ASSUME NEW p \in LBStates, NEW forY \in BOOLEAN, NEW seen \in Walks(p, forY)
    PROVE  /\ WalkStep(p, forY, seen) \in Walks(p, forY)
           /\ Ahead(p, Reached(forY, seen), forY) = {} => WalkStep(p, forY, seen) = seen
           /\ Ahead(p, Reached(forY, seen), forY) # {}
                  => \E i \in LBBins \ seen : WalkStep(p, forY, seen) = seen \cup {i}
<1>. DEFINE id == Reached(forY, seen)
            next == NextBin(p, id, forY)
            more == seen \cup {next}
<1>1. /\ seen \subseteq LBBins /\ p.active \in seen /\ seen # {}
      /\ \A i \in DOMAIN p.bins : Beyond(i, p.active, forY) /\ ~Beyond(i, id, forY) => i \in seen
  BY DEF Walks
<1>2. id \in seen /\ \A i \in seen : ~Beyond(i, id, forY)
  BY <1>1, ReachedFacts
<1>3. WalkStep(p, forY, seen) = IF Ahead(p, id, forY) = {} THEN seen ELSE more
  BY DEF WalkStep, Reached
<1>4. ASSUME Ahead(p, id, forY) # {} PROVE next \in LBBins \ seen /\ more \in Walks(p, forY)
  <2>1. /\ next \in Ahead(p, id, forY) /\ next \in LBBins
        /\ \A i \in Ahead(p, id, forY) : IF forY THEN i <= next ELSE i >= next
    BY <1>4, NextBinFacts
  <2>2. Beyond(next, id, forY)
    BY <2>1 DEF Ahead, Beyond
  <2>3. next \notin seen
    BY <1>2, <2>2
  <2>4. more \subseteq LBBins /\ more # {}
    BY <1>1, <2>1
  <2>5. Reached(forY, more) = next
    <3>. DEFINE m == Reached(forY, more)
    <3>1. m \in more /\ \A i \in more : ~Beyond(i, m, forY)
      BY <2>4, ReachedFacts
    <3>. HIDE DEF m, next, id
    <3>2. ~Beyond(next, m, forY) /\ ~Beyond(id, m, forY)
      BY <1>2, <3>1
    <3>3. m \in Int /\ next \in Int /\ id \in Int
      BY <1>1, <1>2, <2>1, <2>4, <3>1, LBAssumption
    <3>4. CASE m \in seen
      <4>1. ~Beyond(m, id, forY)
        BY <1>2, <3>4
      <4>. QED
        BY <2>2, <3>2, <3>3, <4>1 DEF Beyond
    <3>5. CASE m = next
      BY <3>5 DEF m
    <3>. QED
      BY <3>1, <3>4, <3>5
  <2>6. \A i \in DOMAIN p.bins : Beyond(i, p.active, forY) /\ ~Beyond(i, next, forY) => i \in more
    <3>. TAKE i \in DOMAIN p.bins
    <3>. HAVE Beyond(i, p.active, forY) /\ ~Beyond(i, next, forY)
    <3>1. CASE Beyond(i, id, forY)
      <4>1. i \in Ahead(p, id, forY)
        BY <3>1 DEF Ahead, Beyond
      <4>2. IF forY THEN i <= next ELSE i >= next
        BY <2>1, <4>1
      <4>3. i \in Int /\ next \in Int
        BY <2>1, StateFacts, BinMapFacts, LBAssumption
      <4>4. i = next
        BY <4>2, <4>3 DEF Beyond
      <4>. QED
        BY <4>4
    <3>2. CASE ~Beyond(i, id, forY)
      BY <1>1, <3>2
    <3>. QED
      BY <3>1, <3>2
  <2>. HIDE DEF next, id
  <2>. QED
    BY <1>1, <2>1, <2>3, <2>4, <2>5, <2>6 DEF Walks
<1>. HIDE DEF next, id
<1>5. CASE Ahead(p, id, forY) = {}
  BY <1>3, <1>5 DEF id
<1>6. CASE Ahead(p, id, forY) # {}
  BY <1>3, <1>4, <1>6 DEF id
<1>. QED
  BY <1>5, <1>6

LEMMA WalkStartType ==
    ASSUME NEW p \in LBStates, NEW forY \in BOOLEAN
    PROVE  {p.active} \in Walks(p, forY) /\ Cardinality({p.active}) = 1
<1>1. p.active \in LBBins
  BY StateFacts
<1>2. Reached(forY, {p.active}) = p.active
  BY <1>1, ReachedFacts
<1>. QED
  BY <1>1, <1>2, FS_Singleton DEF Walks

LEMMA WalkRun ==
    ASSUME NEW p \in LBStates, NEW forY \in BOOLEAN
    PROVE  \E f : /\ f \in [0..Steps -> Walks(p, forY)] /\ f[0] = {p.active}
                  /\ \A n \in 1..Steps : f[n] = WalkStep(p, forY, f[n - 1])
                  /\ Walk(p, forY) = f[Steps]
<1>. DEFINE D == Walks(p, forY)
            start == {p.active}
            N == Cardinality(LBBins)
            step[n \in 0..N] == IF n = 0 THEN start ELSE WalkStep(p, forY, step[n - 1])
            IsStep(f) == f = [n \in 0..N |-> IF n = 0 THEN start ELSE WalkStep(p, forY, f[n - 1])]
            G == [s \in D |-> WalkStep(p, forY, s)]
<1>0. N \in Nat /\ start \in D
  BY StepsType, WalkStartType DEF Steps
<1>1. Walk(p, forY) = step[N]
  BY DEF Walk
<1>2. step = CHOOSE f : IsStep(f)
  OBVIOUS
<1>3. \A s \in D : WalkStep(p, forY, s) \in D
  BY WalkStepFacts
<1>. HIDE DEF D, start, N
<1>4. G \in [D -> D] /\ \A s \in D : G[s] = WalkStep(p, forY, s)
  BY <1>3
<1>. HIDE DEF G
<1>5. PICK f : IsIteration(f, D, G, start, N)
  BY <1>0, <1>4, Iterates
<1>6. IsStep(f)
  <2>1. \A n \in 0..N : n # 0 => n \in 1..N /\ n - 1 \in 0..N
    BY <1>0
  <2>. QED
    BY <1>4, <1>5, <2>1 DEF IsIteration
<1>7. IsStep(step)
  <2>. HIDE DEF IsStep, step
  <2>. QED
    BY <1>2, <1>6
<1>. HIDE DEF step
<1>8. step[0] = start /\ (\A n \in 1..N : step[n] = WalkStep(p, forY, step[n - 1]))
      /\ DOMAIN step = 0..N /\ step = [n \in 0..N |-> step[n]]
  <2>1. 0 \in 0..N /\ \A n \in 1..N : n \in 0..N /\ n # 0
    BY <1>0
  <2>. QED
    BY <1>7, <2>1
<1>. HIDE DEF IsStep
<1>9. \A n \in 0..N : step[n] \in D
  <2>. DEFINE S == {n \in 0..N : step[n] \in D}
  <2>1. 0 \in S
    BY <1>0, <1>8
  <2>2. ASSUME NEW n \in 1..N, n - 1 \in S PROVE n \in S
    <3>1. n \in 0..N /\ step[n - 1] \in D
      BY <1>0, <2>2
    <3>2. step[n] = WalkStep(p, forY, step[n - 1])
      BY <1>8
    <3>3. step[n] \in D
      BY <1>3, <3>1, <3>2
    <3>. QED
      BY <3>1, <3>3
  <2>3. \A n \in 0..N : n \in S
    <3>. HIDE DEF S
    <3>. QED
      BY <1>0, <2>1, <2>2, BoundedInduction
  <2>. QED
    BY <2>3
<1>10. step \in [0..N -> D]
  BY <1>8, <1>9
<1>. QED
  BY <1>1, <1>8, <1>10 DEF N, D, start, Steps

LEMMA WalkFinds ==
    ASSUME NEW p \in LBStates, NEW forY \in BOOLEAN
    PROVE  /\ p.active \in Walk(p, forY)
           /\ \A i \in DOMAIN p.bins : Beyond(i, p.active, forY) => i \in Walk(p, forY)
<1>1. PICK f : /\ f \in [0..Steps -> Walks(p, forY)] /\ f[0] = {p.active}
               /\ \A n \in 1..Steps : f[n] = WalkStep(p, forY, f[n - 1])
               /\ Walk(p, forY) = f[Steps]
  BY WalkRun
<1>. DEFINE Ended(n) == Ahead(p, Reached(forY, f[n]), forY) = {}
            S == {n \in 0..Steps : Ended(n) \/ Cardinality(f[n]) >= n + 1}
<1>0. Steps \in Nat
  BY StepsType
<1>2. 0 \in S
  BY <1>0, <1>1, WalkStartType
<1>3. ASSUME NEW n \in 1..Steps, n - 1 \in S PROVE n \in S
  <2>1. n - 1 \in 0..Steps /\ n \in 0..Steps /\ n \in Nat
    BY <1>0
  <2>2. f[n - 1] \in Walks(p, forY) /\ f[n] = WalkStep(p, forY, f[n - 1])
    BY <1>1, <2>1
  <2>3. CASE Ended(n - 1)
    <3>1. f[n] = f[n - 1]
      BY <2>2, <2>3, WalkStepFacts
    <3>. QED
      BY <2>1, <2>3, <3>1
  <2>4. CASE ~Ended(n - 1)
    <3>1. PICK i \in LBBins \ f[n - 1] : f[n] = f[n - 1] \cup {i}
      BY <2>2, <2>4, WalkStepFacts
    <3>2. f[n - 1] \subseteq LBBins
      BY <2>2 DEF Walks
    <3>3. IsFiniteSet(f[n - 1])
      BY <3>2, LBAssumption, FS_Subset
    <3>4. Cardinality(f[n]) = Cardinality(f[n - 1]) + 1
      BY <3>1, <3>3, FS_AddElement
    <3>5. Cardinality(f[n - 1]) >= n /\ Cardinality(f[n - 1]) \in Nat
      BY <1>3, <2>1, <2>4, <3>3, FS_CardinalityType
    <3>. QED
      BY <2>1, <3>4, <3>5
  <2>. QED
    BY <2>3, <2>4
<1>4. \A n \in 0..Steps : n \in S
  <2>. HIDE DEF S
  <2>. QED
    BY <1>0, <1>2, <1>3, BoundedInduction
<1>5. f[Steps] \in Walks(p, forY) /\ Steps \in S
  BY <1>0, <1>1, <1>4
<1>6. /\ f[Steps] \subseteq LBBins /\ p.active \in f[Steps]
      /\ \A i \in DOMAIN p.bins : Beyond(i, p.active, forY) /\ ~Beyond(i, Reached(forY, f[Steps]), forY)
                                       => i \in f[Steps]
  BY <1>5 DEF Walks
<1>7. Cardinality(f[Steps]) <= Steps /\ Cardinality(f[Steps]) \in Nat
  <2>1. IsFiniteSet(f[Steps]) /\ Cardinality(f[Steps]) <= Cardinality(LBBins)
    BY <1>6, LBAssumption, FS_Subset
  <2>. QED
    BY <2>1, FS_CardinalityType DEF Steps
<1>8. Ended(Steps)
  BY <1>0, <1>5, <1>7
<1>9. \A i \in DOMAIN p.bins : ~Beyond(i, Reached(forY, f[Steps]), forY)
  BY <1>8 DEF Ahead, Beyond
<1>. QED
  BY <1>1, <1>6, <1>9

\* fetch_lb_pool comes out with the pool as the pair has it.
LEMMA FetchIsPair ==
    ASSUME NEW p \in LBStates, NEW byTree \in BOOLEAN
    PROVE  FetchLBPool(p, byTree) = p
<1>. DEFINE ids == IF byTree THEN BinsFromTree(p) ELSE BinsByWalking(p)
            found == {id \in ids : Reserves(p, id).x > 0 \/ Reserves(p, id).y > 0}
            bins == [id \in found |-> Reserves(p, id)]
<1>1. DOMAIN p.bins \subseteq ids
  <2>1. CASE byTree
    BY <2>1, TreeFinds
  <2>2. CASE ~byTree
    <3>. SUFFICES ASSUME NEW i \in DOMAIN p.bins PROVE i \in BinsByWalking(p)
      BY <2>2
    <3>1. i \in Int /\ p.active \in Int
      BY StateFacts, BinMapFacts, LBAssumption
    <3>2. Beyond(i, p.active, TRUE) \/ Beyond(i, p.active, FALSE) \/ i = p.active
      BY <3>1 DEF Beyond
    <3>3. i \in Walk(p, TRUE) \/ i \in Walk(p, FALSE)
      BY <3>2, WalkFinds
    <3>. QED
      BY <3>3 DEF BinsByWalking
  <2>. QED
    BY <2>1, <2>2
<1>. HIDE DEF ids
<1>2. \A id : (Reserves(p, id).x > 0 \/ Reserves(p, id).y > 0) <=> id \in DOMAIN p.bins
  <2>. TAKE id
  <2>1. /\ Reserves(p, id).x \in Nat /\ Reserves(p, id).y \in Nat
        /\ id \in DOMAIN p.bins <=> Reserves(p, id).x + Reserves(p, id).y > 0
    BY ReservesType
  <2>. QED
    BY <2>1
<1>3. found = DOMAIN p.bins
  BY <1>1, <1>2
<1>4. bins = [id \in DOMAIN p.bins |-> p.bins[id]]
  BY <1>3 DEF Reserves
<1>5. p.bins = [id \in DOMAIN p.bins |-> p.bins[id]]
  BY StateFacts, BinMapFacts
<1>6. FetchLBPool(p, byTree) = [p EXCEPT !.bins = bins]
  BY DEF FetchLBPool, ids
<1>7. [p EXCEPT !.bins = p.bins] = p
  BY DEF LBStates
<1>. HIDE DEF bins
<1>. QED
  BY <1>4, <1>5, <1>6, <1>7

----------------------------------------------------------------------------
(* The quotes, bin by bin. *)

OutRuns == [id : LBBins, left : Nat, out : Nat, done : BOOLEAN]
InRuns == [id : LBBins, left : Nat, in : Nat, done : BOOLEAN]
Refs == [vol : Nat, id : LBBins]

\* The fee of a bin in a quote.
BinFee(p, id, ref) == TotalFee(p.fees, VolatilityAt(p, id, ref))

LEMMA BinFeeType ==
    ASSUME NEW p \in LBStates, NEW id \in LBBins, NEW ref \in Refs
    PROVE  BinFee(p, id, ref) \in 0..LBMaxFee
<1>1. VolatilityAt(p, id, ref) \in Nat /\ p.fees \in LBFeeParameters
  BY VolatilityFacts, StateFacts DEF Refs
<1>. QED
  BY <1>1, TotalFeeType DEF BinFee

\* The fields of one step, with the bin's numbers at hand.
LEMMA OutStepFacts ==
    ASSUME NEW p \in LBStates, NEW ref \in Refs, NEW forY \in BOOLEAN, NEW s \in OutRuns
    PROVE  LET t == SwapOutStep(p, ref, forY, s)
               b == SwapInBin(p, s.id, s.left, forY, BinFee(p, s.id, ref))
           IN  /\ t \in OutRuns
               /\ s.done => t = s
               /\ ~s.done =>
                    /\ ReserveOut(p, s.id, forY) = 0 => t.left = s.left /\ t.out = s.out
                    /\ ReserveOut(p, s.id, forY) # 0 => t.left = s.left - b.in /\ t.out = s.out + b.out
                    /\ t.done <=> (t.left = 0 \/ Ahead(p, s.id, forY) = {})
                    /\ ~t.done => t.id = NextBin(p, s.id, forY)
<1>. DEFINE t == SwapOutStep(p, ref, forY, s)
            b == SwapInBin(p, s.id, s.left, forY, BinFee(p, s.id, ref))
            empty == ReserveOut(p, s.id, forY) = 0
            left == IF empty THEN s.left ELSE s.left - b.in
            out == IF empty THEN s.out ELSE s.out + b.out
            last == left = 0 \/ Ahead(p, s.id, forY) = {}
            id == IF last THEN s.id ELSE NextBin(p, s.id, forY)
<1>1. s.id \in LBBins /\ s.left \in Nat /\ s.out \in Nat /\ s.done \in BOOLEAN
  BY DEF OutRuns
<1>2. BinFee(p, s.id, ref) \in 0..LBMaxFee
  BY <1>1, BinFeeType
<1>3. b.in \in 0..s.left /\ b.out \in Nat
  <2>1. ReserveOut(p, s.id, forY) \in Nat
    BY ReservesType
  <2>2. b.in \in 0..s.left /\ b.out \in 0..ReserveOut(p, s.id, forY)
    BY <1>1, <1>2, SwapInBinFacts
  <2>. QED
    BY <2>1, <2>2
<1>4. t = IF s.done THEN s ELSE [id |-> id, left |-> left, out |-> out, done |-> last]
  BY DEF SwapOutStep, BinFee
<1>. HIDE DEF b, t
<1>5. left \in Nat /\ out \in Nat
  BY <1>1, <1>3
<1>6. id \in LBBins
  BY <1>1, NextBinFacts
<1>7. last \in BOOLEAN
  OBVIOUS
<1>8. (empty => left = s.left /\ out = s.out) /\ (~empty => left = s.left - b.in /\ out = s.out + b.out)
  OBVIOUS
<1>9. ~last => id = NextBin(p, s.id, forY)
  OBVIOUS
<1>10. ~s.done => t \in OutRuns /\ t.id = id /\ t.left = left /\ t.out = out /\ (t.done <=> last)
  <2>. HIDE DEF last, left, out, id
  <2>. QED
    BY <1>4, <1>5, <1>6, <1>7 DEF OutRuns
<1>11. s.done => t = s
  BY <1>4
<1>12. t \in OutRuns
  <2>. HIDE DEF last, left, out, id
  <2>. QED
    BY <1>1, <1>10, <1>11
<1>13. ~s.done => (t.done <=> (t.left = 0 \/ Ahead(p, s.id, forY) = {}))
  <2>. HIDE DEF left, out, id
  <2>. QED
    BY <1>10
<1>. HIDE DEF last, left, out, id
<1>. QED
  BY <1>8, <1>9, <1>10, <1>11, <1>12, <1>13 DEF b, t

LEMMA InStepFacts ==
    ASSUME NEW p \in LBStates, NEW ref \in Refs, NEW forY \in BOOLEAN, NEW s \in InRuns
    PROVE  LET t == SwapInStep(p, ref, forY, s)
               out == IF ReserveOut(p, s.id, forY) <= s.left THEN ReserveOut(p, s.id, forY) ELSE s.left
               in == ToInput(out, s.id, forY)
           IN  /\ t \in InRuns
               /\ s.done => t = s
               /\ ~s.done =>
                    /\ t.left = s.left - out
                    /\ t.in = s.in + in + FeeAmount(in, BinFee(p, s.id, ref))
                    /\ t.done <=> (t.left = 0 \/ Ahead(p, s.id, forY) = {})
                    /\ ~t.done => t.id = NextBin(p, s.id, forY)
<1>. DEFINE t == SwapInStep(p, ref, forY, s)
            out == IF ReserveOut(p, s.id, forY) <= s.left THEN ReserveOut(p, s.id, forY) ELSE s.left
            in == ToInput(out, s.id, forY)
            fee == FeeAmount(in, BinFee(p, s.id, ref))
            left == s.left - out
            total == s.in + in + fee
            last == left = 0 \/ Ahead(p, s.id, forY) = {}
            id == IF last THEN s.id ELSE NextBin(p, s.id, forY)
<1>1. s.id \in LBBins /\ s.left \in Nat /\ s.in \in Nat /\ s.done \in BOOLEAN
  BY DEF InRuns
<1>2. BinFee(p, s.id, ref) \in 0..LBMaxFee /\ ReserveOut(p, s.id, forY) \in Nat
  BY <1>1, BinFeeType, ReservesType
<1>3. out = Min({ReserveOut(p, s.id, forY), s.left}) /\ out \in Nat /\ left \in Nat
  BY <1>1, <1>2, LesserOf
<1>4. t = IF s.done THEN s ELSE [id |-> id, left |-> left, in |-> total, done |-> last]
  BY <1>3 DEF SwapInStep, BinFee
<1>. HIDE DEF t, out
<1>5. in \in Nat
  BY <1>1, <1>3, ToInputFacts
<1>. HIDE DEF in
<1>6. fee \in Nat
  BY <1>2, <1>5, FeeAmountTypes
<1>. HIDE DEF fee
<1>7. total \in Nat
  BY <1>1, <1>5, <1>6
<1>8. id \in LBBins
  BY <1>1, NextBinFacts
<1>9. last \in BOOLEAN
  OBVIOUS
<1>10. ~last => id = NextBin(p, s.id, forY)
  OBVIOUS
<1>11. ~s.done => t \in InRuns /\ t.id = id /\ t.left = left /\ t.in = total /\ (t.done <=> last)
  <2>. HIDE DEF last, left, total, id
  <2>. QED
    BY <1>3, <1>4, <1>7, <1>8, <1>9 DEF InRuns
<1>12. s.done => t = s
  BY <1>4
<1>13. t \in InRuns
  <2>. HIDE DEF last, left, total, id
  <2>. QED
    BY <1>1, <1>11, <1>12
<1>14. ~s.done => (t.done <=> (t.left = 0 \/ Ahead(p, s.id, forY) = {}))
  <2>. HIDE DEF left, total, id
  <2>. QED
    BY <1>11
<1>15. ~s.done => t.left = s.left - out /\ t.in = s.in + in + fee
  <2>. HIDE DEF last, id
  <2>. QED
    BY <1>11
<1>. HIDE DEF last, left, total, id
<1>. QED
  BY <1>10, <1>11, <1>12, <1>13, <1>14, <1>15 DEF t, in, out, fee

IsOutRun(f, p, amount, forY, ts) ==
    /\ f \in [0..Steps -> OutRuns]
    /\ f[0] = [id |-> p.active, left |-> amount, out |-> 0, done |-> FALSE]
    /\ \A n \in 1..Steps : f[n] = SwapOutStep(p, UpdateReferences(p, ts), forY, f[n - 1])
    /\ SimulateSwapOut(p, amount, forY, ts) = f[Steps]

LEMMA OutRun ==
    ASSUME NEW p \in LBStates, NEW amount \in Nat, NEW forY \in BOOLEAN, NEW ts \in Nat
    PROVE  \E f : IsOutRun(f, p, amount, forY, ts)
<1>. DEFINE D == OutRuns
            ref == UpdateReferences(p, ts)
            start == [id |-> p.active, left |-> amount, out |-> 0, done |-> FALSE]
            N == Cardinality(LBBins)
            step[n \in 0..N] == IF n = 0 THEN start ELSE SwapOutStep(p, ref, forY, step[n - 1])
            IsStep(f) == f = [n \in 0..N |-> IF n = 0 THEN start ELSE SwapOutStep(p, ref, forY, f[n - 1])]
            G == [s \in D |-> SwapOutStep(p, ref, forY, s)]
<1>0. N \in Nat /\ start \in D
  BY StepsType, StateFacts DEF Steps, OutRuns
<1>1. SimulateSwapOut(p, amount, forY, ts) = step[N]
  BY DEF SimulateSwapOut
<1>2. step = CHOOSE f : IsStep(f)
  OBVIOUS
<1>3. ref \in Refs
  BY ReferencesFacts DEF Refs
<1>. HIDE DEF ref
<1>4. \A s \in D : SwapOutStep(p, ref, forY, s) \in D
  BY <1>3, OutStepFacts
<1>. HIDE DEF D, start, N
<1>5. G \in [D -> D] /\ \A s \in D : G[s] = SwapOutStep(p, ref, forY, s)
  BY <1>4
<1>. HIDE DEF G
<1>6. PICK f : IsIteration(f, D, G, start, N)
  BY <1>0, <1>5, Iterates
<1>7. IsStep(f)
  <2>1. \A n \in 0..N : n # 0 => n \in 1..N /\ n - 1 \in 0..N
    BY <1>0
  <2>. QED
    BY <1>5, <1>6, <2>1 DEF IsIteration
<1>8. IsStep(step)
  <2>. HIDE DEF IsStep, step
  <2>. QED
    BY <1>2, <1>7
<1>. HIDE DEF step
<1>9. step[0] = start /\ (\A n \in 1..N : step[n] = SwapOutStep(p, ref, forY, step[n - 1]))
      /\ DOMAIN step = 0..N /\ step = [n \in 0..N |-> step[n]]
  <2>1. 0 \in 0..N /\ \A n \in 1..N : n \in 0..N /\ n # 0
    BY <1>0
  <2>. QED
    BY <1>8, <2>1
<1>. HIDE DEF IsStep
<1>10. \A n \in 0..N : step[n] \in D
  <2>. DEFINE S == {n \in 0..N : step[n] \in D}
  <2>1. 0 \in S
    BY <1>0, <1>9
  <2>2. ASSUME NEW n \in 1..N, n - 1 \in S PROVE n \in S
    <3>1. n \in 0..N /\ step[n - 1] \in D
      BY <1>0, <2>2
    <3>2. step[n] = SwapOutStep(p, ref, forY, step[n - 1])
      BY <1>9
    <3>3. step[n] \in D
      BY <1>4, <3>1, <3>2
    <3>. QED
      BY <3>1, <3>3
  <2>3. \A n \in 0..N : n \in S
    <3>. HIDE DEF S
    <3>. QED
      BY <1>0, <2>1, <2>2, BoundedInduction
  <2>. QED
    BY <2>3
<1>11. step \in [0..N -> D]
  BY <1>9, <1>10
<1>12. IsOutRun(step, p, amount, forY, ts)
  BY <1>1, <1>9, <1>11 DEF IsOutRun, N, D, start, ref, Steps
<1>. QED
  BY <1>12

IsInRun(f, p, amount, forY, ts) ==
    /\ f \in [0..Steps -> InRuns]
    /\ f[0] = [id |-> p.active, left |-> amount, in |-> 0, done |-> FALSE]
    /\ \A n \in 1..Steps : f[n] = SwapInStep(p, UpdateReferences(p, ts), forY, f[n - 1])
    /\ SimulateSwapIn(p, amount, forY, ts) = f[Steps]

LEMMA InRun ==
    ASSUME NEW p \in LBStates, NEW amount \in Nat, NEW forY \in BOOLEAN, NEW ts \in Nat
    PROVE  \E f : IsInRun(f, p, amount, forY, ts)
<1>. DEFINE D == InRuns
            ref == UpdateReferences(p, ts)
            start == [id |-> p.active, left |-> amount, in |-> 0, done |-> FALSE]
            N == Cardinality(LBBins)
            step[n \in 0..N] == IF n = 0 THEN start ELSE SwapInStep(p, ref, forY, step[n - 1])
            IsStep(f) == f = [n \in 0..N |-> IF n = 0 THEN start ELSE SwapInStep(p, ref, forY, f[n - 1])]
            G == [s \in D |-> SwapInStep(p, ref, forY, s)]
<1>0. N \in Nat /\ start \in D
  BY StepsType, StateFacts DEF Steps, InRuns
<1>1. SimulateSwapIn(p, amount, forY, ts) = step[N]
  BY DEF SimulateSwapIn
<1>2. step = CHOOSE f : IsStep(f)
  OBVIOUS
<1>3. ref \in Refs
  BY ReferencesFacts DEF Refs
<1>. HIDE DEF ref
<1>4. \A s \in D : SwapInStep(p, ref, forY, s) \in D
  BY <1>3, InStepFacts
<1>. HIDE DEF D, start, N
<1>5. G \in [D -> D] /\ \A s \in D : G[s] = SwapInStep(p, ref, forY, s)
  BY <1>4
<1>. HIDE DEF G
<1>6. PICK f : IsIteration(f, D, G, start, N)
  BY <1>0, <1>5, Iterates
<1>7. IsStep(f)
  <2>1. \A n \in 0..N : n # 0 => n \in 1..N /\ n - 1 \in 0..N
    BY <1>0
  <2>. QED
    BY <1>5, <1>6, <2>1 DEF IsIteration
<1>8. IsStep(step)
  <2>. HIDE DEF IsStep, step
  <2>. QED
    BY <1>2, <1>7
<1>. HIDE DEF step
<1>9. step[0] = start /\ (\A n \in 1..N : step[n] = SwapInStep(p, ref, forY, step[n - 1]))
      /\ DOMAIN step = 0..N /\ step = [n \in 0..N |-> step[n]]
  <2>1. 0 \in 0..N /\ \A n \in 1..N : n \in 0..N /\ n # 0
    BY <1>0
  <2>. QED
    BY <1>8, <2>1
<1>. HIDE DEF IsStep
<1>10. \A n \in 0..N : step[n] \in D
  <2>. DEFINE S == {n \in 0..N : step[n] \in D}
  <2>1. 0 \in S
    BY <1>0, <1>9
  <2>2. ASSUME NEW n \in 1..N, n - 1 \in S PROVE n \in S
    <3>1. n \in 0..N /\ step[n - 1] \in D
      BY <1>0, <2>2
    <3>2. step[n] = SwapInStep(p, ref, forY, step[n - 1])
      BY <1>9
    <3>3. step[n] \in D
      BY <1>4, <3>1, <3>2
    <3>. QED
      BY <3>1, <3>3
  <2>3. \A n \in 0..N : n \in S
    <3>. HIDE DEF S
    <3>. QED
      BY <1>0, <2>1, <2>2, BoundedInduction
  <2>. QED
    BY <2>3
<1>11. step \in [0..N -> D]
  BY <1>9, <1>10
<1>12. IsInRun(step, p, amount, forY, ts)
  BY <1>1, <1>9, <1>11 DEF IsInRun, N, D, start, ref, Steps
<1>. QED
  BY <1>12

----------------------------------------------------------------------------
(* A quote and the swap it is for go through the bins in step. *)

\* The bins from id on are as they were.
Untouched(a, p, id, forY) ==
    \A i \in LBBins : i = id \/ Beyond(i, id, forY) => Reserves(a, i) = Reserves(p, i)

LEMMA AheadAgrees ==
    ASSUME NEW a \in LBStates, NEW p \in LBStates, NEW id \in LBBins, NEW forY \in BOOLEAN,
           \A i \in LBBins : Beyond(i, id, forY) => Reserves(a, i) = Reserves(p, i)
    PROVE  Ahead(a, id, forY) = Ahead(p, id, forY) /\ NextBin(a, id, forY) = NextBin(p, id, forY)
<1>1. \A i \in LBBins : Beyond(i, id, forY) => (i \in DOMAIN a.bins <=> i \in DOMAIN p.bins)
  BY ReservesType
<1>2. DOMAIN a.bins \subseteq LBBins /\ DOMAIN p.bins \subseteq LBBins
  BY StateFacts, BinMapFacts
<1>3. Ahead(a, id, forY) = {i \in DOMAIN a.bins : Beyond(i, id, forY)}
      /\ Ahead(p, id, forY) = {i \in DOMAIN p.bins : Beyond(i, id, forY)}
  BY DEF Ahead, Beyond
<1>4. Ahead(a, id, forY) = Ahead(p, id, forY)
  BY <1>1, <1>2, <1>3
<1>. QED
  BY <1>4 DEF NextBin

LEMMA UntouchedBeyond ==
    ASSUME NEW a, NEW p, NEW id \in LBBins, NEW next \in LBBins, NEW forY \in BOOLEAN,
           \A i \in LBBins : Beyond(i, id, forY) => Reserves(a, i) = Reserves(p, i),
           Beyond(next, id, forY)
    PROVE  Untouched(a, p, next, forY)
<1>1. LBBins \subseteq Int
  BY LBAssumption
<1>2. \A i \in LBBins : i = next \/ Beyond(i, next, forY) => Beyond(i, id, forY)
  BY <1>1 DEF Beyond
<1>. QED
  BY <1>2 DEF Untouched

LEMMA SwappedElsewhere ==
    ASSUME NEW ts \in Nat, NEW a \in PoolsAt(ts), NEW left \in Nat, NEW forY \in BOOLEAN
    PROVE  \A i : i # a.active => Reserves(PairSwapped(a, left, forY), i) = Reserves(a, i)
<1>1. a \in LBStates /\ PairSwapped(a, left, forY).bins = PairBins(a, left, forY)
  BY PoolsAtFacts, PairSwappedFacts
<1>2. /\ \A i : i # a.active => (i \in DOMAIN PairBins(a, left, forY) <=> i \in DOMAIN a.bins)
      /\ \A i \in DOMAIN a.bins : i # a.active => PairBins(a, left, forY)[i] = a.bins[i]
  BY <1>1, PairBinsFacts
<1>. QED
  BY <1>1, <1>2 DEF Reserves

\* A bin that gave all it had has nothing left to give.
LEMMA SwappedEmpties ==
    ASSUME NEW ts \in Nat, NEW a \in PoolsAt(ts), NEW left \in Nat, NEW forY \in BOOLEAN,
           PairBin(a, left, forY).in < left
    PROVE  ReserveOut(PairSwapped(a, left, forY), a.active, forY) = 0
<1>. DEFINE q == PairSwapped(a, left, forY)
            b == PairBin(a, left, forY)
            r == Reserves(a, a.active)
<1>1. a \in LBStates /\ a.active \in LBBins /\ a.bins \in BinMaps /\ q.bins = PairBins(a, left, forY)
  BY PoolsAtFacts, StateFacts, PairSwappedFacts
<1>2. b.out = ReserveOut(a, a.active, forY) /\ b.in \in Nat
  BY <1>1, PairBinFacts
<1>3. r.x \in Nat /\ r.y \in Nat
  BY <1>1, ReservesType
<1>. DEFINE x == IF forY THEN r.x + b.in ELSE 0
            y == IF forY THEN 0 ELSE r.y + b.in
<1>4. q.bins = UpdateBin(a.bins, a.active, x, y)
  <2>1. CASE forY
    <3>1. r.y - b.out = 0
      BY <1>2, <1>3, <2>1 DEF ReserveOut
    <3>. QED
      BY <1>1, <2>1, <3>1 DEF PairBins
  <2>2. CASE ~forY
    <3>1. r.x - b.out = 0
      BY <1>2, <1>3, <2>2 DEF ReserveOut
    <3>. QED
      BY <1>1, <2>2, <3>1 DEF PairBins
  <2>. QED
    BY <2>1, <2>2
<1>5. x \in Nat /\ y \in Nat /\ (forY => y = 0) /\ (~forY => x = 0)
  BY <1>2, <1>3
<1>. HIDE DEF q, b, r, x, y
<1>6. a.active \in DOMAIN q.bins => q.bins[a.active].x = x /\ q.bins[a.active].y = y
  <2>1. PICK bins \in BinMaps, id \in LBBins : bins = a.bins /\ id = a.active
    BY <1>1
  <2>2. id \in DOMAIN UpdateBin(bins, id, x, y) => /\ UpdateBin(bins, id, x, y)[id].x = x
                                                  /\ UpdateBin(bins, id, x, y)[id].y = y
    BY <1>5, UpdateBinFacts
  <2>. QED
    BY <1>4, <2>1, <2>2
<1>7. ReserveOut(q, a.active, forY) = 0
  BY <1>5, <1>6 DEF ReserveOut, Reserves
<1>. QED
  BY <1>7 DEF q

\* A quote q of pool p, and the swap's state s.
Together(q, s, p, forY) ==
    /\ ~q.done /\ q.left > 0 /\ q.left = s.left /\ q.out = s.out /\ q.id = s.pair.active
    /\ Untouched(s.pair, p, q.id, forY)
Settled(q, s) == q.done /\ s.left = 0 /\ q.out = s.out
Stuck(s, forY) ==
    /\ s.left > 0 /\ ReserveOut(s.pair, s.pair.active, forY) = 0
    /\ Ahead(s.pair, s.pair.active, forY) = {}
SamePair(s, p, ref) == s.pair.fees = p.fees /\ s.pair.volRef = ref.vol /\ s.pair.idRef = ref.id
InStep(q, s, p, ref, forY) ==
    SamePair(s, p, ref) /\ (Together(q, s, p, forY) \/ Settled(q, s) \/ Stuck(s, forY))

LEMMA SameBin ==
    ASSUME NEW a \in LBStates, NEW p \in LBStates, NEW ref \in Refs, NEW left \in Nat,
           NEW forY \in BOOLEAN, a.fees = p.fees, a.volRef = ref.vol, a.idRef = ref.id,
           Reserves(a, a.active) = Reserves(p, a.active)
    PROVE  /\ PairBin(a, left, forY) = SwapInBin(p, a.active, left, forY, BinFee(p, a.active, ref))
           /\ ReserveOut(a, a.active, forY) = ReserveOut(p, a.active, forY)
<1>1. ref = [vol |-> a.volRef, id |-> a.idRef]
  BY DEF Refs
<1>2. PairVol(a) = VolatilityAt(p, a.active, ref)
  BY <1>1 DEF PairVol, VolatilityAt
<1>3. TotalFee(a.fees, PairVol(a)) = BinFee(p, a.active, ref)
  BY <1>2 DEF BinFee
<1>4. \A y \in BOOLEAN : ReserveOut(a, a.active, y) = ReserveOut(p, a.active, y)
  BY DEF ReserveOut
<1>. QED
  BY <1>3, <1>4 DEF PairBin, SwapInBin

LEMMA Lockstep ==
    ASSUME NEW ts \in Nat, NEW p \in LBStates, NEW p0, NEW ref \in Refs, NEW forY \in BOOLEAN,
           NEW q \in OutRuns, NEW s \in PairRuns(p0, ts), InStep(q, s, p, ref, forY)
    PROVE  InStep(SwapOutStep(p, ref, forY, q), PairStep(ts, forY, s), p, ref, forY)
<1>. DEFINE a == s.pair
            b == PairBin(a, s.left, forY)
            w == PairSwapped(a, s.left, forY)
            t == SwapOutStep(p, ref, forY, q)
            n == PairStep(ts, forY, s)
<1>1. a \in PoolsAt(ts) /\ a \in LBStates /\ s.left \in Nat /\ s.out \in Nat /\ a.active \in LBBins
  BY PairRunTypes, StateFacts
<1>2. SamePair(s, p, ref) /\ (Together(q, s, p, forY) \/ Settled(q, s) \/ Stuck(s, forY))
  BY DEF InStep
<1>3. CASE s.left = 0
  <2>1. n = s
    BY <1>1, <1>3, PairStepCases
  <2>2. Settled(q, s)
    BY <1>2, <1>3 DEF Together, Stuck
  <2>3. t = q
    BY <2>2, OutStepFacts DEF Settled
  <2>. QED
    BY <1>2, <2>1, <2>2, <2>3 DEF InStep
<1>4. CASE s.left # 0 /\ Stuck(s, forY)
  <2>1. n = s
    BY <1>1, <1>4, PairStepCases DEF Stuck
  <2>. QED
    BY <1>2, <1>4, <2>1 DEF InStep
<1>5. CASE s.left # 0 /\ ~Stuck(s, forY)
  <2>1. /\ Together(q, s, p, forY) /\ ~q.done /\ q.left = s.left /\ q.left > 0 /\ q.out = s.out
        /\ q.id = a.active /\ Untouched(a, p, a.active, forY)
    BY <1>2, <1>5 DEF Settled, Together
  <2>2. a.fees = p.fees /\ a.volRef = ref.vol /\ a.idRef = ref.id
    BY <1>2 DEF SamePair
  <2>3. /\ Reserves(a, a.active) = Reserves(p, a.active)
        /\ \A i \in LBBins : Beyond(i, a.active, forY) => Reserves(a, i) = Reserves(p, i)
    BY <1>1, <2>1 DEF Untouched
  <2>4. /\ b = SwapInBin(p, a.active, s.left, forY, BinFee(p, a.active, ref))
        /\ ReserveOut(a, a.active, forY) = ReserveOut(p, a.active, forY)
        /\ ReserveOut(a, a.active, forY) \in Nat
    BY <1>1, <2>2, <2>3, SameBin, ReservesType
  <2>5. /\ Ahead(a, a.active, forY) = Ahead(p, a.active, forY)
        /\ NextBin(a, a.active, forY) = NextBin(p, a.active, forY)
    BY <1>1, <2>3, AheadAgrees
  <2>. DEFINE next == NextBin(p, a.active, forY)
  <2>6. Ahead(p, a.active, forY) # {} => next \in LBBins /\ Beyond(next, a.active, forY)
    BY NextBinFacts DEF Beyond
  <2>7. /\ t \in OutRuns
        /\ ReserveOut(p, a.active, forY) = 0 => t.left = s.left /\ t.out = s.out
        /\ ReserveOut(p, a.active, forY) # 0 => t.left = s.left - b.in /\ t.out = s.out + b.out
        /\ t.done <=> (t.left = 0 \/ Ahead(p, a.active, forY) = {})
        /\ ~t.done => t.id = next
    <3>1. q.id = a.active /\ q.left = s.left /\ q.out = s.out /\ ~q.done
      BY <2>1
    <3>. HIDE DEF a, b, t
    <3>2. LET u == SwapOutStep(p, ref, forY, q)
              c == SwapInBin(p, q.id, q.left, forY, BinFee(p, q.id, ref))
          IN  /\ u \in OutRuns
              /\ ~q.done =>
                    /\ ReserveOut(p, q.id, forY) = 0 => u.left = q.left /\ u.out = q.out
                    /\ ReserveOut(p, q.id, forY) # 0 => u.left = q.left - c.in /\ u.out = q.out + c.out
                    /\ u.done <=> (u.left = 0 \/ Ahead(p, q.id, forY) = {})
                    /\ ~u.done => u.id = NextBin(p, q.id, forY)
      BY OutStepFacts
    <3>. QED
      BY <2>4, <3>1, <3>2 DEF t
  <2>8. CASE ReserveOut(a, a.active, forY) > 0
    <3>. DEFINE moved == IF s.left > b.in /\ Ahead(w, a.active, forY) # {}
                         THEN [w EXCEPT !.active = NextBin(w, a.active, forY)] ELSE w
    <3>1. n = [pair |-> moved, left |-> s.left - b.in, out |-> s.out + b.out,
               logs |-> Append(s.logs, PairLog(a, s.left, forY, ts))]
      BY <1>1, <1>5, <2>8, PairStepCases
    <3>2. n.pair = moved /\ n.left = s.left - b.in /\ n.out = s.out + b.out
      <4>. HIDE DEF moved, b
      <4>. QED
        BY <3>1
    <3>3. b.in \in 0..s.left /\ b.in \in Nat
      BY <1>1, PairBinFacts
    <3>4. t.left = n.left /\ t.out = n.out
      BY <2>4, <2>7, <2>8, <3>2
    <3>5. /\ w \in PoolsAt(ts) /\ w \in LBStates /\ w.active = a.active /\ w.fees = a.fees
          /\ w.volRef = a.volRef /\ w.idRef = a.idRef
      BY <1>1, PairSwappedFacts, PoolsAtFacts
    <3>6. \A i \in LBBins : Beyond(i, a.active, forY) => Reserves(w, i) = Reserves(p, i)
      <4>1. \A i : i # a.active => Reserves(w, i) = Reserves(a, i)
        BY <1>1, SwappedElsewhere
      <4>2. \A i \in LBBins : Beyond(i, a.active, forY) => i # a.active
        BY <1>1, LBAssumption DEF Beyond
      <4>. QED
        BY <2>3, <4>1, <4>2
    <3>. SUFFICES InStep(t, n, p, ref, forY)
      OBVIOUS
    <3>. HIDE DEF a, b, w, n, t
    <3>7. Ahead(w, a.active, forY) = Ahead(p, a.active, forY) /\ NextBin(w, a.active, forY) = next
      BY <1>1, <3>5, <3>6, AheadAgrees
    <3>8. CASE s.left = b.in
      <4>1. n.left = 0 /\ moved = w
        BY <1>1, <3>2, <3>3, <3>8
      <4>2. t.done
        BY <2>7, <3>4, <4>1
      <4>. QED
        BY <2>2, <3>2, <3>4, <3>5, <4>1, <4>2 DEF InStep, SamePair, Settled
    <3>9. CASE s.left # b.in /\ Ahead(p, a.active, forY) = {}
      <4>1. n.left > 0 /\ n.left \in Nat /\ b.in < s.left
        BY <1>1, <3>2, <3>3, <3>9
      <4>2. moved = w
        BY <3>7, <3>9
      <4>3. ReserveOut(w, a.active, forY) = 0
        BY <1>1, <4>1, SwappedEmpties DEF w, b
      <4>4. Stuck(n, forY)
        BY <3>2, <3>5, <3>7, <3>9, <4>1, <4>2, <4>3 DEF Stuck
      <4>. QED
        BY <2>2, <3>2, <3>5, <4>2, <4>4 DEF InStep, SamePair
    <3>10. CASE s.left # b.in /\ Ahead(p, a.active, forY) # {}
      <4>1. n.left > 0 /\ n.left \in Nat /\ s.left > b.in
        BY <1>1, <3>2, <3>3, <3>10
      <4>2. next \in LBBins /\ Beyond(next, a.active, forY)
        BY <2>6, <3>10
      <4>3. moved = [w EXCEPT !.active = next]
        BY <3>7, <3>10, <4>1
      <4>. HIDE DEF next, moved
      <4>4. /\ moved.active = next /\ moved.fees = w.fees /\ moved.volRef = w.volRef
            /\ moved.idRef = w.idRef /\ moved.bins = w.bins
        BY <3>5, <4>2, <4>3, WithActive
      <4>5. \A i \in LBBins : Beyond(i, a.active, forY) => Reserves(moved, i) = Reserves(p, i)
        BY <3>6, <4>4 DEF Reserves
      <4>6. Untouched(moved, p, next, forY)
        BY <1>1, <4>2, <4>5, UntouchedBeyond
      <4>7. ~t.done /\ t.id = next
        BY <2>7, <3>4, <3>10, <4>1 DEF next
      <4>8. Together(t, n, p, forY)
        BY <3>2, <3>4, <4>1, <4>4, <4>6, <4>7 DEF Together
      <4>. QED
        BY <2>2, <3>2, <3>5, <4>4, <4>8 DEF InStep, SamePair
    <3>. QED
      BY <1>1, <3>8, <3>9, <3>10
  <2>9. CASE ~(ReserveOut(a, a.active, forY) > 0)
    <3>1. ReserveOut(a, a.active, forY) = 0
      BY <2>4, <2>9
    <3>2. Ahead(a, a.active, forY) # {} /\ next \in LBBins /\ Beyond(next, a.active, forY)
      <4>1. Ahead(a, a.active, forY) # {}
        BY <1>1, <1>5, <3>1 DEF Stuck
      <4>. QED
        BY <2>5, <2>6, <4>1
    <3>. DEFINE moved == [a EXCEPT !.active = next]
    <3>3. n = [s EXCEPT !.pair = moved]
      BY <1>1, <1>5, <2>5, <2>9, <3>2, PairStepCases
    <3>4. n.pair = moved /\ n.left = s.left /\ n.out = s.out
      <4>1. s \in [pair : PoolsAt(ts), left : Nat, out : Nat, logs : Seq(LBLogs)]
        BY DEF PairRuns
      <4>. HIDE DEF moved
      <4>. QED
        BY <3>3, <4>1
    <3>5. t.left = n.left /\ t.out = n.out /\ ~t.done /\ t.id = next /\ n.left > 0
      BY <1>1, <1>5, <2>4, <2>5, <2>7, <3>1, <3>2, <3>4
    <3>. HIDE DEF next, a, n, t
    <3>6. /\ moved.active = next /\ moved.fees = a.fees /\ moved.volRef = a.volRef
          /\ moved.idRef = a.idRef /\ moved.bins = a.bins
      BY <1>1, <3>2, WithActive
    <3>. HIDE DEF moved
    <3>7. \A i \in LBBins : Beyond(i, a.active, forY) => Reserves(moved, i) = Reserves(p, i)
      BY <2>3, <3>6 DEF Reserves
    <3>8. Untouched(moved, p, next, forY)
      BY <1>1, <3>2, <3>7, UntouchedBeyond
    <3>9. Together(t, n, p, forY)
      BY <3>4, <3>5, <3>6, <3>8 DEF Together
    <3>. QED
      BY <2>2, <3>4, <3>6, <3>9 DEF InStep, SamePair, n, t
  <2>. QED
    BY <2>8, <2>9
<1>. QED
  BY <1>3, <1>4, <1>5

\* A swap the pair pays in full pays what the pool quotes for it.
LEMMA QuoteIsPaid ==
    ASSUME NEW ts \in Nat, NEW p \in PoolsAt(ts), NEW amount \in Nat \ {0}, NEW forY \in BOOLEAN,
           PairSwap(p, amount, forY, ts).left = 0
    PROVE  PairSwap(p, amount, forY, ts).out = SimulateSwapOut(p, amount, forY, ts).out
<1>. DEFINE ref == UpdateReferences(p, ts)
<1>0. Steps \in Nat /\ p \in LBStates /\ amount \in Nat /\ amount > 0
  BY StepsType, PoolsAtFacts
<1>1. PICK f : IsPairRun(f, p, amount, forY, ts)
  BY PairRun
<1>2. PICK g : IsOutRun(g, p, amount, forY, ts)
  BY <1>0, OutRun
<1>3. ref \in Refs
  BY <1>0, ReferencesFacts DEF Refs
<1>4. /\ \A n \in 0..Steps : f[n] \in PairRuns(p, ts) /\ g[n] \in OutRuns
      /\ f[0] = PairStart(p, amount, ts)
      /\ g[0] = [id |-> p.active, left |-> amount, out |-> 0, done |-> FALSE]
      /\ \A n \in 1..Steps : f[n] = PairStep(ts, forY, f[n - 1])
      /\ \A n \in 1..Steps : g[n] = SwapOutStep(p, ref, forY, g[n - 1])
      /\ PairSwap(p, amount, forY, ts) = f[Steps] /\ SimulateSwapOut(p, amount, forY, ts) = g[Steps]
  BY <1>1, <1>2 DEF IsPairRun, IsOutRun
<1>. DEFINE S == {n \in 0..Steps : InStep(g[n], f[n], p, ref, forY)}
<1>5. 0 \in S
  <2>. DEFINE start == PairStart(p, amount, ts)
  <2>1. /\ start.left = amount /\ start.out = 0 /\ start.pair.active = p.active
        /\ start.pair.bins = p.bins /\ start.pair.fees = p.fees
        /\ ref = [vol |-> start.pair.volRef, id |-> start.pair.idRef]
    BY PairStartType
  <2>. HIDE DEF start, ref
  <2>2. ref.vol = start.pair.volRef /\ ref.id = start.pair.idRef
    BY <2>1
  <2>3. Untouched(start.pair, p, p.active, forY)
    BY <2>1 DEF Untouched, Reserves
  <2>4. g[0].id = p.active /\ g[0].left = amount /\ g[0].out = 0 /\ ~g[0].done /\ f[0] = start
    BY <1>4 DEF start
  <2>5. Together(g[0], f[0], p, forY)
    BY <1>0, <2>1, <2>3, <2>4 DEF Together
  <2>6. SamePair(f[0], p, ref)
    BY <2>1, <2>2, <2>4 DEF SamePair
  <2>. QED
    BY <1>0, <2>5, <2>6 DEF InStep
<1>. HIDE DEF ref
<1>6. ASSUME NEW n \in 1..Steps, n - 1 \in S PROVE n \in S
  <2>1. n \in 0..Steps /\ n - 1 \in 0..Steps /\ InStep(g[n - 1], f[n - 1], p, ref, forY)
    BY <1>0, <1>6
  <2>2. g[n - 1] \in OutRuns /\ f[n - 1] \in PairRuns(p, ts)
    BY <1>4, <2>1
  <2>3. InStep(SwapOutStep(p, ref, forY, g[n - 1]), PairStep(ts, forY, f[n - 1]), p, ref, forY)
    BY <1>0, <1>3, <2>1, <2>2, Lockstep
  <2>4. InStep(g[n], f[n], p, ref, forY)
    BY <1>4, <2>3
  <2>. QED
    BY <2>1, <2>4
<1>7. \A n \in 0..Steps : n \in S
  <2>. HIDE DEF S
  <2>. QED
    BY <1>0, <1>5, <1>6, BoundedInduction
<1>8. InStep(g[Steps], f[Steps], p, ref, forY) /\ f[Steps].left = 0
  BY <1>0, <1>4, <1>7
<1>. QED
  BY <1>4, <1>8 DEF InStep, Together, Settled, Stuck

----------------------------------------------------------------------------
(* The input asked for an output, and what the same pool gives for it. *)

\* The fee taken from an input is no more than the fee that was added to it.
LEMMA FeeIsCovered ==
    ASSUME NEW in \in Nat, NEW fee \in 0..LBMaxFee
    PROVE  FeeAmountFrom(in + FeeAmount(in, fee), fee) <= FeeAmount(in, fee)
<1>. DEFINE g == FeeAmount(in, fee)
<1>1. fee \in Nat /\ LBPrecision \in Nat \ {0} /\ LBPrecision - fee \in Nat \ {0}
  BY Constants
<1>2. g \in Nat
  BY FeeAmountTypes
<1>3. in * fee <= g * (LBPrecision - fee)
  <2>1. in * fee \in Nat
    BY <1>1
  <2>. QED
    BY <1>1, <2>1, Ceiling DEF FeeAmount
<1>. HIDE DEF g
<1>4. (in + g) * fee <= g * LBPrecision
  <2>1. (in + g) * fee = in * fee + g * fee /\ g * (LBPrecision - fee) = g * LBPrecision - g * fee
    BY <1>1, <1>2
  <2>2. in * fee \in Nat /\ g * fee \in Nat /\ g * LBPrecision \in Nat
    BY <1>1, <1>2
  <2>. QED
    BY <1>3, <2>1, <2>2
<1>5. (in + g) * fee \in Nat
  BY <1>1, <1>2
<1>6. CeilDiv((in + g) * fee, LBPrecision) <= g
  BY <1>1, <1>2, <1>4, <1>5, Ceiling
<1>. QED
  BY <1>6 DEF FeeAmountFrom, g

LEMMA Product ==
    ASSUME NEW a \in Nat, NEW b \in Nat, NEW c \in Nat, a <= b
    PROVE  a * c <= b * c /\ a * c \in Nat /\ b * c \in Nat
<1>1. PICK d \in Nat : b = a + d
  <2>1. b - a \in Nat /\ b = a + (b - a)
    OBVIOUS
  <2>. QED
    BY <2>1
<1>2. b * c = a * c + d * c /\ d * c \in Nat /\ a * c \in Nat
  BY <1>1
<1>. QED
  BY <1>2

\* Rounding up to the input and down to the output loses nothing.
LEMMA InputGivesOutput ==
    ASSUME NEW id \in LBBins, NEW out \in Nat, NEW forY \in BOOLEAN, NEW in \in Nat,
           ToInput(out, id, forY) <= in
    PROVE  ToOutput(in, id, forY) >= out
<1>1. PICK price \in Nat \ {0}, scale \in Nat \ {0} : price = Price[id] /\ scale = LBScale
  BY PriceType
<1>2. CASE forY
  <2>. DEFINE k == CeilDiv(out * scale, price)
  <2>1. k = ToInput(out, id, forY) /\ ToOutput(in, id, forY) = (in * price) \div scale
    BY <1>1, <1>2 DEF ToInput, ToOutput
  <2>2. k \in Nat /\ out * scale <= k * price
    BY Ceiling
  <2>. HIDE DEF k
  <2>3. k * price <= in * price /\ k * price \in Nat /\ in * price \in Nat
    BY <2>1, <2>2, Product
  <2>4. out * scale \in Nat /\ out * scale <= in * price
    BY <2>2, <2>3
  <2>5. out <= (in * price) \div scale /\ (in * price) \div scale \in Nat
    BY <2>3, <2>4, Quotient
  <2>. QED
    BY <2>1, <2>5
<1>3. CASE ~forY
  <2>. DEFINE k == CeilDiv(out * price, scale)
  <2>1. k = ToInput(out, id, forY) /\ ToOutput(in, id, forY) = (in * scale) \div price
    BY <1>1, <1>3 DEF ToInput, ToOutput
  <2>2. k \in Nat /\ out * price <= k * scale
    BY Ceiling
  <2>. HIDE DEF k
  <2>3. k * scale <= in * scale /\ k * scale \in Nat /\ in * scale \in Nat
    BY <2>1, <2>2, Product
  <2>4. out * price \in Nat /\ out * price <= in * scale
    BY <2>2, <2>3
  <2>5. out <= (in * scale) \div price /\ (in * scale) \div price \in Nat
    BY <2>3, <2>4, Quotient
  <2>. QED
    BY <2>1, <2>5
<1>. QED
  BY <1>2, <1>3

\* What the input for an output of one bin is.
Gross(id, out, forY, fee) == ToInput(out, id, forY) + FeeAmount(ToInput(out, id, forY), fee)

LEMMA GrossType ==
    ASSUME NEW id \in LBBins, NEW out \in Nat, NEW forY \in BOOLEAN, NEW fee \in 0..LBMaxFee
    PROVE  Gross(id, out, forY, fee) \in Nat /\ (out = 0 => Gross(id, out, forY, fee) = 0)
<1>1. ToInput(out, id, forY) \in Nat /\ (out = 0 => ToInput(out, id, forY) = 0)
  BY ToInputFacts
<1>2. /\ FeeAmount(ToInput(out, id, forY), fee) \in Nat
      /\ out = 0 => FeeAmount(ToInput(out, id, forY), fee) = 0
  BY <1>1, FeeAmountTypes
<1>. QED
  BY <1>1, <1>2 DEF Gross

\* A bin with enough for all it has gives it all.
LEMMA BinGivesAll ==
    ASSUME NEW p \in LBStates, NEW id \in LBBins, NEW left \in Nat, NEW forY \in BOOLEAN,
           NEW fee \in 0..LBMaxFee, Gross(id, ReserveOut(p, id, forY), forY, fee) <= left
    PROVE  /\ SwapInBin(p, id, left, forY, fee).in = Gross(id, ReserveOut(p, id, forY), forY, fee)
           /\ SwapInBin(p, id, left, forY, fee).out = ReserveOut(p, id, forY)
<1>1. PICK g : g = Gross(id, ReserveOut(p, id, forY), forY, fee)
  OBVIOUS
<1>2. g \in Nat
  BY <1>1, GrossType, ReservesType
<1>3. left >= g
  BY <1>1, <1>2
<1>. QED
  BY <1>1, <1>3 DEF SwapInBin, Gross

LEMMA BinGivesWanted ==
    ASSUME NEW p \in LBStates, NEW id \in LBBins, NEW forY \in BOOLEAN, NEW fee \in 0..LBMaxFee,
           NEW out \in Nat, out <= ReserveOut(p, id, forY)
    PROVE  SwapInBin(p, id, Gross(id, out, forY, fee), forY, fee).out >= out
<1>1. PICK r \in Nat : r = ReserveOut(p, id, forY)
  BY ReservesType
<1>2. PICK left \in Nat : left = Gross(id, out, forY, fee)
  BY GrossType
<1>3. PICK all \in Nat : all = Gross(id, r, forY, fee)
  BY GrossType
<1>4. CASE all <= left
  <2>1. SwapInBin(p, id, left, forY, fee).out = r
    BY <1>1, <1>3, <1>4, BinGivesAll
  <2>. QED
    BY <1>1, <1>2, <2>1
<1>5. CASE ~(all <= left)
  <2>1. PICK in \in Nat : in = ToInput(out, id, forY)
    BY ToInputFacts
  <2>2. PICK g \in Nat : g = FeeAmount(in, fee)
    BY FeeAmountTypes
  <2>3. left = in + g
    BY <1>2, <2>1, <2>2 DEF Gross
  <2>4. PICK part \in Nat : part = FeeAmountFrom(left, fee) /\ part <= left
    BY FeeAmountTypes
  <2>5. part <= g
    BY <2>2, <2>3, <2>4, FeeIsCovered
  <2>6. left - part \in Nat /\ in <= left - part
    BY <2>3, <2>4, <2>5
  <2>7. PICK net \in Nat : net = left - part
    BY <2>6
  <2>8. PICK o \in Nat : o = ToOutput(net, id, forY)
    BY ToOutputType
  <2>9. o >= out
    BY <2>1, <2>6, <2>7, <2>8, InputGivesOutput
  <2>10. SwapInBin(p, id, left, forY, fee).out = Min({o, r})
    <3>1. ~(left >= all)
      BY <1>5
    <3>. QED
      BY <1>1, <1>3, <2>4, <2>7, <2>8, <3>1 DEF SwapInBin, Gross
  <2>11. Min({o, r}) >= out
    BY <1>1, <2>9, LesserOf
  <2>. QED
    BY <1>2, <2>10, <2>11
<1>. QED
  BY <1>4, <1>5

\* The quote q of input `total` follows the quote i that asked for it, or has given enough.
Follows(q, i, want, total) ==
    \/ q.out >= want
    \/ /\ ~i.done /\ i.left > 0 /\ i.left <= want /\ i.in < total
       /\ ~q.done /\ q.id = i.id /\ q.left = total - i.in /\ q.out = want - i.left

LEMMA FollowsOn ==
    ASSUME NEW p \in LBStates, NEW ref \in Refs, NEW forY \in BOOLEAN, NEW q \in OutRuns,
           NEW i \in InRuns, NEW want \in Nat, NEW total \in Nat, NEW j, Follows(q, i, want, total),
           j = SwapInStep(p, ref, forY, i), j.in <= total, j.in = total => j.left = 0,
           j.done => j.left = 0 /\ j.in = total
    PROVE  Follows(SwapOutStep(p, ref, forY, q), j, want, total)
<1>. DEFINE u == SwapOutStep(p, ref, forY, q)
<1>1. q.id \in LBBins /\ q.left \in Nat /\ q.out \in Nat
      /\ i.id \in LBBins /\ i.left \in Nat /\ i.in \in Nat
  BY DEF OutRuns, InRuns
<1>2. PICK fee \in 0..LBMaxFee : fee = BinFee(p, q.id, ref)
  BY <1>1, BinFeeType
<1>3. PICK b : b = SwapInBin(p, q.id, q.left, forY, fee)
  OBVIOUS
<1>4. PICK r \in Nat : r = ReserveOut(p, q.id, forY)
  BY <1>1, ReservesType
<1>5. /\ u \in OutRuns
      /\ q.done => u = q
      /\ ~q.done =>
            /\ r = 0 => u.left = q.left /\ u.out = q.out
            /\ r # 0 => u.left = q.left - b.in /\ u.out = q.out + b.out
            /\ u.done <=> (u.left = 0 \/ Ahead(p, q.id, forY) = {})
            /\ ~u.done => u.id = NextBin(p, q.id, forY)
  BY <1>2, <1>3, <1>4, OutStepFacts
<1>. HIDE DEF u
<1>6. b.out \in Nat
  <2>1. b.out \in 0..r
    BY <1>1, <1>3, <1>4, SwapInBinFacts
  <2>. QED
    BY <2>1
<1>7. CASE q.out >= want
  <2>1. u.out \in Nat /\ u.out >= q.out
    BY <1>1, <1>5, <1>6
  <2>2. u.out >= want
    BY <1>1, <1>7, <2>1
  <2>. QED
    BY <2>2 DEF Follows, u
<1>8. CASE ~(q.out >= want)
  <2>1. /\ ~i.done /\ i.left > 0 /\ i.left <= want /\ i.in < total
        /\ ~q.done /\ q.id = i.id /\ q.left = total - i.in /\ q.out = want - i.left
    BY <1>8 DEF Follows
  <2>2. PICK out \in Nat : out = (IF r <= i.left THEN r ELSE i.left)
    BY <1>1
  <2>3. PICK g \in Nat : g = Gross(q.id, out, forY, fee) /\ (out = 0 => g = 0)
    BY <1>1, GrossType
  <2>4. /\ j \in InRuns /\ j.left = i.left - out /\ j.in = i.in + g
        /\ j.done <=> (j.left = 0 \/ Ahead(p, q.id, forY) = {})
        /\ ~j.done => j.id = NextBin(p, q.id, forY)
    <3>1. PICK in \in Nat : in = ToInput(out, q.id, forY)
      BY <1>1, ToInputFacts
    <3>2. PICK f \in Nat : f = FeeAmount(in, fee)
      BY FeeAmountTypes
    <3>3. /\ j \in InRuns /\ j.left = i.left - out /\ j.in = i.in + in + f
          /\ j.done <=> (j.left = 0 \/ Ahead(p, q.id, forY) = {})
          /\ ~j.done => j.id = NextBin(p, q.id, forY)
      BY <1>2, <1>4, <2>1, <2>2, <3>1, <3>2, InStepFacts
    <3>4. g = in + f
      BY <2>3, <3>1, <3>2 DEF Gross
    <3>5. i.in + in + f = i.in + g
      BY <1>1, <3>4
    <3>. QED
      BY <3>3, <3>5
  <2>5. j.left \in Nat /\ j.in \in Nat
    BY <2>4 DEF InRuns
  <2>6. CASE j.left = 0
    <3>1. out = i.left /\ out <= r /\ r # 0
      BY <1>1, <2>1, <2>2, <2>4, <2>6
    <3>2. total = i.in + g
      BY <2>4, <2>6
    <3>3. q.left = g
      BY <1>1, <2>1, <3>2
    <3>4. b.out >= out
      BY <1>1, <1>3, <1>4, <2>3, <3>1, <3>3, BinGivesWanted
    <3>5. u.out >= want
      BY <1>1, <1>5, <1>6, <2>1, <3>1, <3>4
    <3>. QED
      BY <3>5 DEF Follows, u
  <2>7. CASE j.left # 0
    <3>1. out = r /\ ~j.done /\ Ahead(p, q.id, forY) # {} /\ j.in < total
      BY <1>1, <2>2, <2>4, <2>5, <2>7
    <3>2. g <= q.left
      BY <1>1, <2>1, <2>4, <2>5
    <3>3. r # 0 => b.in = g /\ b.out = r
      BY <1>1, <1>3, <1>4, <2>3, <3>1, <3>2, BinGivesAll
    <3>4. u.left = q.left - g /\ u.out = q.out + r
      BY <1>1, <1>5, <2>1, <2>3, <3>1, <3>3
    <3>5. u.left = total - j.in /\ u.out = want - j.left /\ j.left <= want /\ u.left # 0 /\ j.left > 0
      BY <1>1, <2>1, <2>4, <2>5, <2>7, <3>1, <3>4
    <3>6. ~u.done /\ u.id = j.id
      BY <1>5, <2>1, <2>4, <3>1, <3>5
    <3>. QED
      BY <3>1, <3>5, <3>6 DEF Follows, u
  <2>. QED
    BY <2>6, <2>7
<1>. QED
  BY <1>7, <1>8

\* What a step of the quote of an input may do.
LEMMA InStepGrows ==
    ASSUME NEW p \in LBStates, NEW ref \in Refs, NEW forY \in BOOLEAN, NEW i \in InRuns
    PROVE  LET j == SwapInStep(p, ref, forY, i)
           IN  /\ i.in <= j.in
               /\ i.in = j.in => i.left = j.left
<1>. DEFINE j == SwapInStep(p, ref, forY, i)
<1>1. i.id \in LBBins /\ i.left \in Nat /\ i.in \in Nat
  BY DEF InRuns
<1>2. CASE i.done
  <2>1. j = i
    BY <1>2, InStepFacts
  <2>. QED
    BY <1>1, <2>1
<1>3. CASE ~i.done
  <2>1. PICK r \in Nat : r = ReserveOut(p, i.id, forY)
    BY ReservesType
  <2>2. PICK out \in Nat : out = (IF r <= i.left THEN r ELSE i.left)
    BY <1>1
  <2>3. PICK in \in Nat : in = ToInput(out, i.id, forY) /\ (in = 0 <=> out = 0)
    BY <1>1, ToInputFacts
  <2>4. PICK fee \in 0..LBMaxFee : fee = BinFee(p, i.id, ref)
    BY <1>1, BinFeeType
  <2>5. PICK f \in Nat : f = FeeAmount(in, fee)
    BY FeeAmountTypes
  <2>6. j.left = i.left - out /\ j.in = i.in + in + f
    BY <1>3, <2>1, <2>2, <2>3, <2>4, <2>5, InStepFacts
  <2>. HIDE DEF j
  <2>7. i.in <= j.in /\ (i.in = j.in => i.left = j.left)
    BY <1>1, <2>3, <2>6
  <2>. QED
    BY <2>7 DEF j
<1>. QED
  BY <1>2, <1>3

\* The whole run, seen from one of its states.
LEMMA InRunGrows ==
    ASSUME NEW p \in LBStates, NEW amount \in Nat, NEW forY \in BOOLEAN, NEW ts \in Nat, NEW g,
           IsInRun(g, p, amount, forY, ts)
    PROVE  \A n \in 0..Steps : /\ g[n].in <= g[Steps].in
                               /\ g[n].in = g[Steps].in => g[n].left = g[Steps].left
                               /\ g[n].done => g[n] = g[Steps]
<1>. DEFINE P(n) == /\ g[n].in <= g[Steps].in
                    /\ g[n].in = g[Steps].in => g[n].left = g[Steps].left
                    /\ g[n].done => g[n] = g[Steps]
            S == {k \in 0..Steps : P(Steps - k)}
<1>0. Steps \in Nat
  BY StepsType
<1>1. PICK ref \in Refs : ref = UpdateReferences(p, ts)
  BY ReferencesFacts DEF Refs
<1>2. /\ \A n \in 0..Steps : g[n] \in InRuns
      /\ \A n \in 1..Steps : g[n] = SwapInStep(p, ref, forY, g[n - 1])
  BY <1>1 DEF IsInRun
<1>3. \A n \in 0..Steps : g[n].in \in Nat /\ g[n].left \in Nat
  BY <1>2 DEF InRuns
<1>4. 0 \in S
  BY <1>0, <1>3
<1>5. ASSUME NEW k \in 1..Steps, k - 1 \in S PROVE k \in S
  <2>1. PICK n \in 1..Steps : n = Steps - (k - 1)
    BY <1>0
  <2>2. n - 1 = Steps - k /\ n - 1 \in 0..Steps /\ n \in 0..Steps /\ k \in 0..Steps /\ Steps \in 0..Steps
    BY <1>0, <2>1
  <2>3. P(n)
    BY <1>5, <2>1
  <2>4. g[n] = SwapInStep(p, ref, forY, g[n - 1]) /\ g[n - 1] \in InRuns
    BY <1>2, <2>2
  <2>5. g[n - 1].in <= g[n].in /\ (g[n - 1].in = g[n].in => g[n - 1].left = g[n].left)
    BY <2>4, InStepGrows
  <2>6. g[n - 1].done => g[n] = g[n - 1]
    BY <2>4, InStepFacts
  <2>7. g[n - 1].in \in Nat /\ g[n].in \in Nat /\ g[Steps].in \in Nat
    BY <1>3, <2>2
  <2>8. P(n - 1)
    BY <2>3, <2>5, <2>6, <2>7
  <2>. QED
    BY <2>2, <2>8
<1>6. \A k \in 0..Steps : k \in S
  <2>. HIDE DEF S
  <2>. QED
    BY <1>0, <1>4, <1>5, BoundedInduction
<1>7. ASSUME NEW n \in 0..Steps PROVE P(n)
  <2>1. PICK k \in 0..Steps : n = Steps - k
    <3>1. Steps - n \in 0..Steps /\ n = Steps - (Steps - n)
      BY <1>0
    <3>. QED
      BY <3>1
  <2>. QED
    BY <1>6, <2>1
<1>. QED
  BY <1>7

LEMMA InputIsEnough ==
    ASSUME NEW p \in LBStates, NEW want \in Nat \ {0}, NEW forY \in BOOLEAN, NEW ts \in Nat,
           SimulateSwapIn(p, want, forY, ts).left = 0
    PROVE  LET in == SimulateSwapIn(p, want, forY, ts).in
           IN  SimulateSwapOut(p, in, forY, ts).out >= want
<1>0. Steps \in Nat /\ want \in Nat /\ want > 0
  BY StepsType
<1>1. PICK g : IsInRun(g, p, want, forY, ts)
  BY <1>0, InRun
<1>2. PICK ref \in Refs : ref = UpdateReferences(p, ts)
  BY ReferencesFacts DEF Refs
<1>3. /\ \A n \in 0..Steps : g[n] \in InRuns
      /\ g[0] = [id |-> p.active, left |-> want, in |-> 0, done |-> FALSE]
      /\ \A n \in 1..Steps : g[n] = SwapInStep(p, ref, forY, g[n - 1])
      /\ SimulateSwapIn(p, want, forY, ts) = g[Steps]
  BY <1>1, <1>2 DEF IsInRun
<1>4. PICK total \in Nat : total = g[Steps].in
  BY <1>0, <1>3 DEF InRuns
<1>5. g[Steps].left = 0 /\ SimulateSwapIn(p, want, forY, ts).in = total
  BY <1>3, <1>4
<1>6. \A n \in 0..Steps : /\ g[n].in <= total
                          /\ g[n].in = total => g[n].left = 0
                          /\ g[n].done => g[n] = g[Steps]
  BY <1>0, <1>1, <1>4, <1>5, InRunGrows
<1>7. \A n \in 0..Steps : g[n].done => g[n].left = 0 /\ g[n].in = total
  BY <1>4, <1>5, <1>6
<1>8. PICK f : IsOutRun(f, p, total, forY, ts)
  BY OutRun
<1>9. /\ \A n \in 0..Steps : f[n] \in OutRuns
      /\ f[0] = [id |-> p.active, left |-> total, out |-> 0, done |-> FALSE]
      /\ \A n \in 1..Steps : f[n] = SwapOutStep(p, ref, forY, f[n - 1])
      /\ SimulateSwapOut(p, total, forY, ts) = f[Steps]
  BY <1>2, <1>8 DEF IsOutRun
<1>. DEFINE S == {n \in 0..Steps : Follows(f[n], g[n], want, total)}
<1>10. 0 \in S
  <2>1. g[0].id = p.active /\ g[0].left = want /\ g[0].in = 0 /\ ~g[0].done
    BY <1>3
  <2>2. f[0].id = p.active /\ f[0].left = total /\ f[0].out = 0 /\ ~f[0].done
    BY <1>9
  <2>3. 0 \in 0..Steps /\ 0 < total
    BY <1>0, <1>4, <1>6, <2>1
  <2>4. Follows(f[0], g[0], want, total)
    BY <1>0, <2>1, <2>2, <2>3 DEF Follows
  <2>. QED
    BY <2>3, <2>4
<1>11. ASSUME NEW n \in 1..Steps, n - 1 \in S PROVE n \in S
  <2>1. n \in 0..Steps /\ n - 1 \in 0..Steps /\ Follows(f[n - 1], g[n - 1], want, total)
    BY <1>0, <1>11
  <2>2. PICK q \in OutRuns, i \in InRuns : q = f[n - 1] /\ i = g[n - 1]
    BY <1>3, <1>9, <2>1
  <2>3. PICK j : j = g[n] /\ j = SwapInStep(p, ref, forY, i)
    BY <1>3, <2>2
  <2>4. j.in <= total /\ (j.in = total => j.left = 0) /\ (j.done => j.left = 0 /\ j.in = total)
    BY <1>6, <1>7, <2>1, <2>3
  <2>5. Follows(q, i, want, total)
    BY <2>1, <2>2
  <2>6. Follows(SwapOutStep(p, ref, forY, q), j, want, total)
    BY <1>0, <2>3, <2>4, <2>5, FollowsOn
  <2>7. f[n] = SwapOutStep(p, ref, forY, q)
    BY <1>9, <2>2
  <2>. QED
    BY <2>1, <2>3, <2>6, <2>7
<1>12. \A n \in 0..Steps : n \in S
  <2>. HIDE DEF S
  <2>. QED
    BY <1>0, <1>10, <1>11, BoundedInduction
<1>13. Follows(f[Steps], g[Steps], want, total)
  BY <1>0, <1>12
<1>14. f[Steps].out >= want
  BY <1>5, <1>13 DEF Follows
<1>. QED
  BY <1>5, <1>9, <1>14

----------------------------------------------------------------------------
(* The inductive invariant: the logs that wait lead from the pool to the pair. *)

Following(logs, pool, at, t) ==
    /\ t \in Nat /\ logs \in Seq(LBLogs) /\ at \in PoolsAt(t)
    /\ Replays(logs, pool, at, PoolsAt(t))
LBInv ==
    /\ Following(lbLogs, lb, pair, clock)
    /\ LBQuoteIsPaid
    /\ lbQuote.kind = "input" => lbQuote.out >= lbQuote.want

LEMMA FollowingFacts ==
    ASSUME NEW logs, NEW a, NEW b, NEW t, Following(logs, a, b, t)
    PROVE  /\ t \in Nat /\ logs \in Seq(LBLogs) /\ a \in PoolsAt(t) /\ b \in PoolsAt(t)
           /\ a \in LBStates /\ b \in LBStates
           /\ logs = <<>> => a = b
<1>1. /\ t \in Nat /\ logs \in Seq(LBLogs) /\ b \in PoolsAt(t) /\ Replays(logs, a, b, PoolsAt(t))
  BY DEF Following
<1>2. a \in PoolsAt(t) /\ (logs = <<>> => a = b)
  BY <1>1, ReplayEnds
<1>. QED
  BY <1>1, <1>2, PoolsAtFacts

\* A transaction that emits one log.
LEMMA OneLog ==
    ASSUME NEW logs, NEW a, NEW b, NEW t, Following(logs, a, b, t), NEW log \in LBLogs,
           NEW c \in PoolsAt(t), AppliedLB(b, log) = c
    PROVE  Following(logs \o <<log>>, a, c, t)
<1>1. /\ t \in Nat /\ logs \in Seq(LBLogs) /\ Replays(logs, a, b, PoolsAt(t))
  BY DEF Following
<1>2. logs \o <<log>> = Append(logs, log) /\ Append(logs, log) \in Seq(LBLogs)
  BY <1>1
<1>3. Replays(Append(logs, log), a, c, PoolsAt(t))
  BY <1>1, ReplayAppend
<1>. QED
  BY <1>1, <1>2, <1>3 DEF Following

LEMMA TwoLogs ==
    ASSUME NEW logs, NEW a, NEW b, NEW t, Following(logs, a, b, t), NEW first \in LBLogs,
           NEW second \in LBLogs, AppliedLB(b, first) \in PoolsAt(t), NEW c \in PoolsAt(t),
           AppliedLB(AppliedLB(b, first), second) = c
    PROVE  Following(logs \o <<first, second>>, a, c, t)
<1>1. PICK m \in PoolsAt(t) : m = AppliedLB(b, first)
  OBVIOUS
<1>2. Following(logs \o <<first>>, a, m, t)
  BY <1>1, OneLog
<1>3. Following((logs \o <<first>>) \o <<second>>, a, c, t)
  BY <1>1, <1>2, OneLog
<1>4. logs \in Seq(LBLogs)
  BY FollowingFacts
<1>5. (logs \o <<first>>) \o <<second>> = logs \o <<first, second>>
  <2>. DEFINE l == (logs \o <<first>>) \o <<second>>
              r == logs \o <<first, second>>
  <2>1. l \in Seq(LBLogs) /\ r \in Seq(LBLogs) /\ Len(l) = Len(logs) + 2 /\ Len(r) = Len(logs) + 2
    BY <1>4
  <2>2. \A i \in 1..(Len(logs) + 2) : l[i] = r[i]
    BY <1>4
  <2>. HIDE DEF l, r
  <2>3. l = r
    BY <2>1, <2>2
  <2>. QED
    BY <2>3 DEF l, r
<1>. QED
  BY <1>3, <1>5

LEMMA TimePasses ==
    ASSUME NEW logs, NEW a, NEW b, NEW t, Following(logs, a, b, t)
    PROVE  Following(logs, a, b, t + 1)
<1>1. /\ t \in Nat /\ logs \in Seq(LBLogs) /\ b \in PoolsAt(t) /\ Replays(logs, a, b, PoolsAt(t))
  BY DEF Following
<1>2. t + 1 \in Nat
  BY <1>1
<1>3. PoolsAt(t) \subseteq PoolsAt(t + 1)
  <2>. SUFFICES ASSUME NEW p \in PoolsAt(t) PROVE p \in PoolsAt(t + 1)
    OBVIOUS
  <2>1. p \in LBStates /\ p.time <= t /\ VolOK(p.volAcc, p.volRef) /\ p.time \in Nat
    BY <1>1, PoolsAtFacts, StateFacts
  <2>2. p.time <= t + 1
    BY <1>1, <2>1
  <2>. QED
    BY <2>1, <2>2 DEF PoolsAt
<1>4. Replays(logs, a, b, PoolsAt(t + 1))
  BY <1>1, <1>3, ReplayWiden
<1>. QED
  BY <1>1, <1>2, <1>3, <1>4 DEF Following

\* The pair of LBInit.
StartPair(fees) ==
    [active |-> 0, fees |-> fees, volRef |-> 0, idRef |-> 0, volAcc |-> 0, time |-> 1,
     bins |-> [id \in LBBins |-> [x |-> IF id >= 0 THEN LBDeposit ELSE 0,
                                  y |-> IF id <= 0 THEN LBDeposit ELSE 0]]]

LEMMA StartPairType ==
    ASSUME NEW fees \in LBFeeParameters
    PROVE  StartPair(fees) \in PoolsAt(1)
<1>. DEFINE b == [id \in LBBins |-> [x |-> IF id >= 0 THEN LBDeposit ELSE 0,
                                     y |-> IF id <= 0 THEN LBDeposit ELSE 0]]
<1>1. DOMAIN b = LBBins /\ b = [i \in DOMAIN b |-> b[i]]
  OBVIOUS
<1>2. \A i \in LBBins : b[i] \in BinReserves /\ b[i].x + b[i].y > 0
  <2>. TAKE i \in LBBins
  <2>1. i \in Int /\ LBDeposit \in Nat /\ LBDeposit > 0
    BY Constants, LBAssumption
  <2>2. b[i] \in BinReserves
    BY <2>1 DEF BinReserves
  <2>3. b[i].x = (IF i >= 0 THEN LBDeposit ELSE 0) /\ b[i].y = (IF i <= 0 THEN LBDeposit ELSE 0)
    OBVIOUS
  <2>4. b[i].x + b[i].y > 0
    <3>. HIDE DEF b
    <3>. QED
      BY <2>1, <2>3
  <2>. QED
    BY <2>2, <2>4
<1>. HIDE DEF b
<1>3. b \in BinMaps
  BY <1>1, <1>2, BinMapFacts
<1>. DEFINE p == [active |-> 0, fees |-> fees, volRef |-> 0, idRef |-> 0, volAcc |-> 0, time |-> 1,
                  bins |-> b]
<1>4. StartPair(fees) = p
  BY DEF StartPair, b
<1>5. p \in LBStates /\ p.time = 1 /\ p.volAcc = 0 /\ p.volRef = 0
  <2>1. 0 \in LBBins
    BY LBAssumption
  <2>. QED
    BY <1>3, <2>1 DEF LBStates
<1>. HIDE DEF p
<1>6. VolOK(0, 0)
  <2>1. fees.max \in Nat
    BY FeeTypes
  <2>. QED
    BY <2>1 DEF VolOK
<1>. QED
  BY <1>4, <1>5, <1>6 DEF PoolsAt

LEMMA LBInvInit == LBInit => LBInv
<1>. SUFFICES ASSUME LBInit PROVE LBInv
  OBVIOUS
<1>1. PICK fees \in LBFeeParameters : pair = StartPair(fees)
  BY DEF LBInit, StartPair
<1>2. pair \in PoolsAt(1)
  BY <1>1, StartPairType
<1>3. lb = FetchLBPool(pair, TRUE) /\ lbLogs = <<>> /\ clock = 1 /\ lbQuote = NoQuote
  BY DEF LBInit
<1>4. lb = pair
  BY <1>2, <1>3, PoolsAtFacts, FetchIsPair
<1>5. Following(lbLogs, lb, pair, clock)
  <2>1. Replays(<<>>, pair, pair, PoolsAt(1))
    BY <1>2, ReplayNone
  <2>2. Following(<<>>, pair, pair, 1)
    BY <1>2, <2>1 DEF Following
  <2>. QED
    BY <1>3, <1>4, <2>2
<1>6. lbQuote.kind = "none"
  BY <1>3 DEF NoQuote
<1>. QED
  BY <1>5, <1>6 DEF LBInv, LBQuoteIsPaid

LEMMA LBInvNext == LBInv /\ [LBNext]_lbVars => LBInv'
<1>. SUFFICES ASSUME LBInv, [LBNext]_lbVars PROVE LBInv'
  OBVIOUS
<1>1. Following(lbLogs, lb, pair, clock) /\ LBQuoteIsPaid
      /\ (lbQuote.kind = "input" => lbQuote.out >= lbQuote.want)
  BY DEF LBInv
<1>2. /\ clock \in Nat /\ lbLogs \in Seq(LBLogs) /\ pair \in PoolsAt(clock) /\ lb \in PoolsAt(clock)
      /\ lb \in LBStates /\ pair \in LBStates /\ (lbLogs = <<>> => lb = pair)
  BY <1>1, FollowingFacts
<1>3. PICK p \in PoolsAt(clock), t \in Nat, logs \in Seq(LBLogs), a \in PoolsAt(clock) :
        p = pair /\ t = clock /\ logs = lbLogs /\ a = lb
  BY <1>2
<1>4. Following(logs, a, p, t) /\ p \in PoolsAt(t) /\ p \in LBStates /\ (logs = <<>> => a = p)
      /\ p.active \in LBBins
  BY <1>1, <1>2, <1>3, StateFacts
<1>5. ASSUME lbQuote' = NoQuote, Following(lbLogs', lb', pair', clock') PROVE LBInv'
  <2>1. lbQuote'.kind = "none"
    BY <1>5 DEF NoQuote
  <2>. QED
    BY <1>5, <2>1 DEF LBInv, LBQuoteIsPaid
<1>6. Transaction => lb' = a /\ clock' = t
  BY <1>3 DEF Transaction
<1>7. ASSUME LBSwap PROVE LBInv'
  <2>1. PICK amount \in LBAmounts, forY \in BOOLEAN :
            LET paid == PairSwap(pair, amount, forY, clock)
                quoted == SimulateSwapOut(lb, amount, forY, clock)
            IN /\ Transaction
               /\ paid.left = 0
               /\ pair' = paid.pair
               /\ Emit(paid.logs)
               /\ lbQuote' = IF lbLogs = <<>>
                             THEN [kind |-> "swap", paid |-> paid.out, quoted |-> quoted.out]
                             ELSE NoQuote
    BY <1>7 DEF LBSwap
  <2>2. PICK paid : paid = PairSwap(p, amount, forY, t)
    OBVIOUS
  <2>3. PICK quoted : quoted = SimulateSwapOut(a, amount, forY, t)
    OBVIOUS
  <2>4. /\ Transaction /\ paid.left = 0 /\ pair' = paid.pair /\ lbLogs' = logs \o paid.logs
        /\ lbQuote' = IF logs = <<>>
                      THEN [kind |-> "swap", paid |-> paid.out, quoted |-> quoted.out]
                      ELSE NoQuote
    BY <1>3, <2>1, <2>2, <2>3 DEF Emit
  <2>5. amount \in Nat \ {0}
    BY LBAssumption
  <2>6. paid.pair \in PoolsAt(t) /\ paid.logs \in Seq(LBLogs) /\ Replays(paid.logs, p, paid.pair, PoolsAt(t))
    BY <1>4, <2>2, <2>4, <2>5, PairSwapReplays
  <2>7. PICK q \in PoolsAt(t), tail \in Seq(LBLogs) : q = paid.pair /\ tail = paid.logs
    BY <2>6
  <2>8. Replays(logs \o tail, a, q, PoolsAt(t))
    BY <1>4, <2>6, <2>7, ReplayConcat DEF Following
  <2>9. logs \o tail \in Seq(LBLogs)
    OBVIOUS
  <2>10. Following(logs \o tail, a, q, t)
    BY <2>8, <2>9 DEF Following
  <2>11. Following(lbLogs', lb', pair', clock')
    BY <1>6, <2>4, <2>7, <2>10
  <2>12. CASE logs # <<>>
    BY <1>5, <2>4, <2>11, <2>12
  <2>13. CASE logs = <<>>
    <3>1. paid.out = quoted.out
      BY <1>4, <2>2, <2>3, <2>4, <2>5, <2>13, QuoteIsPaid
    <3>2. lbQuote'.kind = "swap" /\ lbQuote'.paid = paid.out /\ lbQuote'.quoted = quoted.out
      BY <2>4, <2>13
    <3>. QED
      BY <2>11, <3>1, <3>2 DEF LBInv, LBQuoteIsPaid
  <2>. QED
    BY <2>12, <2>13
<1>8. ASSUME NEW id \in LBBins, LBMint(id) PROVE LBInv'
  <2>. DEFINE x == IF id >= p.active THEN LBDeposit ELSE 0
              y == IF id <= p.active THEN LBDeposit ELSE 0
              log == [kind |-> "deposit", id |-> id, x |-> x, y |-> y]
  <2>1. Transaction /\ pair' = Deposited(p, id, x, y) /\ lbLogs' = logs \o <<log>> /\ lbQuote' = NoQuote
    BY <1>3, <1>8 DEF LBMint, Emit
  <2>2. x \in Nat /\ y \in Nat
    BY Constants
  <2>. HIDE DEF x, y
  <2>3. log \in LBLogs /\ AppliedLB(p, log) = Deposited(p, id, x, y) /\ AppliedLB(p, log) \in PoolsAt(t)
    BY <1>4, <2>2, DepositReplays
  <2>. HIDE DEF log
  <2>4. PICK c \in PoolsAt(t) : c = Deposited(p, id, x, y)
    BY <2>3
  <2>5. Following(logs \o <<log>>, a, c, t)
    BY <1>4, <2>3, <2>4, OneLog
  <2>. QED
    BY <1>5, <1>6, <2>1, <2>4, <2>5
<1>9. ASSUME NEW id \in LBBins, LBBurn(id) PROVE LBInv'
  <2>. DEFINE r == Reserves(p, id)
              log == [kind |-> "withdraw", id |-> id, x |-> r.x, y |-> r.y]
              after == [p EXCEPT !.bins = UpdateBin(@, id, 0, 0)]
  <2>1. Transaction /\ pair' = after /\ lbLogs' = logs \o <<log>> /\ lbQuote' = NoQuote
    BY <1>3, <1>9 DEF LBBurn, Emit
  <2>2. log \in LBLogs /\ AppliedLB(p, log) = after /\ AppliedLB(p, log) \in PoolsAt(t)
    BY <1>4, WithdrawReplays
  <2>. HIDE DEF log, after
  <2>3. PICK c \in PoolsAt(t) : c = after
    BY <2>2
  <2>4. Following(logs \o <<log>>, a, c, t)
    BY <1>4, <2>2, <2>3, OneLog
  <2>. QED
    BY <1>5, <1>6, <2>1, <2>3, <2>4
<1>10. ASSUME LBComposition PROVE LBInv'
  <2>. DEFINE ref == UpdateReferences(p, t)
              moved == [p EXCEPT !.volRef = ref.vol, !.idRef = ref.id, !.time = t,
                                 !.volAcc = VolatilityAt(p, p.active, ref)]
              first == [kind |-> "composition", id |-> p.active, ts |-> t]
              second == [kind |-> "deposit", id |-> p.active, x |-> LBDeposit, y |-> 0]
  <2>1. /\ Transaction /\ pair' = Deposited(moved, p.active, LBDeposit, 0)
        /\ lbLogs' = logs \o <<first, second>> /\ lbQuote' = NoQuote
    BY <1>3, <1>10 DEF LBComposition, Emit
  <2>2. first \in LBLogs /\ AppliedLB(p, first) = moved /\ moved \in PoolsAt(t)
    BY <1>4, CompositionReplays
  <2>. HIDE DEF ref, moved, first
  <2>3. PICK m \in PoolsAt(t), id \in LBBins : m = moved /\ id = p.active
    BY <1>4, <2>2
  <2>4. PICK x \in Nat, y \in Nat : x = LBDeposit /\ y = 0
    BY Constants
  <2>5. LET log == [kind |-> "deposit", id |-> id, x |-> x, y |-> y]
        IN  log \in LBLogs /\ AppliedLB(m, log) = Deposited(m, id, x, y) /\ AppliedLB(m, log) \in PoolsAt(t)
    BY DepositReplays
  <2>6. second = [kind |-> "deposit", id |-> id, x |-> x, y |-> y]
    BY <2>3, <2>4
  <2>. HIDE DEF second
  <2>7. /\ second \in LBLogs /\ AppliedLB(m, second) = Deposited(m, id, x, y)
        /\ AppliedLB(m, second) \in PoolsAt(t)
    BY <2>5, <2>6
  <2>8. PICK c \in PoolsAt(t) : c = Deposited(m, id, x, y)
    BY <2>7
  <2>9. Following(logs \o <<first, second>>, a, c, t)
    BY <1>4, <2>2, <2>3, <2>7, <2>8, TwoLogs
  <2>10. c = Deposited(moved, p.active, LBDeposit, 0)
    BY <2>3, <2>4, <2>8
  <2>. QED
    BY <1>5, <1>6, <2>1, <2>9, <2>10
<1>11. ASSUME LBFlashLoan PROVE LBInv'
  <2>1. PICK id \in LBBins : id = p.active
    BY <1>4
  <2>. DEFINE log == [kind |-> "flash", id |-> id, total |-> 2 * LBDeposit, protocol |-> LBDeposit]
              after == Deposited(p, id, LBDeposit, LBDeposit)
  <2>2. Transaction /\ pair' = after /\ lbLogs' = logs \o <<log>> /\ lbQuote' = NoQuote
    BY <1>3, <1>11, <2>1 DEF LBFlashLoan, Emit
  <2>3. log \in LBLogs /\ AppliedLB(p, log) = after /\ AppliedLB(p, log) \in PoolsAt(t)
    BY <1>4, FlashReplays
  <2>. HIDE DEF log, after
  <2>4. PICK c \in PoolsAt(t) : c = after
    BY <2>3
  <2>5. Following(logs \o <<log>>, a, c, t)
    BY <1>4, <2>3, <2>4, OneLog
  <2>. QED
    BY <1>5, <1>6, <2>2, <2>4, <2>5
<1>12. ASSUME LBSetFees PROVE LBInv'
  <2>1. PICK fees \in LBFeeParameters :
            pair' = [pair EXCEPT !.fees = fees] /\ Emit(<<[kind |-> "fees", fees |-> fees]>>)
    BY <1>12 DEF LBSetFees
  <2>. DEFINE log == [kind |-> "fees", fees |-> fees]
              after == [p EXCEPT !.fees = fees]
  <2>2. Transaction /\ pair' = after /\ lbLogs' = logs \o <<log>> /\ lbQuote' = NoQuote
    BY <1>3, <1>12, <2>1 DEF LBSetFees, Emit
  <2>3. log \in LBLogs /\ AppliedLB(p, log) = after /\ AppliedLB(p, log) \in PoolsAt(t)
    BY <1>4, FeesReplay
  <2>. HIDE DEF log, after
  <2>4. PICK c \in PoolsAt(t) : c = after
    BY <2>3
  <2>5. Following(logs \o <<log>>, a, c, t)
    BY <1>4, <2>3, <2>4, OneLog
  <2>. QED
    BY <1>5, <1>6, <2>2, <2>4, <2>5
<1>13. ASSUME LBTick PROVE LBInv'
  <2>1. clock' = t + 1 /\ lbQuote' = NoQuote /\ pair' = p /\ lb' = a /\ lbLogs' = logs
    BY <1>3, <1>13 DEF LBTick
  <2>2. Following(logs, a, p, t + 1)
    BY <1>4, TimePasses
  <2>. QED
    BY <1>5, <2>1, <2>2
<1>14. ASSUME LBApplyLog PROVE LBInv'
  <2>1. /\ logs # <<>> /\ lb' = AppliedLB(a, Head(logs)) /\ lbLogs' = Tail(logs)
        /\ lbQuote' = NoQuote /\ pair' = p /\ clock' = t
    BY <1>3, <1>14 DEF LBApplyLog
  <2>2. Tail(logs) \in Seq(LBLogs)
    BY <2>1
  <2>3. Replays(Tail(logs), AppliedLB(a, Head(logs)), p, PoolsAt(t))
    BY <1>4, <2>1, ReplayTail DEF Following
  <2>4. Following(Tail(logs), AppliedLB(a, Head(logs)), p, t)
    BY <1>4, <2>2, <2>3 DEF Following
  <2>. QED
    BY <1>5, <2>1, <2>4
<1>15. ASSUME LBAskInput PROVE LBInv'
  <2>1. PICK want \in LBAmounts, forY \in BOOLEAN :
            LET in == SimulateSwapIn(lb, want, forY, clock)
                out == SimulateSwapOut(lb, in.in, forY, clock)
            IN /\ in.left = 0
               /\ lbQuote' = [kind |-> "input", want |-> want, in |-> in.in, out |-> out.out,
                              left |-> out.left]
    BY <1>15 DEF LBAskInput
  <2>2. want \in Nat \ {0}
    BY LBAssumption
  <2>3. PICK in : in = SimulateSwapIn(a, want, forY, t)
    OBVIOUS
  <2>4. PICK out : out = SimulateSwapOut(a, in.in, forY, t)
    OBVIOUS
  <2>5. in.left = 0 /\ lbQuote' = [kind |-> "input", want |-> want, in |-> in.in, out |-> out.out,
                                  left |-> out.left]
    BY <1>3, <2>1, <2>3, <2>4
  <2>6. a \in LBStates
    BY <1>2, <1>3
  <2>7. out.out >= want
    BY <2>2, <2>3, <2>4, <2>5, <2>6, InputIsEnough
  <2>8. lbQuote'.kind = "input" /\ lbQuote'.out = out.out /\ lbQuote'.want = want
    BY <2>5
  <2>9. pair' = pair /\ lb' = lb /\ lbLogs' = lbLogs /\ clock' = clock
    BY <1>15 DEF LBAskInput
  <2>10. Following(lbLogs', lb', pair', clock')
    BY <1>1, <2>9
  <2>. QED
    BY <2>7, <2>8, <2>10 DEF LBInv, LBQuoteIsPaid
<1>16. ASSUME LBRefetch PROVE LBInv'
  <2>1. /\ logs = <<>> /\ lbQuote' = [kind |-> "fetched"] /\ pair' = p /\ lbLogs' = logs /\ clock' = t
        /\ \E byTree \in BOOLEAN : lb' = FetchLBPool(p, byTree)
    BY <1>3, <1>16 DEF LBRefetch
  <2>2. lb' = p
    BY <1>4, <2>1, FetchIsPair
  <2>3. Following(lbLogs', lb', pair', clock')
    BY <1>4, <2>1, <2>2
  <2>4. lbQuote'.kind = "fetched"
    BY <2>1
  <2>. QED
    BY <2>3, <2>4 DEF LBInv, LBQuoteIsPaid
<1>17. CASE UNCHANGED lbVars
  BY <1>1, <1>17 DEF LBInv, LBQuoteIsPaid, lbVars
<1>. QED
  BY <1>7, <1>8, <1>9, <1>10, <1>11, <1>12, <1>13, <1>14, <1>15, <1>16, <1>17 DEF LBNext

LEMMA LBInvariance == LBSpec => []LBInv
<1>1. LBInit => LBInv
  BY LBInvInit
<1>2. LBInv /\ [LBNext]_lbVars => LBInv'
  BY LBInvNext
<1>. QED
  BY <1>1, <1>2, PTL DEF LBSpec

----------------------------------------------------------------------------
\* What apply_log leaves is sound whatever logs wait: the active bin and the reference
\* bin exist, the clock of the references is no later than now, both volatilities are
\* within a maximum, and no bin is kept empty or below zero.
THEOREM LBTypes == LBSpec => []LBTypeOK
<1>1. LBInv => LBTypeOK
  <2>. SUFFICES ASSUME LBInv PROVE LBTypeOK
    OBVIOUS
  <2>1. clock \in Nat /\ lb \in PoolsAt(clock) /\ lb \in LBStates
    BY FollowingFacts DEF LBInv
  <2>2. /\ lb.active \in LBBins /\ lb.fees \in LBFeeParameters /\ lb.volRef \in Nat
        /\ lb.idRef \in LBBins /\ lb.volAcc \in Nat /\ lb.time \in Nat \ {0} /\ lb.bins \in BinMaps
    BY <2>1, StateFacts
  <2>3. lb.time \in 1..clock
    BY <2>1, <2>2, PoolsAtFacts
  <2>4. \E f \in LBFeeParameters : lb.volAcc \in 0..f.max /\ lb.volRef \in 0..f.max
    <3>1. PICK f \in LBFeeParameters : lb.volAcc <= f.max /\ lb.volRef <= f.max
      BY <2>1, PoolsAtFacts DEF VolOK
    <3>2. f.max \in Nat
      BY FeeTypes
    <3>. QED
      BY <2>2, <3>1, <3>2
  <2>5. \A id \in DOMAIN lb.bins : /\ lb.bins[id].x \in Nat /\ lb.bins[id].y \in Nat
                                   /\ lb.bins[id].x + lb.bins[id].y > 0
    BY <2>2, BinMapFacts DEF BinReserves
  <2>. QED
    BY <2>2, <2>3, <2>4, <2>5 DEF LBTypeOK
<1>. QED
  BY <1>1, LBInvariance, PTL

\* A pool that has applied every log of its pair is its pair, whatever transactions were
\* made, in whatever order time passed and logs were applied (apply_log), and a fetch by
\* the tree or by walking (fetch_lb_pool) finds that same pool.
THEOREM LBReplays == LBSpec => []LBMatchesPair
<1>1. LBInv => LBMatchesPair
  BY FollowingFacts DEF LBInv, LBMatchesPair
<1>. QED
  BY <1>1, LBInvariance, PTL

\* What calculate_output_at quotes for the block's time is what the pair pays, through any
\* number of bins and fee changes, when every log has been applied.
THEOREM LBQuotes == LBSpec => []LBQuoteIsPaid
<1>1. LBInv => LBQuoteIsPaid
  BY DEF LBInv
<1>. QED
  BY <1>1, LBInvariance, PTL

\* The input calculate_input_at asks for an output gives at least that output: each bin's
\* input and fee are rounded so that the fee taken off is covered.
THEOREM LBInputs == LBSpec => []LBInputSuffices
<1>1. LBInv => LBInputSuffices
  BY DEF LBInv, LBInputSuffices
<1>. QED
  BY <1>1, LBInvariance, PTL
=============================================================================
