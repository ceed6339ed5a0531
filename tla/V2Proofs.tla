------------------------------ MODULE V2Proofs ------------------------------
(***************************************************************************)
(* Proofs about V2Pool: the roundings of the constant product and of a       *)
(* vault, and the fee solved from a pair's own quotes, for all reserves,     *)
(* amounts and fees. The stable curve's quotes come from an iteration and    *)
(* are left to TLC.                                                         *)
(***************************************************************************)
EXTENDS V2Pool, SequenceTheorems, TLAPS

----------------------------------------------------------------------------
(* Integer division. *)

LEMMA Division ==
    ASSUME NEW a \in Nat, NEW b \in Nat \ {0}
    PROVE  /\ a \div b \in Nat
           /\ b * (a \div b) <= a
           /\ a < b * (a \div b) + b
OBVIOUS

LEMMA DivAtLeast ==
    ASSUME NEW a \in Nat, NEW b \in Nat \ {0}, NEW q \in Nat, q * b <= a
    PROVE  q <= a \div b
OBVIOUS

LEMMA DivBelow ==
    ASSUME NEW a \in Nat, NEW b \in Nat \ {0}, NEW q \in Nat, a < q * b
    PROVE  a \div b < q
OBVIOUS

LEMMA Monotone ==
    ASSUME NEW a \in Nat, NEW b \in Nat, NEW c \in Nat, a <= b
    PROVE  a * c <= b * c
OBVIOUS

LEMMA Cancel ==
    ASSUME NEW a \in Nat, NEW b \in Nat, NEW c \in Nat \ {0}, a * c <= b * c
    PROVE  a <= b
OBVIOUS

----------------------------------------------------------------------------
(* The constant product: x and y are the reserves, n the denominator of the  *)
(* fee and g what of it is left to the trader.                              *)

\* calculate_output gives less than the reserve, and not more than keeps the product.
LEMMA ProductRounding ==
    ASSUME NEW x \in Nat \ {0}, NEW y \in Nat \ {0}, NEW a \in Nat,
           NEW n \in Nat \ {0}, NEW g \in Nat, g <= n,
           NEW out, out = (a * g * y) \div (x * n + a * g)
    PROVE  out \in Nat /\ out < y /\ out * (x + a) <= a * y
<1>. DEFINE w == a * g
            m == x * n
<1>1. w \in Nat /\ m \in Nat \ {0} /\ w <= a * n
  <2>1. a * g <= a * n
    BY Monotone
  <2>. QED
    BY <2>1
<1>2. /\ w * y \in Nat /\ m + w \in Nat \ {0} /\ out = (w * y) \div (m + w)
  BY <1>1
<1>3. out \in Nat /\ (m + w) * out <= w * y
  <2>. HIDE DEF w, m
  <2>. QED
    BY <1>1, <1>2, Division
<1>4. out < y
  <2>. HIDE DEF w, m
  <2>1. w * y < y * (m + w)
    BY <1>1
  <2>. QED
    BY <1>1, <1>2, <2>1, DivBelow
<1>5. m * out <= w * (y - out)
  <2>. HIDE DEF w, m
  <2>. QED
    BY <1>1, <1>3, <1>4
<1>6. w * (y - out) <= (a * n) * (y - out)
  <2>1. y - out \in Nat /\ a * n \in Nat
    BY <1>3, <1>4
  <2>. HIDE DEF w
  <2>. QED
    BY <1>1, <2>1, Monotone
<1>7. (x * out) * n <= (a * (y - out)) * n
  <2>1. m * out = (x * out) * n /\ (a * n) * (y - out) = (a * (y - out)) * n
    BY <1>3, <1>4
  <2>. DEFINE l == m * out
              c == w * (y - out)
              u == (a * n) * (y - out)
  <2>2. l \in Nat /\ c \in Nat /\ u \in Nat
    BY <1>1, <1>3, <1>4
  <2>3. l <= c /\ c <= u
    BY <1>5, <1>6
  <2>. HIDE DEF l, c, u
  <2>4. l <= u
    BY <2>2, <2>3
  <2>. QED
    BY <2>1, <2>4 DEF l, u
<1>8. x * out <= a * (y - out)
  BY <1>3, <1>4, <1>7, Cancel
<1>. QED
  BY <1>3, <1>4, <1>8

\* The product after the swap is no smaller.
LEMMA ProductKept ==
    ASSUME NEW x \in Nat, NEW y \in Nat, NEW a \in Nat, NEW out \in Nat,
           out <= y, out * (x + a) <= a * y
    PROVE  (x + a) * (y - out) >= x * y
<1>1. (x + a) * (y - out) = x * y + a * y - out * (x + a)
  OBVIOUS
<1>. QED
  BY <1>1

\* Selling back against the swapped reserves returns no more than was paid.
LEMMA NoGain ==
    ASSUME NEW x \in Nat, NEW y \in Nat \ {0}, NEW a \in Nat, NEW out \in Nat, NEW back \in Nat,
           out <= y, out * (x + a) <= a * y,
           back * ((y - out) + out) <= out * (x + a)
    PROVE  back <= a
<1>1. back * y <= a * y
  BY out * (x + a) \in Nat, back * y = back * ((y - out) + out)
<1>. QED
  BY <1>1, Cancel

\* calculate_input's answer buys what was asked for.
LEMMA InputBuys ==
    ASSUME NEW x \in Nat \ {0}, NEW y \in Nat \ {0}, NEW o \in Nat, o < y,
           NEW n \in Nat \ {0}, NEW g \in Nat \ {0},
           NEW in, in = (x * o * n) \div ((y - o) * g) + 1
    PROVE  in \in Nat /\ o <= (in * g * y) \div (x * n + in * g)
<1>. DEFINE q == x * o * n
            d == (y - o) * g
<1>1. q \in Nat /\ d \in Nat \ {0}
  OBVIOUS
<1>2. in \in Nat /\ q < d * in
  <2>1. in = q \div d + 1
    OBVIOUS
  <2>. HIDE DEF q, d
  <2>2. q \div d \in Nat /\ q < d * (q \div d) + d
    BY <1>1, Division
  <2>. QED
    BY <1>1, <2>1, <2>2
<1>. DEFINE w == in * g
<1>3. w \in Nat /\ x * n \in Nat \ {0} /\ d * in = w * (y - o)
  BY <1>2
<1>4. o * (x * n) <= w * (y - o)
  <2>1. o * (x * n) = q
    OBVIOUS
  <2>2. w * (y - o) \in Nat
    BY <1>3
  <2>. HIDE DEF w, q, d
  <2>. QED
    BY <1>1, <1>2, <1>3, <2>1, <2>2
<1>5. o * (x * n + w) <= w * y
  <2>1. x * n \in Nat
    OBVIOUS
  <2>. HIDE DEF w
  <2>. DEFINE m == x * n
  <2>2. o * m <= w * (y - o) /\ m \in Nat
    BY <1>4
  <2>. HIDE DEF m
  <2>3. o * (m + w) <= w * y
    BY <1>3, <2>2
  <2>. QED
    BY <2>3 DEF m
<1>6. w * y \in Nat /\ x * n + w \in Nat \ {0}
  BY <1>3
<1>. QED
  BY <1>2, <1>5, <1>6, DivAtLeast

----------------------------------------------------------------------------
(* A vault: x and y are the totals given and received, of which a fee is      *)
(* kept.                                                                    *)

\* The output is at most the ratio's share.
LEMMA VaultRounding ==
    ASSUME NEW x \in Nat \ {0}, NEW y \in Nat, NEW a \in Nat,
           NEW n \in Nat \ {0}, NEW g \in Nat, g <= n,
           NEW out, out = (((a * y) \div x) * g) \div n
    PROVE  out \in Nat /\ out * x <= a * y /\ (a <= x => out <= y)
<1>. DEFINE e == (a * y) \div x
<1>1. a * y \in Nat
  OBVIOUS
<1>2. e \in Nat /\ x * e <= a * y
  BY <1>1, Division
<1>. HIDE DEF e
<1>3. out = (e * g) \div n
  BY DEF e
<1>4. e * g \in Nat /\ e * g <= e * n
  BY <1>2, Monotone
<1>5. out \in Nat /\ n * out <= e * g
  BY <1>3, <1>4, Division
<1>6. out <= e
  <2>1. out * n <= e * n
    BY <1>2, <1>4, <1>5
  <2>. QED
    BY <1>2, <1>5, <2>1, Cancel
<1>7. out * x <= e * x
  BY <1>2, <1>5, <1>6, Monotone
<1>8. out * x <= a * y
  BY <1>2, <1>5, <1>7
<1>9. ASSUME a <= x PROVE out <= y
  <2>1. a * y <= x * y
    BY <1>9, Monotone
  <2>2. out * x <= y * x
    BY <1>5, <1>8, <2>1
  <2>. QED
    BY <1>5, <2>2, Cancel
<1>. QED
  BY <1>5, <1>8, <1>9

----------------------------------------------------------------------------
(* The fee solved from a quote: r1 and r2 are the pair's reserves, b the     *)
(* basis of its fee, of which it leaves g to the trader, i the probe.       *)

LEMMA Distribute ==
    ASSUME NEW a \in Nat, NEW b \in Nat, NEW c \in Nat
    PROVE  (a + b) * c = a * c + b * c /\ c * (a + b) = c * a + c * b
OBVIOUS

LEMMA Balance ==
    ASSUME NEW a \in Nat, NEW b \in Nat, NEW c \in Nat, NEW e \in Nat, NEW s \in Nat,
           a + b <= b + c, b + c < a + b + s
    PROVE  a <= c /\ c < a + s /\ a + e <= e + c
OBVIOUS

\* What the quote's rounding loses: with m and w the two parts of its denominator,
\* less than one unit of out.
LEMMA QuoteLoss ==
    ASSUME NEW m \in Nat \ {0}, NEW w \in Nat, NEW r2 \in Nat \ {0},
           m + w <= w * r2,
           NEW out, out = (w * r2) \div (m + w)
    PROVE  /\ out \in Nat /\ out # 0 /\ out < r2
           /\ m * out <= w * (r2 - out)
           /\ w * (r2 - out) < m * out + (m + w)
           /\ m * r2 <= (m + w) * (r2 - out)
<1>1. w * r2 \in Nat /\ m + w \in Nat \ {0}
  OBVIOUS
<1>2. /\ out \in Nat
      /\ (m + w) * out <= w * r2
      /\ w * r2 < (m + w) * out + (m + w)
  BY <1>1, Division
<1>3. 1 <= out
  BY <1>1, DivAtLeast
<1>4. out < r2
  <2>1. w * r2 < r2 * (m + w)
    OBVIOUS
  <2>. QED
    BY <1>1, <2>1, DivBelow
<1>. DEFINE d == r2 - out
<1>5. d \in Nat \ {0} /\ r2 = out + d
  BY <1>2, <1>4
<1>. HIDE DEF d
<1>. DEFINE mo == m * out
            wo == w * out
            md == m * d
            wd == w * d
<1>6. mo \in Nat /\ wo \in Nat /\ md \in Nat /\ wd \in Nat
  BY <1>2, <1>5
<1>7. /\ (m + w) * out = mo + wo /\ w * r2 = wo + wd
      /\ m * r2 = mo + md /\ (m + w) * d = md + wd
  <2>1. (m + w) * out = mo + wo
    BY <1>2, Distribute, ZenonT(40)
  <2>2. (m + w) * d = md + wd
    BY <1>5, Distribute
  <2>3. w * (out + d) = wo + wd /\ m * (out + d) = mo + md
    BY <1>2, <1>5, Distribute
  <2>. QED
    BY <1>5, <2>1, <2>2, <2>3
<1>8. mo + wo <= wo + wd /\ wo + wd < mo + wo + (m + w)
  BY <1>2, <1>7
<1>. HIDE DEF mo, wo, md, wd
<1>9. mo <= wd /\ wd < mo + (m + w) /\ mo + md <= md + wd
  BY <1>1, <1>6, <1>8, Balance
<1>. QED
  BY <1>2, <1>3, <1>4, <1>7, <1>9 DEF d, mo, md, wd

\* Rounding to the nearest undoes a loss of less than half.
LEMMA RoundsTo ==
    ASSUME NEW den \in Nat \ {0}, NEW g \in Nat, NEW u \in Nat, NEW s \in Nat,
           2 * s <= den, u <= g * den, g * den < u + s
    PROVE  (u + den \div 2) \div den = g
<1>. DEFINE half == den \div 2
            t == g * den
            rest == (u + half) \div den
<1>1. half \in Nat /\ s <= half /\ half < den
  OBVIOUS
<1>2. t \in Nat /\ u <= t /\ t < u + s /\ (g + 1) * den = t + den
  OBVIOUS
<1>. HIDE DEF half, t
<1>3. t <= u + half /\ u + half < t + den /\ u + half \in Nat
  BY <1>1, <1>2
<1>4. g * den <= u + half /\ u + half < (g + 1) * den
  BY <1>2, <1>3 DEF t
<1>5. g <= rest /\ rest < g + 1 /\ rest \in Nat
  BY <1>3, <1>4, DivAtLeast, DivBelow, Division, SMTT(30)
<1>. HIDE DEF rest
<1>6. rest = g
  BY <1>5
<1>. QED
  BY <1>6 DEF rest, half

\* The quote on probe i, and the share left to the trader that it is solved to.
Quoted(r1, r2, b, g, i) == (i * g * r2) \div (r1 * b + i * g)
Solved(r1, r2, b, i, out) ==
    (out * r1 * b + (i * (r2 - out)) \div 2) \div (i * (r2 - out))

\* The reserves are large enough for the probe.
Telling(r1, r2, b, g, i) ==
    LET s == r1 * b + i * g
    IN 2 * (s * s) <= i * ((r1 * b) * r2) /\ s <= (i * g) * r2

\* One probe tells the fee exactly when the reserves are large next to the basis:
\* the quote loses less than one unit, which moves the solved fee by less than half.
LEMMA SolvedExactly ==
    ASSUME NEW r1 \in Nat \ {0}, NEW r2 \in Nat \ {0}, NEW b \in Nat \ {0}, NEW g \in Nat,
           NEW i \in Nat \ {0}, Telling(r1, r2, b, g, i)
    PROVE  /\ Quoted(r1, r2, b, g, i) \in Nat /\ Quoted(r1, r2, b, g, i) # 0
           /\ Quoted(r1, r2, b, g, i) < r2
           /\ Solved(r1, r2, b, i, Quoted(r1, r2, b, g, i)) = g
<1>. DEFINE s == r1 * b + i * g
            out == Quoted(r1, r2, b, g, i)
            w == i * g
            m == r1 * b
            d == r2 - out
<1>1. w \in Nat /\ m \in Nat \ {0} /\ s = m + w
  OBVIOUS
<1>2. 2 * (s * s) <= i * (m * r2) /\ m + w <= w * r2 /\ out = (w * r2) \div (m + w)
  BY DEF Telling, Quoted
<1>. HIDE DEF s, out, w, m
<1>3. /\ out \in Nat /\ out # 0 /\ out < r2
      /\ m * out <= w * d /\ w * d < m * out + s /\ m * r2 <= s * d
  BY <1>1, <1>2, QuoteLoss
<1>4. d \in Nat \ {0} /\ s \in Nat \ {0}
  BY <1>1, <1>3
<1>. HIDE DEF d
<1>5. 2 * s <= i * d
  <2>. DEFINE lo == 2 * (s * s)
              mid == i * (m * r2)
              hi == i * (s * d)
  <2>1. lo \in Nat /\ mid \in Nat /\ hi \in Nat
    BY <1>1, <1>4
  <2>2. mid <= hi
    <3>1. m * r2 \in Nat /\ s * d \in Nat
      BY <1>1, <1>4
    <3>2. (m * r2) * i <= (s * d) * i
      BY <1>3, <3>1, Monotone
    <3>. QED
      BY <3>1, <3>2
  <2>3. lo = (2 * s) * s /\ hi = (i * d) * s
    BY <1>1, <1>4
  <2>4. lo <= mid
    BY <1>2
  <2>. HIDE DEF lo, mid, hi
  <2>5. lo <= hi
    BY <2>1, <2>2, <2>4
  <2>6. (2 * s) * s <= (i * d) * s
    BY <2>3, <2>5
  <2>. QED
    BY <1>4, <2>6, Cancel
<1>6. i * d \in Nat \ {0} /\ m * out \in Nat /\ w * d = g * (i * d)
  BY <1>1, <1>3, <1>4 DEF w
<1>7. (m * out + (i * d) \div 2) \div (i * d) = g
  BY <1>3, <1>4, <1>5, <1>6, RoundsTo
<1>8. out * r1 * b = m * out
  BY <1>3 DEF m
<1>. QED
  BY <1>3, <1>7, <1>8 DEF d, out, Solved

\* The two probes of calibrate_v2_fee: four times the reserve, and half of it. The
\* fourfold one asks for the larger second reserve, 25/2 times the basis.
LEMMA FourfoldProbe ==
    ASSUME NEW r1 \in Nat \ {0}, NEW r2 \in Nat, NEW b \in Nat \ {0}, NEW g \in Nat \ {0},
           g <= b, 25 * b < 2 * r2,
           NEW i, i = r1 * 4
    PROVE  Telling(r1, r2, b, g, i)
BY DEF Telling

LEMMA HalfProbe ==
    ASSUME NEW r1 \in Nat, r1 > 1, NEW r2 \in Nat, NEW b \in Nat \ {0}, NEW g \in Nat \ {0},
           g <= b, 25 * b < 2 * r2,
           NEW i \in Nat, 2 * i <= r1, r1 <= 2 * i + 1
    PROVE  Telling(r1, r2, b, g, i)
BY SMTT(30) DEF Telling

LEMMA Answers ==
    /\ Error.ok = FALSE /\ Error.amount = 0
    /\ \A n : Ok(n).ok = TRUE /\ Ok(n).amount = n /\ Ok(n) # Error
BY DEF Ok, Error

\* A fee solved from any quote is a fee.
LEMMA SolveFeeType ==
    ASSUME NEW r1 \in Nat, NEW r2 \in Nat, NEW i \in Nat, NEW out \in Nat
    PROVE  /\ SolveFee(<<r1, r2>>, i, out).ok \in BOOLEAN /\ SolveFee(<<r1, r2>>, i, out).amount \in Nat
<1>. DEFINE den == i * (r2 - out)
            rest == (out * r1 * V2FeeBasis + den \div 2) \div den
<1>1. CASE i = 0 \/ out = 0 \/ out >= r2 \/ rest > V2FeeBasis
  BY <1>1 DEF SolveFee, Error
<1>2. CASE ~(i = 0 \/ out = 0 \/ out >= r2 \/ rest > V2FeeBasis)
  <2>1. r1 \in Nat /\ r2 \in Nat /\ V2FeeBasis \in Nat
    BY V2Assumption
  <2>2. den \in Nat \ {0}
    <3>1. i # 0 /\ ~(out >= r2)
      BY <1>2
    <3>2. r2 - out \in Nat \ {0}
      BY <2>1, <3>1
    <3>. DEFINE d == r2 - out
    <3>. HIDE DEF d
    <3>3. i * d \in Nat \ {0}
      BY <3>1, <3>2 DEF d
    <3>. QED
      BY <3>3 DEF d
  <2>3. out * r1 * V2FeeBasis + den \div 2 \in Nat
    <3>1. den \div 2 \in Nat
      BY <2>2, Division
    <3>2. out * r1 * V2FeeBasis \in Nat
      BY <2>1
    <3>. QED
      BY <3>1, <3>2
  <2>4. rest \in Nat
    BY <2>2, <2>3, Division
  <2>5. SolveFee(<<r1, r2>>, i, out) = Ok(V2FeeBasis - rest)
    BY <1>2 DEF SolveFee
  <2>. HIDE DEF rest
  <2>6. V2FeeBasis - rest \in Nat
    BY <1>2, <2>1, <2>4
  <2>. QED
    BY <2>5, <2>6, Answers
<1>. QED
  BY <1>1, <1>2

\* What the pair quotes on a probe lets the probe solve the fee it charges.
LEMMA ProbeSolves ==
    ASSUME NEW r1 \in Nat, NEW r2 \in Nat, r1 > 1, 2 * r2 > 25 * V2FeeBasis,
           NEW c \in V2Charged, c > 0,
           NEW i, i = r1 * 4 \/ i = r1 \div 2
    PROVE  SolveFee(<<r1, r2>>, i, PairQuote(<<r1, r2>>, c, i)) = Ok(c)
<1>. DEFINE b == V2FeeBasis
            g == b - c
            out == PairQuote(<<r1, r2>>, c, i)
<1>1. /\ r1 \in Nat \ {0} /\ r2 \in Nat \ {0} /\ b \in Nat \ {0}
      /\ c \in Nat /\ g \in Nat \ {0} /\ g <= b
  BY V2Assumption
<1>2. i \in Nat \ {0}
  BY <1>1
<1>3. Telling(r1, r2, b, g, i)
  <2>. HIDE DEF g
  <2>1. CASE i = r1 * 4
    BY <1>1, <2>1, FourfoldProbe
  <2>2. CASE i = r1 \div 2
    <3>1. i \in Nat /\ 2 * i <= r1 /\ r1 <= 2 * i + 1
      BY <1>1, <2>2
    <3>. QED
      BY <1>1, <3>1, HalfProbe
  <2>. QED
    BY <2>1, <2>2
<1>4. out = Quoted(r1, r2, b, g, i)
  BY DEF PairQuote, Quoted
<1>. HIDE DEF b, g, out
<1>5. /\ out \in Nat /\ out # 0 /\ out < r2
      /\ Solved(r1, r2, b, i, out) = g
  BY <1>1, <1>2, <1>3, <1>4, SolvedExactly
<1>6. ~(i = 0 \/ out = 0 \/ out >= r2 \/ g > b) /\ b - g = c
  <2>1. b - g = c
    BY <1>1 DEF g
  <2>2. ~(g > b) /\ ~(out >= r2)
    BY <1>1, <1>5
  <2>. QED
    BY <1>2, <1>5, <2>1, <2>2
<1>7. SolveFee(<<r1, r2>>, i, out) = Ok(b - g)
  <2>. DEFINE den == i * (r2 - out)
              rest == (out * r1 * V2FeeBasis + den \div 2) \div den
  <2>1. SolveFee(<<r1, r2>>, i, out) = IF i = 0 \/ out = 0 \/ out >= r2 \/ rest > V2FeeBasis THEN Error
                              ELSE Ok(V2FeeBasis - rest)
    BY DEF SolveFee
  <2>2. rest = g
    BY <1>5 DEF Solved, b
  <2>. HIDE DEF rest
  <2>. QED
    BY <1>6, <2>1, <2>2 DEF b
<1>. QED
  BY <1>6, <1>7 DEF out

LEMMA PairQuoteType ==
    ASSUME NEW r1 \in Nat, NEW r2 \in Nat, NEW c \in V2Charged, NEW i \in Nat, r1 # 0
    PROVE  PairQuote(<<r1, r2>>, c, i) \in Nat
<1>. DEFINE w == i * (V2FeeBasis - c)
            m == r1 * V2FeeBasis
<1>1. /\ r1 \in Nat \ {0} /\ r2 \in Nat /\ V2FeeBasis \in Nat \ {0}
      /\ c \in Nat /\ c <= V2FeeBasis
  BY V2Assumption
<1>2. w \in Nat /\ m \in Nat \ {0}
  BY <1>1
<1>3. PairQuote(<<r1, r2>>, c, i) = (w * r2) \div (m + w)
  BY DEF PairQuote
<1>. HIDE DEF w, m
<1>4. w * r2 \in Nat /\ m + w \in Nat \ {0}
  BY <1>1, <1>2
<1>. QED
  BY <1>3, <1>4, Division

\* calibrate_v2_fee answers with a fee, if at all, and with the one charged when
\* the reserves are large enough.
LEMMA Calibrated ==
    ASSUME NEW r1 \in Nat, NEW r2 \in Nat, NEW c \in V2Charged
    PROVE  /\ CalibrateFee(<<r1, r2>>, c).ok \in BOOLEAN /\ CalibrateFee(<<r1, r2>>, c).amount \in Nat
           /\ CalibrateFee(<<r1, r2>>, c).ok => CalibrateFee(<<r1, r2>>, c).amount <= V2MaxSaneFee
           /\ c > 0 /\ r1 > 1 /\ 2 * r2 > 25 * V2FeeBasis => CalibrateFee(<<r1, r2>>, c) = Ok(c)
<1>. DEFINE half == SolveFee(<<r1, r2>>, r1 \div 2, PairQuote(<<r1, r2>>, c, r1 \div 2))
            fourfold == SolveFee(<<r1, r2>>, r1 * 4, PairQuote(<<r1, r2>>, c, r1 * 4))
            refused == r1 = 0 \/ r2 = 0 \/ half = Error \/ half # fourfold
                          \/ half.amount = 0 \/ half.amount > V2MaxSaneFee
<1>1. /\ r1 \in Nat /\ r2 \in Nat /\ c \in Nat /\ c <= V2MaxSaneFee
      /\ V2FeeBasis \in Nat /\ V2MaxSaneFee \in Nat
  BY V2Assumption
<1>2. CalibrateFee(<<r1, r2>>, c) = IF refused THEN Error ELSE half
  BY DEF CalibrateFee
<1>3. ASSUME r1 # 0 PROVE half.ok \in BOOLEAN /\ half.amount \in Nat
  <2>1. r1 \div 2 \in Nat
    BY <1>1, Division
  <2>2. PairQuote(<<r1, r2>>, c, r1 \div 2) \in Nat
    BY <1>3, <2>1, PairQuoteType
  <2>. QED
    BY <2>1, <2>2, SolveFeeType
<1>4. ASSUME c > 0, r1 > 1, 2 * r2 > 25 * V2FeeBasis
      PROVE  half = Ok(c) /\ fourfold = Ok(c) /\ ~refused
  <2>1. half = Ok(c) /\ fourfold = Ok(c)
    BY <1>4, ProbeSolves
  <2>. HIDE DEF half, fourfold
  <2>2. r1 # 0 /\ r2 # 0
    BY <1>1, <1>4
  <2>3. half # Error /\ half.amount = c
    BY <2>1 DEF Ok, Error
  <2>. QED
    BY <1>1, <1>4, <2>1, <2>2, <2>3
<1>5. CASE refused
  <2>. HIDE DEF refused
  <2>1. CalibrateFee(<<r1, r2>>, c) = Error
    BY <1>2, <1>5
  <2>2. ~(c > 0 /\ r1 > 1 /\ 2 * r2 > 25 * V2FeeBasis)
    BY <1>4, <1>5
  <2>3. CalibrateFee(<<r1, r2>>, c).ok = FALSE /\ CalibrateFee(<<r1, r2>>, c).amount = 0
    BY <2>1, Answers
  <2>4. CalibrateFee(<<r1, r2>>, c).ok \in BOOLEAN /\ ~CalibrateFee(<<r1, r2>>, c).ok
    BY <2>3
  <2>5. CalibrateFee(<<r1, r2>>, c).amount \in Nat
    BY <2>3
  <2>. QED
    BY <2>2, <2>4, <2>5, Zenon
<1>6. CASE ~refused
  <2>1. CalibrateFee(<<r1, r2>>, c) = half /\ r1 # 0 /\ ~(half.amount > V2MaxSaneFee)
    BY <1>2, <1>6
  <2>. HIDE DEF half
  <2>. QED
    BY <1>1, <1>3, <1>4, <2>1
<1>. QED
  BY <1>5, <1>6

LEMMA MultiplierType == Multiplier \in Nat \ {0} /\ V2GetFeeMax * Multiplier = V2FeeBasis
<1>1. V2FeeBasis \in Nat \ {0} /\ V2GetFeeMax \in Nat \ {0}
  BY V2Assumption
<1>2. V2GetFeeMax * Multiplier = V2FeeBasis
  BY V2Assumption DEF Multiplier
<1>3. Multiplier \in Nat
  BY <1>1, Division DEF Multiplier
<1>. QED
  BY <1>1, <1>2, <1>3

\* Whatever convention a pair reports its fee in, the number read from it is a fee.
LEMMA ReportedType ==
    ASSUME NEW c \in V2Charged, NEW call \in {"fee", "getFee", "none"},
           NEW raw \in Reported(call, c)
    PROVE  raw \in Nat /\ NormaliseReportedFee(raw) \in Nat /\ c \div Multiplier \in Nat
<1>. DEFINE M == Multiplier
            q == c \div M
<1>1. /\ c \in Nat /\ c < V2FeeBasis /\ V2FeeBasis \in Nat
      /\ V2GetFeeMax \in Nat /\ V2ReverseFeeMax \in Nat
  BY V2Assumption
<1>2. M \in Nat \ {0} /\ V2GetFeeMax * M = V2FeeBasis
  BY MultiplierType
<1>. HIDE DEF M
<1>3. q \in Nat /\ q < V2GetFeeMax
  BY <1>1, <1>2, Division, DivBelow
<1>4. Reported(call, c) \subseteq {q, c, V2GetFeeMax - q, 0}
  BY DEF Reported, M
<1>. HIDE DEF q
<1>5. raw \in Nat
  BY <1>1, <1>3, <1>4
<1>6. NormaliseReportedFee(raw) \in Nat
  <2>1. CASE raw > V2GetFeeMax
    <3>1. ~(raw <= V2GetFeeMax)
      BY <1>1, <1>5, <2>1
    <3>2. NormaliseReportedFee(raw) = raw
      BY <2>1, <3>1 DEF NormaliseReportedFee
    <3>. QED
      BY <1>5, <3>2
  <2>2. CASE raw > V2ReverseFeeMax /\ raw <= V2GetFeeMax
    <3>1. NormaliseReportedFee(raw) = (V2GetFeeMax - raw) * M
      BY <1>1, <1>5, <2>2 DEF NormaliseReportedFee, M
    <3>2. V2GetFeeMax - raw \in Nat
      BY <1>1, <1>5, <2>2
    <3>. QED
      BY <1>2, <3>1, <3>2
  <2>3. CASE ~(raw > V2GetFeeMax) /\ ~(raw > V2ReverseFeeMax /\ raw <= V2GetFeeMax)
    <3>1. NormaliseReportedFee(raw) = raw * M
      BY <2>3 DEF NormaliseReportedFee, M
    <3>. QED
      BY <1>2, <1>5, <3>1
  <2>. QED
    BY <1>1, <1>5, <2>1, <2>2, <2>3
<1>. QED
  BY <1>3, <1>5, <1>6 DEF q, M

\* The factory's fee is one too.
LEMMA FactoryFeeType ==
    ASSUME NEW n \in Nat, NEW q \in Nat,
           NEW override \in {Error, Ok(n)}, NEW table \in {Error, Ok(n)},
           NEW factory \in {Error, Ok(q)}, NEW aero \in {Error, Ok(q)}
    PROVE  FactoryFee(override, table, factory, aero).amount \in Nat
<1>1. q * Multiplier \in Nat
  BY MultiplierType
<1>2. \A raw \in {Error, Ok(q)} : AskedFactory(raw) \in {Error, Ok(q * Multiplier)}
  <2>1. AskedFactory(Error) = Error
    BY Answers DEF AskedFactory
  <2>2. AskedFactory(Ok(q)) = Ok(q * Multiplier)
    <3>1. Ok(q).ok = TRUE /\ Ok(q).amount = q
      BY Answers
    <3>. QED
      BY <3>1 DEF AskedFactory
  <2>. QED
    BY <2>1, <2>2
<1>3. \A n1 \in Nat : \A a \in {Error, Ok(n1)} : a.amount \in Nat
  BY Answers
<1>4. FactoryFee(override, table, factory, aero)
          \in {override, table, AskedFactory(factory), AskedFactory(aero)}
  BY DEF FactoryFee
<1>5. override.amount \in Nat /\ table.amount \in Nat
  BY <1>3
<1>6. AskedFactory(factory).amount \in Nat /\ AskedFactory(aero).amount \in Nat
  BY <1>1, <1>2, <1>3
<1>. QED
  BY <1>4, <1>5, <1>6, Zenon

\* What fetch_v2_pool stores is a fee, and the one charged when the pair quotes
\* itself and its reserves are large enough.
LEMMA FetchedFee ==
    ASSUME NEW r1 \in Nat, NEW r2 \in Nat, NEW c \in V2Charged, NEW stable \in BOOLEAN,
           NEW quotes \in BOOLEAN, NEW call \in {"fee", "getFee", "none"},
           NEW raw \in Reported(call, c), NEW factoryFee, factoryFee.amount \in Nat,
           NEW fee, fee = FetchFee(<<r1, r2>>, c, stable, quotes, call, raw, factoryFee)
    PROVE  /\ fee.amount \in Nat
           /\ /\ quotes /\ ~stable /\ call # "none"
              /\ c > 0 /\ r1 > 1 /\ 2 * r2 > 25 * V2FeeBasis
              => fee.amount = c
<1>. DEFINE probed == quotes /\ ~stable /\ call # "none"
            calibrated == IF probed THEN CalibrateFee(<<r1, r2>>, c) ELSE Error
            reported == CASE call = "fee" -> Ok(NormaliseReportedFee(raw))
                          [] call = "getFee" -> Ok(raw * Multiplier)
                          [] call = "none" -> factoryFee
            found == IF calibrated.ok THEN calibrated ELSE reported
<1>1. fee = IF found.ok /\ found.amount > V2MaxSaneFee THEN Error ELSE found
  BY DEF FetchFee
<1>2. calibrated.amount \in Nat
  <2>1. CASE probed
    BY <2>1, Calibrated
  <2>2. CASE ~probed
    BY <2>2, Answers
  <2>. QED
    BY <2>1, <2>2
<1>3. reported.amount \in Nat
  <2>1. raw \in Nat /\ NormaliseReportedFee(raw) \in Nat /\ raw * Multiplier \in Nat
    BY ReportedType, MultiplierType
  <2>2. CASE call = "fee"
    <3>1. reported = Ok(NormaliseReportedFee(raw))
      BY <2>2
    <3>. HIDE DEF reported
    <3>. QED
      BY <2>1, <3>1, Answers
  <2>3. CASE call = "getFee"
    <3>1. reported = Ok(raw * Multiplier)
      BY <2>3
    <3>. HIDE DEF reported
    <3>. QED
      BY <2>1, <3>1, Answers
  <2>4. CASE call = "none"
    BY <2>4
  <2>. QED
    BY <2>2, <2>3, <2>4
<1>. HIDE DEF reported
<1>4. fee.amount \in Nat
  <2>1. found.amount \in Nat
    <3>. HIDE DEF calibrated
    <3>. QED
      BY <1>2, <1>3
  <2>2. fee = Error \/ fee = found
    BY <1>1
  <2>. HIDE DEF found
  <2>. QED
    BY <2>1, <2>2, Answers
<1>5. ASSUME probed, c > 0, r1 > 1, 2 * r2 > 25 * V2FeeBasis
      PROVE  fee.amount = c
  <2>1. calibrated = Ok(c)
    BY <1>5, Calibrated
  <2>. HIDE DEF calibrated
  <2>2. calibrated.ok = TRUE /\ calibrated.amount = c
    BY <2>1, Answers
  <2>3. found = calibrated
    BY <2>2
  <2>4. ~(c > V2MaxSaneFee)
    BY V2Assumption
  <2>. HIDE DEF found
  <2>5. fee = found
    BY <1>1, <2>2, <2>3, <2>4
  <2>. QED
    BY <2>2, <2>3, <2>5
<1>. QED
  BY <1>4, <1>5

----------------------------------------------------------------------------
(* The quotes. *)

PoolRecords ==
    [type : {"UniswapV2", "Stable", "Vault"}, fee : 0..(V2Denominator - 1),
     d0 : V2Decimals, d1 : V2Decimals, r0 : Nat, r1 : Nat]

VaultRecords == [fee : {0}, r0 : Nat, r1 : Nat]

LEMMA PoolTypes ==
    ASSUME NEW p \in PoolRecords, NEW z \in BOOLEAN
    PROVE  /\ p.r0 \in Nat /\ p.r1 \in Nat /\ ReserveIn(p, z) \in Nat /\ ReserveTo(p, z) \in Nat
           /\ V2Denominator \in Nat \ {0} /\ V2Denominator - p.fee \in Nat \ {0}
           /\ V2Denominator - p.fee <= V2Denominator
           /\ IsValid(p) => ReserveIn(p, z) \in Nat \ {0} /\ ReserveTo(p, z) \in Nat \ {0}
<1>1. p.r0 \in Nat /\ p.r1 \in Nat /\ p.fee \in 0..(V2Denominator - 1)
  BY DEF PoolRecords
<1>2. V2Denominator \in Nat \ {0}
  BY V2Assumption
<1>3. V2Denominator - p.fee \in Nat \ {0} /\ V2Denominator - p.fee <= V2Denominator
  BY <1>1, <1>2
<1>. QED
  BY <1>1, <1>2, <1>3 DEF ReserveIn, ReserveTo, IsValid

\* An answer of a constant-product pool leaves some reserve and keeps the product.
LEMMA ProductQuote ==
    ASSUME NEW p \in PoolRecords, p.type = "UniswapV2", NEW z \in BOOLEAN, NEW a \in Nat
    PROVE  /\ CalculateOutput(p, z, a).ok \in BOOLEAN /\ CalculateOutput(p, z, a).amount \in Nat
           /\ CalculateOutput(p, z, a).ok =>
                  /\ ReserveTo(p, z) # 0
                  /\ CalculateOutput(p, z, a).amount < ReserveTo(p, z)
                  /\ CalculateOutput(p, z, a).amount * (ReserveIn(p, z) + a) <= a * ReserveTo(p, z)
<1>. DEFINE x == ReserveIn(p, z)
            y == ReserveTo(p, z)
            n == V2Denominator
            g == V2Denominator - p.fee
            out == (a * g * y) \div (x * n + a * g)
            answer == CalculateOutput(p, z, a)
<1>1. answer = IF a = 0 \/ ~IsValid(p) THEN Error ELSE ProductOutput(p, z, a)
  BY DEF CalculateOutput, PoolOutput
<1>2. ProductOutput(p, z, a) = IF out >= y THEN Error ELSE Ok(out)
  BY DEF ProductOutput
<1>3. CASE a = 0 \/ ~IsValid(p)
  <2>1. answer = Error
    BY <1>1, <1>3
  <2>2. answer.ok = FALSE /\ answer.amount = 0
    BY <2>1, Answers
  <2>. HIDE DEF answer
  <2>3. answer.ok \in BOOLEAN /\ ~answer.ok
    BY <2>2
  <2>4. answer.amount \in Nat
    BY <2>2
  <2>. QED
    BY <2>3, <2>4 DEF answer
<1>4. CASE ~(a = 0 \/ ~IsValid(p))
  <2>1. x \in Nat \ {0} /\ y \in Nat \ {0} /\ n \in Nat \ {0} /\ g \in Nat /\ g <= n
    BY <1>4, PoolTypes
  <2>. HIDE DEF x, y, n, g
  <2>2. out \in Nat /\ out < y /\ out * (x + a) <= a * y
    BY <2>1, ProductRounding
  <2>. HIDE DEF out
  <2>3. answer = Ok(out)
    BY <1>1, <1>2, <1>4, <2>1, <2>2
  <2>4. answer.ok = TRUE /\ answer.amount = out
    BY <2>3, Answers
  <2>. HIDE DEF answer
  <2>5. answer.amount \in Nat /\ y # 0 /\ answer.amount < y /\ answer.amount * (x + a) <= a * y
    BY <2>1, <2>2, <2>4
  <2>6. answer.ok \in BOOLEAN
    BY <2>4
  <2>. QED
    BY <2>5, <2>6 DEF answer, x, y
<1>. QED
  BY <1>3, <1>4

\* Totals wrap around within their width, and small ones do not.
LEMMA WrapType ==
    ASSUME NEW n \in Int
    PROVE  Wrap(n) \in 0..(V2Width - 1)
BY V2Assumption DEF Wrap

LEMMA NoWrap ==
    ASSUME NEW n \in Nat, n < V2Width
    PROVE  Wrap(n) = n
BY V2Assumption DEF Wrap

LEMMA WrapBelow ==
    ASSUME NEW n \in Int, n < 0, -n <= V2Width
    PROVE  Wrap(n) = V2Width + n
BY V2Assumption DEF Wrap

\* The totals of a vault that has not wrapped are small next to the width.
LEMMA Small ==
    ASSUME NEW x \in 0..V2MaxReserve, NEW y \in 0..V2MaxReserve
    PROVE  /\ x * y \in Nat /\ x * y <= V2MaxReserve * V2MaxReserve
           /\ x * y * V2Denominator \in Nat /\ x * y * V2Denominator < V2Width
           /\ V2MaxReserve + x * y < V2Width /\ V2MaxReserve + V2MaxReserve < V2Width
<1>. DEFINE M == V2MaxReserve
            n == V2Denominator
            q == M * M
<1>1. M \in Nat \ {0} /\ n \in Nat \ {0} /\ V2Width \in Nat /\ q * (2 * n) < V2Width
  BY V2Assumption
<1>2. x * y \in Nat /\ x * y <= q
  <2>1. x * y <= M * y
    BY <1>1, Monotone
  <2>2. y * M <= M * M
    BY <1>1, Monotone
  <2>. QED
    BY <1>1, <2>1, <2>2
<1>3. q \in Nat /\ M <= q
  BY <1>1
<1>. DEFINE e == x * y
<1>. HIDE DEF e, q
<1>4. e \in Nat /\ e <= q
  BY <1>2 DEF e
<1>5. e * n <= q * n /\ q <= q * n
  BY <1>1, <1>3, <1>4, Monotone
<1>6. q * (2 * n) = q * n + q * n /\ q * n \in Nat /\ e * n \in Nat
  BY <1>1, <1>3, <1>4
<1>7. e * n < V2Width /\ M + e < V2Width /\ M + M < V2Width
  BY <1>1, <1>3, <1>4, <1>5, <1>6
<1>. QED
  BY <1>2, <1>4, <1>6, <1>7 DEF e, q

\* A vault's answer is a number.
LEMMA VaultAnswer ==
    ASSUME NEW p, p.r0 \in Nat, p.r1 \in Nat, p.fee \in 0..(V2Denominator - 1),
           NEW z \in BOOLEAN, NEW a \in Nat
    PROVE  VaultOutput(p, z, a).amount \in Nat
<1>. DEFINE x == ReserveIn(p, z)
            y == ReserveTo(p, z)
            g == V2Denominator - p.fee
            e == Wrap(a * y) \div x
            share == Wrap(e * g) \div V2Denominator
<1>1. /\ x \in Nat /\ y \in Nat /\ V2Denominator \in Nat \ {0} /\ g \in Nat
  BY V2Assumption DEF ReserveIn, ReserveTo
<1>2. (z => x = p.r0) /\ (~z => x = p.r1)
  BY DEF ReserveIn
<1>3. CASE a = 0
  <2>1. VaultOutput(p, z, a) = Ok(0)
    BY <1>3 DEF VaultOutput
  <2>. QED
    BY <2>1, Answers
<1>4. CASE a # 0 /\ p.r0 = 0
  <2>1. a > 0
    BY <1>4
  <2>2. VaultOutput(p, z, a) = Ok(a)
    BY <1>4, <2>1 DEF VaultOutput
  <2>. QED
    BY <2>2, Answers
<1>5. CASE a # 0 /\ p.r0 # 0 /\ p.r1 = 0 /\ ~z
  <2>1. a > 0 /\ p.r0 > 0
    BY <1>5
  <2>2. VaultOutput(p, z, a) = Error
    BY <1>5, <2>1 DEF VaultOutput
  <2>. QED
    BY <2>2, Answers
<1>6. CASE a # 0 /\ p.r0 # 0 /\ ~(p.r1 = 0 /\ ~z)
  <2>1. VaultOutput(p, z, a) = Ok(share)
    BY <1>6 DEF VaultOutput, VaultShare
  <2>2. x \in Nat \ {0}
    BY <1>1, <1>2, <1>6
  <2>. HIDE DEF x, y, g
  <2>3. Wrap(a * y) \in Nat
    BY <1>1, WrapType, V2Assumption
  <2>4. e \in Nat
    BY <2>2, <2>3, Division
  <2>. HIDE DEF e
  <2>5. Wrap(e * g) \in Nat
    BY <1>1, <2>4, WrapType, V2Assumption
  <2>6. share \in Nat
    BY <1>1, <2>5, Division
  <2>. HIDE DEF share
  <2>. QED
    BY <2>1, <2>6, Answers
<1>. QED
  BY <1>3, <1>4, <1>5, <1>6

\* A vault with shares and assets that have not wrapped answers with at most the
\* ratio's share.
LEMMA VaultQuote ==
    ASSUME NEW p \in PoolRecords, p.type = "Vault", Held(p), NEW z \in BOOLEAN,
           NEW a \in 0..V2MaxReserve
    PROVE  \E out \in Nat :
               /\ CalculateOutput(p, z, a) = Ok(out)
               /\ ReserveIn(p, z) \in Nat \ {0} /\ ReserveTo(p, z) \in 0..V2MaxReserve
               /\ out * ReserveIn(p, z) <= a * ReserveTo(p, z)
               /\ a <= ReserveIn(p, z) => out <= ReserveTo(p, z)
<1>. DEFINE x == ReserveIn(p, z)
            y == ReserveTo(p, z)
            n == V2Denominator
            g == V2Denominator - p.fee
            e == (a * y) \div x
            out == (e * g) \div n
<1>1. CalculateOutput(p, z, a) = VaultOutput(p, z, a)
  BY DEF CalculateOutput
<1>2. /\ V2MaxReserve \in Nat /\ p.r0 \in 1..V2MaxReserve /\ p.r1 \in 1..V2MaxReserve
      /\ x \in 1..V2MaxReserve /\ y \in 1..V2MaxReserve
  BY V2Assumption DEF Held, ReserveIn, ReserveTo
<1>3. n \in Nat \ {0} /\ g \in Nat /\ g <= n /\ a \in Nat /\ x \in Nat \ {0} /\ y \in Nat
  BY <1>2, PoolTypes
<1>4. CASE a = 0
  <2>1. VaultOutput(p, z, a) = Ok(0)
    BY <1>4 DEF VaultOutput
  <2>2. 0 * x <= a * y /\ 0 <= y
    BY <1>3, <1>4
  <2>3. y \in 0..V2MaxReserve
    BY <1>2
  <2>. HIDE DEF x, y
  <2>. QED
    BY <1>1, <1>3, <2>1, <2>2, <2>3 DEF x, y
<1>5. CASE a # 0
  <2>1. VaultOutput(p, z, a) = Ok(VaultShare(p, z, a))
    <3>1. ~(a = 0) /\ ~(p.r0 = 0) /\ ~(p.r1 = 0)
      BY <1>2, <1>5
    <3>. QED
      BY <3>1 DEF VaultOutput
  <2>2. VaultShare(p, z, a) = Wrap((Wrap(a * y) \div x) * g) \div n
    BY DEF VaultShare
  <2>. HIDE DEF x, y, n, g
  <2>3. out \in Nat /\ out * x <= a * y /\ (a <= x => out <= y)
    BY <1>3, VaultRounding
  <2>4. a * y \in Nat /\ a * y * n \in Nat /\ a * y * n < V2Width
    BY <1>2, Small DEF n
  <2>5. a * y <= a * y * n
    BY <1>3, <2>4
  <2>6. Wrap(a * y) = a * y
    <3>1. a * y < V2Width
      BY <2>4, <2>5, V2Assumption
    <3>. QED
      BY <2>4, <3>1, NoWrap
  <2>7. e \in Nat /\ e <= a * y
    <3>1. e \in Nat /\ x * e <= a * y
      BY <1>3, <2>4, Division
    <3>. HIDE DEF e
    <3>2. e <= x * e
      BY <1>3, <3>1
    <3>. QED
      BY <1>3, <2>4, <3>1, <3>2
  <2>8. Wrap(e * g) = e * g
    <3>. DEFINE f == a * y
    <3>1. f \in Nat /\ e \in Nat /\ e <= f /\ f * n \in Nat /\ f * n < V2Width
      BY <2>4, <2>7
    <3>. HIDE DEF f, e
    <3>2. e * g \in Nat /\ g * e <= n * e /\ e * n <= f * n
      BY <1>3, <3>1, Monotone
    <3>3. e * g < V2Width
      BY <1>3, <3>1, <3>2, V2Assumption
    <3>. QED
      BY <3>2, <3>3, NoWrap
  <2>9. VaultShare(p, z, a) = out
    <3>. HIDE DEF out, e
    <3>1. VaultShare(p, z, a) = Wrap(e * g) \div n
      BY <2>2, <2>6 DEF e
    <3>. QED
      BY <2>8, <3>1 DEF out
  <2>. HIDE DEF out
  <2>10. y \in 0..V2MaxReserve
    BY <1>2
  <2>. QED
    BY <1>1, <1>3, <2>1, <2>3, <2>9, <2>10 DEF x, y
<1>. QED
  BY <1>4, <1>5

----------------------------------------------------------------------------
(* The inductive invariant: every call in hand is the formula of its step.   *)

Answer(z, a) == CalculateOutput(v2, z, a)
Asked(z, a) ==
    V2Call(IF Answer(z, a).ok THEN "output" ELSE "error", z, a, Answer(z, a).amount, v2)

Bought(z, a) == CalculateInput(v2, z, a).amount
AskedInput(z, a) == V2Call("input", z, Bought(z, a), a, v2)

\* The copy after its swap, or after the log a vault's deposit or withdrawal leaves.
After(z, in, out) ==
    CASE v2.type # "Vault" -> ApplyPoolSwap(v2, z, in, out)
      [] v2.type = "Vault" /\ z -> VaultWithdraw(v2, in, out)
      [] v2.type = "Vault" /\ ~z -> VaultDeposit(v2, in, out)
Copy(z, a) == After(z, a, Answer(z, a).amount)

Takable(z, a) ==
    /\ Answer(z, a).ok
    /\ v2.type # "Vault" => Answer(z, a).amount < ReserveTo(v2, z)
Taken(z, a) == V2Call("taken", z, a, Answer(z, a).amount, Copy(z, a))

Returned(z, a) == CalculateOutput(Copy(z, a), ~z, Answer(z, a).amount)
SoldBack(z, a) ==
    V2Call(IF Returned(z, a).ok THEN "back" ELSE "error", ~z, Answer(z, a).amount,
           Returned(z, a).amount, Copy(z, a))

Fetching(kind, c, r, fee) ==
    /\ v2.type # "Vault"
    /\ v2Calls = <<V2Call(kind, TRUE, c, fee, [v2 EXCEPT !.r0 = r[1], !.r1 = r[2], !.fee = fee])>>
    /\ kind = "fetched" /\ c > 0 /\ r[1] > 1 /\ 2 * r[2] > 25 * V2FeeBasis => fee = c

Simulating(z, a) ==
    \/ v2Calls = <<Asked(z, a)>>
    \/ /\ CalculateInput(v2, z, a).ok /\ Answer(z, Bought(z, a)).ok
       /\ v2Calls = <<AskedInput(z, a), Asked(z, Bought(z, a))>>
    \/ Takable(z, a) /\ v2Calls = <<Asked(z, a), Taken(z, a)>>
    \/ Takable(z, a) /\ v2Calls = <<Asked(z, a), Taken(z, a), SoldBack(z, a)>>

CallsInv ==
    \/ v2Calls = <<>>
    \/ \E kind \in {"fetched", "reported"}, c \in V2Charged, r \in V2PairReserves, fee \in Nat :
           Fetching(kind, c, r, fee)
    \/ \E z \in BOOLEAN, a \in V2Amounts : Simulating(z, a)

V2Inv == v2 \in PoolRecords /\ vault \in VaultRecords /\ CallsInv

LEMMA Tuples ==
    ASSUME NEW x, NEW y, NEW w
    PROVE  Append(<<x>>, y) = <<x, y>> /\ Append(<<x, y>>, w) = <<x, y, w>>
<1>. DEFINE S == {x, y, w}
<1>1. x \in S /\ y \in S /\ w \in S
  OBVIOUS
<1>2. Append(<<x>>, y) = <<x, y>>
  <2>. DEFINE s == <<x>>
              t == <<x, y>>
              u == Append(s, y)
  <2>1. s \in Seq(S) /\ Len(s) = 1 /\ s[1] = x
    OBVIOUS
  <2>2. t \in Seq(S) /\ Len(t) = 2 /\ t[1] = x /\ t[2] = y
    OBVIOUS
  <2>. HIDE DEF s, t, S
  <2>3. u \in Seq(S) /\ Len(u) = 2 /\ u[1] = x /\ u[2] = y
    <3>1. s \in Seq(S)
      BY <2>1
    <3>2. u \in Seq(S) /\ Len(u) = Len(s) + 1
      BY <1>1, <3>1
    <3>3. \A i \in 1..Len(s) : u[i] = s[i]
      BY <1>1, <3>1
    <3>4. u[Len(s) + 1] = y
      BY <1>1, <3>1
    <3>. HIDE DEF u
    <3>. QED
      BY <2>1, <3>2, <3>3, <3>4
  <2>. HIDE DEF u
  <2>4. u = t
    BY <2>2, <2>3, SeqEqual
  <2>. QED
    BY <2>4 DEF s, t, u
<1>3. Append(<<x, y>>, w) = <<x, y, w>>
  <2>. DEFINE s == <<x, y>>
              t == <<x, y, w>>
              u == Append(s, w)
  <2>1. s \in Seq(S) /\ Len(s) = 2 /\ s[1] = x /\ s[2] = y
    OBVIOUS
  <2>2. t \in Seq(S) /\ Len(t) = 3 /\ t[1] = x /\ t[2] = y /\ t[3] = w
    OBVIOUS
  <2>. HIDE DEF s, t, S
  <2>3. u \in Seq(S) /\ Len(u) = 3 /\ u[1] = x /\ u[2] = y /\ u[3] = w
    <3>1. s \in Seq(S)
      BY <2>1
    <3>2. u \in Seq(S) /\ Len(u) = Len(s) + 1
      BY <1>1, <3>1
    <3>3. \A i \in 1..Len(s) : u[i] = s[i]
      BY <1>1, <3>1
    <3>4. u[Len(s) + 1] = w
      BY <1>1, <3>1
    <3>. HIDE DEF u
    <3>. QED
      BY <2>1, <3>2, <3>3, <3>4
  <2>. HIDE DEF u
  <2>4. u = t
    BY <2>2, <2>3, SeqEqual
  <2>. QED
    BY <2>4 DEF s, t, u
<1>. QED
  BY <1>2, <1>3

LEMMA CallFields ==
    ASSUME NEW kind, NEW z, NEW in, NEW out, NEW pool
    PROVE  LET c == V2Call(kind, z, in, out, pool)
           IN c.kind = kind /\ c.z = z /\ c.in = in /\ c.out = out /\ c.pool = pool
BY DEF V2Call

LEMMA V2InitInv == V2Init => V2Inv
<1>. SUFFICES ASSUME V2Init PROVE V2Inv
  OBVIOUS
<1>1. PICK type \in {"UniswapV2", "Stable", "Vault"}, fee \in V2Fees, d0 \in V2Decimals,
           d1 \in V2Decimals, r0 \in V2Reserves, r1 \in V2Reserves :
          /\ v2 = [type |-> type, fee |-> fee, d0 |-> d0, d1 |-> d1,
                   r0 |-> IF type = "Vault" THEN 0 ELSE r0,
                   r1 |-> IF type = "Vault" THEN 0 ELSE r1]
          /\ vault = [fee |-> 0, r0 |-> IF type = "Vault" THEN r0 ELSE 0,
                                 r1 |-> IF type = "Vault" THEN r1 ELSE 0]
  BY DEF V2Init
<1>2. fee \in 0..(V2Denominator - 1) /\ r0 \in Nat /\ r1 \in Nat
  BY V2Assumption
<1>3. v2 \in PoolRecords
  BY <1>1, <1>2 DEF PoolRecords
<1>4. vault \in VaultRecords
  BY <1>1, <1>2 DEF VaultRecords
<1>. QED
  BY <1>3, <1>4 DEF V2Init, V2Inv, CallsInv

\* A log moves the totals of a vault and of its contract by numbers.
LEMMA MovedType ==
    ASSUME NEW assets \in Nat, NEW shares \in Nat, V2Inv
    PROVE  /\ VaultDeposit(v2, assets, shares) \in PoolRecords
           /\ VaultWithdraw(v2, shares, assets) \in PoolRecords
           /\ VaultDeposit(vault, assets, shares) \in VaultRecords
           /\ VaultWithdraw(vault, shares, assets) \in VaultRecords
<1>1. \A n \in Int : Wrap(n) \in Nat
  BY WrapType, V2Assumption
<1>2. v2.r0 \in Nat /\ v2.r1 \in Nat /\ vault.r0 \in Nat /\ vault.r1 \in Nat
  BY DEF V2Inv, PoolRecords, VaultRecords
<1>3. /\ Wrap(v2.r0 + shares) \in Nat /\ Wrap(v2.r1 + assets) \in Nat
      /\ Wrap(v2.r0 - shares) \in Nat /\ Wrap(v2.r1 - assets) \in Nat
  BY <1>1, <1>2
<1>4. /\ Wrap(vault.r0 + shares) \in Nat /\ Wrap(vault.r1 + assets) \in Nat
      /\ Wrap(vault.r0 - shares) \in Nat /\ Wrap(vault.r1 - assets) \in Nat
  BY <1>1, <1>2
<1>5. /\ VaultDeposit(v2, assets, shares) \in PoolRecords
      /\ VaultWithdraw(v2, shares, assets) \in PoolRecords
  BY <1>3 DEF V2Inv, PoolRecords, VaultDeposit, VaultWithdraw
<1>6. /\ VaultDeposit(vault, assets, shares) \in VaultRecords
      /\ VaultWithdraw(vault, shares, assets) \in VaultRecords
  BY <1>4 DEF V2Inv, VaultRecords, VaultDeposit, VaultWithdraw
<1>. QED
  BY <1>5, <1>6

\* Logs: the pool stays a pool, and the contract a contract.
LEMMA V2LogInv ==
    ASSUME V2Inv, Sync \/ VaultLog
    PROVE  V2Inv'
<1>1. v2Calls = <<>> /\ v2Calls' = <<>>
  BY DEF Sync, VaultLog
<1>2. CallsInv'
  BY <1>1 DEF CallsInv
<1>3. v2 \in PoolRecords /\ vault \in VaultRecords
  BY DEF V2Inv
<1>4. CASE Sync
  <2>1. PICK r0 \in V2Reserves, r1 \in V2Reserves : v2' = [v2 EXCEPT !.r0 = r0, !.r1 = r1]
    BY <1>4 DEF Sync
  <2>2. r0 \in Nat /\ r1 \in Nat
    BY V2Assumption
  <2>3. v2' \in PoolRecords
    BY <1>3, <2>1, <2>2 DEF PoolRecords
  <2>4. vault' \in VaultRecords
    BY <1>3, <1>4 DEF Sync
  <2>. QED
    BY <1>2, <2>3, <2>4 DEF V2Inv
<1>5. CASE VaultLog
  <2>1. PICK amount \in V2Amounts :
            \/ LET shares == VaultOutput(vault, FALSE, amount).amount
               IN /\ vault' = VaultDeposit(vault, amount, shares)
                  /\ v2' = VaultDeposit(v2, amount, shares)
            \/ LET assets == VaultOutput(vault, TRUE, amount).amount
               IN /\ vault' = VaultWithdraw(vault, amount, assets)
                  /\ v2' = VaultWithdraw(v2, amount, assets)
    BY <1>5 DEF VaultLog
  <2>2. amount \in Nat
    BY V2Assumption
  <2>3. VaultOutput(vault, FALSE, amount).amount \in Nat /\ VaultOutput(vault, TRUE, amount).amount \in Nat
    <3>1. vault.r0 \in Nat /\ vault.r1 \in Nat /\ vault.fee \in 0..(V2Denominator - 1)
      BY <1>3, V2Assumption DEF VaultRecords
    <3>. QED
      BY <2>2, <3>1, VaultAnswer
  <2>4. v2' \in PoolRecords /\ vault' \in VaultRecords
    BY <2>1, <2>2, <2>3, MovedType
  <2>. QED
    BY <1>2, <2>4 DEF V2Inv
<1>. QED
  BY <1>4, <1>5

LEMMA FetchPairInv ==
    ASSUME V2Inv, FetchPair
    PROVE  CallsInv'
<1>1. v2.type # "Vault" /\ v2' = v2
  BY DEF FetchPair
<1>2. PICK r \in V2PairReserves, charged \in V2Charged, quotes \in BOOLEAN,
           call \in {"fee", "getFee", "none"} :
          \E raw \in Reported(call, charged), override, table \in {Error, Ok(charged)},
             factory, aero \in {Error, Ok(charged \div Multiplier)} :
              LET stable == v2.type = "Stable"
                  fee == FetchFee(r, charged, stable, quotes, call, raw,
                                  FactoryFee(override, table, factory, aero))
                  kind == IF quotes /\ ~stable /\ call # "none" THEN "fetched" ELSE "reported"
              IN /\ fee.ok
                 /\ v2Calls' = <<V2Call(kind, TRUE, charged, fee.amount,
                                        [v2 EXCEPT !.r0 = r[1], !.r1 = r[2], !.fee = fee.amount])>>
  BY DEF FetchPair
<1>3. PICK raw \in Reported(call, charged), override \in {Error, Ok(charged)},
           table \in {Error, Ok(charged)}, factory \in {Error, Ok(charged \div Multiplier)},
           aero \in {Error, Ok(charged \div Multiplier)} :
              LET stable == v2.type = "Stable"
                  fee == FetchFee(r, charged, stable, quotes, call, raw,
                                  FactoryFee(override, table, factory, aero))
                  kind == IF quotes /\ ~stable /\ call # "none" THEN "fetched" ELSE "reported"
              IN /\ fee.ok
                 /\ v2Calls' = <<V2Call(kind, TRUE, charged, fee.amount,
                                        [v2 EXCEPT !.r0 = r[1], !.r1 = r[2], !.fee = fee.amount])>>
  BY <1>2
<1>. DEFINE stable == v2.type = "Stable"
            factoryFee == FactoryFee(override, table, factory, aero)
            fee == FetchFee(r, charged, stable, quotes, call, raw, factoryFee)
            kind == IF quotes /\ ~stable /\ call # "none" THEN "fetched" ELSE "reported"
<1>4. v2Calls' = <<V2Call(kind, TRUE, charged, fee.amount,
                          [v2 EXCEPT !.r0 = r[1], !.r1 = r[2], !.fee = fee.amount])>>
  BY <1>3
<1>5. r \in Nat \X Nat /\ charged \in Nat
  BY V2Assumption
<1>6. PICK r1 \in Nat, r2 \in Nat : r = <<r1, r2>>
  BY <1>5
<1>7. charged \div Multiplier \in Nat
  BY ReportedType
<1>8. factoryFee.amount \in Nat
  BY <1>5, <1>7, FactoryFeeType
<1>9. stable \in BOOLEAN /\ kind \in {"fetched", "reported"}
  OBVIOUS
<1>10. fee = FetchFee(<<r1, r2>>, charged, stable, quotes, call, raw, factoryFee)
  BY <1>6
<1>11. kind = "fetched" => quotes /\ ~stable /\ call # "none"
  OBVIOUS
<1>. HIDE DEF factoryFee, fee, stable
<1>12. /\ fee.amount \in Nat
       /\ /\ quotes /\ ~stable /\ call # "none"
          /\ charged > 0 /\ r1 > 1 /\ 2 * r2 > 25 * V2FeeBasis
          => fee.amount = charged
  BY <1>8, <1>9, <1>10, FetchedFee
<1>13. r[1] = r1 /\ r[2] = r2
  BY <1>6
<1>. HIDE DEF kind
<1>14. kind = "fetched" /\ charged > 0 /\ r[1] > 1 /\ 2 * r[2] > 25 * V2FeeBasis
           => fee.amount = charged
  BY <1>11, <1>12, <1>13
<1>15. PICK k \in {"fetched", "reported"}, f \in Nat :
           /\ v2Calls' = <<V2Call(k, TRUE, charged, f,
                                  [v2 EXCEPT !.r0 = r[1], !.r1 = r[2], !.fee = f])>>
           /\ k = "fetched" /\ charged > 0 /\ r[1] > 1 /\ 2 * r[2] > 25 * V2FeeBasis
                  => f = charged
  BY <1>4, <1>9, <1>12, <1>14
<1>16. Fetching(k, charged, r, f)'
  BY <1>1, <1>15 DEF Fetching
<1>. QED
  BY <1>16 DEF CallsInv

\* The formulas read the pool only.
LEMMA SamePool ==
    ASSUME v2' = v2, NEW z, NEW a
    PROVE  /\ Answer(z, a)' = Answer(z, a) /\ Asked(z, a)' = Asked(z, a)
           /\ Bought(z, a)' = Bought(z, a) /\ AskedInput(z, a)' = AskedInput(z, a)
           /\ Takable(z, a)' = Takable(z, a) /\ Taken(z, a)' = Taken(z, a)
           /\ SoldBack(z, a)' = SoldBack(z, a)
<1>1. Answer(z, a)' = Answer(z, a) /\ Bought(z, a)' = Bought(z, a)
  BY DEF Answer, Bought
<1>2. Asked(z, a)' = Asked(z, a) /\ AskedInput(z, a)' = AskedInput(z, a)
  BY <1>1 DEF Asked, AskedInput
<1>3. Takable(z, a)' = Takable(z, a)
  BY <1>1 DEF Takable
<1>4. Copy(z, a)' = Copy(z, a)
  BY <1>1 DEF Copy, After
<1>5. Taken(z, a)' = Taken(z, a)
  BY <1>1, <1>4 DEF Taken
<1>6. Returned(z, a)' = Returned(z, a)
  BY <1>1, <1>4 DEF Returned
<1>. QED
  BY <1>1, <1>2, <1>3, <1>4, <1>5, <1>6 DEF SoldBack

LEMMA AskInv ==
    ASSUME V2Inv, AskOutput \/ AskInput
    PROVE  CallsInv'
<1>1. v2' = v2
  BY DEF AskOutput, AskInput
<1>2. CASE AskOutput
  <2>1. PICK z \in BOOLEAN, a \in V2Amounts : v2Calls' = <<Asked(z, a)>>
    BY <1>2 DEF AskOutput, Asked, Answer
  <2>2. Simulating(z, a)'
    BY <1>1, <2>1, SamePool DEF Simulating
  <2>. QED
    BY <2>2 DEF CallsInv
<1>3. CASE AskInput
  <2>1. PICK z \in BOOLEAN, a \in V2Amounts :
            LET in == CalculateInput(v2, z, a)
                out == CalculateOutput(v2, z, in.amount)
            IN /\ in.ok /\ out.ok
               /\ v2Calls' = <<V2Call("input", z, in.amount, a, v2),
                               V2Call("output", z, in.amount, out.amount, v2)>>
    BY <1>3 DEF AskInput
  <2>2. CalculateInput(v2, z, a).ok /\ Answer(z, Bought(z, a)).ok
    BY <2>1 DEF Answer, Bought
  <2>3. v2Calls' = <<AskedInput(z, a), Asked(z, Bought(z, a))>>
    <3>1. V2Call("output", z, Bought(z, a), Answer(z, Bought(z, a)).amount, v2)
              = Asked(z, Bought(z, a))
      BY <2>2 DEF Asked
    <3>. QED
      BY <2>1, <3>1 DEF Answer, Bought, AskedInput
  <2>4. Bought(z, a)' = Bought(z, a) /\ AskedInput(z, a)' = AskedInput(z, a)
    BY <1>1, SamePool
  <2>5. /\ (Asked(z, Bought(z, a)))' = Asked(z, Bought(z, a))
        /\ (Answer(z, Bought(z, a)))' = Answer(z, Bought(z, a))
    BY <1>1, <2>4 DEF Asked, Answer
  <2>6. Simulating(z, a)'
    BY <1>1, <2>2, <2>3, <2>4, <2>5 DEF Simulating
  <2>. QED
    BY <2>6 DEF CallsInv
<1>. QED
  BY <1>2, <1>3

\* A single call whose kind is "output" is a quote that was answered.
LEMMA TakeQuoteInv ==
    ASSUME V2Inv, TakeQuote
    PROVE  CallsInv'
<1>1. v2' = v2 /\ Len(v2Calls) = 1 /\ v2Calls[1].kind = "output"
  BY DEF TakeQuote
<1>2. PICK z \in BOOLEAN, a \in V2Amounts : v2Calls = <<Asked(z, a)>>
  <2>1. ASSUME NEW kind \in {"fetched", "reported"}, NEW c, NEW r, NEW fee,
               Fetching(kind, c, r, fee)
        PROVE  FALSE
    <3>. DEFINE call == V2Call(kind, TRUE, c, fee,
                               [v2 EXCEPT !.r0 = r[1], !.r1 = r[2], !.fee = fee])
    <3>1. v2Calls = <<call>>
      BY <2>1 DEF Fetching
    <3>2. call.kind = kind
      BY DEF V2Call
    <3>. HIDE DEF call
    <3>. QED
      BY <1>1, <3>1, <3>2
  <2>2. v2Calls # <<>>
    BY <1>1
  <2>3. PICK z \in BOOLEAN, a \in V2Amounts : Simulating(z, a)
    BY <2>1, <2>2 DEF V2Inv, CallsInv
  <2>. QED
    BY <1>1, <2>3 DEF Simulating
<1>3. /\ v2Calls[1].z = z /\ v2Calls[1].in = a /\ v2Calls[1].out = Answer(z, a).amount
      /\ Answer(z, a).ok
  <2>1. v2Calls[1] = Asked(z, a)
    BY <1>2
  <2>2. Answer(z, a).ok
    <3>1. Asked(z, a).kind = IF Answer(z, a).ok THEN "output" ELSE "error"
      BY CallFields DEF Asked
    <3>. QED
      BY <1>1, <2>1, <3>1
  <2>. QED
    BY <2>1, <2>2, CallFields DEF Asked
<1>4. /\ Takable(z, a)
      /\ v2Calls' = Append(v2Calls, Taken(z, a))
  BY <1>3 DEF TakeQuote, Takable, Taken, Copy, After
<1>5. v2Calls' = <<Asked(z, a), Taken(z, a)>>
  BY <1>2, <1>4, Tuples
<1>6. Simulating(z, a)'
  BY <1>1, <1>4, <1>5, SamePool DEF Simulating
<1>. QED
  BY <1>6 DEF CallsInv

LEMMA SellBackInv ==
    ASSUME V2Inv, SellBack
    PROVE  CallsInv'
<1>1. v2' = v2 /\ Len(v2Calls) = 2 /\ v2Calls[2].kind = "taken"
  BY DEF SellBack
<1>2. PICK z \in BOOLEAN, a \in V2Amounts :
          Takable(z, a) /\ v2Calls = <<Asked(z, a), Taken(z, a)>>
  <2>1. ASSUME NEW kind \in {"fetched", "reported"}, NEW c, NEW r, NEW fee
        PROVE  ~Fetching(kind, c, r, fee)
    <3>1. ASSUME Fetching(kind, c, r, fee) PROVE \E call : v2Calls = <<call>>
      BY <3>1 DEF Fetching
    <3>. QED
      BY <1>1, <3>1
  <2>2. v2Calls # <<>>
    BY <1>1
  <2>3. PICK z \in BOOLEAN, a \in V2Amounts : Simulating(z, a)
    BY <2>1, <2>2 DEF V2Inv, CallsInv
  <2>4. Asked(z, Bought(z, a)).kind # "taken"
    BY CallFields DEF Asked
  <2>. QED
    BY <1>1, <2>3, <2>4 DEF Simulating
<1>3. v2Calls[2] = Taken(z, a)
  BY <1>2
<1>4. /\ v2Calls[2].z = z /\ v2Calls[2].out = Answer(z, a).amount
      /\ v2Calls[2].pool = Copy(z, a)
  BY <1>3, CallFields DEF Taken
<1>5. v2Calls' = Append(v2Calls, SoldBack(z, a))
  BY <1>4 DEF SellBack, SoldBack, Returned
<1>6. v2Calls' = <<Asked(z, a), Taken(z, a), SoldBack(z, a)>>
  BY <1>2, <1>5, Tuples
<1>7. Simulating(z, a)'
  BY <1>1, <1>2, <1>6, SamePool DEF Simulating
<1>. QED
  BY <1>7 DEF CallsInv

LEMMA V2NextInv == V2Inv /\ [V2Next]_v2Vars => V2Inv'
<1>. SUFFICES ASSUME V2Inv, [V2Next]_v2Vars PROVE V2Inv'
  OBVIOUS
<1>1. CASE Sync \/ VaultLog
  BY <1>1, V2LogInv
<1>2. ASSUME v2' = v2, vault' = vault PROVE v2' \in PoolRecords /\ vault' \in VaultRecords
  BY <1>2 DEF V2Inv
<1>3. CASE FetchPair
  BY <1>2, <1>3, FetchPairInv DEF FetchPair, V2Inv
<1>4. CASE AskOutput \/ AskInput
  BY <1>2, <1>4, AskInv DEF AskOutput, AskInput, V2Inv
<1>5. CASE TakeQuote
  BY <1>2, <1>5, TakeQuoteInv DEF TakeQuote, V2Inv
<1>6. CASE SellBack
  BY <1>2, <1>6, SellBackInv DEF SellBack, V2Inv
<1>7. CASE V2Return
  BY <1>2, <1>7 DEF V2Return, V2Inv, CallsInv
<1>8. CASE UNCHANGED v2Vars
  <2>1. v2' = v2 /\ vault' = vault /\ v2Calls' = v2Calls
    BY <1>8 DEF v2Vars
  <2>2. ASSUME NEW z, NEW a, Simulating(z, a) PROVE Simulating(z, a)'
    <3>1. (Asked(z, Bought(z, a)))' = Asked(z, Bought(z, a))
      BY <2>1 DEF Asked, Answer, Bought
    <3>2. (Answer(z, Bought(z, a)))' = Answer(z, Bought(z, a))
      BY <2>1 DEF Answer, Bought
    <3>. QED
      BY <2>1, <2>2, <3>1, <3>2, SamePool DEF Simulating
  <2>3. ASSUME NEW kind, NEW c, NEW r, NEW fee, Fetching(kind, c, r, fee)
        PROVE  Fetching(kind, c, r, fee)'
    BY <2>1, <2>3 DEF Fetching
  <2>4. CallsInv'
    BY <2>1, <2>2, <2>3 DEF CallsInv, V2Inv
  <2>. QED
    BY <1>2, <2>1, <2>4 DEF V2Inv
<1>. QED
  BY <1>1, <1>3, <1>4, <1>5, <1>6, <1>7, <1>8 DEF V2Next

LEMMA V2Invariant == V2Spec => []V2Inv
BY V2InitInv, V2NextInv, PTL DEF V2Spec

----------------------------------------------------------------------------
(* What the calls in hand show. *)

\* A call in hand is one of these.
LEMMA KindsOfCalls ==
    ASSUME NEW z, NEW a
    PROVE  /\ Asked(z, a).kind \in {"output", "error"} /\ AskedInput(z, a).kind = "input"
           /\ Taken(z, a).kind = "taken" /\ SoldBack(z, a).kind \in {"back", "error"}
BY CallFields DEF Asked, AskedInput, Taken, SoldBack

\* A pair that quotes itself is stored with the fee it charges, for every fee,
\* basis and reserves beyond 25/2 times the basis (fetcher.rs, calibrate_v2_fee:
\* both probes solve the same fee exactly, however their quotes are rounded).
THEOREM FetchedFeeIsChargedHolds == V2Spec => []FetchedFeeIsCharged
<1>1. ASSUME V2Inv PROVE FetchedFeeIsCharged
  <2>. SUFFICES ASSUME v2Calls # <<>>, v2Calls[1].kind = "fetched", v2Calls[1].in > 0,
                       v2Calls[1].pool.r0 > 1, 2 * v2Calls[1].pool.r1 > 25 * V2FeeBasis
                PROVE  v2Calls[1].out = v2Calls[1].in
    BY DEF FetchedFeeIsCharged
  <2>1. ASSUME NEW z \in BOOLEAN, NEW a \in V2Amounts, Simulating(z, a) PROVE FALSE
    <3>1. v2Calls[1] = Asked(z, a) \/ v2Calls[1] = AskedInput(z, a)
      BY <2>1 DEF Simulating
    <3>. QED
      BY <3>1, KindsOfCalls
  <2>2. PICK kind \in {"fetched", "reported"}, c \in V2Charged, r \in V2PairReserves,
             fee \in Nat : Fetching(kind, c, r, fee)
    BY <1>1, <2>1 DEF V2Inv, CallsInv
  <2>. DEFINE pool == [v2 EXCEPT !.r0 = r[1], !.r1 = r[2], !.fee = fee]
              call == V2Call(kind, TRUE, c, fee, pool)
  <2>3. v2Calls = <<call>>
    BY <2>2 DEF Fetching
  <2>4. call.kind = kind /\ call.in = c /\ call.out = fee /\ call.pool = pool
    BY DEF V2Call
  <2>5. pool.r0 = r[1] /\ pool.r1 = r[2]
    BY <1>1 DEF V2Inv, PoolRecords
  <2>. HIDE DEF call, pool
  <2>6. kind = "fetched" /\ c > 0 /\ r[1] > 1 /\ 2 * r[2] > 25 * V2FeeBasis
    BY <2>3, <2>4, <2>5
  <2>7. fee = c
    BY <2>2, <2>6 DEF Fetching
  <2>. QED
    BY <2>3, <2>4, <2>7
<1>. QED
  BY <1>1, V2Invariant, PTL

\* calculate_input of a constant-product pool, and what it buys.
LEMMA InputQuote ==
    ASSUME NEW p \in PoolRecords, p.type = "UniswapV2", NEW z \in BOOLEAN, NEW a \in Nat,
           CalculateInput(p, z, a).ok
    PROVE  /\ CalculateInput(p, z, a).amount \in Nat
           /\ CalculateOutput(p, z, CalculateInput(p, z, a).amount).ok
                  => a <= CalculateOutput(p, z, CalculateInput(p, z, a).amount).amount
<1>. DEFINE x == ReserveIn(p, z)
            y == ReserveTo(p, z)
            n == V2Denominator
            g == V2Denominator - p.fee
            in == (x * a * n) \div ((y - a) * g) + 1
            out == (in * g * y) \div (x * n + in * g)
            answer == CalculateOutput(p, z, in)
            refused == a = 0 \/ ~IsValid(p) \/ a >= y
<1>1. CalculateInput(p, z, a) = IF refused THEN Error ELSE Ok(in)
  BY DEF CalculateInput, PoolInput
<1>2. ~refused
  <2>1. ~Error.ok
    BY Answers
  <2>. HIDE DEF refused
  <2>. QED
    BY <1>1, <2>1
<1>3. CalculateInput(p, z, a).amount = in
  <2>. HIDE DEF refused, in
  <2>. QED
    BY <1>1, <1>2, Answers
<1>4. /\ x \in Nat \ {0} /\ y \in Nat \ {0} /\ n \in Nat \ {0} /\ g \in Nat \ {0} /\ a < y
  BY <1>2, PoolTypes
<1>5. answer = IF in = 0 \/ ~IsValid(p) THEN Error ELSE ProductOutput(p, z, in)
  BY DEF CalculateOutput, PoolOutput
<1>6. ProductOutput(p, z, in) = IF out >= y THEN Error ELSE Ok(out)
  BY DEF ProductOutput
<1>. HIDE DEF x, y, n, g
<1>7. in \in Nat /\ a <= out
  BY <1>4, InputBuys
<1>. HIDE DEF in, out
<1>8. answer = Error \/ answer = Ok(out)
  BY <1>5, <1>6
<1>9. answer.ok => answer.amount = out
  BY <1>8, Answers
<1>. HIDE DEF answer
<1>10. answer.ok => a <= answer.amount
  BY <1>7, <1>9
<1>. QED
  BY <1>3, <1>7, <1>10 DEF answer

\* calculate_input of a constant-product pool asks for enough, for all reserves,
\* amounts and fees.
THEOREM V2InputSufficesHolds == V2Spec => []V2InputSuffices
<1>1. ASSUME V2Inv PROVE V2InputSuffices
  <2>. SUFFICES ASSUME v2.type = "UniswapV2", Len(v2Calls) = 2, v2Calls[1].kind = "input"
                PROVE  v2Calls[2].out >= v2Calls[1].out
    BY DEF V2InputSuffices
  <2>1. ASSUME NEW kind \in {"fetched", "reported"}, NEW c, NEW r, NEW fee
        PROVE  ~Fetching(kind, c, r, fee)
    <3>1. ASSUME Fetching(kind, c, r, fee) PROVE \E call : v2Calls = <<call>>
      BY <3>1 DEF Fetching
    <3>. QED
      BY <3>1
  <2>2. v2Calls # <<>>
    OBVIOUS
  <2>3. PICK z \in BOOLEAN, a \in V2Amounts : Simulating(z, a)
    BY <1>1, <2>1, <2>2 DEF V2Inv, CallsInv
  <2>4. /\ CalculateInput(v2, z, a).ok /\ Answer(z, Bought(z, a)).ok
        /\ v2Calls = <<AskedInput(z, a), Asked(z, Bought(z, a))>>
    <3>1. Asked(z, a).kind # "input"
      BY KindsOfCalls
    <3>. QED
      BY <2>3, <3>1 DEF Simulating
  <2>5. v2Calls[1].out = a
    BY <2>4, CallFields DEF AskedInput
  <2>6. v2Calls[2].out = Answer(z, Bought(z, a)).amount
    BY <2>4, CallFields DEF Asked
  <2>7. a \in Nat /\ Answer(z, Bought(z, a)).amount \in Nat /\ a <= Answer(z, Bought(z, a)).amount
    <3>1. a \in Nat /\ v2 \in PoolRecords
      BY <1>1, V2Assumption DEF V2Inv
    <3>2. Bought(z, a) \in Nat /\ a <= Answer(z, Bought(z, a)).amount
      BY <2>4, <3>1, InputQuote DEF Answer, Bought
    <3>3. Answer(z, Bought(z, a)).amount \in Nat
      BY <3>1, <3>2, ProductQuote DEF Answer
    <3>. QED
      BY <3>1, <3>2, <3>3
  <2>. QED
    BY <2>5, <2>6, <2>7
<1>. QED
  BY <1>1, V2Invariant, PTL

----------------------------------------------------------------------------
(* A quote that is taken. *)

\* The copy a constant-product swap leaves, seen from the side that paid.
LEMMA SwappedCopy ==
    ASSUME v2 \in PoolRecords, v2.type = "UniswapV2", NEW z \in BOOLEAN, NEW a \in Nat,
           Takable(z, a)
    PROVE  \E x \in Nat, y \in Nat \ {0}, out \in Nat :
               /\ out < y /\ out * (x + a) <= a * y /\ Answer(z, a).amount = out
               /\ x = ReserveIn(v2, z) /\ y = ReserveTo(v2, z)
               /\ Copy(z, a) \in PoolRecords /\ Copy(z, a).type = "UniswapV2"
               /\ ReserveIn(Copy(z, a), z) = x + a /\ ReserveTo(Copy(z, a), z) = y - out
<1>. DEFINE x == ReserveIn(v2, z)
            y == ReserveTo(v2, z)
            out == Answer(z, a).amount
            copy == Copy(z, a)
            swapped == /\ copy \in PoolRecords /\ copy.type = "UniswapV2"
                       /\ ReserveIn(copy, z) = x + a /\ ReserveTo(copy, z) = y - out
<1>1. Answer(z, a).ok
  BY DEF Takable
<1>2. x \in Nat /\ y \in Nat /\ v2.r0 \in Nat /\ v2.r1 \in Nat
  BY PoolTypes
<1>3. out \in Nat /\ y # 0 /\ out < y /\ out * (x + a) <= a * y
  BY <1>1, ProductQuote DEF Answer
<1>4. copy = ApplyPoolSwap(v2, z, a, out)
  BY DEF Copy, After
<1>. HIDE DEF out, copy
<1>5. ASSUME z PROVE swapped
  <2>1. x = v2.r0 /\ y = v2.r1
    BY <1>5 DEF ReserveIn, ReserveTo
  <2>2. x + a \in Nat /\ y - out \in Nat
    BY <1>2, <1>3
  <2>3. copy = [v2 EXCEPT !.r0 = x + a, !.r1 = y - out]
    BY <1>4, <1>5, <2>1 DEF ApplyPoolSwap
  <2>. HIDE DEF x, y
  <2>4. copy \in PoolRecords /\ copy.type = "UniswapV2" /\ copy.r0 = x + a /\ copy.r1 = y - out
    BY <2>2, <2>3 DEF PoolRecords
  <2>. QED
    BY <1>5, <2>4 DEF ReserveIn, ReserveTo
<1>6. ASSUME ~z PROVE swapped
  <2>1. x = v2.r1 /\ y = v2.r0
    BY <1>6 DEF ReserveIn, ReserveTo
  <2>2. x + a \in Nat /\ y - out \in Nat
    BY <1>2, <1>3
  <2>3. copy = [v2 EXCEPT !.r1 = x + a, !.r0 = y - out]
    BY <1>4, <1>6, <2>1 DEF ApplyPoolSwap
  <2>. HIDE DEF x, y
  <2>4. copy \in PoolRecords /\ copy.type = "UniswapV2" /\ copy.r1 = x + a /\ copy.r0 = y - out
    BY <2>2, <2>3 DEF PoolRecords
  <2>. QED
    BY <1>6, <2>4 DEF ReserveIn, ReserveTo
<1>7. swapped
  BY <1>5, <1>6
<1>8. x \in Nat /\ y \in Nat \ {0}
  BY <1>2, <1>3
<1>. HIDE DEF x, y
<1>. QED
  BY <1>3, <1>7, <1>8 DEF out, copy, x, y

\* The calls in hand of a simulation that took its quote.
LEMMA TakenCalls ==
    ASSUME V2Inv, Len(v2Calls) >= 2, v2Calls[2].kind = "taken" \/ v2Calls[3].kind = "back",
           Len(v2Calls) = 2 => v2Calls[2].kind = "taken"
    PROVE  \E z \in BOOLEAN, a \in V2Amounts :
               /\ a \in Nat /\ Takable(z, a) /\ v2Calls[1] = Asked(z, a) /\ v2Calls[2] = Taken(z, a)
               /\ Len(v2Calls) = 3 => v2Calls[3] = SoldBack(z, a)
<1>1. ASSUME NEW kind \in {"fetched", "reported"}, NEW c, NEW r, NEW fee
      PROVE  ~Fetching(kind, c, r, fee)
  <2>1. ASSUME Fetching(kind, c, r, fee) PROVE \E call : v2Calls = <<call>>
    BY <2>1 DEF Fetching
  <2>. QED
    BY <2>1
<1>2. v2Calls # <<>>
  OBVIOUS
<1>3. PICK z \in BOOLEAN, a \in V2Amounts : Simulating(z, a)
  BY <1>1, <1>2 DEF V2Inv, CallsInv
<1>4. Asked(z, Bought(z, a)).kind # "taken"
  BY KindsOfCalls
<1>5. /\ Takable(z, a) /\ v2Calls[1] = Asked(z, a) /\ v2Calls[2] = Taken(z, a)
      /\ Len(v2Calls) = 3 => v2Calls[3] = SoldBack(z, a)
  BY <1>3, <1>4 DEF Simulating
<1>6. a \in Nat
  BY V2Assumption
<1>. QED
  BY <1>5, <1>6

\* No swap taken at its quote lowers the product of a constant-product pool, for
\* all reserves, amounts and fees (calculate_output rounds against the trader,
\* and apply_swap moves the reserves by what was quoted). The stable curve's k
\* depends on Newton's iteration, which only TLC evaluates.
THEOREM SwapKeepsKHolds == V2Spec => [](v2.type # "Stable" => SwapKeepsK)
<1>1. ASSUME V2Inv PROVE v2.type # "Stable" => SwapKeepsK
  <2>. SUFFICES ASSUME Len(v2Calls) >= 2, v2Calls[2].kind = "taken", v2.type # "Vault",
                       v2.type # "Stable"
                PROVE  K(v2, v2Calls[2].pool.r0, v2Calls[2].pool.r1) >= K(v2, v2.r0, v2.r1)
    BY DEF SwapKeepsK
  <2>1. v2 \in PoolRecords /\ v2.type = "UniswapV2"
    BY <1>1 DEF V2Inv, PoolRecords
  <2>2. PICK z \in BOOLEAN, a \in V2Amounts :
            a \in Nat /\ Takable(z, a) /\ v2Calls[2] = Taken(z, a)
    BY <1>1, TakenCalls
  <2>3. v2Calls[2].pool = Copy(z, a)
    BY <2>2, CallFields DEF Taken
  <2>4. PICK x \in Nat, y \in Nat \ {0}, out \in Nat :
            /\ out < y /\ out * (x + a) <= a * y /\ Answer(z, a).amount = out
            /\ x = ReserveIn(v2, z) /\ y = ReserveTo(v2, z)
            /\ Copy(z, a) \in PoolRecords /\ Copy(z, a).type = "UniswapV2"
            /\ ReserveIn(Copy(z, a), z) = x + a /\ ReserveTo(Copy(z, a), z) = y - out
    BY <2>1, <2>2, SwappedCopy
  <2>5. (x + a) * (y - out) >= x * y
    BY <2>2, <2>4, ProductKept
  <2>6. /\ K(v2, Copy(z, a).r0, Copy(z, a).r1) = Copy(z, a).r0 * Copy(z, a).r1
        /\ K(v2, v2.r0, v2.r1) = v2.r0 * v2.r1
    BY <2>1 DEF K
  <2>7. v2.r0 * v2.r1 = x * y
    <3>1. v2.r0 \in Nat /\ v2.r1 \in Nat
      BY <2>1 DEF PoolRecords
    <3>. QED
      BY <2>4, <3>1 DEF ReserveIn, ReserveTo
  <2>8. Copy(z, a).r0 * Copy(z, a).r1 = (x + a) * (y - out)
    <3>1. \/ Copy(z, a).r0 = x + a /\ Copy(z, a).r1 = y - out
          \/ Copy(z, a).r1 = x + a /\ Copy(z, a).r0 = y - out
      BY <2>4 DEF ReserveIn, ReserveTo
    <3>2. x + a \in Int /\ y - out \in Int
      BY <2>2, <2>4
    <3>. QED
      BY <3>1, <3>2
  <2>. QED
    BY <2>3, <2>5, <2>6, <2>7, <2>8
<1>. QED
  BY <1>1, V2Invariant, PTL

\* A vault's ratio kept by a withdrawal, and by a deposit: the way back gains nothing.
LEMMA WithdrawNoGain ==
    ASSUME NEW r0 \in Nat, NEW r1 \in Nat, NEW a \in Nat, NEW out \in Nat, NEW back \in Nat,
           a <= r0, out <= r1, r1 - out > 0, out * r0 <= a * r1,
           back * (r1 - out) <= out * (r0 - a)
    PROVE  back <= a
<1>1. out * (r0 - a) <= a * (r1 - out)
  OBVIOUS
<1>. DEFINE d == r1 - out
            e == out * (r0 - a)
<1>2. d \in Nat \ {0} /\ e \in Nat /\ a * d \in Nat /\ back * d \in Nat
  OBVIOUS
<1>3. back * d <= e /\ e <= a * d
  BY <1>1
<1>. HIDE DEF d, e
<1>4. back * d <= a * d
  BY <1>2, <1>3
<1>. QED
  BY <1>2, <1>4, Cancel

LEMMA DepositNoGain ==
    ASSUME NEW r0 \in Nat \ {0}, NEW r1 \in Nat, NEW a \in Nat, NEW out \in Nat, NEW back \in Nat,
           out * r1 <= a * r0, back * (r0 + out) <= out * (r1 + a)
    PROVE  back <= a
<1>1. out * (r1 + a) <= a * (r0 + out)
  OBVIOUS
<1>. DEFINE d == r0 + out
            e == out * (r1 + a)
<1>2. d \in Nat \ {0} /\ e \in Nat /\ a * d \in Nat /\ back * d \in Nat
  OBVIOUS
<1>3. back * d <= e /\ e <= a * d
  BY <1>1
<1>. HIDE DEF d, e
<1>4. back * d <= a * d
  BY <1>2, <1>3
<1>. QED
  BY <1>2, <1>4, Cancel

\* The copy a vault's withdrawal (z) or deposit leaves, when that has not wrapped.
LEMMA VaultCopy ==
    ASSUME v2 \in PoolRecords, v2.type = "Vault", NEW z \in BOOLEAN, NEW a \in 0..V2MaxReserve,
           Takable(z, a), Held(v2), Held(Copy(z, a))
    PROVE  \E out \in 0..V2MaxReserve :
               /\ Answer(z, a).amount = out
               /\ Copy(z, a) \in PoolRecords /\ Copy(z, a).type = "Vault"
               /\ z => /\ out * v2.r0 <= a * v2.r1 /\ a <= v2.r0 /\ out <= v2.r1
                       /\ Copy(z, a).r0 = v2.r0 - a /\ Copy(z, a).r1 = v2.r1 - out
               /\ ~z => /\ out * v2.r1 <= a * v2.r0
                        /\ Copy(z, a).r0 = v2.r0 + out /\ Copy(z, a).r1 = v2.r1 + a
<1>. DEFINE M == V2MaxReserve
            copy == Copy(z, a)
<1>1. PICK out \in Nat :
          /\ CalculateOutput(v2, z, a) = Ok(out)
          /\ out * ReserveIn(v2, z) <= a * ReserveTo(v2, z)
          /\ a <= ReserveIn(v2, z) => out <= ReserveTo(v2, z)
  BY VaultQuote
<1>2. Answer(z, a).amount = out
  BY <1>1, Answers DEF Answer
<1>3. /\ M \in Nat /\ V2Width \in Nat /\ a \in 0..M
      /\ v2.r0 \in 1..M /\ v2.r1 \in 1..M /\ copy.r0 \in 1..M /\ copy.r1 \in 1..M
  BY V2Assumption DEF Held
<1>4. M + M < V2Width /\ M + a * v2.r0 < V2Width /\ a * v2.r0 \in Nat
  <2>1. v2.r0 \in 0..M
    BY <1>3
  <2>. QED
    BY <2>1, Small
<1>5. CASE z
  <2>1. copy = [v2 EXCEPT !.r0 = Wrap(v2.r0 - a), !.r1 = Wrap(v2.r1 - out)]
    BY <1>2, <1>5 DEF Copy, After, VaultWithdraw
  <2>. HIDE DEF copy, M
  <2>2. Wrap(v2.r0 - a) \in Nat /\ Wrap(v2.r1 - out) \in Nat
    BY <1>3, WrapType
  <2>3. /\ copy \in PoolRecords /\ copy.type = "Vault"
        /\ copy.r0 = Wrap(v2.r0 - a) /\ copy.r1 = Wrap(v2.r1 - out)
    BY <2>1, <2>2 DEF PoolRecords
  <2>4. a <= v2.r0
    <3>. SUFFICES ASSUME v2.r0 < a PROVE FALSE
      BY <1>3
    <3>1. v2.r0 - a \in Int /\ v2.r0 - a < 0 /\ -(v2.r0 - a) <= V2Width /\ v2.r0 - a >= -M
      BY <1>3, <1>4
    <3>2. Wrap(v2.r0 - a) = V2Width + (v2.r0 - a)
      BY <3>1, WrapBelow
    <3>. QED
      BY <1>3, <1>4, <2>3, <3>1, <3>2
  <2>5. out <= v2.r1 /\ out * v2.r0 <= a * v2.r1
    BY <1>1, <1>5, <2>4 DEF ReserveIn, ReserveTo
  <2>6. copy.r0 = v2.r0 - a /\ copy.r1 = v2.r1 - out
    <3>1. v2.r0 - a \in Nat /\ v2.r0 - a < V2Width /\ v2.r1 - out \in Nat /\ v2.r1 - out < V2Width
      BY <1>3, <1>4, <2>4, <2>5
    <3>. QED
      BY <2>3, <3>1, NoWrap
  <2>7. out \in 0..M
    BY <1>3, <2>5
  <2>. QED
    BY <1>2, <1>5, <2>3, <2>4, <2>5, <2>6, <2>7 DEF copy, M
<1>6. CASE ~z
  <2>1. copy = [v2 EXCEPT !.r0 = Wrap(v2.r0 + out), !.r1 = Wrap(v2.r1 + a)]
    BY <1>2, <1>6 DEF Copy, After, VaultDeposit
  <2>. HIDE DEF copy, M
  <2>2. Wrap(v2.r0 + out) \in Nat /\ Wrap(v2.r1 + a) \in Nat
    BY <1>3, WrapType
  <2>3. /\ copy \in PoolRecords /\ copy.type = "Vault"
        /\ copy.r0 = Wrap(v2.r0 + out) /\ copy.r1 = Wrap(v2.r1 + a)
    BY <2>1, <2>2 DEF PoolRecords
  <2>4. out * v2.r1 <= a * v2.r0
    BY <1>1, <1>6 DEF ReserveIn, ReserveTo
  <2>5. out <= a * v2.r0
    <3>. DEFINE f == a * v2.r0
    <3>1. f \in Nat /\ out * v2.r1 <= f
      BY <1>4, <2>4
    <3>. HIDE DEF f
    <3>2. out <= out * v2.r1
      BY <1>3
    <3>3. out * v2.r1 \in Nat
      BY <1>3
    <3>4. out <= f
      BY <3>1, <3>2, <3>3
    <3>. QED
      BY <3>4 DEF f
  <2>6. copy.r0 = v2.r0 + out /\ copy.r1 = v2.r1 + a
    <3>. DEFINE f == a * v2.r0
    <3>1. f \in Nat /\ out <= f /\ M + f < V2Width
      BY <1>4, <2>5
    <3>. HIDE DEF f
    <3>2. /\ v2.r0 + out \in Nat /\ v2.r0 + out < V2Width
          /\ v2.r1 + a \in Nat /\ v2.r1 + a < V2Width
      BY <1>3, <1>4, <3>1
    <3>. QED
      BY <2>3, <3>2, NoWrap
  <2>7. out \in 0..M
    BY <1>3, <2>6
  <2>. QED
    BY <1>2, <1>6, <2>3, <2>4, <2>6, <2>7 DEF copy, M
<1>. QED
  BY <1>5, <1>6

\* Buying and selling back gains nothing on a constant-product pool, and nothing
\* on a vault whose totals have not wrapped around, before and after, for all
\* reserves, amounts and fees: the quote and apply_swap (or the vault's logs)
\* round against the trader together.
THEOREM NoRoundTripGainHolds == V2Spec => [](v2.type # "Stable" => ReservesNoRoundTripGain)
<1>1. ASSUME V2Inv PROVE v2.type # "Stable" => ReservesNoRoundTripGain
  <2>. SUFFICES ASSUME Len(v2Calls) = 3, v2Calls[3].kind = "back", v2.type # "Stable",
                       v2.type = "Vault" => Held(v2) /\ Held(v2Calls[2].pool)
                PROVE  v2Calls[3].out <= v2Calls[1].in
    BY DEF ReservesNoRoundTripGain
  <2>1. v2 \in PoolRecords /\ (v2.type = "UniswapV2" \/ v2.type = "Vault")
    BY <1>1 DEF V2Inv, PoolRecords
  <2>2. PICK z \in BOOLEAN, a \in V2Amounts :
            /\ a \in Nat /\ Takable(z, a) /\ v2Calls[1] = Asked(z, a) /\ v2Calls[2] = Taken(z, a)
            /\ Len(v2Calls) = 3 => v2Calls[3] = SoldBack(z, a)
    BY <1>1, TakenCalls
  <2>3. /\ v2Calls[1].in = a /\ v2Calls[2].pool = Copy(z, a)
        /\ v2Calls[3].out = Returned(z, a).amount
    BY <2>2, CallFields DEF Asked, Taken, SoldBack
  <2>4. Returned(z, a).ok
    <3>1. v2Calls[3].kind = IF Returned(z, a).ok THEN "back" ELSE "error"
      BY <2>2, CallFields DEF SoldBack
    <3>. QED
      BY <3>1
  <2>5. CASE v2.type = "UniswapV2"
    <3>1. PICK x \in Nat, y \in Nat \ {0}, out \in Nat :
              /\ out < y /\ out * (x + a) <= a * y /\ Answer(z, a).amount = out
              /\ x = ReserveIn(v2, z) /\ y = ReserveTo(v2, z)
              /\ Copy(z, a) \in PoolRecords /\ Copy(z, a).type = "UniswapV2"
              /\ ReserveIn(Copy(z, a), z) = x + a /\ ReserveTo(Copy(z, a), z) = y - out
      BY <2>1, <2>2, <2>5, SwappedCopy
    <3>2. ReserveIn(Copy(z, a), ~z) = y - out /\ ReserveTo(Copy(z, a), ~z) = x + a
      BY <3>1 DEF ReserveIn, ReserveTo
    <3>3. Returned(z, a) = CalculateOutput(Copy(z, a), ~z, out)
      BY <3>1 DEF Returned
    <3>4. /\ Returned(z, a).amount \in Nat
          /\ Returned(z, a).amount * ((y - out) + out) <= out * (x + a)
      <4>1. (~z) \in BOOLEAN
        OBVIOUS
      <4>. QED
        BY <2>4, <3>1, <3>2, <3>3, <4>1, ProductQuote
    <3>5. Returned(z, a).amount <= a
      BY <2>2, <3>1, <3>4, NoGain
    <3>. QED
      BY <2>3, <3>5
  <2>6. CASE v2.type = "Vault"
    <3>1. Held(v2) /\ Held(Copy(z, a)) /\ a \in 0..V2MaxReserve
      BY <2>3, <2>6, V2Assumption
    <3>2. PICK out \in 0..V2MaxReserve :
              /\ Answer(z, a).amount = out
              /\ Copy(z, a) \in PoolRecords /\ Copy(z, a).type = "Vault"
              /\ z => /\ out * v2.r0 <= a * v2.r1 /\ a <= v2.r0 /\ out <= v2.r1
                      /\ Copy(z, a).r0 = v2.r0 - a /\ Copy(z, a).r1 = v2.r1 - out
              /\ ~z => /\ out * v2.r1 <= a * v2.r0
                       /\ Copy(z, a).r0 = v2.r0 + out /\ Copy(z, a).r1 = v2.r1 + a
      BY <2>1, <2>2, <2>6, <3>1, VaultCopy
    <3>3. (~z) \in BOOLEAN
      OBVIOUS
    <3>4. PICK back \in Nat :
              /\ CalculateOutput(Copy(z, a), ~z, out) = Ok(back)
              /\ back * ReserveIn(Copy(z, a), ~z) <= out * ReserveTo(Copy(z, a), ~z)
      BY <3>1, <3>2, <3>3, VaultQuote
    <3>5. Returned(z, a).amount = back
      BY <3>2, <3>4, Answers DEF Returned
    <3>6. /\ V2MaxReserve \in Nat /\ out \in Nat /\ v2.r0 \in Nat \ {0} /\ v2.r1 \in Nat \ {0}
          /\ Copy(z, a).r1 > 0
      BY <3>1, V2Assumption DEF Held
    <3>7. CASE z
      <4>1. v2.r1 - out > 0 /\ back * (v2.r1 - out) <= out * (v2.r0 - a)
        BY <3>2, <3>4, <3>6, <3>7 DEF ReserveIn, ReserveTo
      <4>2. a \in Nat /\ a <= v2.r0 /\ out <= v2.r1 /\ out * v2.r0 <= a * v2.r1
        BY <2>2, <3>2, <3>7
      <4>3. v2.r0 \in Nat /\ v2.r1 \in Nat /\ out \in Nat
        BY <3>6
      <4>4. back <= a
        BY <4>1, <4>2, <4>3, WithdrawNoGain, ZenonT(30)
      <4>. QED
        BY <2>3, <3>5, <4>4
    <3>8. CASE ~z
      <4>1. back * (v2.r0 + out) <= out * (v2.r1 + a)
        BY <3>2, <3>4, <3>8 DEF ReserveIn, ReserveTo
      <4>2. back <= a
        BY <2>2, <3>2, <3>6, <3>8, <4>1, DepositNoGain
      <4>. QED
        BY <2>3, <3>5, <4>2
    <3>. QED
      BY <3>7, <3>8
  <2>. QED
    BY <2>1, <2>5, <2>6
<1>. QED
  BY <1>1, V2Invariant, PTL

----------------------------------------------------------------------------
(* Nothing wraps around. *)

Whole(c) == c.in \in Nat /\ c.out \in Nat /\ c.pool.r0 \in Nat /\ c.pool.r1 \in Nat

LEMMA WholeCall ==
    ASSUME NEW kind, NEW z, NEW in \in Nat, NEW out \in Nat, NEW pool \in PoolRecords
    PROVE  Whole(V2Call(kind, z, in, out, pool))
<1>1. pool.r0 \in Nat /\ pool.r1 \in Nat
  BY DEF PoolRecords
<1>. QED
  BY <1>1, CallFields DEF Whole

\* No reserve and no amount of a constant-product pool is ever negative, on the
\* pool or on a simulation's copy of it: calculate_output never answers with the
\* whole reserve, so apply_swap's subtraction never wraps. (A stable pool's
\* depends on get_y, and a vault's totals do wrap.)
THEOREM V2TypeOKHolds == V2Spec => [](v2.type = "UniswapV2" => V2TypeOK)
<1>1. ASSUME V2Inv PROVE v2.type = "UniswapV2" => V2TypeOK
  <2>. SUFFICES ASSUME v2.type = "UniswapV2" PROVE V2TypeOK
    OBVIOUS
  <2>1. v2 \in PoolRecords
    BY <1>1 DEF V2Inv
  <2>2. v2.r0 \in Nat /\ v2.r1 \in Nat
    BY <2>1 DEF PoolRecords
  <2>3. \A i \in DOMAIN v2Calls : Whole(v2Calls[i])
    <3>1. CASE v2Calls = <<>>
      BY <3>1
    <3>2. ASSUME NEW kind, NEW c \in V2Charged, NEW r \in V2PairReserves, NEW fee \in Nat,
                 Fetching(kind, c, r, fee)
          PROVE  \A i \in DOMAIN v2Calls : Whole(v2Calls[i])
      <4>. DEFINE pool == [v2 EXCEPT !.r0 = r[1], !.r1 = r[2], !.fee = fee]
                  call == V2Call(kind, TRUE, c, fee, pool)
      <4>1. c \in Nat /\ r[1] \in Nat /\ r[2] \in Nat
        BY V2Assumption
      <4>2. pool.r0 = r[1] /\ pool.r1 = r[2]
        BY <2>1 DEF PoolRecords
      <4>3. call.in = c /\ call.out = fee /\ call.pool = pool
        BY DEF V2Call
      <4>4. v2Calls = <<call>>
        BY <3>2 DEF Fetching
      <4>. HIDE DEF pool, call
      <4>5. Whole(call)
        BY <4>1, <4>2, <4>3 DEF Whole
      <4>. QED
        BY <4>4, <4>5
    <3>3. ASSUME NEW z \in BOOLEAN, NEW a \in V2Amounts, Simulating(z, a)
          PROVE  \A i \in DOMAIN v2Calls : Whole(v2Calls[i])
      <4>1. a \in Nat
        BY V2Assumption
      <4>2. Answer(z, a).amount \in Nat
        BY <2>1, <4>1, ProductQuote DEF Answer
      <4>3. Whole(Asked(z, a))
        BY <2>1, <4>1, <4>2, WholeCall DEF Asked
      <4>4. CASE v2Calls = <<Asked(z, a)>>
        BY <4>3, <4>4
      <4>5. CASE /\ CalculateInput(v2, z, a).ok
                 /\ v2Calls = <<AskedInput(z, a), Asked(z, Bought(z, a))>>
        <5>1. Bought(z, a) \in Nat
          BY <2>1, <4>1, <4>5, InputQuote DEF Bought
        <5>2. Answer(z, Bought(z, a)).amount \in Nat
          BY <2>1, <5>1, ProductQuote DEF Answer
        <5>3. Whole(AskedInput(z, a))
          BY <2>1, <4>1, <5>1, WholeCall DEF AskedInput
        <5>4. Whole(Asked(z, Bought(z, a)))
          BY <2>1, <5>1, <5>2, WholeCall DEF Asked
        <5>. QED
          BY <4>5, <5>3, <5>4
      <4>6. ASSUME Takable(z, a) PROVE Whole(Taken(z, a)) /\ Whole(SoldBack(z, a))
        <5>1. Copy(z, a) \in PoolRecords /\ Copy(z, a).type = "UniswapV2"
          BY <2>1, <4>1, <4>6, SwappedCopy
        <5>2. (~z) \in BOOLEAN
          OBVIOUS
        <5>3. Returned(z, a).amount \in Nat
          BY <4>2, <5>1, <5>2, ProductQuote DEF Returned
        <5>4. Whole(Taken(z, a))
          BY <4>1, <4>2, <5>1, WholeCall DEF Taken
        <5>5. Whole(SoldBack(z, a))
          BY <4>2, <5>1, <5>3, WholeCall DEF SoldBack
        <5>. QED
          BY <5>4, <5>5
      <4>7. CASE Takable(z, a) /\ v2Calls = <<Asked(z, a), Taken(z, a)>>
        BY <4>3, <4>6, <4>7
      <4>8. CASE Takable(z, a) /\ v2Calls = <<Asked(z, a), Taken(z, a), SoldBack(z, a)>>
        BY <4>3, <4>6, <4>8
      <4>. QED
        BY <3>3, <4>4, <4>5, <4>7, <4>8 DEF Simulating
    <3>. QED
      BY <1>1, <3>1, <3>2, <3>3 DEF V2Inv, CallsInv
  <2>. QED
    BY <2>2, <2>3 DEF V2TypeOK, Whole
<1>. QED
  BY <1>1, V2Invariant, PTL
=============================================================================
