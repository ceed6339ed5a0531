------------------------------- MODULE V3Math -------------------------------
(***************************************************************************)
(* The arithmetic of a V3 quote (src/src/v3: tick_math, full_math,           *)
(* sqrt_price_math, swap_math, tick) at a reduced precision: prices have Q   *)
(* for one instead of 2^96, a bitmap word holds WordSize ticks instead of    *)
(* 256, fees are out of MaxFee instead of 10^6, and the powers of the tick   *)
(* base are a table of a few bits. Every rounding is where the code has it.  *)
(***************************************************************************)
EXTENDS Integers, Sequences, FiniteSets, FiniteSetsExt

CONSTANTS Q,            \* one, as a price (2^96)
          Shift,        \* extra precision of a ratio before rounding (2^32)
          Powers,       \* Q * Shift / base^(2^(i-1)), a sequence
          MaxTick,      \* MAX_TICK; MIN_TICK is its negative
          WordSize,     \* ticks of a bitmap word (256)
          MaxFee,       \* 1000000
          MaxSteps      \* bound: iterations of the swap loop that are followed

ASSUME V3MathAssumption ==
    /\ {Q, Shift, MaxTick, WordSize, MaxFee, MaxSteps} \subseteq Nat \ {0}
    /\ Powers \in Seq(Nat) /\ MaxTick < 2^Len(Powers)

MinTick == -MaxTick
Abs(n) == IF n < 0 THEN -n ELSE n

\* mul_div, mul_div_rounding_up, div_ceil.
MulDiv(a, b, d) == (a * b) \div d
DivCeil(a, b) == (a + b - 1) \div b
MulDivRoundingUp(a, b, d) == DivCeil(a * b, d)

----------------------------------------------------------------------------
(* tick_math.rs *)

Bit(n, i) == (n \div 2^i) % 2

\* get_sqrt_ratio_at_tick: a product over the bits of |tick|, inverted above
\* zero, rounded up to the price's precision.
SqrtRatioAtTick(tick) ==
    LET one == Q * Shift
        ratio[i \in 0..Len(Powers)] ==
            IF i = 0 THEN one
            ELSE IF Bit(Abs(tick), i - 1) = 1 THEN (ratio[i - 1] * Powers[i]) \div one
            ELSE ratio[i - 1]
        r == ratio[Len(Powers)]
    IN DivCeil(IF tick > 0 THEN (one * one - 1) \div r ELSE r, Shift)

Ratio == [t \in MinTick..MaxTick |-> SqrtRatioAtTick(t)]
\* The table of powers tells the ticks apart, as the code's does.
ASSUME RatioAssumption ==
    /\ \A t \in MinTick..MaxTick : Ratio[t] \in Nat \ {0}
    /\ \A t \in MinTick..(MaxTick - 1) : Ratio[t] < Ratio[t + 1]

MinSqrtRatio == Ratio[MinTick]
MaxSqrtRatio == Ratio[MaxTick]

\* get_tick_at_sqrt_ratio: the logarithm, corrected to the greatest tick whose
\* ratio is at most the price.
TickAtSqrtRatio(price) == Max({t \in MinTick..MaxTick : Ratio[t] <= price})

----------------------------------------------------------------------------
(* sqrt_price_math.rs. A price of 0 is an error. *)

NoPrice == 0

NextSqrtPriceFromAmount0RoundingUp(price, liquidity, amount, add) ==
    LET numerator == liquidity * Q
        product == amount * price
    IN CASE amount = 0 -> price
         [] amount # 0 /\ add -> MulDivRoundingUp(numerator, price, numerator + product)
         [] amount # 0 /\ ~add /\ numerator > product
                -> MulDivRoundingUp(numerator, price, numerator - product)
         [] OTHER -> NoPrice

NextSqrtPriceFromAmount1RoundingDown(price, liquidity, amount, add) ==
    LET down == (amount * Q) \div liquidity
        up == DivCeil(amount * Q, liquidity)
    IN CASE add -> price + down
         [] ~add /\ price > up -> price - up
         [] OTHER -> NoPrice

NextSqrtPriceFromInput(price, liquidity, amount, zeroForOne) ==
    IF liquidity = 0 THEN NoPrice
    ELSE IF zeroForOne THEN NextSqrtPriceFromAmount0RoundingUp(price, liquidity, amount, TRUE)
    ELSE NextSqrtPriceFromAmount1RoundingDown(price, liquidity, amount, TRUE)

NextSqrtPriceFromOutput(price, liquidity, amount, zeroForOne) ==
    IF liquidity = 0 THEN NoPrice
    ELSE IF zeroForOne THEN NextSqrtPriceFromAmount1RoundingDown(price, liquidity, amount, FALSE)
    ELSE NextSqrtPriceFromAmount0RoundingUp(price, liquidity, amount, FALSE)

\* sort2
Lower(a, b) == IF a > b THEN b ELSE a
Upper(a, b) == IF a > b THEN a ELSE b

Amount0Delta(a, b, liquidity, roundUp) ==
    LET lo == Lower(a, b)
        hi == Upper(a, b)
    IN IF roundUp THEN DivCeil(MulDivRoundingUp(liquidity * Q, hi - lo, hi), lo)
       ELSE MulDiv(liquidity * Q, hi - lo, hi) \div lo

Amount1Delta(a, b, liquidity, roundUp) ==
    LET diff == Upper(a, b) - Lower(a, b)
    IN IF roundUp THEN MulDivRoundingUp(liquidity, diff, Q) ELSE MulDiv(liquidity, diff, Q)

----------------------------------------------------------------------------
(* swap_math.rs *)

\* The token that goes in, and the one that comes out, between two prices.
AmountInDown(a, b, liquidity, zeroForOne) ==
    IF zeroForOne THEN Amount0Delta(a, b, liquidity, FALSE)
    ELSE Amount1Delta(a, b, liquidity, FALSE)
AmountIn(a, b, liquidity, zeroForOne) ==
    IF zeroForOne THEN Amount0Delta(a, b, liquidity, TRUE)
    ELSE Amount1Delta(a, b, liquidity, TRUE)

AmountOutUp(a, b, liquidity, zeroForOne) ==
    IF zeroForOne THEN Amount1Delta(a, b, liquidity, TRUE)
    ELSE Amount0Delta(a, b, liquidity, TRUE)
AmountOut(a, b, liquidity, zeroForOne) ==
    IF zeroForOne THEN Amount1Delta(a, b, liquidity, FALSE)
    ELSE Amount0Delta(a, b, liquidity, FALSE)

\* compute_swap_step. The direction is read off the two prices.
StepExactIn(price, target, liquidity, remaining, fee) ==
    LET zeroForOne == price >= target
        lessFee == MulDiv(remaining, MaxFee - fee, MaxFee)
        full == AmountIn(price, target, liquidity, zeroForOne)
        reaches == lessFee >= full
        in == IF reaches THEN full ELSE lessFee
        next == IF reaches THEN target
                ELSE NextSqrtPriceFromInput(price, liquidity, in, zeroForOne)
    IN [price |-> next, in |-> in,
        out |-> IF next = NoPrice THEN 0 ELSE AmountOut(price, next, liquidity, zeroForOne),
        fee |-> IF reaches THEN MulDivRoundingUp(in, fee, MaxFee - fee) ELSE remaining - in]

StepExactOut(price, target, liquidity, remaining, fee) ==
    LET zeroForOne == price >= target
        full == AmountOut(price, target, liquidity, zeroForOne)
        reaches == remaining >= full
        next == IF reaches THEN target
                ELSE NextSqrtPriceFromOutput(price, liquidity, remaining, zeroForOne)
        in == IF next = NoPrice THEN 0 ELSE AmountIn(price, next, liquidity, zeroForOne)
    IN [price |-> next, in |-> in, out |-> IF reaches THEN full ELSE remaining,
        fee |-> MulDivRoundingUp(in, fee, MaxFee - fee)]

ComputeSwapStep(price, target, liquidity, remaining, fee, exactIn) ==
    IF exactIn THEN StepExactIn(price, target, liquidity, remaining, fee)
    ELSE StepExactOut(price, target, liquidity, remaining, fee)

----------------------------------------------------------------------------
(* tick.rs: where a step ends *)

Ended(t, init) == [tick |-> t, initialized |-> init]

NextInitialized(ticks, tick, lte) ==
    LET below == {t \in DOMAIN ticks : t <= tick}
        above == {t \in DOMAIN ticks : t > tick}
    IN IF lte THEN (IF below = {} THEN Ended(tick, FALSE) ELSE Ended(Max(below), TRUE))
       ELSE (IF above = {} THEN Ended(tick, FALSE) ELSE Ended(Min(above), TRUE))

WordBoundedBeforeEdge(ticks, tick, lte, spacing) ==
    LET compressed == tick \div spacing
        start(c) == (c \div WordSize) * WordSize
        range(lo, hi) == {t \in DOMAIN ticks : lo <= t /\ t <= hi}
        lowEdge == start(compressed) * spacing
        highEdge == (start(compressed + 1) + WordSize - 1) * spacing
        below == range(lowEdge, compressed * spacing)
        above == range((compressed + 1) * spacing, highEdge - 1)
    IN IF lte THEN (IF below = {} THEN Ended(lowEdge, FALSE) ELSE Ended(Max(below), TRUE))
       ELSE (IF above = {} THEN Ended(highEdge, FALSE) ELSE Ended(Min(above), TRUE))

WordBounded(ticks, tick, lte, spacing) ==
    LET compressed == tick \div spacing
        start(c) == (c \div WordSize) * WordSize
        range(lo, hi) == {t \in DOMAIN ticks : lo <= t /\ t <= hi}
        lowEdge == start(compressed) * spacing
        highEdge == (start(compressed + 1) + WordSize - 1) * spacing
        below == range(lowEdge, compressed * spacing)
        above == range((compressed + 1) * spacing, highEdge)
    IN IF lte THEN (IF below = {} THEN Ended(lowEdge, FALSE) ELSE Ended(Max(below), TRUE))
       ELSE (IF above = {} THEN Ended(highEdge, FALSE) ELSE Ended(Min(above), TRUE))

NextInitializedTick(pool, tick, lte) ==
    IF pool.search = "NextInitialized" THEN NextInitialized(pool.ticks, tick, lte)
    ELSE WordBounded(pool.ticks, tick, lte, pool.spacing)

Clamp(t) == Lower(Upper(t, MinTick), MaxTick)

----------------------------------------------------------------------------
(* v3_swap *)

SqrtPriceLimit(zeroForOne) == IF zeroForOne THEN MinSqrtRatio + 1 ELSE MaxSqrtRatio - 1

NoProgress(s, step, next, zeroForOne) ==
    /\ step.in = 0 /\ step.out = 0 /\ step.fee = 0
    /\ step.price # Ratio[next] \/ (~zeroForOne /\ next <= s.tick)

\* The tick after a crossing: below it on the way down.
CrossedTickSame(next, zeroForOne) == next
CrossedTick(next, zeroForOne) == IF zeroForOne THEN next - 1 ELSE next

\* The liquidity after one: the net of a tick is what its upward crossing adds.
CrossedLiquidityUpward(liquidity, net, zeroForOne) == liquidity + net
CrossedLiquidity(liquidity, net, zeroForOne) ==
    IF zeroForOne THEN liquidity - net ELSE liquidity + net

\* One iteration of the loop.
SwapIteration(pool, s, zeroForOne, exactIn) ==
    LET ended == NextInitializedTick(pool, s.tick, zeroForOne)
        next == Clamp(ended.tick)
        limit == SqrtPriceLimit(zeroForOne)
        target == IF zeroForOne THEN Upper(Ratio[next], limit) ELSE Lower(Ratio[next], limit)
        step == ComputeSwapStep(s.price, target, s.liquidity, s.remaining, pool.fee, exactIn)
        crossed == step.price = Ratio[next]
        net == IF ended.initialized THEN pool.ticks[next].net ELSE 0
        liquidity == IF crossed THEN CrossedLiquidity(s.liquidity, net, zeroForOne)
                     ELSE s.liquidity
    IN IF step.price = NoPrice \/ NoProgress(s, step, next, zeroForOne) \/ liquidity < 0
       THEN [s EXCEPT !.status = "error"]
       ELSE [remaining |-> IF exactIn THEN s.remaining - step.in - step.fee
                           ELSE s.remaining - step.out,
             calculated |-> IF exactIn THEN s.calculated + step.out
                            ELSE s.calculated + step.in + step.fee,
             price |-> step.price,
             tick |-> CASE crossed -> CrossedTick(next, zeroForOne)
                        [] ~crossed /\ step.price # s.price -> TickAtSqrtRatio(step.price)
                        [] OTHER -> s.tick,
             liquidity |-> liquidity,
             status |-> IF crossed /\ liquidity = 0 THEN "done" ELSE "loop"]

\* The loop's condition, and its body while it holds.
SwapStep(pool, s, zeroForOne, exactIn) ==
    IF s.status # "loop" THEN s
    ELSE IF s.remaining = 0 \/ s.price = SqrtPriceLimit(zeroForOne)
    THEN [s EXCEPT !.status = "done"]
    ELSE SwapIteration(pool, s, zeroForOne, exactIn)

SwapLoop(pool, start, zeroForOne, exactIn) ==
    LET after[n \in 0..MaxSteps] ==
            IF n = 0 THEN start ELSE SwapStep(pool, after[n - 1], zeroForOne, exactIn)
    IN after[MaxSteps]

V3Swap(pool, zeroForOne, exactIn, amount) ==
    LET start == [remaining |-> amount, calculated |-> 0, price |-> pool.price,
                  tick |-> pool.tick, liquidity |-> pool.liquidity, status |-> "loop"]
        limit == SqrtPriceLimit(zeroForOne)
    IN IF (zeroForOne /\ limit >= pool.price) \/ (~zeroForOne /\ limit <= pool.price)
       THEN [start EXCEPT !.status = "error"]
       ELSE SwapLoop(pool, start, zeroForOne, exactIn)
=============================================================================
