------------------------------- MODULE LBPool -------------------------------
(***************************************************************************)
(* A Liquidity Book pool (src/src/lb/pool.rs, math.rs) that replays the logs *)
(* of its pair. The pair's contract is external: its swap() updates the      *)
(* volatility references once and then emits one Swap log per bin, and the   *)
(* pool must come out with the same references, the same bins and so the     *)
(* same quotes. Precision is reduced: prices have LBScale for one instead of *)
(* 2^128, fees are out of LBPrecision instead of 10^18, and a bin moves the  *)
(* volatility by LBUnit instead of 10000.                                   *)
(***************************************************************************)
EXTENDS Integers, Sequences, FiniteSets, FiniteSetsExt

CONSTANTS LBScale, LBPrecision, LBMaxFee, LBUnit,
          LBBinStep,          \* bin_step, out of LBUnit
          LBFeeParameters,    \* the static fee parameters a pair may have
          LBBins,             \* bin ids, as distances from REAL_ID_SHIFT
          LBShift,            \* REAL_ID_SHIFT
          LBFanout,           \* children of a node of the bin tree (256)
          LBAmounts,          \* amounts swapped
          LBDeposit,          \* amount deposited, withdrawn or paid as a fee
          LBMaxTime,          \* bound: the clock
          LBMaxTxs            \* bound: transactions

ASSUME LBAssumption ==
    /\ {LBScale, LBPrecision, LBMaxFee, LBUnit, LBFanout, LBDeposit, LBMaxTime}
           \subseteq Nat \ {0}
    /\ LBBinStep \in Nat /\ LBShift \in Nat
    /\ LBBins \subseteq Int /\ IsFiniteSet(LBBins) /\ 0 \in LBBins
    \* the first and the last id mean "no bin" to a walk, and their prices are out of range
    /\ \A id \in LBBins : id + LBShift \in 1..(LBFanout * LBFanout * LBFanout - 2)
    /\ LBMaxFee < LBPrecision
    /\ LBAmounts \subseteq Nat \ {0}  \* the pair refuses a swap of nothing
    /\ LBFeeParameters \subseteq [base : Nat, control : Nat, max : Nat, reduction : 0..LBUnit,
                                  filter : Nat \ {0},  \* apply_log relies on it
                                  decay : Nat]
    /\ \A f \in LBFeeParameters : f.filter <= f.decay

VARIABLES pair,      \* the contract's state: external
          lb,        \* the local LBPool
          lbLogs,    \* logs not yet applied, in order
          clock, txs,
          lbQuote    \* the last quote, and what came of it

lbVars == <<pair, lb, lbLogs, clock, txs, lbQuote>>

NoQuote == [kind |-> "none"]
NoPool == [type |-> "none"]

----------------------------------------------------------------------------
(* math.rs *)

CeilDiv(a, b) == (a + b - 1) \div b

\* pow_128x128: binary exponentiation of the base or its inverse.
Pow(x, y) ==
    LET abs == IF y < 0 THEN -y ELSE y
        start == IF x > LBScale THEN (LBScale * LBScale - 1) \div x ELSE x
        bits[i \in 0..2] ==
            IF i = 0 THEN [result |-> LBScale, squared |-> start]
            ELSE LET b == bits[i - 1]
                 IN [result |-> IF (abs \div 2^(i - 1)) % 2 = 1
                                THEN (b.result * b.squared) \div LBScale ELSE b.result,
                     squared |-> (b.squared * b.squared) \div LBScale]
        result == bits[2].result
    IN IF y = 0 THEN LBScale
       ELSE IF (y < 0) # (x > LBScale) THEN (LBScale * LBScale - 1) \div result ELSE result

\* get_price_from_id, with get_base and get_exponent.
Price == [id \in LBBins |-> Pow(LBScale + (LBBinStep * LBScale) \div LBUnit, id)]

\* The pair has no bin whose price would underflow.
ASSUME LBPriceAssumption == \A id \in LBBins : Price[id] \in Nat \ {0}

\* get_total_fee: base and variable fee, capped.
VariableFee(f, volatility) ==
    (volatility * LBBinStep * volatility * LBBinStep * f.control + 99) \div 100
TotalFee(f, volatility) == Min({f.base + VariableFee(f, volatility), LBMaxFee})

\* get_fee_amount_from and get_fee_amount: both round up.
FeeAmountFrom(amount, fee) == CeilDiv(amount * fee, LBPrecision)
FeeAmount(amount, fee) == CeilDiv(amount * fee, LBPrecision - fee)

\* shift_div and mul_shift, by the direction of the swap.
ToInput(out, id, forY) ==
    IF forY THEN CeilDiv(out * LBScale, Price[id]) ELSE CeilDiv(out * Price[id], LBScale)
ToOutput(in, id, forY) ==
    IF forY THEN (in * Price[id]) \div LBScale ELSE (in * LBScale) \div Price[id]

----------------------------------------------------------------------------
(* Bins and volatility *)

Reserves(p, id) == IF id \in DOMAIN p.bins THEN p.bins[id] ELSE [x |-> 0, y |-> 0]
ReserveOut(p, id, forY) == IF forY THEN Reserves(p, id).y ELSE Reserves(p, id).x

\* update_bin: a bin with nothing in it is removed.
UpdateBinKeepsEmpty(bins, id, x, y) ==
    [i \in DOMAIN bins \cup {id} |-> IF i = id THEN [x |-> x, y |-> y] ELSE bins[i]]
UpdateBin(bins, id, x, y) ==
    IF x = 0 /\ y = 0 THEN [i \in DOMAIN bins \ {id} |-> bins[i]]
    ELSE [i \in DOMAIN bins \cup {id} |-> IF i = id THEN [x |-> x, y |-> y] ELSE bins[i]]

\* next_non_empty_bin, and whether there is one.
Ahead(p, id, forY) == {i \in DOMAIN p.bins : IF forY THEN i < id ELSE i > id}
NextBin(p, id, forY) == IF forY THEN Max(Ahead(p, id, forY)) ELSE Min(Ahead(p, id, forY))

\* update_references: within the filter period nothing moves; within the decay
\* period the reference is a part of the accumulator; later it is zero.
UpdateReferences(p, ts) ==
    LET dt == ts - p.time
        f == p.fees
    IN [vol |-> CASE dt < f.filter -> p.volRef
                  [] dt >= f.filter /\ dt < f.decay -> (p.volAcc * f.reduction) \div LBUnit
                  [] OTHER -> 0,
        id |-> IF dt < f.filter THEN p.idRef ELSE p.active]

\* compute_volatility_accumulator.
VolatilityAt(p, id, ref) ==
    LET delta == IF id < ref.id THEN ref.id - id ELSE id - ref.id
    IN Min({ref.vol + delta * LBUnit, p.fees.max})

\* What a bin gives for at most `left`, at a fee.
SwapInBin(p, id, left, forY, fee) ==
    LET reserve == ReserveOut(p, id, forY)
        most == ToInput(reserve, id, forY)
        mostFee == FeeAmount(most, fee)
        part == FeeAmountFrom(left, fee)
    IN IF left >= most + mostFee
       THEN [in |-> most + mostFee, fee |-> mostFee, out |-> reserve]
       ELSE [in |-> left, fee |-> part,
             out |-> Min({ToOutput(left - part, id, forY), reserve})]

----------------------------------------------------------------------------
(* Quotes *)

\* simulate_swap_out_at: one bin, and on to the next while there is one.
SwapOutStep(p, ref, forY, s) ==
    LET b == SwapInBin(p, s.id, s.left, forY, TotalFee(p.fees, VolatilityAt(p, s.id, ref)))
        empty == ReserveOut(p, s.id, forY) = 0
        left == IF empty THEN s.left ELSE s.left - b.in
        last == left = 0 \/ Ahead(p, s.id, forY) = {}
    IN IF s.done THEN s
       ELSE [id |-> IF last THEN s.id ELSE NextBin(p, s.id, forY), left |-> left,
             out |-> IF empty THEN s.out ELSE s.out + b.out, done |-> last]
SimulateSwapOut(p, amount, forY, ts) ==
    LET ref == UpdateReferences(p, ts)
        step[n \in 0..Cardinality(LBBins)] ==
            IF n = 0 THEN [id |-> p.active, left |-> amount, out |-> 0, done |-> FALSE]
            ELSE SwapOutStep(p, ref, forY, step[n - 1])
    IN step[Cardinality(LBBins)]

\* simulate_swap_in_at.
SwapInStep(p, ref, forY, s) ==
    LET out == Min({ReserveOut(p, s.id, forY), s.left})
        in == ToInput(out, s.id, forY)
        fee == FeeAmount(in, TotalFee(p.fees, VolatilityAt(p, s.id, ref)))
        left == s.left - out
        last == left = 0 \/ Ahead(p, s.id, forY) = {}
    IN IF s.done THEN s
       ELSE [id |-> IF last THEN s.id ELSE NextBin(p, s.id, forY), left |-> left,
             in |-> s.in + in + fee, done |-> last]
SimulateSwapInNoFee(p, amount, forY, ts) ==
    [id |-> p.active, left |-> 0, in |-> ToInput(amount, p.active, forY), done |-> TRUE]
SimulateSwapIn(p, amount, forY, ts) ==
    LET ref == UpdateReferences(p, ts)
        step[n \in 0..Cardinality(LBBins)] ==
            IF n = 0 THEN [id |-> p.active, left |-> amount, in |-> 0, done |-> FALSE]
            ELSE SwapInStep(p, ref, forY, step[n - 1])
    IN step[Cardinality(LBBins)]

----------------------------------------------------------------------------
(* Fetching *)

\* The pair's tree of non-empty bins on chain, as its storage or its v2.0 and
\* v2.1 lookups show it. External.
NonEmpty(p) == {id + LBShift : id \in DOMAIN p.bins}
Level2(p, k) == {b \in 0..(LBFanout - 1) : k * LBFanout + b \in NonEmpty(p)}
Level1(p, k) == {b \in 0..(LBFanout - 1) : Level2(p, k * LBFanout + b) # {}}
Level0(p) == {b \in 0..(LBFanout - 1) : Level1(p, b) # {}}

\* discover_bins_from_tree: the keys of each level from the bits of the one above.
BinsFromTree(p) ==
    LET keys == UNION {{k * LBFanout + b : b \in Level1(p, k)} : k \in Level0(p)}
    IN UNION {{k * LBFanout + b - LBShift : b \in Level2(p, k)} : k \in keys}

\* discover_bins_by_walking: from the active bin down and up, while the pair
\* names a bin further on.
WalkStep(p, forY, seen) ==
    LET id == IF forY THEN Min(seen) ELSE Max(seen)
    IN IF Ahead(p, id, forY) = {} THEN seen ELSE seen \cup {NextBin(p, id, forY)}
Walk(p, forY) ==
    LET seen[n \in 0..Cardinality(LBBins)] ==
            IF n = 0 THEN {p.active} ELSE WalkStep(p, forY, seen[n - 1])
    IN seen[Cardinality(LBBins)]
BinsByWalking(p) == Walk(p, TRUE) \cup Walk(p, FALSE)

\* fetch_lb_pool: state and parameters as the pair has them; the bins the
\* discovery names, without the ones that turn out empty. v2.0 walks, and so do
\* the others when the tree cannot be read.
FetchLBPool(p, byTree) ==
    LET ids == IF byTree THEN BinsFromTree(p) ELSE BinsByWalking(p)
        found == {id \in ids : Reserves(p, id).x > 0 \/ Reserves(p, id).y > 0}
    IN [p EXCEPT !.bins = [id \in found |-> Reserves(p, id)]]

----------------------------------------------------------------------------
(* The pair's contract *)

\* LBPair.swap: the references once, then bin by bin, each with its log. The
\* amount left over would revert the whole transaction.
PairStep(ts, forY, s) ==
    LET p == s.pair
        id == p.active
        vol == VolatilityAt(p, id, [vol |-> p.volRef, id |-> p.idRef])
        b == SwapInBin(p, id, s.left, forY, TotalFee(p.fees, vol))
        r == Reserves(p, id)
        swapped == [p EXCEPT !.volAcc = vol,
                             !.bins = IF forY THEN UpdateBin(@, id, r.x + b.in, r.y - b.out)
                                      ELSE UpdateBin(@, id, r.x - b.out, r.y + b.in)]
        log == [kind |-> "swap", id |-> id, ts |-> ts, vol |-> vol, forY |-> forY,
                in |-> b.in, out |-> b.out]
    IN IF s.left = 0 THEN s
       ELSE IF ReserveOut(p, id, forY) > 0
       THEN [pair |-> IF s.left > b.in /\ Ahead(swapped, id, forY) # {}
                      THEN [swapped EXCEPT !.active = NextBin(swapped, id, forY)]
                      ELSE swapped,
             left |-> s.left - b.in, out |-> s.out + b.out, logs |-> Append(s.logs, log)]
       ELSE IF Ahead(p, id, forY) # {}
       THEN [s EXCEPT !.pair = [p EXCEPT !.active = NextBin(p, id, forY)]]
       ELSE s
PairSwap(p, amount, forY, ts) ==
    LET ref == UpdateReferences(p, ts)
        step[n \in 0..Cardinality(LBBins)] ==
            IF n = 0
            THEN [pair |-> [p EXCEPT !.volRef = ref.vol, !.idRef = ref.id, !.time = ts],
                  left |-> amount, out |-> 0, logs |-> <<>>]
            ELSE PairStep(ts, forY, step[n - 1])
    IN step[Cardinality(LBBins)]

Emit(logs) == lbLogs' = lbLogs \o logs

Transaction == txs < LBMaxTxs /\ txs' = txs + 1 /\ UNCHANGED <<lb, clock>>

\* A swap, and what the pool would have quoted for it at the block's time
\* (calculate_output_at), when it has applied every log.
LBSwap ==
    \E amount \in LBAmounts, forY \in BOOLEAN :
        LET paid == PairSwap(pair, amount, forY, clock)
            quoted == SimulateSwapOut(lb, amount, forY, clock)
        IN /\ Transaction
           /\ paid.left = 0
           /\ pair' = paid.pair
           /\ Emit(paid.logs)
           /\ lbQuote' = IF lbLogs = <<>>
                         THEN [kind |-> "swap", paid |-> paid.out, quoted |-> quoted.out]
                         ELSE NoQuote

\* An LP's own deposit and withdrawal of one bin: DepositedToBins, WithdrawnFromBins.
Deposited(p, id, x, y) ==
    [p EXCEPT !.bins = UpdateBin(@, id, Reserves(p, id).x + x, Reserves(p, id).y + y)]

LBMint(id) ==
    LET x == IF id >= pair.active THEN LBDeposit ELSE 0
        y == IF id <= pair.active THEN LBDeposit ELSE 0
    IN /\ Transaction
       /\ pair' = Deposited(pair, id, x, y)
       /\ Emit(<<[kind |-> "deposit", id |-> id, x |-> x, y |-> y]>>)
       /\ lbQuote' = NoQuote

LBBurn(id) ==
    LET r == Reserves(pair, id)
    IN /\ Transaction /\ id \in DOMAIN pair.bins
       /\ pair' = [pair EXCEPT !.bins = UpdateBin(@, id, 0, 0)]
       /\ Emit(<<[kind |-> "withdraw", id |-> id, x |-> r.x, y |-> r.y]>>)
       /\ lbQuote' = NoQuote

\* An unbalanced deposit into the active bin pays a composition fee, and moves
\* the volatility parameters.
LBComposition ==
    LET ref == UpdateReferences(pair, clock)
        moved == [pair EXCEPT !.volRef = ref.vol, !.idRef = ref.id, !.time = clock,
                              !.volAcc = VolatilityAt(pair, pair.active, ref)]
    IN /\ Transaction
       /\ pair' = Deposited(moved, pair.active, LBDeposit, 0)
       /\ Emit(<<[kind |-> "composition", id |-> pair.active, ts |-> clock],
                 [kind |-> "deposit", id |-> pair.active, x |-> LBDeposit, y |-> 0]>>)
       /\ lbQuote' = NoQuote

\* A flash loan's fee, its protocol share taken off, is credited to the active bin.
LBFlashLoan ==
    /\ Transaction
    /\ pair' = Deposited(pair, pair.active, LBDeposit, LBDeposit)
    /\ Emit(<<[kind |-> "flash", id |-> pair.active, total |-> 2 * LBDeposit,
               protocol |-> LBDeposit]>>)
    /\ lbQuote' = NoQuote

LBSetFees ==
    /\ Transaction
    /\ \E fees \in LBFeeParameters \ {pair.fees} :
           pair' = [pair EXCEPT !.fees = fees] /\ Emit(<<[kind |-> "fees", fees |-> fees]>>)
    /\ lbQuote' = NoQuote

LBTick == clock < LBMaxTime /\ clock' = clock + 1 /\ lbQuote' = NoQuote
          /\ UNCHANGED <<pair, lb, lbLogs, txs>>

----------------------------------------------------------------------------
(* apply_log *)

\* log_timestamp: the block's, which enrichment has filled in.
LogTimestampNow(log) == clock
LogTimestamp(log) == log.ts

Saturate(n) == IF n < 0 THEN 0 ELSE n

\* Swap, of v2.0 and v2.1: the references from the state before the swap, then
\* the log's own.
ApplySwapAfter(p, log) ==
    LET ts == LogTimestamp(log)
        r == Reserves(p, log.id)
        after == [p EXCEPT !.bins = IF log.forY
                      THEN UpdateBin(@, log.id, r.x + log.in, Saturate(r.y - log.out))
                      ELSE UpdateBin(@, log.id, Saturate(r.x - log.out), r.y + log.in),
                  !.active = log.id, !.volAcc = log.vol]
        ref == UpdateReferences(after, ts)
    IN [after EXCEPT !.volRef = ref.vol, !.idRef = ref.id, !.time = ts]
ApplySwap(p, log) ==
    LET ts == LogTimestamp(log)
        r == Reserves(p, log.id)
        ref == UpdateReferences(p, ts)
    IN [p EXCEPT !.bins = IF log.forY
                          THEN UpdateBin(@, log.id, r.x + log.in, Saturate(r.y - log.out))
                          ELSE UpdateBin(@, log.id, Saturate(r.x - log.out), r.y + log.in),
                 !.volRef = ref.vol, !.idRef = ref.id,
                 !.active = log.id, !.volAcc = log.vol, !.time = ts]

ApplyComposition(p, log) ==
    LET ts == LogTimestamp(log)
        ref == UpdateReferences(p, ts)
    IN [p EXCEPT !.volRef = ref.vol, !.idRef = ref.id, !.time = ts,
                 !.volAcc = VolatilityAt(p, log.id, ref)]

ApplyDeposit(p, log) == Deposited(p, log.id, log.x, log.y)
ApplyWithdraw(p, log) ==
    [p EXCEPT !.bins = UpdateBin(@, log.id, Saturate(Reserves(p, log.id).x - log.x),
                                 Saturate(Reserves(p, log.id).y - log.y))]

\* A protocol share above the total would be refused.
ApplyFlashLoan(p, log) ==
    IF log.protocol > log.total THEN p
    ELSE Deposited(p, log.id, log.total - log.protocol, log.total - log.protocol)

AppliedLB(p, log) ==
    CASE log.kind = "swap" -> ApplySwap(p, log)
      [] log.kind = "composition" -> ApplyComposition(p, log)
      [] log.kind = "deposit" -> ApplyDeposit(p, log)
      [] log.kind = "withdraw" -> ApplyWithdraw(p, log)
      [] log.kind = "flash" -> ApplyFlashLoan(p, log)
      [] log.kind = "fees" -> [p EXCEPT !.fees = log.fees]

LBApplyLog ==
    /\ lbLogs # <<>>
    /\ lb' = AppliedLB(lb, Head(lbLogs))
    /\ lbLogs' = Tail(lbLogs)
    /\ lbQuote' = NoQuote
    /\ UNCHANGED <<pair, clock, txs>>

\* calculate_input_at, and calculate_output_at of its answer.
LBAskInput ==
    /\ lbQuote = NoQuote /\ lbLogs = <<>>
    /\ \E want \in LBAmounts, forY \in BOOLEAN :
           LET in == SimulateSwapIn(lb, want, forY, clock)
               out == SimulateSwapOut(lb, in.in, forY, clock)
           IN /\ in.left = 0
              /\ lbQuote' = [kind |-> "input", want |-> want, in |-> in.in, out |-> out.out,
                             left |-> out.left]
    /\ UNCHANGED <<pair, lb, lbLogs, clock, txs>>

\* add_pools after remove_pools: the pool fetched at the block reached.
LBRefetch ==
    /\ lbQuote = NoQuote /\ lbLogs = <<>>
    /\ \E byTree \in BOOLEAN : lb' = FetchLBPool(pair, byTree)
    /\ lbQuote' = [kind |-> "fetched"]
    /\ UNCHANGED <<pair, lbLogs, clock, txs>>

----------------------------------------------------------------------------
\* A pair with liquidity around its active bin, fetched at the first block.
LBInit ==
    /\ \E fees \in LBFeeParameters :
           pair = [active |-> 0, fees |-> fees, volRef |-> 0, idRef |-> 0, volAcc |-> 0, time |-> 1,
                   bins |-> [id \in LBBins |-> [x |-> IF id >= 0 THEN LBDeposit ELSE 0,
                                                y |-> IF id <= 0 THEN LBDeposit ELSE 0]]]
    /\ lb = FetchLBPool(pair, TRUE) /\ lbLogs = <<>> /\ clock = 1 /\ txs = 0 /\ lbQuote = NoQuote

LBNext ==
    \/ LBSwap \/ LBComposition \/ LBFlashLoan \/ LBSetFees \/ LBTick
    \/ \E id \in LBBins : LBMint(id) \/ LBBurn(id)
    \/ LBApplyLog \/ LBAskInput \/ LBRefetch

LBSpec == LBInit /\ [][LBNext]_lbVars

----------------------------------------------------------------------------
(* Properties. *)

\* What the pool keeps is sound whatever logs wait: no bin is kept empty or below
\* zero, and the accumulator is within the maximum it was made under.
LBTypeOK ==
    lb # NoPool =>
        /\ lb.active \in LBBins /\ lb.idRef \in LBBins /\ lb.time \in 1..clock
        /\ lb.fees \in LBFeeParameters
        /\ \E f \in LBFeeParameters : lb.volAcc \in 0..f.max /\ lb.volRef \in 0..f.max
        /\ \A id \in DOMAIN lb.bins : /\ lb.bins[id].x \in Nat /\ lb.bins[id].y \in Nat
                                      /\ lb.bins[id].x + lb.bins[id].y > 0

\* With every log applied the pool is the pair: bins, active bin, accumulator,
\* both references and their clock, although the pool updates its references
\* once per log and the pair once per swap (apply_log's comment on
\* filter_period), and although logs wait to be applied while time passes. A
\* fetch, by the tree or by walking, finds the same pool.
LBMatchesPair == lbLogs = <<>> => lb = pair

\* The pair pays what the pool quoted for that block's time.
LBQuoteIsPaid == lbQuote.kind = "swap" => lbQuote.paid = lbQuote.quoted

\* The input calculate_input_at asks for is enough for the output wanted.
LBInputSuffices == lbQuote.kind = "input" /\ lbQuote.left = 0 => lbQuote.out >= lbQuote.want
=============================================================================
