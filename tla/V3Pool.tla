------------------------------- MODULE V3Pool -------------------------------
(***************************************************************************)
(* A Uniswap V3-like pool (src/src/v3/pool.rs): fetched from the chain       *)
(* (v3/fetcher.rs), kept current by its Mint, Burn and Swap logs, and asked  *)
(* for quotes (swap_math.rs). The chain's side is external: the positions,   *)
(* the price, and the bitmap or tree of initialized ticks a fetch reads.     *)
(***************************************************************************)
EXTENDS V3Math

CONSTANTS Ranges,       \* the <<lower, upper>> ticks positions use
          Amount,       \* the liquidity of one mint
          MaxPosition,  \* bound: liquidity of a position
          Spacing,      \* tick_spacing
          Fees,         \* the fee a pool may have
          TreeSize,     \* children of a node of Algebra's tick tree (256)
          Offsets,      \* how far above a tick's ratio a swap may leave the price
          Quotes        \* the amounts quoted

ASSUME V3PoolAssumption ==
    /\ Ranges \subseteq ((MinTick..MaxTick) \X (MinTick..MaxTick))
    /\ \A r \in Ranges : r[1] < r[2] /\ r[1] % Spacing = 0 /\ r[2] % Spacing = 0
    /\ {Amount, MaxPosition, Spacing, TreeSize} \subseteq Nat \ {0}
    /\ Fees \subseteq 0..(MaxFee - 1) /\ Offsets \subseteq Nat /\ Quotes \subseteq Nat

VARIABLES positions,    \* chain: the liquidity of each range
          pool,         \* the local UniswapV3Pool
          calls         \* the quotes a caller has made of this state of the pool

vars == <<positions, pool, calls>>

\* UniswapV3Pool::tick_search.
TickSearch(type) == IF type = "AlgebraV3" THEN "NextInitialized" ELSE "WordBounded"

\* The calls each contract answers, of the ones a fetch tries. External.
Answers == [Uniswap |-> {"slot0"}, Clp |-> {"clpSlot0"}, Ramses |-> {"slot0", "lastPeriod"},
            RamsesClp |-> {"clpSlot0", "lastPeriod"}, FeeInState |-> {"feeState"},
            TwoSideFee |-> {"activeIncentive", "twoSideState"}, Integral |-> {"pluginState"}]

\* fetch_v3_pool: the type, from the first answer in this order; Ramses marks
\* one that nothing else claimed.
PoolType(answers) ==
    LET uniswap == IF "lastPeriod" \in answers THEN "RamsesCL" ELSE "UniswapV3"
    IN CASE "clpSlot0" \in answers -> uniswap
         [] {"clpSlot0", "feeState"} \cap answers = {"feeState"} -> "AlgebraPoolFeeInState"
         [] {"clpSlot0", "feeState", "activeIncentive"} \cap answers = {"activeIncentive"}
                -> "AlgebraTwoSideFee"
         [] {"clpSlot0", "feeState", "activeIncentive", "pluginState"} \cap answers = {"pluginState"}
                -> "AlgebraV3"
         [] OTHER -> uniswap

Covers(r, t) == r[1] <= t /\ t < r[2]

\* The chain's own accounts of its positions.
LiquidityAt(book, t) == SumFunctionOnSet(book, {r \in Ranges : Covers(r, t)})
GrossAt(book, t) == SumFunctionOnSet(book, {r \in Ranges : t \in {r[1], r[2]}})
NetAt(book, t) == SumFunctionOnSet(book, {r \in Ranges : r[1] = t})
                  - SumFunctionOnSet(book, {r \in Ranges : r[2] = t})
Initialized(book) == {t \in MinTick..MaxTick : GrossAt(book, t) > 0}

TypeOK ==
    /\ positions \in [Ranges -> 0..MaxPosition]
    /\ pool.search \in {"WordBounded", "NextInitialized"}
    /\ pool.tick \in MinTick..MaxTick /\ pool.price \in MinSqrtRatio..MaxSqrtRatio
    /\ pool.liquidity \in Nat
    /\ DOMAIN pool.ticks \subseteq MinTick..MaxTick
    /\ \A t \in DOMAIN pool.ticks : pool.ticks[t].gross \in Nat \ {0}
    /\ Len(calls) <= 2

----------------------------------------------------------------------------
(* Fetching *)

\* UniswapV3Pool::tick_to_word: toward negative infinity.
TickToWord(tick) ==
    LET compressed == tick \div Spacing
    IN compressed \div WordSize

\* tickBitmap(word) on chain: external.
Bitmap(book, word) ==
    {i \in 0..(WordSize - 1) : (word * WordSize + i) * Spacing \in Initialized(book)}

\* fetch_v3_ticks, bitmap words: every word from the lowest tick's to the
\* highest's, and the ticks of their bits.
WordTicks(book) ==
    UNION {{(word * WordSize + i) * Spacing : i \in Bitmap(book, word)} :
               word \in TickToWord(MinTick)..TickToWord(MaxTick)}

\* Algebra Integral's tick tree on chain: a leaf of WordSize ticks, a second
\* layer and a root, with the leaves counted from the offset. External.
LayerOffset == DivCeil(MaxTick, WordSize)
Leaf(book, word) == {i \in 0..(WordSize - 1) : word * WordSize + i \in Initialized(book)}
SecondLayer(book, k) ==
    {j \in 0..(TreeSize - 1) : Leaf(book, k * TreeSize + j - LayerOffset) # {}}
Root(book) ==
    {k \in 0..((2 * LayerOffset) \div TreeSize) : SecondLayer(book, k) # {}}

\* fetch_v3_ticks, AlgebraV3: down the tree.
TreeTicks(book) ==
    LET leaves == UNION {{k * TreeSize + j - LayerOffset : j \in SecondLayer(book, k)} :
                             k \in Root(book)}
        found == UNION {{word * WordSize + i : i \in Leaf(book, word)} : word \in leaves}
    IN {t \in found : MinTick <= t /\ t <= MaxTick}

\* fetch_v3_pool at a block: state, then the ticks its type's index names, all
\* read at that block.
FetchPool(search, fee, book, price, tick) ==
    LET indices == IF search = "NextInitialized" THEN TreeTicks(book) ELSE WordTicks(book)
    IN [search |-> search, spacing |-> Spacing, fee |-> fee, price |-> price, tick |-> tick,
        liquidity |-> LiquidityAt(book, tick),
        ticks |-> [t \in indices |-> [net |-> NetAt(book, t), gross |-> GrossAt(book, t)]]]

Init ==
    /\ positions = [r \in Ranges |-> 0]
    /\ \E contract \in DOMAIN Answers, fee \in Fees :
           pool = FetchPool(TickSearch(PoolType(Answers[contract])), fee, positions, Ratio[0], 0)
    /\ calls = <<>>

----------------------------------------------------------------------------
(* Logs: what the chain did, and what apply_log makes of it. *)

\* update_tick: no gross liquidity removes the tick.
UpdateTickKeepsEmpty(ticks, t, net, gross) ==
    [u \in DOMAIN ticks \cup {t} |-> IF u = t THEN [net |-> net, gross |-> gross] ELSE ticks[u]]
UpdateTick(ticks, t, net, gross) ==
    IF gross = 0 THEN [u \in DOMAIN ticks \ {t} |-> ticks[u]]
    ELSE [u \in DOMAIN ticks \cup {t} |-> IF u = t THEN [net |-> net, gross |-> gross] ELSE ticks[u]]

NetOf(ticks, t) == IF t \in DOMAIN ticks THEN ticks[t].net ELSE 0
GrossOf(ticks, t) == IF t \in DOMAIN ticks THEN ticks[t].gross ELSE 0

\* Liquidity of the pool, when the position's range holds the current tick.
InRange(p, lower, upper) == p.tick >= lower /\ p.tick < upper

\* apply_mint_event.
ApplyMintInclusive(p, lower, upper, amount) ==
    LET low == UpdateTick(p.ticks, lower, NetOf(p.ticks, lower) + amount,
                          GrossOf(p.ticks, lower) + amount)
    IN IF lower >= upper THEN p
       ELSE [p EXCEPT !.ticks = UpdateTick(low, upper, NetOf(low, upper) - amount,
                                           GrossOf(low, upper) + amount),
                      !.liquidity = IF p.tick >= lower /\ p.tick <= upper THEN @ + amount ELSE @]
ApplyMint(p, lower, upper, amount) ==
    LET low == UpdateTick(p.ticks, lower, NetOf(p.ticks, lower) + amount,
                          GrossOf(p.ticks, lower) + amount)
    IN IF lower >= upper THEN p
       ELSE [p EXCEPT !.ticks = UpdateTick(low, upper, NetOf(low, upper) - amount,
                                           GrossOf(low, upper) + amount),
                      !.liquidity = IF InRange(p, lower, upper) THEN @ + amount ELSE @]

\* apply_burn_event: both ends are looked up before either is touched; what a
\* subtraction would take below zero is zero.
Saturating(n) == IF n < 0 THEN 0 ELSE n
ApplyBurn(p, lower, upper, amount) ==
    LET low == UpdateTick(p.ticks, lower, p.ticks[lower].net - amount,
                          Saturating(p.ticks[lower].gross - amount))
    IN IF lower >= upper \/ ~({lower, upper} \subseteq DOMAIN p.ticks) THEN p
       ELSE [p EXCEPT !.ticks = UpdateTick(low, upper, low[upper].net + amount,
                                           Saturating(low[upper].gross - amount)),
                      !.liquidity = IF InRange(p, lower, upper)
                                    THEN Saturating(@ - amount) ELSE @]

\* update_state refuses a zero price and a tick out of bounds.
UpdateState(p, price, tick, liquidity) ==
    IF price = 0 \/ Abs(tick) > MaxTick THEN p
    ELSE [p EXCEPT !.price = price, !.tick = tick, !.liquidity = liquidity]

Mint(r) ==
    /\ calls = <<>>
    /\ positions[r] + Amount <= MaxPosition
    /\ positions' = [positions EXCEPT ![r] = @ + Amount]
    /\ pool' = ApplyMint(pool, r[1], r[2], Amount)
    /\ UNCHANGED calls

\* Part of a position, all of it, or none (which only collects its fees).
Burn(r) ==
    /\ calls = <<>> /\ positions[r] > 0
    /\ \E amount \in {0, Amount \div 2, positions[r]} :
           /\ amount <= positions[r]
           /\ positions' = [positions EXCEPT ![r] = @ - amount]
           /\ pool' = ApplyBurn(pool, r[1], r[2], amount)
    /\ UNCHANGED calls

\* A swap leaves the price in a tick, or on the upper end of it after crossing
\* down; its log carries price, tick and the liquidity there.
Swap ==
    /\ calls = <<>>
    /\ \E tick \in MinTick..(MaxTick - 1), offset \in Offsets \cup {-1} :
           LET price == IF offset = -1 THEN Ratio[tick + 1] ELSE Ratio[tick] + offset
           IN /\ price < MaxSqrtRatio
              /\ offset # -1 => price < Ratio[tick + 1]
              /\ pool' = UpdateState(pool, price, tick, LiquidityAt(positions, tick))
    /\ UNCHANGED <<positions, calls>>

\* The pool fetched again, at the block its logs have reached.
Refetch ==
    /\ calls = <<>>
    /\ pool' = FetchPool(pool.search, pool.fee, positions, pool.price, pool.tick)
    /\ UNCHANGED <<positions, calls>>

----------------------------------------------------------------------------
(* Quotes: calculate_exact_input and calculate_exact_output, of the pool or of *)
(* a copy of it.                                                            *)

Call(p, zeroForOne, exactIn, amount) ==
    [pool |-> p, zeroForOne |-> zeroForOne, exactIn |-> exactIn, amount |-> amount,
     result |-> [status |-> "asked"]]

\* An amount left over is an error (calculate_zero_for_one, calculate_one_for_zero).
Succeeded(call) == call.result.status = "done" /\ call.result.remaining = 0

\* The pool as the chain would leave it after the swap.
After(p, s) == [p EXCEPT !.price = s.price, !.tick = s.tick, !.liquidity = s.liquidity]

\* What a caller asks first, and then: what the same input gives where steps do
\* not stop at words, what the output buys back, what the input asked for gives.
FirstCalls ==
    {Call(pool, z, e, a) : z, e \in BOOLEAN, a \in Quotes}
NextCalls(call) ==
    IF ~Succeeded(call) THEN {}
    ELSE IF call.exactIn
    THEN {Call(After(call.pool, call.result), ~call.zeroForOne, TRUE, call.result.calculated),
          Call([call.pool EXCEPT !.search = "NextInitialized"], call.zeroForOne, TRUE, call.amount)}
    ELSE {Call(call.pool, call.zeroForOne, TRUE, call.result.calculated)}

Quote ==
    \E call \in CASE calls = <<>> -> FirstCalls
                  [] Len(calls) = 1 -> NextCalls(calls[1])
                  [] OTHER -> {} :
        /\ calls' = Append(calls, [call EXCEPT !.result =
                        V3Swap(call.pool, call.zeroForOne, call.exactIn, call.amount)])
        /\ UNCHANGED <<positions, pool>>

Return == calls # <<>> /\ calls' = <<>> /\ UNCHANGED <<positions, pool>>

Next == (\E r \in Ranges : Mint(r) \/ Burn(r)) \/ Swap \/ Refetch \/ Quote \/ Return
Spec == Init /\ [][Next]_vars

----------------------------------------------------------------------------
(* Properties. *)

\* The tick map and the liquidity in range follow the chain's positions through
\* every sequence of mints, partial and full burns, swaps and fetches: a tick is
\* there exactly while some position ends at it (update_tick, apply_burn_event).
MapMatchesPositions ==
    /\ DOMAIN pool.ticks = Initialized(positions)
    /\ \A t \in DOMAIN pool.ticks :
           pool.ticks[t] = [net |-> NetAt(positions, t), gross |-> GrossAt(positions, t)]
    /\ pool.liquidity = LiquidityAt(positions, pool.tick)

\* v3_swap's loop ends, whatever the ticks and however the price sits on a tick
\* or a word edge, where a step moves nothing.
QuoteEnds == \A i \in 1..Len(calls) : calls[i].result.status # "loop"

\* A simulated swap ends in a state of the pool: the price is within its tick,
\* and the liquidity carried across every crossing is what the positions have
\* there. It never takes more than it was given.
SwapLandsOnPool ==
    \A i \in 1..Len(calls) :
        LET s == calls[i].result
        IN s.status = "done" =>
               /\ s.remaining \in 0..calls[i].amount
               /\ Ratio[s.tick] <= s.price /\ s.price <= Ratio[s.tick + 1]
               /\ s.liquidity = LiquidityAt(positions, s.tick)

TwoSucceeded == Len(calls) = 2 /\ Succeeded(calls[1]) /\ Succeeded(calls[2])

\* The input calculate_input asks for is enough: given to calculate_output, it
\* returns at least the output wanted.
InputSuffices ==
    TwoSucceeded /\ ~calls[1].exactIn => calls[2].result.calculated >= calls[1].amount

\* Swapping there and back never gains: every rounding favours the pool.
NoRoundTripGain ==
    TwoSucceeded /\ calls[2].zeroForOne # calls[1].zeroForOne
        => calls[2].result.calculated <= calls[1].amount

\* Stopping at word edges never raises a quote: a pool that stops there is not
\* quoted more than one that does not (TickSearch: skipping the edge "overstated
\* the output").
EdgesOnlyCost ==
    TwoSucceeded /\ calls[1].exactIn /\ calls[2].zeroForOne = calls[1].zeroForOne
        => calls[1].result.calculated <= calls[2].result.calculated
=============================================================================
