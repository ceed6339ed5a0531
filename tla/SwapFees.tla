------------------------------ MODULE SwapFees ------------------------------
(***************************************************************************)
(* The check a V3 pool keeps on its own fee (src/src/v3/pool.rs): Algebra    *)
(* Integral's SwapFee log says what a swap paid, and a pool whose recent     *)
(* swaps paid more than the fee it holds stops quoting until that clears.    *)
(* The fee held moves meanwhile, by Fee events and the fee reader.          *)
(***************************************************************************)
EXTENDS Naturals, Sequences, FiniteSets

CONSTANTS SwapFeeWindow, SwapFeeMissesToStop,
          SwapFeeValues,    \* fees, overrides and plugin fees
          SwapFeeMaxSwaps   \* bound: swaps

ASSUME SwapFeesAssumption ==
    /\ SwapFeeWindow \in Nat \ {0} /\ SwapFeeMissesToStop \in 1..SwapFeeWindow
    /\ SwapFeeValues \subseteq Nat /\ SwapFeeMaxSwaps \in Nat

VARIABLES held,      \* UniswapV3Pool.fee
          misses,    \* swap_fee_misses, oldest first
          swapped    \* history: what every swap paid, and the fee held then

swapFeeVars == <<held, misses, swapped>>

\* The paying side of a SwapFee log: an override replaces the fee, a plugin fee
\* comes on top.
PaidFee(override, plugin) == (IF override # 0 THEN override ELSE held) + plugin

\* record_swap_fee: the window drops its oldest entry once it is over full.
RecordSwapFeeLong(missed) ==
    LET all == Append(misses, missed)
    IN IF Len(misses) > SwapFeeWindow THEN Tail(all) ELSE all
RecordSwapFee(missed) ==
    LET all == Append(misses, missed)
    IN IF Len(all) > SwapFeeWindow THEN Tail(all) ELSE all

\* fee_unpredictable: calculate_exact_input and calculate_exact_output refuse.
FeeUnpredictable == Cardinality({i \in DOMAIN misses : misses[i]}) >= SwapFeeMissesToStop

SwapFeesInit == held \in SwapFeeValues /\ misses = <<>> /\ swapped = <<>>

ApplySwapFee ==
    /\ Len(swapped) < SwapFeeMaxSwaps
    /\ \E override, plugin \in SwapFeeValues :
           LET paid == PaidFee(override, plugin)
           IN /\ misses' = RecordSwapFee(paid > held)
              /\ swapped' = Append(swapped, [paid |-> paid, held |-> held])
    /\ UNCHANGED held

\* set_fee.
SetHeldFee == held' \in SwapFeeValues /\ UNCHANGED <<misses, swapped>>

SwapFeesNext == ApplySwapFee \/ SetHeldFee
SwapFeesSpec == SwapFeesInit /\ [][SwapFeesNext]_swapFeeVars

\* The pool quotes exactly while fewer than SwapFeeMissesToStop of its last
\* SwapFeeWindow swaps paid more than the fee held at their time, however the
\* fee held moved in between: it neither forgets a miss early nor stays silent
\* after the misses have left the window.
QuotesFollowSwaps ==
    LET n == Len(swapped)
        recent == {i \in 1..n : i > n - SwapFeeWindow /\ swapped[i].paid > swapped[i].held}
    IN FeeUnpredictable <=> Cardinality(recent) >= SwapFeeMissesToStop
=============================================================================
