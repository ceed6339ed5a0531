-------------------------------- MODULE MCV3 --------------------------------
(* V3Pool on ticks -8..8 of 10% each, with words of two usable ticks; and the  *)
(* pool's check on its own fee, as a state space beside it.                  *)
EXTENDS V3Pool, SwapFees

VARIABLE side    \* what this behaviour is about: the pool's price, or its fee

MCPowers == <<931, 846, 699, 478>>
MCRanges == {<<-6, 2>>, <<-2, 4>>, <<4, 6>>}

MCInit == side \in {"price", "fee"} /\ Init /\ SwapFeesInit

MCNext ==
    \/ side = "price" /\ Next /\ UNCHANGED <<swapFeeVars, side>>
    \/ side = "fee" /\ SwapFeesNext /\ UNCHANGED <<vars, side>>

\* The fee side needs one pool, the price side one fee held.
MCStart == MCInit /\ IF side = "fee" THEN pool.search = "WordBounded" /\ pool.fee = 0 ELSE held = 0

MCSpec == MCStart /\ [][MCNext]_<<vars, swapFeeVars, side>>
=============================================================================
