------------------------------- MODULE V2Pool -------------------------------
(***************************************************************************)
(* A Uniswap V2-like pool (src/src/v2/pool.rs), of constant product or       *)
(* stable, and an ERC-4626 vault (erc4626/standard.rs, verio_ip.rs): reserves *)
(* set or moved by logs, quotes, and the quote applied to the pool the way a *)
(* simulation does (apply_swap). Fees are out of V2Denominator; the stable   *)
(* curve's 10^18 is V2Exp. A vault's U256 totals wrap around at V2Width; the  *)
(* reserves of a pool are of 112 bits, and its products do not.              *)
(***************************************************************************)
EXTENDS Integers, Sequences, FiniteSets, FiniteSetsExt

CONSTANTS V2Denominator, V2Fees, V2Exp, V2Decimals, V2MaxIterations,
          V2Reserves,      \* reserves a Sync may announce
          V2Amounts,       \* amounts quoted
          V2MaxReserve,    \* bound: shares and assets of the vault contract
          V2Width,         \* 2^256
          V2FeeBasis, V2MaxSaneFee, V2GetFeeMax, V2ReverseFeeMax,
          V2PairReserves,  \* <<reserve0, reserve1>> of a pair that is fetched
          V2Charged        \* fees a pair that is fetched may charge, out of V2FeeBasis

ASSUME V2Assumption ==
    /\ {V2Denominator, V2Exp, V2MaxIterations, V2MaxReserve, V2Width} \subseteq Nat \ {0}
    /\ V2MaxReserve * V2MaxReserve * (2 * V2Denominator) < V2Width
    /\ V2Fees \subseteq 0..(V2Denominator - 1)
    /\ {V2FeeBasis, V2MaxSaneFee, V2GetFeeMax, V2ReverseFeeMax} \subseteq Nat \ {0}
    /\ V2MaxSaneFee < V2FeeBasis                     \* 100_000 of 1_000_000
    /\ V2GetFeeMax * (V2FeeBasis \div V2GetFeeMax) = V2FeeBasis   \* 10_000 * 100
    /\ V2PairReserves \subseteq Nat \X Nat /\ V2Charged \subseteq 0..V2MaxSaneFee
    /\ V2Decimals \subseteq Nat \ {0} /\ V2Exp \in V2Decimals
    /\ V2Reserves \subseteq Nat /\ V2Amounts \subseteq 0..V2MaxReserve

VARIABLES v2,        \* the pool, or the vault: r0 shares, r1 assets
          vault,     \* the vault contract's own totals
          v2Calls    \* calls on a copy of it, in order, each with the copy after it

v2Vars == <<v2, vault, v2Calls>>

Error == [ok |-> FALSE, amount |-> 0]
Ok(n) == [ok |-> TRUE, amount |-> n]

ReserveIn(p, z) == IF z THEN p.r0 ELSE p.r1
ReserveTo(p, z) == IF z THEN p.r1 ELSE p.r0
IsValid(p) == p.r0 > 0 /\ p.r1 > 0

----------------------------------------------------------------------------
(* The stable curve *)

\* k of reserves, f and its derivative d on scaled ones.
F(x, y) == (((x * y) \div V2Exp) * ((x * x) \div V2Exp + (y * y) \div V2Exp)) \div V2Exp
D(x, y) == (3 * x * ((y * y) \div V2Exp)) \div V2Exp + (((x * x) \div V2Exp) * x) \div V2Exp
Scaled(n, decimals) == (n * V2Exp) \div decimals
K(p, x, y) == IF p.type = "Stable" THEN F(Scaled(x, p.d0), Scaled(y, p.d1)) ELSE x * y

\* get_y stops from above at the curve or one unit above it.
AtCurveExactly(x0, xy, y) == F(x0, y) = xy
AtCurve(x0, xy, y) == F(x0, y) = xy \/ F(x0, y - 1) < xy

\* get_y: Newton's steps, down to one unit, from the reserve.
GetY(p, x0, xy, start) ==
    LET newton[n \in 0..V2MaxIterations] ==
            IF n = 0 THEN [y |-> start, done |-> FALSE]
            ELSE LET s == newton[n - 1]
                     k == F(x0, s.y)
                     slope == D(x0, s.y)
                     dy == IF k < xy THEN ((xy - k) * V2Exp) \div slope
                           ELSE ((k - xy) * V2Exp) \div slope
                     stop(y) == [y |-> y, done |-> TRUE]
                     go(y) == [y |-> y, done |-> FALSE]
                 IN CASE s.done -> s
                      [] ~s.done /\ k < xy /\ dy > 0 -> go(s.y + dy)
                      [] ~s.done /\ k < xy /\ dy = 0 ->
                             IF K(p, x0, s.y + 1) > xy THEN stop(s.y + 1) ELSE go(s.y + 1)
                      [] ~s.done /\ k >= xy /\ dy > 0 -> go(s.y - dy)
                      [] ~s.done /\ k >= xy /\ dy = 0 ->
                             IF AtCurve(x0, xy, s.y) THEN stop(s.y) ELSE go(s.y - 1)
        last == newton[V2MaxIterations]
    IN IF last.done THEN Ok(last.y) ELSE Error

\* calculate_stable_output.
StableOutput(p, z, amount) ==
    LET lessFee == (amount * (V2Denominator - p.fee)) \div V2Denominator
        dIn == IF z THEN p.d0 ELSE p.d1
        dOut == IF z THEN p.d1 ELSE p.d0
        to == Scaled(ReserveTo(p, z), dOut)
        y == GetY(p, Scaled(lessFee, dIn) + Scaled(ReserveIn(p, z), dIn), K(p, p.r0, p.r1), to)
    IN IF y.ok THEN Ok(((to - y.amount) * dOut) \div V2Exp) ELSE Error

----------------------------------------------------------------------------
(* Quotes *)

\* calculate_output_0_to_1 and calculate_output_1_to_0.
ProductOutputSpot(p, z, amount) ==
    LET out == (amount * (V2Denominator - p.fee) * ReserveTo(p, z))
                   \div (ReserveIn(p, z) * V2Denominator)
    IN IF out >= ReserveTo(p, z) THEN Error ELSE Ok(out)
ProductOutput(p, z, amount) ==
    LET withFee == amount * (V2Denominator - p.fee)
        out == (withFee * ReserveTo(p, z)) \div (ReserveIn(p, z) * V2Denominator + withFee)
    IN IF out >= ReserveTo(p, z) THEN Error ELSE Ok(out)

PoolOutput(p, z, amount) ==
    IF amount = 0 \/ ~IsValid(p) THEN Error
    ELSE IF p.type = "Stable" THEN StableOutput(p, z, amount) ELSE ProductOutput(p, z, amount)

\* calculate_input_0_to_1 and calculate_input_1_to_0: the constant product,
\* whatever the pool's type.
PoolInputExact(p, z, amount) ==
    IF amount = 0 \/ ~IsValid(p) \/ amount >= ReserveTo(p, z) THEN Error
    ELSE Ok((ReserveIn(p, z) * amount * V2Denominator)
                \div ((ReserveTo(p, z) - amount) * (V2Denominator - p.fee)))
PoolInput(p, z, amount) ==
    IF amount = 0 \/ ~IsValid(p) \/ amount >= ReserveTo(p, z) THEN Error
    ELSE Ok((ReserveIn(p, z) * amount * V2Denominator)
                \div ((ReserveTo(p, z) - amount) * (V2Denominator - p.fee)) + 1)

Wrap(n) == n % V2Width

\* The ratio and the fee, each product wrapped and each division rounded down.
VaultShareUp(p, z, amount) ==
    Wrap((Wrap(amount * ReserveTo(p, z) + ReserveIn(p, z) - 1) \div ReserveIn(p, z))
             * (V2Denominator - p.fee))
        \div V2Denominator
VaultShare(p, z, amount) ==
    Wrap((Wrap(amount * ReserveTo(p, z)) \div ReserveIn(p, z)) * (V2Denominator - p.fee))
        \div V2Denominator

\* ERC4626Standard::calculate_output and calculate_input, with the same ratio and
\* fee; a division by zero panics.
VaultOutput(p, z, amount) ==
    CASE amount = 0 -> Ok(0)
      [] amount > 0 /\ p.r0 = 0 -> Ok(amount)
      [] amount > 0 /\ p.r0 > 0 /\ p.r1 = 0 /\ ~z -> Error
      [] OTHER -> Ok(VaultShare(p, z, amount))
VaultInput(p, z, amount) ==
    CASE amount = 0 -> Ok(0)
      [] amount > 0 /\ p.r1 = 0 -> Ok(amount)
      [] amount > 0 /\ p.r1 > 0 /\ p.r0 = 0 /\ z -> Error
      [] OTHER -> Ok(VaultShare(p, z, amount))

CalculateInput(p, z, amount) ==
    IF p.type = "Vault" THEN VaultInput(p, z, amount) ELSE PoolInput(p, z, amount)
CalculateOutput(p, z, amount) ==
    IF p.type = "Vault" THEN VaultOutput(p, z, amount) ELSE PoolOutput(p, z, amount)

\* apply_swap.
ApplyPoolSwapOneWay(p, z, in, out) == [p EXCEPT !.r0 = @ + in, !.r1 = @ - out]
ApplyPoolSwap(p, z, in, out) ==
    IF z THEN [p EXCEPT !.r0 = @ + in, !.r1 = @ - out] ELSE [p EXCEPT !.r1 = @ + in, !.r0 = @ - out]

\* A vault's Deposit and Withdraw logs move its totals together; nothing stops a
\* withdrawal of more than they are.
VaultDeposit(p, assets, shares) == [p EXCEPT !.r0 = Wrap(@ + shares), !.r1 = Wrap(@ + assets)]
VaultWithdraw(p, shares, assets) == [p EXCEPT !.r0 = Wrap(@ - shares), !.r1 = Wrap(@ - assets)]

----------------------------------------------------------------------------
(* Fetching: the fee *)

\* getAmountOut of the pair itself. External.
PairQuote(r, charged, in) ==
    (in * (V2FeeBasis - charged) * r[2]) \div (r[1] * V2FeeBasis + in * (V2FeeBasis - charged))

\* calibrate_v2_fee: the fee solved from two of the pair's own quotes, when they
\* agree on one that is neither zero nor implausible.
SolveFeeTruncated(r, in, out) ==
    IF in = 0 \/ out = 0 \/ out >= r[2] THEN Error
    ELSE Ok(V2FeeBasis - (out * r[1] * V2FeeBasis) \div (in * (r[2] - out)))
SolveFee(r, in, out) ==
    LET denominator == in * (r[2] - out)
        rest == (out * r[1] * V2FeeBasis + denominator \div 2) \div denominator
    IN IF in = 0 \/ out = 0 \/ out >= r[2] \/ rest > V2FeeBasis THEN Error
       ELSE Ok(V2FeeBasis - rest)

CalibrateFee(r, charged) ==
    LET half == SolveFee(r, r[1] \div 2, PairQuote(r, charged, r[1] \div 2))
        fourfold == SolveFee(r, r[1] * 4, PairQuote(r, charged, r[1] * 4))
    IN IF r[1] = 0 \/ r[2] = 0 \/ half = Error \/ half # fourfold \/ half.amount = 0
          \/ half.amount > V2MaxSaneFee
       THEN Error ELSE half

\* normalise_reported_fee: three conventions in one number.
Multiplier == V2FeeBasis \div V2GetFeeMax
NormaliseReportedFee(raw) ==
    CASE raw > V2GetFeeMax -> raw
      [] raw > V2ReverseFeeMax /\ raw <= V2GetFeeMax -> (V2GetFeeMax - raw) * Multiplier
      [] OTHER -> raw * Multiplier

\* A pair that reports no fee has its factory's: the operator's override, the
\* chain's table, what the factory answers, or what an Aero factory that knows
\* the pair answers (get_v2_fee_from_factory).
AskedFactory(raw) == IF raw.ok THEN Ok(raw.amount * Multiplier) ELSE Error
FactoryFee(override, table, factory, aero) ==
    CASE override.ok -> override
      [] ~override.ok /\ table.ok -> table
      [] ~override.ok /\ ~table.ok /\ AskedFactory(factory).ok -> AskedFactory(factory)
      [] OTHER -> AskedFactory(aero)

\* fetch_v2_pool's fee: calibrated when the pair reports a fee, is not stable and
\* quotes itself, else as fee() (which may use any convention), getFee() or
\* swapFee() reports it, else the factory's; refused when implausible.
FetchFee(r, charged, stable, quotes, call, raw, factoryFee) ==
    LET calibrated == IF quotes /\ ~stable /\ call # "none" THEN CalibrateFee(r, charged) ELSE Error
        reported == CASE call = "fee" -> Ok(NormaliseReportedFee(raw))
                      [] call = "getFee" -> Ok(raw * Multiplier)
                      [] call = "none" -> factoryFee
        fee == IF calibrated.ok THEN calibrated ELSE reported
    IN IF fee.ok /\ fee.amount > V2MaxSaneFee THEN Error ELSE fee

----------------------------------------------------------------------------
(* The pool's life *)

\* fetch_verio_ip_pool, the only fetcher of a vault, asks the contract nothing: no
\* shares, no assets and no fee, whatever the contract holds.
V2Init ==
    /\ \E type \in {"UniswapV2", "Stable", "Vault"}, fee \in V2Fees, d0, d1 \in V2Decimals,
          r0, r1 \in V2Reserves :
           /\ type # "Stable" => d0 = V2Exp /\ d1 = V2Exp   \* read by the stable curve only
           /\ type = "Vault" => fee = 0 /\ {r0, r1} \subseteq 0..V2MaxReserve /\ (r0 = 0 <=> r1 = 0)
           /\ v2 = [type |-> type, fee |-> fee, d0 |-> d0, d1 |-> d1,
                    r0 |-> IF type = "Vault" THEN 0 ELSE r0,
                    r1 |-> IF type = "Vault" THEN 0 ELSE r1]
           /\ vault = [fee |-> 0, r0 |-> IF type = "Vault" THEN r0 ELSE 0,
                                  r1 |-> IF type = "Vault" THEN r1 ELSE 0]
    /\ v2Calls = <<>>

\* Sync: the reserves are the log's (update_reserves).
Sync ==
    /\ v2.type # "Vault" /\ v2Calls = <<>>
    /\ \E r0, r1 \in V2Reserves : v2' = [v2 EXCEPT !.r0 = r0, !.r1 = r1]
    /\ UNCHANGED <<vault, v2Calls>>

\* A vault's log. The amounts are the contract's, out of its own totals: a share
\* withdrawn may be older than the pool.
VaultLog ==
    /\ v2.type = "Vault" /\ v2Calls = <<>>
    /\ \E amount \in V2Amounts :
           \/ LET shares == VaultOutput(vault, FALSE, amount).amount
              IN /\ vault.r0 + shares <= V2MaxReserve /\ vault.r1 + amount <= V2MaxReserve
                 /\ vault' = VaultDeposit(vault, amount, shares)
                 /\ v2' = VaultDeposit(v2, amount, shares)
           \/ LET assets == VaultOutput(vault, TRUE, amount).amount
              IN /\ amount <= vault.r0
                 /\ vault' = VaultWithdraw(vault, amount, assets)
                 /\ v2' = VaultWithdraw(v2, amount, assets)
    /\ UNCHANGED v2Calls

V2Call(kind, z, in, out, pool) == [kind |-> kind, z |-> z, in |-> in, out |-> out, pool |-> pool]

\* fetch_v2_pool of a pair that reports its fee in one convention or another, or
\* not at all; without any fee it is refused.
Reported(call, charged) ==
    CASE call = "fee" -> {charged \div Multiplier, charged, V2GetFeeMax - charged \div Multiplier}
      [] call = "getFee" -> {charged \div Multiplier}
      [] call = "none" -> {0}

FetchPair ==
    /\ v2Calls = <<>> /\ v2.type # "Vault"
    /\ \E r \in V2PairReserves, charged \in V2Charged, quotes \in BOOLEAN,
          call \in {"fee", "getFee", "none"} :
           \E raw \in Reported(call, charged), override, table \in {Error, Ok(charged)},
              factory, aero \in {Error, Ok(charged \div Multiplier)} :
               LET stable == v2.type = "Stable"
                   fee == FetchFee(r, charged, stable, quotes, call, raw,
                                   FactoryFee(override, table, factory, aero))
                   kind == IF quotes /\ ~stable /\ call # "none" THEN "fetched" ELSE "reported"
               IN /\ fee.ok
                  /\ v2Calls' = <<V2Call(kind, TRUE, charged, fee.amount,
                                         [v2 EXCEPT !.r0 = r[1], !.r1 = r[2], !.fee = fee.amount])>>
    /\ UNCHANGED <<v2, vault>>

\* calculate_output; calculate_input with calculate_output of its answer.
AskOutput ==
    /\ v2Calls = <<>>
    /\ \E z \in BOOLEAN, amount \in V2Amounts :
           LET out == CalculateOutput(v2, z, amount)
           IN v2Calls' = <<V2Call(IF out.ok THEN "output" ELSE "error", z, amount, out.amount, v2)>>
    /\ UNCHANGED <<v2, vault>>

AskInput ==
    /\ v2Calls = <<>>
    /\ \E z \in BOOLEAN, amount \in V2Amounts :
           LET in == CalculateInput(v2, z, amount)
               out == CalculateOutput(v2, z, in.amount)
           IN /\ in.ok /\ out.ok
              /\ v2Calls' = <<V2Call("input", z, in.amount, amount, v2),
                              V2Call("output", z, in.amount, out.amount, v2)>>
    /\ UNCHANGED <<v2, vault>>

\* A simulation takes the quote on its copy: apply_swap, refused when the output
\* is the whole reserve; on a vault, the log the deposit or withdrawal leaves.
TakeQuote ==
    /\ Len(v2Calls) = 1 /\ v2Calls[1].kind = "output"
    /\ LET c == v2Calls[1]
           after == CASE v2.type # "Vault" -> ApplyPoolSwap(v2, c.z, c.in, c.out)
                      [] v2.type = "Vault" /\ c.z -> VaultWithdraw(v2, c.in, c.out)
                      [] v2.type = "Vault" /\ ~c.z -> VaultDeposit(v2, c.in, c.out)
       IN /\ v2.type # "Vault" => c.out < ReserveTo(v2, c.z)
          /\ v2Calls' = Append(v2Calls, V2Call("taken", c.z, c.in, c.out, after))
    /\ UNCHANGED <<v2, vault>>

\* And sells back what it got.
SellBack ==
    /\ Len(v2Calls) = 2 /\ v2Calls[2].kind = "taken"
    /\ LET c == v2Calls[2]
           back == CalculateOutput(c.pool, ~c.z, c.out)
       IN v2Calls' = Append(v2Calls, V2Call(IF back.ok THEN "back" ELSE "error", ~c.z, c.out,
                                            back.amount, c.pool))
    /\ UNCHANGED <<v2, vault>>

V2Return == v2Calls # <<>> /\ v2Calls' = <<>> /\ UNCHANGED <<v2, vault>>

V2Next == FetchPair \/ Sync \/ VaultLog \/ AskOutput \/ AskInput \/ TakeQuote \/ SellBack \/ V2Return

V2Spec == V2Init /\ [][V2Next]_v2Vars

----------------------------------------------------------------------------
(* Properties. *)

\* No reserve and no quote of a pool is negative: neither get_y's steps, nor the
\* reserve less get_y's answer, nor apply_swap wraps around. A vault's totals
\* do, and are only within their width.
V2TypeOK ==
    v2.type # "none" =>
        /\ v2.r0 \in Nat /\ v2.r1 \in Nat
        /\ v2.type = "Vault" => v2.r0 < V2Width /\ v2.r1 < V2Width
        /\ \A i \in DOMAIN v2Calls : /\ v2Calls[i].in \in Nat /\ v2Calls[i].out \in Nat
                                     /\ v2Calls[i].pool.r0 \in Nat /\ v2Calls[i].pool.r1 \in Nat

\* calculate_input of a constant-product pool asks for enough: its +1 makes up
\* for every rounding of calculate_output. (A stable pool's calculate_input
\* uses the constant product too, which is not its curve, and a vault's uses
\* calculate_output's ratio and fee: neither keeps this.)
V2InputSuffices ==
    v2.type = "UniswapV2" /\ Len(v2Calls) = 2 /\ v2Calls[1].kind = "input"
        => v2Calls[2].out >= v2Calls[1].out

\* A pair that quotes itself is stored with the fee it charges, whatever its
\* fee() reports, once its reserves are large enough for both probes to be
\* quoted and for an integer quote to tell two fees apart (a second reserve of
\* 25/2 times the fee basis, from the fourfold probe).
FetchedFeeIsCharged ==
    v2Calls # <<>> /\ v2Calls[1].kind = "fetched" /\ v2Calls[1].in > 0
        /\ v2Calls[1].pool.r0 > 1 /\ 2 * v2Calls[1].pool.r1 > 25 * V2FeeBasis
    => v2Calls[1].out = v2Calls[1].in

\* Newton's iteration of get_y ends, on a pool with reserves: calculate_output
\* has an answer for every amount that its type's rules do not refuse.
StableQuoteConverges ==
    v2.type = "Stable" /\ IsValid(v2) /\ v2Calls # <<>> => v2Calls[1].kind # "error"

\* The totals of a vault with shares and assets, that have not wrapped around.
Held(p) == p.r0 \in 1..V2MaxReserve /\ p.r1 \in 1..V2MaxReserve

\* Buying and selling back gains nothing, on any type of pool: the quote and
\* apply_swap (or the vault's logs) round against the trader together. (The
\* first shares of an empty vault own whatever was left in it.)
ReservesNoRoundTripGain ==
    /\ Len(v2Calls) = 3 /\ v2Calls[3].kind = "back"
    /\ v2.type = "Vault" => Held(v2) /\ Held(v2Calls[2].pool)
    => v2Calls[3].out <= v2Calls[1].in

\* No swap taken at its quote lowers the pool's invariant (constant product, or
\* the stable curve's k).
SwapKeepsK ==
    Len(v2Calls) >= 2 /\ v2Calls[2].kind = "taken" /\ v2.type # "Vault"
        => K(v2, v2Calls[2].pool.r0, v2Calls[2].pool.r1) >= K(v2, v2.r0, v2.r1)
=============================================================================
