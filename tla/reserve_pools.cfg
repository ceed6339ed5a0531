SPECIFICATION Spec
CONSTANTS
    LBScale = 64
    LBPrecision = 1000
    LBMaxFee = 100
    LBUnit = 10
    LBBinStep = 1
    LBFeeParameters <- FeeParameters
    LBBins <- Bins
    LBShift = 4
    LBFanout = 2
    LBAmounts = {5, 30}
    LBDeposit = 20
    LBMaxTime = 5
    LBMaxTxs = 3
    V2Denominator = 10
    V2Fees = {0, 1}
    V2Exp = 8
    V2Decimals = {4, 8}
    V2MaxIterations = 24
    V2Reserves = {0, 20, 37, 90}
    V2Amounts = {1, 7, 30}
    V2MaxReserve = 45
    V2Width = 45000
    V2FeeBasis = 1000
    V2MaxSaneFee = 100
    V2GetFeeMax = 100
    V2ReverseFeeMax = 50
    V2PairReserves <- PairReserves
    V2Charged = {0, 3, 5, 10, 30, 50, 100}
INVARIANTS
    LBTypeOK
    V2TypeOK
    LBMatchesPair
    LBQuoteIsPaid
    LBInputSuffices
    V2InputSuffices
    FetchedFeeIsCharged
    StableQuoteConverges
    ReservesNoRoundTripGain
    SwapKeepsK
CHECK_DEADLOCK FALSE
