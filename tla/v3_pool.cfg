SPECIFICATION MCSpec
CONSTANTS
    Q = 64
    Shift = 16
    Powers <- MCPowers
    MaxTick = 8
    WordSize = 2
    MaxFee = 100
    MaxSteps = 17
    Ranges <- MCRanges
    Amount = 40
    MaxPosition = 40
    Spacing = 2
    Fees = {0, 3}
    TreeSize = 4
    Offsets = {0, 2}
    Quotes = {1, 2, 3, 5, 8, 13}
    SwapFeeWindow = 3
    SwapFeeMissesToStop = 2
    SwapFeeValues = {0, 1, 2}
    SwapFeeMaxSwaps = 4
INVARIANTS TypeOK MapMatchesPositions QuoteEnds SwapLandsOnPool InputSuffices NoRoundTripGain EdgesOnlyCost QuotesFollowSwaps
