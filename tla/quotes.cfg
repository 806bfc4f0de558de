SPECIFICATION QuoteSpec
CONSTANTS
    I128Max = 1000000000
    SqrtWidth = 2047
    FeeDenominator = 10
    MinimumLiquidity = 1
    FEE_DENOMINATOR = 10
    MINIMUM_LIQUIDITY = 1
    Iterations = 256
    MaxRounds = 256
    Q96 = 8
    FEE_BASE = 4
    MaxReserve = 12
    MaxAmount = 8
    MaxBalance = 40
    MaxPaid = 6
    Coefficients = {1, 2, 5}
    MaxPrice = 12
    MaxLiquidity = 10
INVARIANTS AskedInputSuffices SplittingNeverPays ProductQuotesAgree
INVARIANTS DIsNotBelow YIsOnCurve  StepStaysInRange
INVARIANT ReturnsRoot
PROPERTY Terminates
CHECK_DEADLOCK FALSE
