SPECIFICATION TwapSpec
CONSTANTS
    u1 = u1
    u2 = u2
    Pool = Pool
    NoAddress = NoAddress
    NoTime = NoTime
    Users = {u1, u2}
    Address = {u1, u2, Pool}
    PerUserA = 2
    PerUserB = 2
    Endowment <- MCEndowment
    Amounts = {1}
    TradeAmounts = {1, 2}
    FlashAmounts = {0, 2}
    MinAmounts = {0, 2}
    LeadTimes <- MCLeadTimes
    Spenders = {u2}
    FeeTiers = {1}
    FeeDenominator = 2
    ProtocolFeeBps = 2
    MinimumLiquidity = 1
    I128Max = 12
    PriceScale = 4
    U32Modulus = 8
    MaxTime = 1
    MaxFees = 2
    HostReadsU32AsI128 = TRUE
    PoolAuthorisesItself = TRUE
PROPERTY SwapAccumulatesPrices
CHECK_DEADLOCK FALSE
