SPECIFICATION Spec
CONSTANTS
    None = None
    WalletTypes <- MCWalletTypes
    MaxAttempts = 2
    I128Max = 1000000
    FeeDenominator = 10
    MinimumLiquidity = 1
    FEE_DENOMINATOR = 10
    MINIMUM_LIQUIDITY = 1
    Iterations = 8
    Tokens = {"XLM", "USDC"}
    FirstIn = "XLM"
    FirstOut = "USDC"
    Amounts = {30, Decimal}
    Decimal = Decimal
    ActivePools <- MCActivePools
    Tolerances = {15}
    FirstTolerance = 5
    DisplayUnit = 5
    Rows <- MCRows
    PageLimit = 1
    PoolPages = {"add", "remove"}
    ListPages = {"list"}
    FirstAmounts = {2}
    SecondAmounts = {1}
    Percentages = {100}
    StandInSupply = 10
    MaxEdits = 2
    MaxVisits = 2
    Supplies = {1, 5, 12, 30}
INVARIANTS SessionsAgree QuoteMatchesInputs ListingIsCurrent ReviewIsWhatIsShown
INVARIANT ShareShownIsMinted
PROPERTY WaitsEnd
CHECK_DEADLOCK FALSE
