SPECIFICATION RoutingSpec
CONSTANTS
    Pools <- MCPools
    Tokens = {1, 2, 3, 4}
    Listing <- MCListing
    InitialRow <- MCRow
    Changes <- MCChanges
    Questions <- MCQuestions
    MaxHops = 4
    MaxRoutes = 2
    Rebuilds = {a, b}
    Requests = {r}
    NoGraph = NoGraph
    NoQuote = NoQuote
    FEE_DENOMINATOR = 100
    MINIMUM_LIQUIDITY = 1
    Iterations = 1
    GraphLimit = 1000
    MaxChanges = 1
    MaxFailures = 1
    MaxRestarts = 1
INVARIANTS QuoteIsExecutable SearchIsComplete
PROPERTY QuotesCatchUp
CHECK_DEADLOCK FALSE
