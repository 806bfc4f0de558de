SPECIFICATION StableSpec
CONSTANTS
    u1 = u1
    u2 = u2
    Users = {u1}
    Pool = Pool
    Endowment = 12
    Fees = {3, 5}
    FeeDenominator = 4
    DepositAmounts = {1, 10}
    ShareAmounts = {1, 2}
    TradeAmounts = {1}
    MaxSupply = 30
    Minimums = {0}
    LeadTimes = {0}
    I128Max = 5000000
    MaxRounds = 256
    Coefficients = {1, 2}
    MaxA = 3
    MinRampTime = 1
    MaxTime = 2
    U128Modulus = 100
PROPERTIES NeverLowersD
SYMMETRY UserSymmetry
CHECK_DEADLOCK FALSE
