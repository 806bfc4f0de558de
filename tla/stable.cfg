SPECIFICATION StableSpec
CONSTANTS
    u1 = u1
    u2 = u2
    Users = {u1, u2}
    Pool = Pool
    Endowment = 2
    Fees = {3, 5}
    FeeDenominator = 4
    DepositAmounts = {0, 2}
    ShareAmounts = {1, 2}
    TradeAmounts = {1}
    MaxSupply = 8
    Minimums = {0}
    LeadTimes = {0}
    I128Max = 100000
    MaxRounds = 256
    Coefficients = {1, 3}
    MaxA = 3
    MinRampTime = 1
    MaxTime = 2
    U128Modulus = 100
INVARIANT StableSolvent
PROPERTIES RampIsContinuous RampIsGradual WithdrawalKeepsProportion
SYMMETRY UserSymmetry
CHECK_DEADLOCK FALSE
