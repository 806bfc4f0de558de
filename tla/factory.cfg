SPECIFICATION FactorySpec
CONSTANTS
    c1 = c1
    c2 = c2
    f1 = f1
    f2 = f2
    Account = {c1, c2}
    NoAccount = NoAccount
    Token = {1, 2}
    FeeTier = {f1, f2}
    NoPool = NoPool
    CountModulus = 3
    MaxTime = 1
    PageSize = 2
INVARIANTS RecordsAgree PagesAreOrderly
PROPERTY FactoryImplementsRegistry
SYMMETRY FactorySymmetry
CHECK_DEADLOCK FALSE
