SPECIFICATION RowsSpec
CONSTANTS
    Pools = {"p", "q"}
    Wallets = {"ann", "bob"}
    Listing <- MCListing
    Seeded <- MCSeeded
    RawEvents <- MCRaw
    Named <- MCNamed
    Handlers = {h1, h2}
    CronJobs = {c}
    None = None
    NotANumber = NotANumber
    MaxHanded = 3
    MaxMishaps = 1
    MaxSnapshots = 1
SYMMETRY Interchangeable
INVARIANTS RowsTypeOK NoEventCountsTwice CalmRowsAreExact ReportsAddUp
CHECK_DEADLOCK FALSE
