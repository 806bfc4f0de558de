SPECIFICATION IndexerSpec
CONSTANTS
    p1 = p1
    p2 = p2
    NoLedger = NoLedger
    Polls = {p1, p2}
    FairPolls = {p1}
    Event = {1, 2, 3}
    LedgerOf <- MCLedgerOf
    LastLedger = 4
    StartLedger = 1
    FallbackLedger = 2
    BatchSize = 2
    MaxKeys = 2
    KeepKeys = 1
    MaxFaults = 1
    MaxExpiries = 1
    MaxRestarts = 1
INVARIANTS IndexerInv HandedOnce NothingElseSkipped
PROPERTY CatchesUp
CHECK_DEADLOCK FALSE
