SPECIFICATION Spec
CONSTANTS
    p1 = p1
    t1 = t1
    t2 = t2
    t3 = t3
    None = None
    Trigger <- ThreeTriggers
    Pda <- OnePda
    IndexerOf <- TwoIndexers
    PdaOf <- AllOnP1
    GET_INDEXER_PAGING = 2
    Attempts = 2
    MaxStalledCount = 1
    MaxVersion = 2
    MaxFaults = 0
INVARIANTS Accounted NoStuckJob
PROPERTY MirrorsAccounts
CHECK_DEADLOCK FALSE
