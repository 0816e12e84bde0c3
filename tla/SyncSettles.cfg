SPECIFICATION FairSpec
CONSTANTS
    p1 = p1
    t1 = t1
    t2 = t2
    t3 = t3
    None = None
    Trigger <- OneTrigger
    Pda <- OnePda
    IndexerOf <- T1OfI1
    PdaOf <- T1OnP1
    GET_INDEXER_PAGING = 1
    Attempts = 2
    MaxStalledCount = 1
    MaxVersion = 2
    MaxFaults = 2
INVARIANTS TypeOK Accounted NoStuckJob
PROPERTIES MirrorsAccounts Settles
CHECK_DEADLOCK FALSE
