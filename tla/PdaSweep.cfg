SPECIFICATION FairSpec
CONSTANTS
    Indexer = {1, 2, 3, 4, 5}
    GET_INDEXER_PAGING = 2
    Attempts = 2
INVARIANTS TypeOK FanOutBounded
PROPERTIES SmallSweepComplete SweepEnds
