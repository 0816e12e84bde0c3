SPECIFICATION Spec
CONSTANTS
    Indexer = {1, 2, 3}
    GET_INDEXER_PAGING = 2
    Attempts = 2
PROPERTY SweepComplete
