SPECIFICATION Spec
CONSTANTS
    Upload = {1, 2, 3, 4}
    FileName <- Names
    HashId <- Hashes
    PageSize = 1
    MaxTime = 1
CHECK_DEADLOCK FALSE
INVARIANTS TypeOK OwnContent OnlyFailuresLeaveFiles ListingComplete
