SPECIFICATION Spec
CONSTANTS
    j1 = j1  j2 = j2  a = a  b = b  None = none
    Id = {j1, j2}
    Key = {a, b}
    Script = {"keep", "append"}
    Outcome <- Outcomes
    Node = {"rpc1"}
    Attempts = 3
    MaxStalledCount = 1
    MaxCrashes = 2
    MaxDrops = 1
CHECK_DEADLOCK FALSE
INVARIANTS TypeOK AllOrNothing RepeatedWhenLostOnly LateWriteOnce
PROPERTIES JobsEnd
