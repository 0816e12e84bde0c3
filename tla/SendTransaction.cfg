SPECIFICATION Spec
CONSTANTS
    Retries = 0
    DefaultRetries = 3
CHECK_DEADLOCK FALSE
INVARIANTS TypeOK ExecutedAtMostOnce OneResender
PROPERTIES SentMeansReached CallEnds
