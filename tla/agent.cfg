SPECIFICATION FairSpec
CONSTANTS
    Callers = {c1, c2}
    Fallbacks = 1
    MaxAttempts = 2
    Concurrency = 1
    PerMinute = 1
INVARIANTS SlotsHonest OneLateRequest
PROPERTY CancelEnds
CHECK_DEADLOCK FALSE
