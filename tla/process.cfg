SPECIFICATION FairSpec
CONSTANTS
    Caller = {c1, c2}
    None = None
    Timed = {c1, c2}
    Faults = {"duplicate", "oversize", "deaf"}
    MaxRestarts = 1
    MaxKids = 2
INVARIANTS NoOrphan 
PROPERTIES CallsReturn CloseReturns
CHECK_DEADLOCK FALSE
