SPECIFICATION Spec
CONSTANTS
    Runs = {r1, r2}
    Calls = {c1}
    Slots = 1
    MaxLegs = 3
    MaxLaunches = 3
INVARIANT DoneClosedOnce
CHECK_DEADLOCK FALSE
