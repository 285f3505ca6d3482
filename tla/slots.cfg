SPECIFICATION FairSpec
CONSTANTS
    Runs = {r1, r2}
    Calls = {c1}
    Slots = 1
    MaxLegs = 3
    MaxLaunches = 3
INVARIANTS SlotsConserved WorkingIsDriven
PROPERTIES CancelSticks QueuedMoves AllEnd
CHECK_DEADLOCK FALSE
