SPECIFICATION Spec
CONSTANTS
    Leg = {l1, l2}
    NoLeg = NoLeg
    TTL = 6
    Heartbeat = 2
    RenewBudget = 1
    ConfirmMargin = 1
    MaxTrip = 0
    MaxClock = 7
    MaxSaves = 2
 
PROPERTY NoLostCheckpoint NoTheft
PROPERTY ImplementsLease
SYMMETRY LegSymmetry
CHECK_DEADLOCK FALSE
