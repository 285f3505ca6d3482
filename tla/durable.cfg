SPECIFICATION Spec
CONSTANTS
    Replica = {r1, r2}
    None = None
    MaxObjects = 2
    Faults = {"crash", "stall", "store"}
    MaxFaults = 1
    MaxRequests = 2
    MaxEvents = 2
 
PROPERTY ClaimsPending AcceptedRuns 
CHECK_DEADLOCK FALSE
