SPECIFICATION FairSpec
CONSTANTS
    Branches = 2
    Timed = {1}
    MaxCalls = 2
    MaxSpawns = 2
    Permits = 1
INVARIANTS PermitsConserved NothingOutlives NormalEndKeepsWork WaitIsRight
PROPERTY GroupJoins
CHECK_DEADLOCK FALSE
