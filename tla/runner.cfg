SPECIFICATION FairSpec
CONSTANTS
    Last = 2
    Groups = {2}
    Timed = {2}
    Strategies = {"per_step", "other", "off"}
    MaxVisits = 2
    MaxLegs = 4
INVARIANT PauseIsSaved SkippedWereDone
PROPERTY Continues PauseReenters LegEnds
CHECK_DEADLOCK FALSE
