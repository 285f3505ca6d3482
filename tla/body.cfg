SPECIFICATION StepSpec
CONSTANTS
    Local = {"a"}
    Inputs = {"i"}
    PipeVars = {"p"}
    MaxTurns = 2
    MaxStatements = 3
INVARIANTS ConstForetold DivertsForetold TypesForetold SignalsLeave
CHECK_DEADLOCK FALSE
