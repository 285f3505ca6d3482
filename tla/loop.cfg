SPECIFICATION Spec
CONSTANTS
    Procs = {p1, p2, p3}
    Sessions = {s1, s2}
    None = None
    MaxIterations = 3
    MaxInstances = 3
INVARIANTS MemKept ResumesAtCheckpoint 
PROPERTY ProgressKept
CHECK_DEADLOCK FALSE
SYMMETRY Alike
