SPECIFICATION MergeSpec
CONSTANTS
    Branches = 2
    Vars = {x, z}
    Ids = {r1, r2}
    Fields = {f, g}
    Links = {f}
    Null = Null
    One = One
    MaxWrites = 3
INVARIANT ChangesLand
SYMMETRY Alike
CHECK_DEADLOCK FALSE
