SPECIFICATION Spec
CONSTANTS
    fx = fx
    fy = fy
    g = g
    NODB = NODB
    NONE = NONE
    NULL = NULL
    Maps = {fx, fy, g}
    FileOf <- TwoFiles
    DbOf <- Databases
    Keys = {k}
    Vals = {v, w}
    Records = 2
    LastHandle = 5
    Uses <- BothDatabases
INVARIANT
    ReadsBack
