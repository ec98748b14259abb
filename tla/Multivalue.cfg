SPECIFICATION Spec
CONSTANTS
    Keys <- Keys3
    Vals = {1}
    InitM = 2
    Hash <- Clash
    MaxN = 4
    MaxCalls = 9
INVARIANTS
    TypeOK
    PositionsOK
    CountOK
    SortedOK
    SearchOK
PROPERTY
    ImplementsMultiMap
CHECK_DEADLOCK FALSE
