SPECIFICATION Spec
CONSTANTS
    Keys <- Keys3
    Vals = {1}
    InitM = 2
    Hash <- Identity
    Clients = {c1, c2}
    c1 = c1
    c2 = c2
    Uses <- CarefulUses
    MaxM = 8
INVARIANTS
    TypeOK
    Accounted
    Complete
    Once
PROPERTIES
    Undisturbed
    Ends
