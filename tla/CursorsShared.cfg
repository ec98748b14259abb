SPECIFICATION Spec
CONSTANTS
    Keys <- Keys3
    Vals = {1}
    InitM = 2
    Hash <- Identity
    Clients = {c1, c2}
    c1 = c1
    c2 = c2
    Uses <- ConcurrentUses
    MaxM = 8
INVARIANT
    Complete
