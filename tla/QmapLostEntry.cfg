SPECIFICATION Spec
CONSTANTS
    Keys <- Keys4
    Vals = {1, 2}
    Uses <- DeletingUses
    MaxM = 4
INVARIANT
    Reachable
