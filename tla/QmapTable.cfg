SPECIFICATION Spec
CONSTANTS
    Keys <- Keys3
    Vals = {1}
    Uses <- TableUses
    MaxM = 8
INVARIANTS
    TypeOK
    PositionsOK
    InBounds
    CountOK
    SlotsOK
    Slotted
    Accepts
