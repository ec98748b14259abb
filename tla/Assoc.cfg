SPECIFICATION Spec
CONSTANTS
    Keys <- Keys3
    PrimKeys <- Keys3
    Vals = {0, 1, 2, 3}
    SecKey <- PartOf
    Uses <- LinkUses
    MaxM = 8
    MaxFree = 2
    MaxSlots = 4
INVARIANTS
    TypeOK
    InStep
    NeverUndercounted
    FindsApart
CHECK_DEADLOCK FALSE
