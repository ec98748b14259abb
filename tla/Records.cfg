SPECIFICATION Spec
CONSTANTS
    a = a
    b = b
    c = c
    Sources = {a, b, c}
    Targets = {x, y}
    NULL = NULL
    WORD = WORD
    Uses <- Writing
    MaxLines = 2
INVARIANTS
    TypeOK
    InverseExact
    ListedOnce
PROPERTY
    ImplementsReferences
