SPECIFICATION Spec
CONSTANTS
    a = a
    b = b
    c = c
    Sources = {a, b, c}
    Targets = {x, y}
    NULL = NULL
    WORD = WORD
    Uses <- Regrowing
    MaxLines = 0
INVARIANT
    InverseExact
