SPECIFICATION Spec
CONSTANTS
    Keys <- Keys4
    Vals = {1, 2}
    Uses <- DictionaryUses
    MaxM = 8
INVARIANTS
    Reachable
    UniqueKeys
    ReturnsKey
PROPERTY
    ImplementsDictionary
