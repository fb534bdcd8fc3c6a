SPECIFICATION Spec
CONSTANTS
    MaxLevel = 3
    LeafBits = 1
    IntBits = 6
    Sizes <- MCSizes
    NULL = NULL
    Junk = Junk
INVARIANTS
    FirstHasNoPrev
CHECK_DEADLOCK FALSE
