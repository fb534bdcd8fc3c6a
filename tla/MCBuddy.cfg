SPECIFICATION Spec
CONSTANTS
    MaxLevel = 3
    LeafBits = 1
    IntBits = 6
    Sizes <- MCSizes
    NULL = NULL
    Junk = Junk
INVARIANTS
    TypeOK
    ListsLinked
    Tiling
    BuddyBitExact
PROPERTIES
    ImplementsPool
CHECK_DEADLOCK FALSE
