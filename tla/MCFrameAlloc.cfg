SPECIFICATION Spec
CONSTANTS
    Areas <- MCAreas
    KernelEnd = 2
    NodeCap = 3
    Junk = Junk
INVARIANTS
    TypeOK
    FreeListExact
    FreeCountExact
    OutUsable
PROPERTIES
    ImplementsPool
CHECK_DEADLOCK FALSE
