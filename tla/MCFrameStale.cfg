SPECIFICATION Spec
CONSTANTS
    Areas <- MCAreas
    KernelEnd = 2
    NodeCap = 3
    Junk = Junk
INVARIANTS
    NextIsNode
CHECK_DEADLOCK FALSE
