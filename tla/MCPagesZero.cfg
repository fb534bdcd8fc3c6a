SPECIFICATION Spec
CONSTANTS
    task1 = task1
    task2 = task2
    Entries = 6
    Text = 2
    Rodata = 3
    Data = 4
    End = 5
    UserPages <- MCUserPages
    BitmapPages <- MCBitmapPages
    HeapPages <- MCHeapPages
    Flags <- MCFlags
    Spaces <- MCSpaces
    KERNEL = KERNEL
    NFrames = 12
    NULL = NULL
SYMMETRY SpaceSymmetry
INVARIANTS
    ZeroPageKept
CHECK_DEADLOCK FALSE
