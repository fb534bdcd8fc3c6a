SPECIFICATION Spec
CONSTANTS
    IntBits = 4
    LongBits = 8
    a = a
    sys = sys
    bad = bad
    Writers = {a, sys, bad}
    Masked = {sys}
    Panicking = {bad}
    Requests <- MCRequests
    MaxCalls <- MCCalls
    HaltText <- MCHaltText
    Width = 3
    Height = 2
    BufferHeight = 3
    Tab = 2
    NONE = NONE
INVARIANTS
    TypeOK
    RowOnScreen
    Formatted
    ScreenShowsLog
CHECK_DEADLOCK FALSE
