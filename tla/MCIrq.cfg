SPECIFICATION FairSpec
CONSTANTS
    Users = {"u1", "u2"}
    Main = "main"
    Raisable = {0, 8, 13, 14}
    Software = {14, 15, 33, 48}
    MaxDepth = 3
INVARIANTS
    TypeOK
    StackExact
    RegistersExact
    ReportExact
PROPERTIES
    TimerServed
CHECK_DEADLOCK FALSE
