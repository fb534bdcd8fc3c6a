SPECIFICATION FairSpec
CONSTANTS
    usermode_function = usermode_function
    usermode_function2 = usermode_function2
    do_sth = do_sth
    Users <- MCUsers
    Workers <- MCWorkers
    MaxEpoch = 1
    NULL = NULL
INVARIANTS
    TypeOK
    RingsComplete
    UserEnvironment
    RegistersKept
    StacksKept
    NoSelfSwitch
PROPERTIES
    FairTurns
    EveryoneRuns
