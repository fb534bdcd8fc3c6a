SPECIFICATION FairSpec
CONSTANTS
    MAP_MAX = 3
    PageSize = 2
    Top = 9
INVARIANTS
    TypeOK
    AreasApart
    NothingLost
    WithinArray
    Ascending
    PagesExact
PROPERTIES
    MergeEnds
CHECK_DEADLOCK FALSE
