SPECIFICATION FairSpec
CONSTANTS
    Request <- MCRequest
    NoRequest = NoRequest
    MaxPaths = 20
    MaxPoints = 12
INVARIANTS
    TypeOK
    WellTimed
    TapsAreApart
    FingersMoveTogether
    DragPassesThrough
    RotationKeepsItsMeasure
PROPERTIES
    GesturesEnd
CHECK_DEADLOCK FALSE
