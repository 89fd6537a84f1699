SPECIFICATION Spec
CONSTANTS
    Calls <- MCCalls
    Rows <- MCRows
    Instants = {0, 5, 6}
    Day = 2
    Ahead = 1
    Step = 4
    PageSize = 1
    MaxPages = 2
    MaxChanges = 1
CHECK_DEADLOCK FALSE
INVARIANTS
    TypeOK
    UnlimitedIsComplete
    TwiceOnlyOnSeams
    LimitHidesNothing
