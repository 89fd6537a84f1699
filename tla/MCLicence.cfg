SPECIFICATION Spec
CONSTANTS
    r1 = r1
    r2 = r2
    h1 = h1
    Requests <- MCRequests
    Hooks <- MCHooks
    TTL = 2
    MaxKeys = 2
    MaxEvents = 2
    MaxTime = 4
SYMMETRY Symmetry
CHECK_DEADLOCK FALSE
INVARIANTS
    TypeOK
    LocksInTime
    StoreFollowsUser
