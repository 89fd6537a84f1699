SPECIFICATION Spec
CONSTANTS
    r1 = r1
    r2 = r2
    Requests <- MCRequests
    N = 2
    Window = 3
    Week = 11
    Latency = 1
    MaxTime = 17
INVARIANTS
    TypeOK
    StoredWindowsApart
    RefusalsJustified
    WeeklyQuota
SYMMETRY MCSymmetry
