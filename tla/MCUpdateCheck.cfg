SPECIFICATION UpdateSpec
CONSTANTS
    p1 = p1
    p2 = p2
    Processes <- MCProcesses
    Day = 2
    Soak = 2
    MaxVersion = 2
    MaxReleases = 1
    MaxTime = 4
SYMMETRY MCSymmetry
CHECK_DEADLOCK FALSE
INVARIANTS
    UpdateTypeOK
    SilentUpdatesAsAsked
