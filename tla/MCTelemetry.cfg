SPECIFICATION TelemetrySpec
CONSTANTS
    p1 = p1
    p2 = p2
    Procs <- MCProcs
    MonthDays = 2
    ReceiptDays = 1
    MaxDay = 2
    MaxCount = 1
    MaxCalls = 2
    MaxIds = 2
SYMMETRY MCSymmetry
CHECK_DEADLOCK FALSE
INVARIANT
    TelemetryTypeOK
    UsageNeverInflated
PROPERTY IdResetsMonthly
