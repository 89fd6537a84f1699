SPECIFICATION Spec
CONSTANTS
    w1 = w1
    w2 = w2
    Slots <- MCSlots
    Addresses = {"a"}
    MaxPerEmail = 1
    MaxLinks = 3
    MaxUsers = 2
    MaxCrashes = 1
SYMMETRY MCSymmetry
CHECK_DEADLOCK FALSE
INVARIANTS
    TypeOK
    LimitOvershootsByRaces
    OneAccountPerAddress
    ErasedLeavesNothing
