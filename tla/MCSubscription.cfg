SPECIFICATION Spec
CONSTANTS
    h1 = h1
    h2 = h2
    Hooks <- MCHooks
    Subs <- MCSubs
    TierOf <- MCTierOf
    Tagged <- MCTagged
    MaxActivity = 3
    MaxCrashes = 1
SYMMETRY MCSymmetry
CHECK_DEADLOCK FALSE
INVARIANTS
    TypeOK
    OrderlySync
    DeletionIsComplete
PROPERTY ComposeRespectsEnding
