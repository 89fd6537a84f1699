SPECIFICATION Spec
CONSTANTS
    c1 = c1
    c2 = c2
    c3 = c3
    ann = ann
    bob = bob
    Users <- MCUsers
    Calls <- MCCalls
    Networks = {"rakuten", "awin"}
    Cap = 1
    MaxVersion = 1
    MaxExchanges = 3
SYMMETRY MCSymmetry
CHECK_DEADLOCK FALSE
INVARIANTS
    TypeOK
    TokenIsCallers
    ExchangesShared
    OnlyMissingCredentialsStick
