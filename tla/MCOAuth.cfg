SPECIFICATION Spec
CONSTANTS
    s1 = s1
    s2 = s2
    alice = alice
    bob = bob
    app = app
    cli = cli
    Slots <- MCSlots
    Users <- MCUsers
    Clients <- MCClients
    Uris <- MCUris
    Registered <- MCRegistered
    MaxRequests = 2
    MaxHandoffs = 1
    MaxCodes = 1
    MaxTokens = 3
SYMMETRY MCSymmetry
CHECK_DEADLOCK FALSE
INVARIANTS
    TypeOK
    PairsBoundedByOverlap
PROPERTIES
    Authorizes
