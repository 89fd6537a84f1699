SPECIFICATION VaultSpec
CONSTANTS
    s1 = s1
    s2 = s2
    alice = alice
    bob = bob
    awin = awin
    cj = cj
    Slots <- MCSlots
    Users <- MCUsers
    Networks <- MCNetworks
    MaxKeys = 2
    MaxWalks = 2
SYMMETRY MCSymmetry
INVARIANTS
    VaultTypeOK
    SequentialIsReadable
    NothingLeft
    NoOldKeyLeft
