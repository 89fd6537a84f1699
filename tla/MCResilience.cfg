SPECIFICATION FairSpec
CONSTANTS
    c1 = c1
    c2 = c2
    c3 = c3
    Calls <- MCCalls
    Retries = 2
    RetryOn <- MCRetryOn
    Threshold = 2
    Cooldown = 2
INVARIANTS
    TypeOK
    OpenIffTripped
    LeakBounded
PROPERTIES
    CooldownLifts
    CallsReturn
