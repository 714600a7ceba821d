SPECIFICATION FairSpec
CONSTANTS
    k1 = k1  r1 = r1  r2 = r2  r3 = r3
    Keys = {k1}
    Requests = {r1, r2, r3}
    Limit <- TwoPerWindow
    MaxCount = 4
    MaxFaults = 1
    MaxCrashes = 1
    NoKey = NoKey
INVARIANTS
    TypeOK
    GrantsBounded GrantsCounted EveryWindowWillEnd
PROPERTIES
    LimitEndsUndisturbed
