SPECIFICATION FairSpec
CONSTANTS
    x = x
    Addresses = {x}
    ObtainTries = 3
    MaxPairs = 3
    MaxFaults = 2
INVARIANTS TypeOK ServedBelongsTogether CacheIsServed
PROPERTIES CAIsKept OrdersAreNeeded DueIsRenewed
