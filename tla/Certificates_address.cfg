SPECIFICATION Spec
CONSTANTS
    x = x
    y = y
    Addresses = {x, y}
    ObtainTries = 3
    MaxPairs = 2
    MaxFaults = 1
CHECK_DEADLOCK FALSE
INVARIANTS StartEnsuresUsable
