\* Three connections compete for the two places of one room.
SPECIFICATION Spec
CONSTANTS
    Rooms = {r1}
    Conns = {a, b, c}
    NoRoom = NoRoom
    MaxPeers = 2
    SendCap = 1
SYMMETRY ConnSymmetry
VIEW SafetyView
INVARIANTS
    TypeOK
    RosterMatchesHandlers
    RoomCapacity
PROPERTIES
    NoSilentRetirement
    ImplementsCallRoom
CHECK_DEADLOCK FALSE
