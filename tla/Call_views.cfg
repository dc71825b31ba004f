\* Three pages share one room over time; two messages fit in a buffer.
SPECIFICATION CallSpec
CONSTANTS
    Rooms = {r1}
    Conns = {a, b, c}
    NoRoom = NoRoom
    NoPeer = NoPeer
    MaxPeers = 2
    SendCap = 2
SYMMETRY ConnSymmetry
INVARIANTS
    LatecomerNamesFirst
    NotBothImpolite
    MailInOrder
CONSTRAINTS
    NoSelfSignal
    OneSignal
    NoRetirement
    NoMutePage
    NoAging
CHECK_DEADLOCK FALSE
