\* Two connections, one message per buffer: what must happen in the end.
SPECIFICATION HandlerFairSpec
CONSTANTS
    Rooms = {r1}
    Conns = {a, b}
    NoRoom = NoRoom
    MaxPeers = 2
    SendCap = 1
PROPERTIES
    DeadConnectionsLeave
CONSTRAINT NoAging
CHECK_DEADLOCK FALSE
