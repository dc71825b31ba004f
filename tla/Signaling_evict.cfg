\* Refuted: deleting a room does not end its handlers.
SPECIFICATION FairSpec
CONSTANTS
    Rooms = {r1}
    Conns = {a, b}
    NoRoom = NoRoom
    MaxPeers = 2
    SendCap = 1
PROPERTIES
    DeletionEvicts
CHECK_DEADLOCK FALSE
