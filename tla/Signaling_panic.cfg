\* Refuted: a copied peer list may name a closed channel.
SPECIFICATION Spec
CONSTANTS
    Rooms = {r1}
    Conns = {a, b}
    NoRoom = NoRoom
    MaxPeers = 2
    SendCap = 1
INVARIANTS
    NoHandlerPanics
CONSTRAINT NoRetirement
CHECK_DEADLOCK FALSE
