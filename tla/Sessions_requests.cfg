\* Two hosts, two requests at a time.  What lasts, lasts until the next reading of
\* the clock: a session may end between any two steps.
SPECIFICATION Spec
CONSTANTS
    Users = {pin, guest}
    Nobody = Nobody
    Tokens = {s, t}
    NoToken = NoToken
    Rooms = {q, r}
    NoRoom = NoRoom
    Visits = {v, w}
    SessionTTL = 0
    RoomMaxAge = 0
    MaxTime = 1
INVARIANTS
    TypeOK
    LateIsRefused
    AnswersHold
    HostsAreAdmitted
    ListsNewestFirst
PROPERTIES
    RoomsAreTheirOwners
SYMMETRY Symmetry
CHECK_DEADLOCK FALSE
