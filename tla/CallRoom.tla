------------------------------- MODULE CallRoom -------------------------------
(***************************************************************************)
(* What the room registry promises its users, without locks, handlers or   *)
(* messages: an invitation link names a room; while the room is open, at   *)
(* most MaxPeers connections are in it; a connection enters one room once; *)
(* a room that was closed never opens again.                               *)
(*                                                                         *)
(* Signaling (internal/room and internal/signal) implements this module.   *)
(***************************************************************************)
EXTENDS FiniteSets, Naturals

CONSTANTS Rooms, Conns, MaxPeers

VARIABLES
    status,    \* "none" before the room is created, then "live", then "gone"
    members,   \* the connections in each room
    joined     \* the connections that have entered a room so far

callVars == <<status, members, joined>>

CallInit ==
    /\ status = [r \in Rooms |-> "none"]
    /\ members = [r \in Rooms |-> {}]
    /\ joined = {}

Open(r) ==
    /\ status[r] = "none"
    /\ status' = [status EXCEPT ![r] = "live"]
    /\ UNCHANGED <<members, joined>>

\* A connection that found the room while it was open may enter it later,
\* when it is gone: only a room that was never created admits nobody.
Enter(r, h) ==
    /\ status[r] # "none"
    /\ h \notin joined
    /\ Cardinality(members[r]) < MaxPeers
    /\ members' = [members EXCEPT ![r] = @ \cup {h}]
    /\ joined' = joined \cup {h}
    /\ UNCHANGED status

Leave(r, h) ==
    /\ h \in members[r]
    /\ members' = [members EXCEPT ![r] = @ \ {h}]
    /\ UNCHANGED <<status, joined>>

Retire(r) ==
    /\ status[r] = "live"
    /\ status' = [status EXCEPT ![r] = "gone"]
    /\ UNCHANGED <<members, joined>>

CallNext ==
    \E r \in Rooms :
        \/ Open(r)
        \/ Retire(r)
        \/ \E h \in Conns : Enter(r, h) \/ Leave(r, h)

CallSpec == CallInit /\ [][CallNext]_callVars

===============================================================================
