-------------------------------- MODULE Sessions --------------------------------
(***************************************************************************)
(* Who may do what: the session store of internal/auth/auth.go and the     *)
(* routes of internal/server/server.go that ask it, with the rooms they    *)
(* hand out.                                                               *)
(*                                                                         *)
(* A request reads the store under its lock, judges what it read after the *)
(* lock is gone, and acts later still: logins, logouts, collectors, other  *)
(* requests and a restart of the server come in between.                   *)
(***************************************************************************)
EXTENDS Integers, SequencesExt

CONSTANTS
    Users,       \* usernames of cfg.Hosts
    Nobody,      \* no username
    Tokens,      \* tokens newToken may draw
    NoToken,     \* no cookie
    Rooms,       \* identifiers newID may draw
    NoRoom,      \* no identifier
    Visits,      \* requests and pages at one time
    SessionTTL,  \* SessionTTL
    RoomMaxAge,  \* roomMaxAge
    MaxTime      \* bound: the clock

ASSUME AbsentAssumption == Nobody \notin Users /\ NoToken \notin Tokens /\ NoRoom \notin Rooms
ASSUME TermsAssumption ==
    SessionTTL \in Nat /\ RoomMaxAge \in Nat /\ MaxTime \in Nat

VARIABLES
    clock,     \* time.Now()
    sessions,  \* the session drawn with each token; a session never changes
    stored,    \* the keys of Store.sessions
    rooms,     \* the room drawn with each identifier
    listed,    \* the keys of Registry.rooms
    visit      \* what each request knows, or the page it brought up

storeVars == <<sessions, stored>>
registryVars == <<rooms, listed>>
vars == <<clock, sessions, stored, rooms, listed, visit>>

-------------------------------------------------------------------------------

NoSession == [user |-> Nobody, expires |-> 0]
Session == [user : Users, expires : Nat]
Undrawn == [host |-> Nobody, created |-> 0]
Room == [host : Users, created : Nat]

\* The tokens and identifiers that clients can know.
Opened == {t \in Tokens : sessions[t] # NoSession}
Created == {r \in Rooms : rooms[r] # Undrawn}

Expired(t) == clock > sessions[t].expires

\* The server would take the token for somebody.
Valid(t) == t \in stored /\ ~Expired(t)

Idle == [pc |-> "idle", op |-> "view", token |-> NoToken, room |-> NoRoom,
         late |-> FALSE, isHost |-> FALSE]

InCall == {"host", "guest"}

\* What a visit may have been told last.
Refused == {"404", "204", "no name"}

Init ==
    /\ clock = 0
    /\ sessions = [t \in Tokens |-> NoSession] /\ stored = {}
    /\ rooms = [r \in Rooms |-> Undrawn] /\ listed = {}
    /\ visit = [v \in Visits |-> Idle]

-------------------------------------------------------------------------------
(* The store                                                               *)

\* Mutant: the token is stored for a session that was never filled in.
MutantLogin(u, t) ==
    /\ t \notin Opened
    /\ stored' = stored \cup {t}
    /\ UNCHANGED <<clock, sessions, registryVars, visit>>

\* The right password; a wrong one changes nothing.
Login(u, t) ==
    /\ t \notin Opened
    /\ sessions' = [sessions EXCEPT ![t] = [user |-> u, expires |-> clock + SessionTTL]]
    /\ stored' = stored \cup {t}
    /\ UNCHANGED <<clock, registryVars, visit>>

Logout(t) ==
    /\ stored' = stored \ {t}
    /\ UNCHANGED <<clock, sessions, registryVars, visit>>

CollectSessions ==
    /\ stored' = {t \in stored : ~Expired(t)}
    /\ UNCHANGED <<clock, sessions, registryVars, visit>>

-------------------------------------------------------------------------------
(* Requests                                                                *)

\* A call page and a WebSocket look for their room first.
Entering(r) == IF r \in listed THEN "auth" ELSE "404"

\* A browser sends a token it was given, or none, and asks for a room it was
\* told of.
Request(v, op, t, r) ==
    /\ visit[v].pc = "idle"
    /\ op \in {"delete", "call"} <=> r # NoRoom
    /\ visit' = [visit EXCEPT ![v] =
          [pc |-> IF op = "call" THEN Entering(r) ELSE "auth", op |-> op,
           token |-> t, room |-> r, late |-> ~Valid(t), isHost |-> FALSE]]
    /\ UNCHANGED <<clock, storeVars, registryVars>>

IsOwner(v, user) == user # Nobody /\ user = rooms[visit[v].room].host

\* Mutant: whoever sends no name is turned away first.
MutantRole(v, user) ==
    IF visit[v].isHost THEN "no name" ELSE IF IsOwner(v, user) THEN "host" ELSE "guest"

\* Who opens a WebSocket.  A page that was rendered for the host sends no name,
\* whoever the cookie is for by now.
Role(v, user) ==
    IF IsOwner(v, user) THEN "host" ELSE IF visit[v].isHost THEN "no name" ELSE "guest"

\* Where a visit goes on once FromRequest has returned a user, or Nobody.
Resolved(v, user) ==
    CASE visit[v].op = "ws" -> [visit[v] EXCEPT !.pc = Role(v, user)]
      [] visit[v].op = "call" -> [visit[v] EXCEPT !.pc = "page", !.isHost = IsOwner(v, user)]
      [] OTHER -> IF user = Nobody \/ visit[v].op = "view" THEN Idle
                  ELSE [visit[v] EXCEPT !.pc = "act"]

\* Store.Get, under the lock.
ReadSession(v) ==
    /\ visit[v].pc = "auth"
    /\ visit' = [visit EXCEPT ![v] = IF @.token \in stored THEN [@ EXCEPT !.pc = "expiry"]
                                     ELSE Resolved(v, Nobody)]
    /\ UNCHANGED <<clock, storeVars, registryVars>>

\* Mutant: whatever was stored when it was read will do.
MutantCheckExpiry(v) ==
    /\ visit[v].pc = "expiry"
    /\ visit' = [visit EXCEPT ![v] = Resolved(v, sessions[visit[v].token].user)]
    /\ UNCHANGED <<clock, storeVars, registryVars>>

\* Store.Get, after the lock.
CheckExpiry(v) ==
    /\ visit[v].pc = "expiry"
    /\ LET t == visit[v].token
       IN  \/ /\ Expired(t)
              /\ stored' = stored \ {t}
              /\ visit' = [visit EXCEPT ![v] = Resolved(v, Nobody)]
           \/ /\ ~Expired(t)
              /\ visit' = [visit EXCEPT ![v] = Resolved(v, sessions[t].user)]
              /\ UNCHANGED stored
    /\ UNCHANGED <<clock, sessions, registryVars>>

\* The browser has its answer, or its user leaves the page.
Return(v) ==
    /\ visit[v].pc \in Refused \cup InCall \cup {"page"}
    /\ visit' = [visit EXCEPT ![v] = Idle]
    /\ UNCHANGED <<clock, storeVars, registryVars>>

-------------------------------------------------------------------------------
(* Rooms                                                                   *)

User(v) == sessions[visit[v].token].user

CreateRoom(v, r) ==
    /\ visit[v].pc = "act" /\ visit[v].op = "create"
    /\ r \notin Created
    /\ rooms' = [rooms EXCEPT ![r] = [host |-> User(v), created |-> clock]]
    /\ listed' = listed \cup {r}
    /\ visit' = [visit EXCEPT ![v] = Idle]
    /\ UNCHANGED <<clock, storeVars>>

\* Mutant: whoever is logged in may delete.
MutantFindRoom(v) ==
    /\ visit[v].pc = "act" /\ visit[v].op = "delete"
    /\ visit' = [visit EXCEPT ![v].pc = IF visit[v].room \in listed THEN "delete" ELSE "404"]
    /\ UNCHANGED <<clock, storeVars, registryVars>>

\* handleDeleteRoom up to the comparison of the owner.
FindRoom(v) ==
    /\ visit[v].pc = "act" /\ visit[v].op = "delete"
    /\ visit' = [visit EXCEPT ![v] =
          IF @.room \notin listed THEN [@ EXCEPT !.pc = "404"]
          ELSE IF IsOwner(v, User(v)) THEN [@ EXCEPT !.pc = "delete"] ELSE Idle]
    /\ UNCHANGED <<clock, storeVars, registryVars>>

\* Mutant: the room is left to the collector.
MutantDeleteRoom(v) ==
    /\ visit[v].pc = "delete"
    /\ visit' = [visit EXCEPT ![v].pc = "204"]
    /\ UNCHANGED <<clock, storeVars, registryVars>>

DeleteRoom(v) ==
    /\ visit[v].pc = "delete"
    /\ listed' = listed \ {visit[v].room}
    /\ visit' = [visit EXCEPT ![v].pc = "204"]
    /\ UNCHANGED <<clock, storeVars, rooms>>

Stale(r) ==
    /\ clock - rooms[r].created > RoomMaxAge
    /\ \A v \in Visits : visit[v].pc \in InCall => visit[v].room # r

CollectRooms ==
    /\ listed' = {r \in listed : ~Stale(r)}
    /\ UNCHANGED <<clock, storeVars, rooms, visit>>

\* Mutant: the comparison is turned round.
MutantExchange(s, i, j) ==
    IF rooms[s[j]].created < rooms[s[i]].created
    THEN [s EXCEPT ![i] = s[j], ![j] = s[i]] ELSE s

Exchange(s, i, j) ==
    IF rooms[s[j]].created > rooms[s[i]].created
    THEN [s EXCEPT ![i] = s[j], ![j] = s[i]] ELSE s

\* The place i is compared with every later one in turn.
Pass(s, i) ==
    LET upTo[j \in 0 .. Len(s)] == IF j <= i THEN s ELSE Exchange(upTo[j - 1], i, j)
    IN  upTo[Len(s)]

\* ListByHost orders what the map yields in any order: each place in turn is
\* given to the newest of the rest.
NewestFirst(out) ==
    LET after[i \in 0 .. Len(out)] == IF i = 0 THEN out ELSE Pass(after[i - 1], i)
    IN  after[Len(out)]

-------------------------------------------------------------------------------
(* Pages                                                                   *)

\* The browser sends the cookie it holds by now, which need not be the one the
\* page was rendered with: another tab may have logged out or in, as another host
\* even, while the former session is still stored.
OpenWS(v, t) ==
    /\ visit[v].pc = "page"
    /\ visit' = [visit EXCEPT ![v].pc = Entering(visit[v].room), ![v].op = "ws",
                              ![v].token = t, ![v].late = ~Valid(t)]
    /\ UNCHANGED <<clock, storeVars, registryVars>>

-------------------------------------------------------------------------------

\* The server is restarted: sessions and rooms were in its memory, cookies and
\* pages are not.
Restart ==
    /\ stored' = {} /\ listed' = {}
    /\ visit' = [v \in Visits |-> IF visit[v].pc = "page" THEN visit[v] ELSE Idle]
    /\ UNCHANGED <<clock, sessions, rooms>>

Tick ==
    /\ clock < MaxTime
    /\ clock' = clock + 1
    /\ UNCHANGED <<storeVars, registryVars, visit>>

RequestStep(v) ==
    \/ ReadSession(v) \/ CheckExpiry(v) \/ FindRoom(v) \/ DeleteRoom(v)
    \/ \E r \in Rooms : CreateRoom(v, r)

PageStep(v) ==
    \/ \E op \in {"view", "create", "delete", "call"}, t \in Opened \cup {NoToken},
          r \in Created \cup {NoRoom} : Request(v, op, t, r)
    \/ \E t \in Opened \cup {NoToken} : OpenWS(v, t)
    \/ Return(v)

Next ==
    \/ \E t \in Tokens : Logout(t) \/ \E u \in Users : Login(u, t)
    \/ CollectSessions \/ CollectRooms \/ Restart \/ Tick
    \/ \E v \in Visits : RequestStep(v) \/ PageStep(v)

Spec == Init /\ [][Next]_vars

-------------------------------------------------------------------------------
(* Properties                                                              *)

Visit ==
    [pc : {"idle", "auth", "expiry", "act", "delete", "page"} \cup InCall \cup Refused,
     op : {"view", "create", "delete", "call", "ws"},
     token : Tokens \cup {NoToken}, room : Rooms \cup {NoRoom},
     late : BOOLEAN, isHost : BOOLEAN]

TypeOK ==
    /\ clock \in Nat
    /\ sessions \in [Tokens -> Session \cup {NoSession}]
    /\ stored \subseteq Opened
    /\ rooms \in [Rooms -> Room \cup {Undrawn}]
    /\ listed \subseteq Created
    /\ visit \in [Visits -> Visit]

\* A request whose session was over when it arrived, by a logout, by its age or
\* by a restart, gets past no handler: it neither acts nor counts as the host,
\* however it interleaves with logins, collectors and expired copies.
LateIsRefused ==
    \A v \in Visits : visit[v].late =>
        /\ visit[v].pc \notin {"act", "delete", "host"}
        /\ visit[v].op = "call" => ~visit[v].isHost

\* A room leaves the registry in a restart, when it is old and nobody is in it,
\* or through a request that proved to be its owner's.
RoomsAreTheirOwners ==
    [][\A r \in listed \ listed' :
          Restart \/ Stale(r) \/ \E v \in Visits :
              visit[v].pc = "delete" /\ visit[v].room = r /\ User(v) = rooms[r].host]_vars

\* Whoever is told that a room is deleted, or was never there, will not meet it
\* again, whatever other requests found it in the meantime.
AnswersHold ==
    \A v \in Visits : visit[v].pc \in {"404", "204"} => visit[v].room \notin listed

\* The server would take the token for the host of the room.
OfHost(t, r) == Valid(t) /\ sessions[t].user = rooms[r].host

\* Nobody is turned away for want of a name but a page that was rendered for the
\* host, and that one only if the cookie its browser sent with the socket is not
\* good for the host of the room: it is gone, its session is over, or it is
\* another host's.  Whatever the store forgets or other requests delete in the
\* middle of the lookup, a cookie that is good opens the call.
HostsAreAdmitted ==
    \A v \in Visits : visit[v].pc = "no name" =>
        visit[v].isHost /\ ~OfHost(visit[v].token, visit[v].room)

\* Every way in which the map can be walked gives the host's own rooms, the
\* newest first.
ListsNewestFirst ==
    \A u \in Users :
        LET own == {r \in listed : rooms[r].host = u}
        IN  \A out \in SetToSeqs(own) :
                LET list == NewestFirst(out)
                IN  /\ ToSet(list) = own /\ Len(list) = Len(out)
                    /\ \A i, j \in DOMAIN list : i < j =>
                           rooms[list[i]].created >= rooms[list[j]].created

===============================================================================
