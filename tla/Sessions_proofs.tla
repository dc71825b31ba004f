----------------------------- MODULE Sessions_proofs -----------------------------
(***************************************************************************)
(* For any hosts, tokens, rooms, visits and lifetimes: a session that was  *)
(* over when a request arrived opens nothing, answers about rooms stay     *)
(* true, a cookie of the host opens its call, rooms go only through their  *)
(* owners, and a host sees its rooms the newest first.                     *)
(*                                                                         *)
(* The argument: what a visit knows of tokens and rooms cannot be taken    *)
(* back.  Sessions and rooms never change, tokens and identifiers are not  *)
(* drawn twice, what is not valid or not listed does not become so again   *)
(* (Persists).  So what holds of a visit (Sound) is lost only by a step of *)
(* its own.  The list is sorted by two loops; what holds of them is shown  *)
(* by counting their steps: a pass makes one place lead all later ones,    *)
(* and no exchange after it takes that back.                               *)
(***************************************************************************)
EXTENDS Sessions, FiniteSetTheorems, WellFoundedInduction, TLAPS

\* What a visit has is real; what it has proved is true; what was over for it is
\* over still.
Sound(v) ==
    LET x == visit[v]
    IN  /\ x.token \in Opened \cup {NoToken}
        /\ x.room \in Created \cup {NoRoom}
        /\ x.pc \in {"expiry", "act", "delete"} => x.token \in Opened
        /\ x.pc \in {"404", "204", "delete", "page"} => x.op \in {"delete", "call", "ws"}
        /\ x.op \in {"delete", "call", "ws"} => x.room \in Created
        /\ x.pc = "delete" => sessions[x.token].user = rooms[x.room].host
        /\ x.isHost => x.room \in Created
        /\ x.late => ~Valid(x.token)
        /\ x.late => x.pc \notin {"act", "delete", "host"}
        /\ x.late /\ x.op = "call" => ~x.isHost
        /\ x.late /\ x.pc = "expiry" => Expired(x.token)
        /\ x.pc \in {"404", "204"} => x.room \notin listed
        /\ x.pc = "no name" => x.isHost /\ ~OfHost(x.token, x.room)

IInv == TypeOK /\ \A v \in Visits : Sound(v)

Persists ==
    /\ \A t \in Opened : t \in Opened' /\ sessions'[t] = sessions[t] /\ (Expired(t) => Expired(t)')
    /\ \A r \in Created : r \in Created' /\ rooms'[r] = rooms[r]
    /\ \A t \in Opened \cup {NoToken} : ~Valid(t) => ~Valid(t)'
    /\ \A r \in Created : r \notin listed => r \notin listed'

-------------------------------------------------------------------------------
(* Types                                                                   *)

\* What has been drawn has an owner among the hosts.
LEMMA Drawn ==
    ASSUME TypeOK
    PROVE  /\ \A t \in Opened : t \in Tokens /\ sessions[t] \in Session
           /\ \A r \in Created : r \in Rooms /\ rooms[r] \in Room
           /\ NoToken \notin Opened /\ NoToken \notin stored /\ NoRoom \notin Created
BY AbsentAssumption DEF TypeOK, Opened, Created

\* The initial states have the right types, and no visit knows anything.
LEMMA InitSound == Init => IInv
<1> SUFFICES ASSUME Init PROVE IInv
    OBVIOUS
<1>1. TypeOK
    BY TermsAssumption DEF Init, TypeOK, Idle, Visit
<1>2. \A v \in Visits : Sound(v)
    BY <1>1, Drawn DEF Init, Sound, Idle
<1> QED BY <1>1, <1>2 DEF IInv

\* A login adds a session of a host.
LEMMA LoginTypes ==
    ASSUME TypeOK, NEW u \in Users, NEW t \in Tokens, Login(u, t)
    PROVE  TypeOK'
<1> DEFINE x == [user |-> u, expires |-> clock + SessionTTL]
<1>1. x \in Session /\ x # NoSession
    BY TermsAssumption, AbsentAssumption DEF TypeOK, Session, NoSession
<1>2. sessions' = [sessions EXCEPT ![t] = x] /\ sessions \in [Tokens -> Session \cup {NoSession}]
    BY DEF Login, TypeOK
<1>3. sessions' \in [Tokens -> Session \cup {NoSession}]
    BY <1>1, <1>2
<1>4. Opened \subseteq Opened' /\ t \in Opened'
    BY <1>1, <1>2 DEF Opened
<1>5. stored' \subseteq Opened'
    BY <1>4 DEF Login, TypeOK
<1>6. UNCHANGED <<clock, rooms, listed, visit, Created>>
    BY DEF Login, registryVars, Created
<1> QED BY <1>3, <1>5, <1>6 DEF TypeOK

\* A new room belongs to the host whose session the request had.
LEMMA CreateTypes ==
    ASSUME IInv, NEW v \in Visits, NEW r \in Rooms, CreateRoom(v, r)
    PROVE  TypeOK'
<1> DEFINE x == [host |-> User(v), created |-> clock]
<1> USE DEF IInv
<1>1. visit[v].token \in Opened
    BY DEF CreateRoom, Sound
<1>2. x \in Room /\ x # Undrawn
    BY <1>1, Drawn, AbsentAssumption DEF TypeOK, Room, Undrawn, User, Session
<1>3. rooms' = [rooms EXCEPT ![r] = x] /\ rooms \in [Rooms -> Room \cup {Undrawn}]
    BY DEF CreateRoom, TypeOK
<1>4. rooms' \in [Rooms -> Room \cup {Undrawn}]
    BY <1>2, <1>3
<1>5. Created \subseteq Created' /\ r \in Created'
    BY <1>2, <1>3 DEF Created
<1>6. listed' \subseteq Created'
    BY <1>5 DEF CreateRoom, TypeOK
<1>7. UNCHANGED <<clock, sessions, stored, Opened>>
    BY DEF CreateRoom, storeVars, Opened
<1>8. visit' \in [Visits -> Visit]
    BY DEF CreateRoom, TypeOK, Idle, Visit
<1> QED BY <1>4, <1>6, <1>7, <1>8 DEF TypeOK

\* Where a role or a resolved session leads is a place of the code.
LEMMA ResolvedTypes ==
    ASSUME TypeOK, NEW v \in Visits, NEW user
    PROVE  Resolved(v, user) \in Visit
<1>1. visit[v] \in Visit
    BY DEF TypeOK
<1>2. Role(v, user) \in InCall \cup Refused
    BY DEF Role, InCall, Refused
<1>3. IsOwner(v, user) \in BOOLEAN
    BY DEF IsOwner
<1>4. Idle \in Visit
    BY DEF Idle, Visit
<1>5. CASE visit[v].op = "ws"
    BY <1>1, <1>2, <1>5 DEF Resolved, Visit
<1>6. CASE visit[v].op = "call"
    BY <1>1, <1>3, <1>6 DEF Resolved, Visit
<1>7. CASE visit[v].op \notin {"ws", "call"}
    BY <1>1, <1>4, <1>7 DEF Resolved, Visit
<1> QED BY <1>5, <1>6, <1>7

\* A step that forgets sessions or rooms, and lets time pass, keeps the types.
LEMMA ForgetTypes ==
    ASSUME TypeOK, UNCHANGED <<sessions, rooms>>, clock' \in Nat,
           stored' \subseteq stored, listed' \subseteq listed, visit' \in [Visits -> Visit]
    PROVE  TypeOK'
BY DEF TypeOK, Opened, Created

\* A visit's own step keeps the types.
LEMMA VisitTypes ==
    ASSUME IInv, NEW v \in Visits, RequestStep(v) \/ PageStep(v)
    PROVE  TypeOK'
<1> USE DEF IInv
<1>1. visit[v] \in Visit /\ visit \in [Visits -> Visit] /\ clock \in Nat
    BY DEF TypeOK
<1>2. CASE ReadSession(v)
    <2>1. [visit[v] EXCEPT !.pc = "expiry"] \in Visit
        BY <1>1 DEF Visit
    <2> QED BY <1>1, <1>2, <2>1, ResolvedTypes, ForgetTypes DEF ReadSession, storeVars, registryVars
<1>3. CASE CheckExpiry(v)
    BY <1>1, <1>3, ResolvedTypes, ForgetTypes DEF CheckExpiry, registryVars
<1>4. CASE FindRoom(v)
    <2>1. \A to \in {"404", "delete"} : [visit[v] EXCEPT !.pc = to] \in Visit
        BY <1>1 DEF Visit, Refused
    <2>2. Idle \in Visit
        BY DEF Idle, Visit
    <2> QED BY <1>1, <1>4, <2>1, <2>2, ForgetTypes DEF FindRoom, storeVars, registryVars
<1>5. CASE DeleteRoom(v)
    <2>1. [visit[v] EXCEPT !.pc = "204"] \in Visit
        BY <1>1 DEF Visit, Refused
    <2> QED BY <1>1, <1>5, <2>1, ForgetTypes DEF DeleteRoom, storeVars
<1>6. CASE \E r \in Rooms : CreateRoom(v, r)
    BY <1>6, CreateTypes
<1>7. ASSUME NEW op \in {"view", "create", "delete", "call"}, NEW t \in Opened \cup {NoToken},
             NEW r \in Created \cup {NoRoom}, Request(v, op, t, r)
      PROVE  TypeOK'
    <2>1. t \in Tokens \cup {NoToken} /\ r \in Rooms \cup {NoRoom}
        BY Drawn
    <2>2. Entering(r) \in {"auth", "404"} /\ Valid(t) \in BOOLEAN
        BY DEF Entering, Valid
    <2> DEFINE to == IF op = "call" THEN Entering(r) ELSE "auth"
               x == [pc |-> to, op |-> op, token |-> t, room |-> r, late |-> ~Valid(t), isHost |-> FALSE]
    <2>3. visit' = [visit EXCEPT ![v] = x]
        BY <1>7 DEF Request
    <2>4. x \in Visit
        BY <2>1, <2>2 DEF Visit, Refused
    <2>5. visit' \in [Visits -> Visit]
        BY <1>1, <2>3, <2>4
    <2> QED BY <1>1, <1>7, <2>5, ForgetTypes DEF Request, storeVars, registryVars
<1>8. ASSUME NEW t \in Opened \cup {NoToken}, OpenWS(v, t) PROVE TypeOK'
    <2>1. /\ Entering(visit[v].room) \in {"auth", "404"} /\ Valid(t) \in BOOLEAN
          /\ t \in Tokens \cup {NoToken}
        BY Drawn DEF Entering, Valid
    <2>2. visit'[v] \in Visit
        BY <1>1, <1>8, <2>1 DEF OpenWS, Visit, Refused
    <2> QED BY <1>1, <1>8, <2>2, ForgetTypes DEF OpenWS, storeVars, registryVars
<1>9. CASE Return(v)
    BY <1>1, <1>9, ForgetTypes DEF Return, Idle, Visit, storeVars, registryVars
<1> QED BY <1>2, <1>3, <1>4, <1>5, <1>6, <1>7, <1>8, <1>9 DEF RequestStep, PageStep

\* Every step keeps the types.
LEMMA StepTypes == ASSUME IInv, Next PROVE TypeOK'
<1> USE DEF IInv
<1>1. clock \in Nat /\ visit \in [Visits -> Visit] /\ Idle \in Visit
    BY DEF TypeOK, Idle, Visit
<1>2. CASE \E t \in Tokens : Logout(t) \/ \E u \in Users : Login(u, t)
    BY <1>1, <1>2, LoginTypes, ForgetTypes DEF Logout, registryVars
<1>3. CASE CollectSessions
    BY <1>1, <1>3, ForgetTypes DEF CollectSessions, registryVars
<1>4. CASE CollectRooms
    BY <1>1, <1>4, ForgetTypes DEF CollectRooms, storeVars
<1>5. CASE Restart
    BY <1>1, <1>5, ForgetTypes DEF Restart
<1>6. CASE Tick
    BY <1>1, <1>6, ForgetTypes DEF Tick, storeVars, registryVars
<1>7. CASE \E v \in Visits : RequestStep(v) \/ PageStep(v)
    BY <1>7, VisitTypes
<1> QED BY <1>2, <1>3, <1>4, <1>5, <1>6, <1>7 DEF Next

-------------------------------------------------------------------------------
(* What is over stays over                                                 *)

\* A step that draws nothing, stores nothing and lets time pass takes nothing
\* back.
LEMMA ForgetPersists ==
    ASSUME TypeOK, UNCHANGED <<sessions, rooms>>, clock' \in Nat, clock' >= clock,
           stored' \subseteq stored, listed' \subseteq listed
    PROVE  Persists
<1>1. \A t \in Opened : sessions[t].expires \in Nat
    BY Drawn DEF Session
<1>2. \A t \in Opened : Expired(t) => Expired(t)'
    BY <1>1 DEF Expired, TypeOK
<1>3. \A t \in Opened \cup {NoToken} : ~Valid(t) => ~Valid(t)'
    BY <1>2, Drawn DEF Valid
<1> QED BY <1>2, <1>3 DEF Persists, Opened, Created

\* A login draws a token nobody has.
LEMMA LoginPersists ==
    ASSUME TypeOK, NEW u \in Users, NEW t \in Tokens, Login(u, t)
    PROVE  Persists
<1>1. \A k \in Opened : k # t /\ k \in Opened' /\ sessions'[k] = sessions[k]
    BY DEF Login, TypeOK, Opened
<1>2. \A k \in Opened : Expired(k)' <=> Expired(k)
    BY <1>1 DEF Login, Expired
<1>3. \A k \in Opened \cup {NoToken} : ~Valid(k) => ~Valid(k)'
    BY <1>1, <1>2, Drawn, AbsentAssumption DEF Login, Valid
<1> QED BY <1>1, <1>2, <1>3 DEF Login, registryVars, Persists, Created

\* A new room has an identifier nobody has.
LEMMA CreatePersists ==
    ASSUME IInv, NEW v \in Visits, NEW r \in Rooms, CreateRoom(v, r)
    PROVE  Persists
<1>1. \A k \in Created : k # r /\ k \in Created' /\ rooms'[k] = rooms[k]
    BY DEF CreateRoom, IInv, TypeOK, Created
<1>2. \A k \in Created : k \notin listed => k \notin listed'
    BY <1>1 DEF CreateRoom
<1> QED BY <1>1, <1>2 DEF CreateRoom, storeVars, Persists, Opened, Expired, Valid

\* No step takes anything back.
LEMMA StepPersists == ASSUME IInv, Next PROVE Persists
<1> USE DEF IInv
<1>1. clock \in Nat /\ clock >= clock
    BY DEF TypeOK
<1>2. CASE \E t \in Tokens : Logout(t) \/ \E u \in Users : Login(u, t)
    BY <1>1, <1>2, LoginPersists, ForgetPersists DEF Logout, registryVars
<1>3. CASE CollectSessions \/ CollectRooms \/ Restart
    BY <1>1, <1>3, ForgetPersists DEF CollectSessions, CollectRooms, Restart, storeVars,
           registryVars
<1>4. CASE Tick
    <2>1. clock' \in Nat /\ clock' >= clock
        BY <1>1, <1>4 DEF Tick
    <2> QED BY <1>4, <2>1, ForgetPersists DEF Tick, storeVars, registryVars
<1>5. ASSUME NEW v \in Visits, RequestStep(v) \/ PageStep(v) PROVE Persists
    <2>1. CASE \E r \in Rooms : CreateRoom(v, r)
        BY <2>1, CreatePersists
    <2>2. CASE ~\E r \in Rooms : CreateRoom(v, r)
        <3>1. /\ UNCHANGED <<clock, sessions, rooms>>
              /\ stored' \subseteq stored /\ listed' \subseteq listed
            BY <1>5, <2>2 DEF RequestStep, PageStep, ReadSession, CheckExpiry, FindRoom,
                   DeleteRoom, Request, OpenWS, Return, storeVars, registryVars
        <3> QED BY <1>1, <3>1, ForgetPersists
    <2> QED BY <2>1, <2>2
<1> QED BY <1>2, <1>3, <1>4, <1>5 DEF Next

-------------------------------------------------------------------------------
(* Visits                                                                  *)

\* Who knows nothing is wrong in nothing.
LEMMA IdleSound == ASSUME NEW v \in Visits, visit'[v] = Idle PROVE Sound(v)'
BY DEF Sound, Idle

\* What others do leaves a visit as sound as it was.
LEMMA OthersKeepSound ==
    ASSUME IInv, Persists, NEW v \in Visits, visit'[v] = visit[v]
    PROVE  Sound(v)'
<1>1. Sound(v)
    BY DEF IInv
<1>2. visit[v].token \in Opened \cup {NoToken} /\ visit[v].room \in Created \cup {NoRoom}
    BY <1>1 DEF Sound
<1>3. visit[v].pc = "no name" => ~OfHost(visit[v].token, visit[v].room)'
    <2> SUFFICES ASSUME visit[v].pc = "no name", OfHost(visit[v].token, visit[v].room)'
                 PROVE  FALSE
        OBVIOUS
    <2>1. ~OfHost(visit[v].token, visit[v].room) /\ visit[v].room \in Created
        BY <1>1 DEF Sound
    <2>2. Valid(visit[v].token)
        BY <1>2 DEF OfHost, Persists
    <2>3. visit[v].token \in Opened
        BY <1>2, <2>2, Drawn DEF IInv, Valid
    <2> QED BY <2>1, <2>2, <2>3 DEF OfHost, Persists
<1> QED BY <1>1, <1>2, <1>3 DEF Sound, Persists

\* The answer of the store to a request whose token is no good.
LEMMA NobodySound ==
    ASSUME IInv, Persists, NEW v \in Visits, visit[v].pc \in {"auth", "expiry"},
           visit'[v] = Resolved(v, Nobody), visit[v].token \notin stored'
    PROVE  Sound(v)'
<1>1. Sound(v) /\ visit[v] \in Visit
    BY DEF IInv, TypeOK
<1>2. IsOwner(v, Nobody) = FALSE
    BY DEF IsOwner
<1>3. CASE visit[v].op = "ws"
    <2>1. visit'[v] = [visit[v] EXCEPT !.pc = IF visit[v].isHost THEN "no name" ELSE "guest"]
        BY <1>2, <1>3 DEF Resolved, Role
    <2>2. /\ visit'[v].token = visit[v].token /\ visit'[v].room = visit[v].room
          /\ visit'[v].op = "ws" /\ visit'[v].isHost = visit[v].isHost
          /\ visit'[v].late = visit[v].late /\ visit'[v].pc \in {"no name", "guest"}
          /\ visit'[v].pc = "no name" => visit[v].isHost
        BY <1>1, <1>3, <2>1 DEF Visit
    <2>3. ~Valid(visit[v].token)'
        BY <2>2 DEF Valid
    <2>4. visit[v].token \in Opened' \cup {NoToken} /\ visit[v].room \in Created'
        BY <1>1, <1>3 DEF Sound, Persists
    <2> QED BY <2>2, <2>3, <2>4 DEF Sound, OfHost
<1>4. CASE visit[v].op = "call"
    <2>1. visit'[v] = [visit[v] EXCEPT !.pc = "page", !.isHost = IsOwner(v, Nobody)]
        BY <1>4 DEF Resolved
    <2>2. /\ visit'[v].token = visit[v].token /\ visit'[v].room = visit[v].room
          /\ visit'[v].op = "call" /\ visit'[v].isHost = FALSE
          /\ visit'[v].late = visit[v].late /\ visit'[v].pc = "page"
        BY <1>1, <1>2, <1>4, <2>1 DEF Visit
    <2> QED BY <1>1, <1>4, <2>2 DEF Sound, Persists, Valid
<1>5. CASE visit[v].op \notin {"ws", "call"}
    BY <1>5, IdleSound DEF Resolved
<1> QED BY <1>3, <1>4, <1>5

\* The answer of the store to a request whose token is good.
LEMMA SomebodySound ==
    ASSUME IInv, Persists, NEW v \in Visits, visit[v].pc = "expiry",
           UNCHANGED <<sessions, rooms>>,
           ~Expired(visit[v].token), visit'[v] = Resolved(v, sessions[visit[v].token].user)
    PROVE  Sound(v)'
<1> DEFINE user == sessions[visit[v].token].user
<1>1. Sound(v) /\ visit[v] \in Visit
    BY DEF IInv, TypeOK
<1>2. visit[v].token \in Opened /\ ~visit[v].late /\ user # Nobody
    <2>1. visit[v].token \in Opened /\ ~visit[v].late
        BY <1>1 DEF Sound
    <2>2. sessions[visit[v].token] \in Session
        BY <2>1, Drawn DEF IInv
    <2> QED BY <2>1, <2>2, AbsentAssumption DEF Session
<1>3. IsOwner(v, user) = (user = rooms[visit[v].room].host)
    BY <1>2 DEF IsOwner
<1>4. CASE visit[v].op = "ws"
    <2>1. visit'[v] = [visit[v] EXCEPT !.pc = Role(v, user)]
        BY <1>4 DEF Resolved
    <2>2. /\ visit'[v].token = visit[v].token /\ visit'[v].room = visit[v].room
          /\ visit'[v].op = "ws" /\ visit'[v].isHost = visit[v].isHost
          /\ visit'[v].late = visit[v].late /\ visit'[v].pc = Role(v, user)
        BY <1>1, <1>4, <2>1 DEF Visit
    <2>3. /\ Role(v, user) \in {"host", "no name", "guest"}
          /\ Role(v, user) = "no name" => visit[v].isHost /\ user # rooms[visit[v].room].host
        BY <1>3 DEF Role
    <2>4. Role(v, user) = "no name" => ~OfHost(visit[v].token, visit[v].room)'
        BY <2>2, <2>3 DEF OfHost
    <2> QED BY <1>1, <1>2, <1>4, <2>2, <2>3, <2>4 DEF Sound, Persists, OfHost
<1>5. CASE visit[v].op = "call"
    <2>1. visit'[v] = [visit[v] EXCEPT !.pc = "page", !.isHost = IsOwner(v, user)]
        BY <1>5 DEF Resolved
    <2>2. /\ visit'[v].token = visit[v].token /\ visit'[v].room = visit[v].room
          /\ visit'[v].op = "call" /\ visit'[v].isHost = (user = rooms[visit[v].room].host)
          /\ visit'[v].late = visit[v].late /\ visit'[v].pc = "page"
        BY <1>1, <1>3, <1>5, <2>1 DEF Visit
    <2> QED BY <1>1, <1>2, <1>5, <2>2 DEF Sound, Persists
<1>6. CASE visit[v].op \notin {"ws", "call"}
    <2>1. visit'[v] = [visit[v] EXCEPT !.pc = "act"] \/ visit'[v] = Idle
        BY <1>6 DEF Resolved
    <2>2. CASE visit'[v] = [visit[v] EXCEPT !.pc = "act"]
        <3>1. /\ visit'[v].token = visit[v].token /\ visit'[v].room = visit[v].room
              /\ visit'[v].op = visit[v].op /\ visit'[v].isHost = visit[v].isHost
              /\ visit'[v].late = visit[v].late /\ visit'[v].pc = "act"
            BY <1>1, <2>2 DEF Visit
        <3> QED BY <1>1, <1>2, <3>1 DEF Sound, Persists
    <2> QED BY <2>1, <2>2, IdleSound
<1> QED BY <1>4, <1>5, <1>6

\* What a visit does itself leaves it sound.
LEMMA OwnStepSound ==
    ASSUME IInv, Persists, NEW v \in Visits, RequestStep(v) \/ PageStep(v)
    PROVE  Sound(v)'
<1>1. Sound(v) /\ visit[v] \in Visit /\ visit \in [Visits -> Visit]
    BY DEF IInv, TypeOK
<1>2. CASE ReadSession(v)
    <2>1. CASE visit[v].token \in stored
        <3>1. visit'[v] = [visit[v] EXCEPT !.pc = "expiry"]
            BY <1>1, <1>2, <2>1 DEF ReadSession
        <3>2. /\ visit'[v].token = visit[v].token /\ visit'[v].room = visit[v].room
              /\ visit'[v].op = visit[v].op /\ visit'[v].isHost = visit[v].isHost
              /\ visit'[v].late = visit[v].late /\ visit'[v].pc = "expiry"
            BY <1>1, <3>1 DEF Visit
        <3>3. visit[v].token \in Opened /\ (visit[v].late => Expired(visit[v].token))
            BY <1>1, <2>1 DEF Sound, Valid, IInv, TypeOK
        <3> QED BY <1>1, <3>2, <3>3 DEF Sound, Persists
    <2>2. CASE visit[v].token \notin stored
        <3>1. visit'[v] = Resolved(v, Nobody)
            BY <1>1, <1>2, <2>2 DEF ReadSession
        <3>2. visit[v].pc = "auth" /\ stored' = stored
            BY <1>2 DEF ReadSession, storeVars
        <3> QED BY <2>2, <3>1, <3>2, NobodySound
    <2> QED BY <2>1, <2>2
<1>3. CASE CheckExpiry(v)
    <2>1. visit[v].pc = "expiry" /\ UNCHANGED <<clock, sessions, rooms>>
        BY <1>3 DEF CheckExpiry, registryVars
    <2>2. CASE Expired(visit[v].token)
        <3>1. visit'[v] = Resolved(v, Nobody) /\ stored' = stored \ {visit[v].token}
            BY <1>1, <1>3, <2>2 DEF CheckExpiry
        <3> QED BY <2>1, <3>1, NobodySound
    <2>3. CASE ~Expired(visit[v].token)
        <3>1. visit'[v] = Resolved(v, sessions[visit[v].token].user)
            BY <1>1, <1>3, <2>3 DEF CheckExpiry
        <3> QED BY <2>1, <2>3, <3>1, SomebodySound
    <2> QED BY <2>2, <2>3
<1>4. CASE FindRoom(v)
    <2>1. visit[v].pc = "act" /\ visit[v].op = "delete" /\ listed' = listed
        BY <1>4 DEF FindRoom, registryVars
    <2>2. CASE visit[v].room \notin listed
        <3>1. visit'[v] = [visit[v] EXCEPT !.pc = "404"]
            BY <1>1, <1>4, <2>2 DEF FindRoom
        <3> QED BY <1>1, <2>1, <2>2, <3>1 DEF Sound, Persists, Visit
    <2>3. CASE visit[v].room \in listed /\ IsOwner(v, User(v))
        <3>1. visit'[v] = [visit[v] EXCEPT !.pc = "delete"]
            BY <1>1, <1>4, <2>3 DEF FindRoom
        <3> QED BY <1>1, <2>1, <2>3, <3>1 DEF Sound, Persists, Visit, IsOwner, User
    <2>4. CASE visit[v].room \in listed /\ ~IsOwner(v, User(v))
        BY <1>1, <1>4, <2>4, IdleSound DEF FindRoom
    <2> QED BY <2>2, <2>3, <2>4
<1>5. CASE DeleteRoom(v)
    <2>1. /\ visit[v].pc = "delete" /\ listed' = listed \ {visit[v].room}
          /\ visit'[v] = [visit[v] EXCEPT !.pc = "204"]
        BY <1>1, <1>5 DEF DeleteRoom
    <2> QED BY <1>1, <2>1 DEF Sound, Persists, Visit
<1>6. ASSUME NEW r \in Rooms, CreateRoom(v, r) PROVE Sound(v)'
    BY <1>1, <1>6, IdleSound DEF CreateRoom
<1>7. ASSUME NEW op \in {"view", "create", "delete", "call"}, NEW t \in Opened \cup {NoToken},
             NEW r \in Created \cup {NoRoom}, Request(v, op, t, r)
      PROVE  Sound(v)'
    <2> DEFINE to == IF op = "call" THEN Entering(r) ELSE "auth"
    <2>1. /\ visit'[v].pc = to /\ visit'[v].op = op /\ visit'[v].token = t
          /\ visit'[v].room = r /\ visit'[v].late = ~Valid(t) /\ visit'[v].isHost = FALSE
        BY <1>1, <1>7 DEF Request
    <2>2. op \in {"delete", "call"} => r \in Created
        BY <1>7 DEF Request
    <2>3. to \in {"auth", "404"} /\ (to = "404" => op = "call" /\ r \notin listed)
        BY DEF Entering
    <2> HIDE DEF to
    <2> QED BY <2>1, <2>2, <2>3 DEF Sound, Persists
<1>8. ASSUME NEW t \in Opened \cup {NoToken}, OpenWS(v, t) PROVE Sound(v)'
    <2> DEFINE to == Entering(visit[v].room)
    <2>1. /\ visit[v].pc = "page" /\ visit'[v].pc = to /\ visit'[v].op = "ws"
          /\ visit'[v].token = t /\ visit'[v].room = visit[v].room
          /\ visit'[v].late = ~Valid(t) /\ visit'[v].isHost = visit[v].isHost
          /\ visit'[v].op = "ws"
        BY <1>1, <1>8 DEF OpenWS, Visit
    <2>2. to \in {"auth", "404"} /\ (to = "404" => visit[v].room \notin listed)
        BY DEF Entering
    <2> HIDE DEF to
    <2> QED BY <1>1, <2>1, <2>2 DEF Sound, Persists
<1>9. CASE Return(v)
    BY <1>1, <1>9, IdleSound DEF Return
<1> QED BY <1>2, <1>3, <1>4, <1>5, <1>6, <1>7, <1>8, <1>9 DEF RequestStep, PageStep

\* A visit's step is its own: the others stay where they are.
LEMMA OwnStepOnly ==
    ASSUME TypeOK, NEW v \in Visits, RequestStep(v) \/ PageStep(v), NEW w \in Visits, w # v
    PROVE  visit'[w] = visit[w]
BY DEF TypeOK, RequestStep, PageStep, ReadSession, CheckExpiry, FindRoom, DeleteRoom,
       CreateRoom, Request, OpenWS, Return

\* Every step keeps the invariant.
LEMMA StepSound == ASSUME IInv, Next PROVE IInv'
<1>1. Persists /\ TypeOK'
    BY StepPersists, StepTypes
<1>2. ASSUME NEW w \in Visits PROVE Sound(w)'
    <2>1. CASE UNCHANGED visit
        BY <1>1, <2>1, OthersKeepSound
    <2>2. CASE Restart
        BY <1>1, <2>2, OthersKeepSound, IdleSound DEF Restart
    <2>3. ASSUME NEW v \in Visits, RequestStep(v) \/ PageStep(v) PROVE Sound(w)'
        BY <1>1, <2>3, OwnStepSound, OwnStepOnly, OthersKeepSound DEF IInv
    <2> QED BY <2>1, <2>2, <2>3 DEF Next, Logout, Login, CollectSessions, CollectRooms, Tick
<1> QED BY <1>1, <1>2 DEF IInv

-------------------------------------------------------------------------------
(* The list of a host                                                      *)

\* Counting up from 0 reaches every number of an interval.
LEMMA Counting ==
    ASSUME NEW n \in Nat, NEW P, 0 \in P, \A k \in 1 .. n : k - 1 \in P => k \in P
    PROVE  0 .. n \subseteq P
<1> DEFINE T == (0 .. n) \ P
<1> SUFFICES ASSUME T # {} PROVE FALSE
    OBVIOUS
<1>1. PICK x \in T : \A y \in T : ~(<<y, x>> \in OpToRel(<, Nat))
    <2>1. T \subseteq Nat
        OBVIOUS
    <2> HIDE DEF T
    <2> QED BY <2>1, NatLessThanWellFounded, WFMin
<1>2. x \in 1 .. n /\ x - 1 \in 0 .. n
    OBVIOUS
<1>3. x - 1 \in T
    BY <1>2
<1>4. <<x - 1, x>> \in OpToRel(<, Nat)
    BY <1>2 DEF OpToRel
<1> QED BY <1>1, <1>3, <1>4

\* What a loop of n steps over values of X leaves behind, step by step.
LoopRun(n, X, x, step) ==
    {f \in [0 .. n -> X] : f[0] = x /\ \A k \in 1 .. n : f[k] = step[k][f[k - 1]]}

\* A loop whose steps stay in X runs to its end.
LEMMA LoopRuns ==
    ASSUME NEW n \in Nat, NEW X, NEW x \in X, NEW step, \A k \in 1 .. n : step[k] \in [X -> X]
    PROVE  LoopRun(n, X, x, step) # {}
<1> DEFINE Run(f, m) == f[0] = x /\ \A k \in 1 .. m : f[k] = step[k][f[k - 1]]
           P == {m \in 0 .. n : \E f \in [0 .. m -> X] : Run(f, m)}
<1>1. 0 \in P
    <2> DEFINE f == [k \in 0 .. 0 |-> x]
    <2>1. f \in [0 .. 0 -> X] /\ Run(f, 0)
        OBVIOUS
    <2> HIDE DEF f
    <2>2. 0 \in 0 .. n
        OBVIOUS
    <2> QED BY <2>1, <2>2
<1>2. ASSUME NEW m \in 1 .. n, m - 1 \in P PROVE m \in P
    <2>1. PICK f \in [0 .. m - 1 -> X] : Run(f, m - 1)
        BY <1>2
    <2> DEFINE g == [k \in 0 .. m |-> IF k = m THEN step[m][f[m - 1]] ELSE f[k]]
    <2>2. g \in [0 .. m -> X]
        <3>1. f[m - 1] \in X /\ step[m] \in [X -> X]
            OBVIOUS
        <3>2. ASSUME NEW k \in 0 .. m, k # m PROVE f[k] \in X
            BY <3>2
        <3> QED BY <3>1, <3>2
    <2>3. ASSUME NEW k \in 1 .. m PROVE g[k] = step[k][g[k - 1]]
        <3>1. k \in 0 .. m /\ k - 1 \in 0 .. m /\ k - 1 # m
            OBVIOUS
        <3>2. g[k - 1] = f[k - 1]
            BY <3>1
        <3>3. k # m => k \in 1 .. m - 1
            OBVIOUS
        <3> QED BY <2>1, <3>1, <3>2, <3>3
    <2>4. g[0] = x
        BY <2>1
    <2>5. Run(g, m)
        BY <2>3, <2>4
    <2>6. m \in 0 .. n
        OBVIOUS
    <2> HIDE DEF g
    <2> HIDE DEF Run
    <2> QED BY <2>2, <2>5, <2>6
<1>3. 0 .. n \subseteq P
    <2> HIDE DEF P
    <2> QED BY <1>1, <1>2, Counting
<1>4. n \in P
    <2> HIDE DEF P
    <2> QED BY <1>3
<1> QED BY <1>4 DEF LoopRun

\* The ways to walk the n members of S.
Orders(S, n) == {x \in [1 .. n -> S] : \A r \in S : \E k \in 1 .. n : x[k] = r}

\* Every room of S has its time of creation.
Dated(S) == \A r \in S : rooms[r].created \in Nat

\* The room at i is as new as those after it, up to the place last.
Leads(x, i, last) == \A m \in i + 1 .. last : rooms[x[i]].created >= rooms[x[m]].created

\* The places before i hold what they are to hold.
Settled(x, n, i) == \A k \in 1 .. i - 1 : Leads(x, k, n)

\* An exchange loses no room and doubles none.
LEMMA ExchangeOrders ==
    ASSUME NEW S, NEW n \in Nat, NEW i \in 1 .. n, NEW j \in 1 .. n, NEW x \in Orders(S, n)
    PROVE  Exchange(x, i, j) \in Orders(S, n)
<1> DEFINE y == [x EXCEPT ![i] = x[j], ![j] = x[i]]
<1>1. x \in [1 .. n -> S] /\ \A r \in S : \E k \in 1 .. n : x[k] = r
    BY DEF Orders
<1>2. y \in [1 .. n -> S]
    BY <1>1
<1>3. /\ y[i] = x[j] /\ y[j] = x[i]
      /\ \A k \in 1 .. n : k # i /\ k # j => y[k] = x[k]
    BY <1>1
<1>4. \A r \in S : \E k \in 1 .. n : y[k] = r
    <2> HIDE DEF y
    <2> QED BY <1>1, <1>3
<1> HIDE DEF y
<1>5. y \in Orders(S, n)
    BY <1>2, <1>4 DEF Orders
<1> QED BY <1>5 DEF Exchange, y

\* After the exchange the place i leads one place further, and the places before
\* it are settled still.
LEMMA ExchangeLeads ==
    ASSUME NEW S, Dated(S), NEW n \in Nat, NEW i \in 1 .. n, NEW j \in i + 1 .. n,
           NEW x \in Orders(S, n), Settled(x, n, i), Leads(x, i, j - 1)
    PROVE  Settled(Exchange(x, i, j), n, i) /\ Leads(Exchange(x, i, j), i, j)
<1> DEFINE y == Exchange(x, i, j)
           C(r) == rooms[r].created
<1>1. \A k \in 1 .. n : x[k] \in S /\ C(x[k]) \in Nat
    BY DEF Orders, Dated
<1>2. CASE ~(C(x[j]) > C(x[i]))
    <2>1. y = x
        BY <1>2 DEF Exchange
    <2>2. C(x[i]) >= C(x[j])
        BY <1>1, <1>2
    <2>3. \A m \in i + 1 .. j : m = j \/ m \in i + 1 .. j - 1
        OBVIOUS
    <2> QED BY <2>1, <2>2, <2>3 DEF Leads
<1>3. CASE C(x[j]) > C(x[i])
    <2>1. y[i] = x[j] /\ y[j] = x[i] /\ \A k \in 1 .. n : k # i /\ k # j => y[k] = x[k]
        <3>1. x \in [1 .. n -> S] /\ j \in 1 .. n /\ i # j
            BY DEF Orders
        <3>2. y = [x EXCEPT ![i] = x[j], ![j] = x[i]]
            BY <1>3 DEF Exchange
        <3> HIDE DEF y
        <3> QED BY <3>1, <3>2
    <2> HIDE DEF y
    <2>2. ASSUME NEW k \in 1 .. i - 1, NEW m \in k + 1 .. n PROVE C(y[k]) >= C(y[m])
        <3>1. /\ k \in 1 .. n /\ k # i /\ k # j /\ m \in 1 .. n
              /\ i \in k + 1 .. n /\ j \in k + 1 .. n
            OBVIOUS
        <3>2. \A l \in k + 1 .. n : C(x[k]) >= C(x[l])
            BY DEF Settled, Leads
        <3> QED BY <2>1, <3>1, <3>2
    <2>3. ASSUME NEW m \in i + 1 .. j PROVE C(y[i]) >= C(y[m])
        <3>1. m \in 1 .. n /\ m # i /\ (m # j => m \in i + 1 .. j - 1)
            OBVIOUS
        <3>2. m # j => C(x[i]) >= C(x[m])
            BY <3>1 DEF Leads
        <3>3. j \in 1 .. n
            OBVIOUS
        <3>4. /\ C(x[i]) \in Nat /\ C(x[j]) \in Nat /\ C(x[m]) \in Nat
            BY <1>1, <3>1, <3>3
        <3>5. C(y[i]) = C(x[j]) /\ C(y[m]) = IF m = j THEN C(x[i]) ELSE C(x[m])
            BY <2>1, <3>1
        <3> HIDE DEF C, y
        <3>6. CASE m = j
            BY <1>3, <3>4, <3>5, <3>6
        <3>7. CASE m # j
            BY <1>3, <3>2, <3>4, <3>5, <3>7
        <3> QED BY <3>6, <3>7
    <2> QED BY <2>2, <2>3 DEF Settled, Leads, y
<1> QED BY <1>2, <1>3

\* The length, the places and the members of a walk.
LEMMA OrderLen ==
    ASSUME NEW S, NEW n \in Nat, NEW x \in Orders(S, n)
    PROVE  Len(x) = n /\ DOMAIN x = 1 .. n /\ ToSet(x) = S
<1>1. x \in [1 .. n -> S] /\ \A r \in S : \E k \in 1 .. n : x[k] = r
    BY DEF Orders
<1>2. x \in Seq(S) /\ Len(x) = n /\ DOMAIN x = 1 .. n
    BY <1>1
<1> QED BY <1>1, <1>2 DEF ToSet

\* A pass loses no room and settles the place it was made for.
LEMMA PassSettles ==
    ASSUME NEW S, Dated(S), NEW n \in Nat, NEW i \in 1 .. n, NEW x \in Orders(S, n)
    PROVE  /\ Pass(x, i) \in Orders(S, n)
           /\ Settled(x, n, i) => Settled(Pass(x, i), n, i + 1)
<1> DEFINE X == Orders(S, n)
           Loop(f) == [j \in 0 .. n |-> IF j <= i THEN x ELSE Exchange(f[j - 1], i, j)]
           upTo == CHOOSE f : f = Loop(f)
           step == [j \in 1 .. n |-> [y \in X |-> IF j <= i THEN x ELSE Exchange(y, i, j)]]
<1>1. Len(x) = n
    BY OrderLen
<1>2. Pass(x, i) = upTo[n]
    BY <1>1 DEF Pass
<1>3. upTo = Loop(upTo)
    <2>1. \A j \in 1 .. n : step[j] \in [X -> X]
        BY ExchangeOrders
    <2>2. PICK f \in [0 .. n -> X] : f[0] = x /\ \A j \in 1 .. n : f[j] = step[j][f[j - 1]]
        <3>1. x \in X
            OBVIOUS
        <3> HIDE DEF step, X
        <3>2. LoopRun(n, X, x, step) # {}
            BY <2>1, <3>1, LoopRuns
        <3> QED BY <3>2 DEF LoopRun
    <2>3. ASSUME NEW j \in 0 .. n PROVE f[j] = Loop(f)[j]
        <3>1. CASE j = 0
            BY <2>2, <3>1
        <3>2. CASE j # 0
            <4>1. j \in 1 .. n /\ j - 1 \in 0 .. n
                BY <3>2
            <4>2. f[j - 1] \in X
                BY <4>1, <2>2
            <4> HIDE DEF X
            <4> QED BY <2>2, <4>1, <4>2
        <3> QED BY <3>1, <3>2
    <2>4. f = Loop(f)
        <3> HIDE DEF X
        <3> QED BY <2>3
    <2> HIDE DEF Loop
    <2> QED BY <2>4
<1>4. \A j \in 0 .. n : upTo[j] = IF j <= i THEN x ELSE Exchange(upTo[j - 1], i, j)
    <2> HIDE DEF upTo
    <2> QED BY <1>3
<1> HIDE DEF upTo, Loop, step
<1> DEFINE Kept == {j \in 0 .. n : upTo[j] \in X}
           Led == {j \in 0 .. n : Settled(upTo[j], n, i) /\ Leads(upTo[j], i, j)}
<1>5. 0 .. n \subseteq Kept
    <2>1. 0 \in Kept
        BY <1>4
    <2>2. ASSUME NEW j \in 1 .. n, j - 1 \in Kept PROVE j \in Kept
        BY <1>4, <2>2, ExchangeOrders
    <2> HIDE DEF Kept
    <2> QED BY <2>1, <2>2, Counting
<1>6. ASSUME Settled(x, n, i) PROVE 0 .. n \subseteq Led
    <2>1. \A j \in 0 .. i : Leads(x, i, j)
        BY DEF Leads
    <2>2. 0 \in Led
        BY <1>4, <1>6, <2>1
    <2>3. ASSUME NEW j \in 1 .. n, j - 1 \in Led PROVE j \in Led
        <3>1. CASE j <= i
            BY <1>4, <1>6, <2>1, <3>1
        <3>2. CASE ~(j <= i)
            <4>1. j \in i + 1 .. n /\ j - 1 \in 0 .. n
                BY <3>2
            <4>2. upTo[j] = Exchange(upTo[j - 1], i, j)
                BY <1>4, <3>2
            <4>3. upTo[j - 1] \in X
                BY <1>5, <4>1
            <4>4. Settled(upTo[j - 1], n, i) /\ Leads(upTo[j - 1], i, j - 1)
                BY <2>3
            <4>5. Settled(upTo[j], n, i) /\ Leads(upTo[j], i, j)
                BY <4>1, <4>2, <4>3, <4>4, ExchangeLeads
            <4> QED BY <4>5
        <3> QED BY <3>1, <3>2
    <2> HIDE DEF Led
    <2> QED BY <2>2, <2>3, Counting
<1>7. n \in 0 .. n
    OBVIOUS
<1>8. Pass(x, i) \in X
    BY <1>2, <1>5, <1>7
<1>9. ASSUME Settled(x, n, i) PROVE Settled(Pass(x, i), n, i + 1)
    <2>1. Settled(Pass(x, i), n, i) /\ Leads(Pass(x, i), i, n)
        BY <1>2, <1>6, <1>7, <1>9
    <2>2. \A k \in 1 .. i + 1 - 1 : k = i \/ k \in 1 .. i - 1
        OBVIOUS
    <2> QED BY <2>1, <2>2 DEF Settled
<1> QED BY <1>8, <1>9

\* All passes together settle every place.
LEMMA NewestFirstSorts ==
    ASSUME NEW S, Dated(S), NEW n \in Nat, NEW x \in Orders(S, n)
    PROVE  NewestFirst(x) \in Orders(S, n) /\ Settled(NewestFirst(x), n, n + 1)
<1> DEFINE X == Orders(S, n)
           Loop(f) == [i \in 0 .. n |-> IF i = 0 THEN x ELSE Pass(f[i - 1], i)]
           after == CHOOSE f : f = Loop(f)
           step == [i \in 1 .. n |-> [y \in X |-> Pass(y, i)]]
<1>1. Len(x) = n
    BY OrderLen
<1>2. NewestFirst(x) = after[n]
    BY <1>1 DEF NewestFirst
<1>3. after = Loop(after)
    <2>1. \A i \in 1 .. n : step[i] \in [X -> X]
        BY PassSettles
    <2>2. PICK f \in [0 .. n -> X] : f[0] = x /\ \A i \in 1 .. n : f[i] = step[i][f[i - 1]]
        <3>1. x \in X
            OBVIOUS
        <3> HIDE DEF step, X
        <3>2. LoopRun(n, X, x, step) # {}
            BY <2>1, <3>1, LoopRuns
        <3> QED BY <3>2 DEF LoopRun
    <2>3. ASSUME NEW i \in 0 .. n PROVE f[i] = Loop(f)[i]
        <3>1. CASE i = 0
            BY <2>2, <3>1
        <3>2. CASE i # 0
            <4>1. i \in 1 .. n /\ i - 1 \in 0 .. n
                BY <3>2
            <4>2. f[i - 1] \in X
                BY <4>1, <2>2
            <4> HIDE DEF X
            <4> QED BY <2>2, <4>1, <4>2
        <3> QED BY <3>1, <3>2
    <2>4. f = Loop(f)
        <3> HIDE DEF X
        <3> QED BY <2>3
    <2> HIDE DEF Loop
    <2> QED BY <2>4
<1>4. \A i \in 0 .. n : after[i] = IF i = 0 THEN x ELSE Pass(after[i - 1], i)
    <2> HIDE DEF after
    <2> QED BY <1>3
<1> HIDE DEF after, Loop, step
<1> DEFINE Done == {i \in 0 .. n : after[i] \in X /\ Settled(after[i], n, i + 1)}
<1>5. 0 .. n \subseteq Done
    <2>1. 0 \in Done
        BY <1>4 DEF Settled
    <2>2. ASSUME NEW i \in 1 .. n, i - 1 \in Done PROVE i \in Done
        <3>1. after[i] = Pass(after[i - 1], i)
            BY <1>4
        <3>2. after[i - 1] \in X /\ Settled(after[i - 1], n, i - 1 + 1) /\ i - 1 + 1 = i
            BY <2>2
        <3> QED BY <3>1, <3>2, PassSettles
    <2> HIDE DEF Done
    <2> QED BY <2>1, <2>2, Counting
<1>6. n \in 0 .. n
    OBVIOUS
<1> QED BY <1>2, <1>5, <1>6

\* However the map is walked, every room comes up once.
LEMMA WalkIsOrder ==
    ASSUME NEW S, IsFiniteSet(S), NEW out \in SetToSeqs(S)
    PROVE  Cardinality(S) \in Nat /\ out \in Orders(S, Cardinality(S))
<1> DEFINE n == Cardinality(S)
<1>1. n \in Nat
    BY FS_CardinalityType
<1>2. out \in [1 .. n -> S] /\ \A i, j \in 1 .. n : i # j => out[i] # out[j]
    BY DEF SetToSeqs
<1>3. out \in Injection(1 .. n, S)
    BY <1>2 DEF Injection, IsInjective
<1>4. Cardinality(1 .. n) = n
    BY <1>1, FS_Interval
<1>5. out \in Surjection(1 .. n, S)
    <2> HIDE DEF n
    <2> QED BY <1>3, <1>4, FS_Injection DEF n
<1> QED BY <1>1, <1>2, <1>5 DEF Orders, Surjection

\* The registry holds finitely many rooms: they are added one at a time.
LEMMA FiniteListed == Spec => []IsFiniteSet(listed)
<1>1. Init => IsFiniteSet(listed)
    BY FS_EmptySet DEF Init
<1>2. ASSUME IsFiniteSet(listed), [Next]_vars PROVE IsFiniteSet(listed)'
    <2>1. CASE listed' \subseteq listed
        BY <1>2, <2>1, FS_Subset
    <2>2. ASSUME NEW r \in Rooms, listed' = listed \cup {r} PROVE IsFiniteSet(listed)'
        BY <1>2, <2>2, FS_AddElement
    <2>3. listed' \subseteq listed \/ \E r \in Rooms : listed' = listed \cup {r}
        BY <1>2 DEF Next, vars, registryVars, Logout, Login, CollectSessions, CollectRooms,
               Restart, Tick, RequestStep, PageStep, ReadSession, CheckExpiry, FindRoom,
               DeleteRoom, CreateRoom, Request, OpenWS, Return
    <2> QED BY <2>1, <2>2, <2>3
<1>3. IsFiniteSet(listed) /\ [Next]_vars => IsFiniteSet(listed)'
    BY <1>2
<1> QED BY <1>1, <1>3, PTL DEF Spec

-------------------------------------------------------------------------------
(* Theorems                                                                *)

\* What visits know stays right, whoever logs in and out, deletes, expires,
\* collects and restarts in between.
THEOREM InductiveInvariant == Spec => []IInv
<1>1. IInv /\ [Next]_vars => IInv'
    <2>1. IInv /\ UNCHANGED vars => IInv'
        <3> SUFFICES ASSUME IInv, UNCHANGED vars PROVE IInv'
            OBVIOUS
        <3>1. UNCHANGED <<clock, sessions, stored, rooms, listed, visit>>
            BY DEF vars
        <3>2. TypeOK'
            BY <3>1 DEF IInv, TypeOK, Opened, Created
        <3>3. Persists
            BY <3>1 DEF Persists, Opened, Created, Valid, Expired
        <3>4. \A v \in Visits : Sound(v)'
            BY <3>1, <3>3, OthersKeepSound
        <3> QED BY <3>2, <3>4 DEF IInv
    <2> QED BY <2>1, StepSound
<1> QED BY <1>1, InitSound, PTL DEF Spec

\* The type invariant of the store, the registry and the requests.
THEOREM TypeCorrectness == Spec => []TypeOK
BY InductiveInvariant, PTL DEF IInv

\* A session that was over when a request arrived opens nothing.
THEOREM LateRequestsRefused == Spec => []LateIsRefused
<1>1. IInv => LateIsRefused
    BY DEF IInv, LateIsRefused, Sound
<1> QED BY <1>1, InductiveInvariant, PTL

\* Who was told that a room is gone does not meet it again.
THEOREM AnswersAboutRoomsHold == Spec => []AnswersHold
<1>1. IInv => AnswersHold
    BY DEF IInv, AnswersHold, Sound
<1> QED BY <1>1, InductiveInvariant, PTL

\* A page rendered for the host is turned away only if the cookie it sent with the
\* socket was no longer good for the host of the room.
THEOREM HostsGetIn == Spec => []HostsAreAdmitted
<1>1. IInv => HostsAreAdmitted
    BY DEF IInv, HostsAreAdmitted, Sound
<1> QED BY <1>1, InductiveInvariant, PTL

\* A room is only removed by a restart, for its age while nobody is in it, or by
\* a request that proved to be its owner's.
THEOREM OwnersDelete == Spec => RoomsAreTheirOwners
<1> DEFINE Removal(r) ==
        Restart \/ Stale(r) \/ \E v \in Visits :
            visit[v].pc = "delete" /\ visit[v].room = r /\ User(v) = rooms[r].host
<1>1. ASSUME IInv, [Next]_vars, NEW r \in listed \ listed' PROVE Removal(r)
    <2>1. CASE CollectRooms
        BY <1>1, <2>1 DEF CollectRooms
    <2>2. ASSUME NEW v \in Visits, DeleteRoom(v) PROVE Removal(r)
        <3>1. visit[v].pc = "delete" /\ visit[v].room = r
            BY <1>1, <2>2 DEF DeleteRoom
        <3>2. User(v) = rooms[r].host
            BY <1>1, <3>1 DEF IInv, Sound, User
        <3> QED BY <3>1, <3>2
    <2>3. CASE listed \subseteq listed'
        BY <1>1, <2>3
    <2>4. CASE Restart
        BY <2>4
    <2>5. [Next]_vars => \/ CollectRooms \/ Restart \/ listed \subseteq listed'
                        \/ \E v \in Visits : DeleteRoom(v)
        BY DEF Next, vars, registryVars, Logout, Login, CollectSessions, Tick, RequestStep,
               PageStep,
               ReadSession, CheckExpiry, FindRoom, CreateRoom, Request, OpenWS, Return
    <2> QED BY <1>1, <2>1, <2>2, <2>3, <2>4, <2>5
<1>2. IInv /\ [Next]_vars => [\A r \in listed \ listed' : Removal(r)]_vars
    BY <1>1
<1> QED BY <1>2, InductiveInvariant, PTL DEF Spec, RoomsAreTheirOwners

\* However many rooms a host has and in whatever order the map yields them, its
\* list has all of them and no other, the newest first.
THEOREM HostsSeeNewestFirst == Spec => []ListsNewestFirst
<1>1. ASSUME TypeOK, IsFiniteSet(listed) PROVE ListsNewestFirst
    <2> SUFFICES ASSUME NEW u \in Users,
                        NEW out \in SetToSeqs({r \in listed : rooms[r].host = u})
                 PROVE  LET own == {r \in listed : rooms[r].host = u}
                            list == NewestFirst(out)
                        IN  /\ ToSet(list) = own /\ Len(list) = Len(out)
                            /\ \A i, j \in DOMAIN list : i < j =>
                                   rooms[list[i]].created >= rooms[list[j]].created
        BY DEF ListsNewestFirst
    <2> DEFINE own == {r \in listed : rooms[r].host = u}
               n == Cardinality(own)
               list == NewestFirst(out)
    <2>1. IsFiniteSet(own)
        BY <1>1, FS_Subset
    <2>2. Dated(own)
        BY <1>1 DEF TypeOK, Created, Room, Dated
    <2> HIDE DEF own
    <2>3. n \in Nat /\ out \in Orders(own, n)
        BY <2>1, WalkIsOrder DEF own
    <2> HIDE DEF n
    <2>4. list \in Orders(own, n) /\ Settled(list, n, n + 1)
        BY <2>2, <2>3, NewestFirstSorts
    <2> HIDE DEF list
    <2>5. Len(list) = n /\ DOMAIN list = 1 .. n /\ ToSet(list) = own /\ Len(out) = n
        BY <2>3, <2>4, OrderLen
    <2>6. ASSUME NEW i \in 1 .. n, NEW j \in 1 .. n, i < j
          PROVE  rooms[list[i]].created >= rooms[list[j]].created
        <3>1. i \in 1 .. n + 1 - 1 /\ j \in i + 1 .. n
            BY <2>3, <2>6
        <3>2. Leads(list, i, n)
            BY <2>3, <2>4, <3>1 DEF Settled
        <3> QED BY <3>1, <3>2 DEF Leads
    <2> QED BY <2>5, <2>6 DEF own, list
<1>2. TypeOK /\ IsFiniteSet(listed) => ListsNewestFirst
    BY <1>1
<1> QED BY <1>2, TypeCorrectness, FiniteListed, PTL

===============================================================================
