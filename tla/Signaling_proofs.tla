--------------------------- MODULE Signaling_proofs ---------------------------
(***************************************************************************)
(* What holds of the signaling server for any number of rooms and          *)
(* connections, any room size and any buffer size.                         *)
(***************************************************************************)
EXTENDS Signaling, SequenceTheorems, FiniteSetTheorems, TLAPS

-------------------------------------------------------------------------------
(* Peer lists are sequences without repetition                             *)

\* Appending a newcomer adds exactly that peer.
LEMMA AppendToRoster ==
    ASSUME NEW S, NEW s \in Seq(S), NEW e \in S
    PROVE  /\ Append(s, e) \in Seq(S)
           /\ Len(Append(s, e)) = Len(s) + 1
           /\ ToSet(Append(s, e)) = ToSet(s) \cup {e}
           /\ IsInjective(s) /\ e \notin ToSet(s) => IsInjective(Append(s, e))
<1> DEFINE t == Append(s, e)
<1>1. /\ t \in Seq(S) /\ Len(t) = Len(s) + 1
      /\ \A i \in 1 .. Len(s) : t[i] = s[i]
      /\ t[Len(s) + 1] = e
  BY AppendProperties
<1>2. /\ DOMAIN s = 1 .. Len(s) /\ DOMAIN t = 1 .. (Len(s) + 1) /\ Len(s) \in Nat
  BY <1>1, LenProperties
<1>3. ToSet(t) = ToSet(s) \cup {e}
  BY <1>1, <1>2 DEF ToSet
<1>4. ASSUME IsInjective(s), e \notin ToSet(s)
      PROVE  IsInjective(t)
  BY <1>1, <1>2, <1>4 DEF IsInjective, ToSet
<1> QED
  BY <1>1, <1>3, <1>4

\* Removing the peer at position i removes exactly that peer.
LEMMA RemoveFromRoster ==
    ASSUME NEW S, NEW s \in Seq(S), NEW i \in DOMAIN s, IsInjective(s)
    PROVE  /\ RemoveAt(s, i) \in Seq(S)
           /\ Len(RemoveAt(s, i)) = Len(s) - 1
           /\ ToSet(RemoveAt(s, i)) = ToSet(s) \ {s[i]}
           /\ IsInjective(RemoveAt(s, i))
<1> DEFINE u == SubSeq(s, 1, i - 1)
           v == SubSeq(s, i + 1, Len(s))
           t == RemoveAt(s, i)
<1>1. DOMAIN s = 1 .. Len(s) /\ Len(s) \in Nat /\ i \in 1 .. Len(s)
      /\ \A j \in 1 .. Len(s) : s[j] \in S
  BY LenProperties, ElementOfSeq
<1>2. /\ u \in Seq(S) /\ Len(u) = i - 1
      /\ \A j \in 1 .. i - 1 : u[j] = s[j]
  <2>1. \A j \in 1 .. i - 1 : s[j] \in S
    BY <1>1
  <2>2. /\ SubSeq(s, 1, i - 1) \in Seq(S)
        /\ Len(SubSeq(s, 1, i - 1)) = IF 1 <= i - 1 THEN i - 1 - 1 + 1 ELSE 0
        /\ \A j \in 1 .. i - 1 - 1 + 1 : SubSeq(s, 1, i - 1)[j] = s[1 + j - 1]
    BY <1>1, <2>1, SubSeqProperties
  <2> QED
    BY <1>1, <2>2
<1>3. /\ v \in Seq(S) /\ Len(v) = Len(s) - i
      /\ \A j \in 1 .. Len(s) - i : v[j] = s[i + j]
  <2>1. \A j \in i + 1 .. Len(s) : s[j] \in S
    BY <1>1
  <2>2. /\ SubSeq(s, i + 1, Len(s)) \in Seq(S)
        /\ Len(SubSeq(s, i + 1, Len(s))) =
              IF i + 1 <= Len(s) THEN Len(s) - (i + 1) + 1 ELSE 0
        /\ \A j \in 1 .. Len(s) - (i + 1) + 1 :
              SubSeq(s, i + 1, Len(s))[j] = s[i + 1 + j - 1]
    BY <1>1, <2>1, SubSeqProperties
  <2>3. ASSUME NEW j \in 1 .. Len(s) - i
        PROVE  v[j] = s[i + j]
    <3>1. j \in 1 .. Len(s) - (i + 1) + 1 /\ i + 1 + j - 1 = i + j
      BY <1>1
    <3> QED
      BY <2>2, <3>1
  <2>4. v \in Seq(S) /\ Len(v) = Len(s) - i
    BY <1>1, <2>2
  <2> QED
    BY <2>3, <2>4
<1>4. /\ t \in Seq(S) /\ Len(t) = Len(s) - 1
      /\ \A j \in 1 .. Len(s) - 1 : t[j] = IF j < i THEN s[j] ELSE s[j + 1]
  <2>1. t = u \o v
    BY DEF RemoveAt
  <2>2. /\ u \o v \in Seq(S) /\ Len(u \o v) = Len(u) + Len(v)
        /\ \A j \in 1 .. Len(u) + Len(v) :
              (u \o v)[j] = IF j <= Len(u) THEN u[j] ELSE v[j - Len(u)]
    BY <1>2, <1>3, ConcatProperties
  <2> HIDE DEF t, u, v
  <2>3. ASSUME NEW j \in 1 .. Len(s) - 1
        PROVE  t[j] = IF j < i THEN s[j] ELSE s[j + 1]
    <3>1. CASE j < i
      BY <1>1, <1>2, <1>3, <2>1, <2>2, <3>1
    <3>2. CASE ~(j < i)
      <4>1. j - (i - 1) \in 1 .. Len(s) - i /\ i + (j - (i - 1)) = j + 1
        BY <1>1, <3>2
      <4>2. t[j] = v[j - (i - 1)]
        BY <1>1, <1>2, <1>3, <2>1, <2>2, <3>2
      <4> QED
        BY <1>3, <3>2, <4>1, <4>2
    <3> QED
      BY <3>1, <3>2
  <2>4. t \in Seq(S) /\ Len(t) = Len(s) - 1
    BY <1>1, <1>2, <1>3, <2>1, <2>2
  <2> QED
    BY <2>3, <2>4
<1>5. DOMAIN t = 1 .. (Len(s) - 1)
  BY <1>4, LenProperties
<1> HIDE DEF t
<1>6. IsInjective(t)
  BY <1>1, <1>4, <1>5 DEF IsInjective
<1>7. ToSet(t) = ToSet(s) \ {s[i]}
  <2>1. ASSUME NEW j \in 1 .. Len(s) - 1
        PROVE  t[j] \in ToSet(s) \ {s[i]}
    <3>1. CASE j < i
      <4>1. t[j] = s[j] /\ j \in DOMAIN s /\ j # i
        BY <1>1, <1>4, <3>1
      <4>2. s[j] # s[i]
        BY <4>1 DEF IsInjective
      <4> QED
        BY <4>1, <4>2 DEF ToSet
    <3>2. CASE ~(j < i)
      <4>1. t[j] = s[j + 1] /\ j + 1 \in DOMAIN s /\ j + 1 # i
        BY <1>1, <1>4, <3>2
      <4>2. s[j + 1] # s[i]
        BY <4>1 DEF IsInjective
      <4> QED
        BY <4>1, <4>2 DEF ToSet
    <3> QED
      BY <3>1, <3>2
  <2>2. ASSUME NEW k \in 1 .. Len(s), k # i
        PROVE  s[k] \in ToSet(t)
    <3>1. CASE k < i
      BY <1>1, <1>4, <1>5, <3>1 DEF ToSet
    <3>2. CASE k > i
      <4>1. k - 1 \in DOMAIN t /\ t[k - 1] = s[k]
        BY <1>1, <1>4, <1>5, <3>2
      <4> QED
        BY <4>1 DEF ToSet
    <3> QED
      BY <1>1, <2>2, <3>1, <3>2
  <2>3. ToSet(t) \subseteq ToSet(s) \ {s[i]}
    BY <1>5, <2>1 DEF ToSet
  <2>4. ToSet(s) \ {s[i]} \subseteq ToSet(t)
    BY <1>1, <2>2 DEF ToSet
  <2> QED
    BY <2>3, <2>4
<1> QED
  BY <1>4, <1>6, <1>7 DEF t

\* A list without repetition is as long as it has members.
LEMMA RosterSize ==
    ASSUME NEW S, NEW s \in Seq(S), IsInjective(s)
    PROVE  IsFiniteSet(ToSet(s)) /\ Cardinality(ToSet(s)) = Len(s)
<1>1. DOMAIN s = 1 .. Len(s) /\ Len(s) \in Nat
  BY LenProperties
<1>2. s \in [1 .. Len(s) -> ToSet(s)]
  BY <1>1 DEF ToSet
<1>3. IsFiniteSet(1 .. Len(s)) /\ Cardinality(1 .. Len(s)) = Len(s)
  BY <1>1, FS_Interval
<1>4. s \in Surjection(1 .. Len(s), ToSet(s)) /\ s \in Injection(1 .. Len(s), ToSet(s))
  BY <1>1, <1>2 DEF Surjection, Injection, IsInjective, ToSet
<1>5. /\ IsFiniteSet(ToSet(s))
      /\ Cardinality(ToSet(s)) = Cardinality(1 .. Len(s))
  BY <1>3, <1>4, FS_Surjection
<1> QED
  BY <1>3, <1>5

-------------------------------------------------------------------------------
(* Type correctness                                                        *)

LEMMA MessageTypes ==
    ASSUME TypeOK, NEW h \in Conns, NEW others \in SUBSET Conns
    PROVE  /\ Welcome(h, others) \in Message /\ Joined(h) \in Message
           /\ Left(h) \in Message /\ Signal(h) \in Message
<1>1. second[h] \in BOOLEAN
  BY DEF TypeOK
<1> QED
  BY <1>1 DEF Message, Welcome, Joined, Left, Signal

LEMMA TrySendTypes ==
    ASSUME TypeOK, NEW h \in Conns, NEW p \in Conns, NEW m \in Message,
           NEW to \in Places, TrySend(h, p, m, to)
    PROVE  /\ pc' \in [Conns -> Places]
           /\ send' \in [Conns -> Seq(Message)]
           /\ lost' \in [Conns -> BOOLEAN]
<1>1. pc \in [Conns -> Places] /\ send \in [Conns -> Seq(Message)]
      /\ lost \in [Conns -> BOOLEAN]
  BY DEF TypeOK
<1>2. /\ \E to2 \in {"panicked", to} : pc' = [pc EXCEPT ![h] = to2]
      /\ send' = send \/ send' = [send EXCEPT ![p] = Append(@, m)]
      /\ lost' = lost \/ lost' = [lost EXCEPT ![p] = TRUE]
  BY DEF TrySend
<1>3. "panicked" \in Places
  BY DEF Places, InRoom
<1>4. pc' \in [Conns -> Places]
  BY <1>1, <1>2, <1>3
<1>5. Append(send[p], m) \in Seq(Message)
  BY <1>1, AppendProperties
<1>6. send' \in [Conns -> Seq(Message)]
  BY <1>1, <1>2, <1>5
<1>7. lost' \in [Conns -> BOOLEAN]
  BY <1>1, <1>2
<1> QED
  BY <1>4, <1>6, <1>7

LEMMA PlaceNames ==
    /\ {"idle", "found", "storing", "done"} \subseteq Places
    /\ InRoom \subseteq Places
    /\ {"joined", "welcoming", "welcomed", "announcing", "reading", "forwarding",
        "leaving", "notifying", "unwinding", "panicked"} = InRoom
BY DEF Places, InRoom, Joining

\* A handler that is past its lookup and not done holds a room.
LEMMA RunningHasRoom ==
    ASSUME TypeOK, HandlerRooms, NEW h \in Conns,
           pc[h] \in InRoom \cup {"found", "storing"}
    PROVE  room[h] \in Rooms
<1>1. pc[h] \notin {"idle", "done"}
  BY DEF InRoom, Joining
<1>2. room[h] # NoRoom
  BY <1>1 DEF HandlerRooms
<1>3. room[h] \in Rooms \cup {NoRoom}
  BY DEF TypeOK
<1> QED
  BY <1>2, <1>3

\* Roommates of a handler are connections.
LEMMA RoommatesType ==
    ASSUME TypeOK, NEW h \in Conns, room[h] \in Rooms
    PROVE  Roommates(h) \in SUBSET Conns
<1>1. peers[room[h]] \in Seq(Conns)
  BY DEF TypeOK
<1> QED
  BY <1>1, ElementOfSeq, LenProperties DEF Roommates, ToSet

\* Every step keeps every variable within its type.
LEMMA TypeStep ==
    ASSUME TypeOK, HandlerRooms, PlacesRespected, [Next]_vars
    PROVE  TypeOK'
<1> USE DEF registryVars, handlerVars, channelVars, socketVars
<1>1. ASSUME NEW r \in Rooms, RegistryStep(r)
      PROVE  TypeOK'
  <2>1. CASE Create(r)
    BY <2>1 DEF Create, TypeOK
  <2>2. CASE Age(r)
    BY <2>2 DEF Age, TypeOK
  <2>3. CASE Collect(r)
    BY <2>3 DEF Collect, TypeOK
  <2>4. CASE Delete(r)
    <3>1. closed' \in [Conns -> BOOLEAN]
      BY <2>4 DEF Delete
    <3>2. stuck' \in BOOLEAN
      BY <2>4 DEF Delete, RoomFree
    <3> QED
      BY <2>4, <3>1, <3>2 DEF Delete, TypeOK
  <2> QED
    BY <1>1, <2>1, <2>2, <2>3, <2>4 DEF RegistryStep
<1>2. ASSUME NEW h \in Conns, NEW r \in Rooms, Lookup(h, r)
      PROVE  TypeOK'
  BY <1>2, PlaceNames DEF Lookup, TypeOK
<1>3. ASSUME NEW h \in Conns, AcceptFails(h) \/ JoinFull(h) \/ JoinBegin(h)
      PROVE  TypeOK'
  <2>1. CASE AcceptFails(h)
    BY <2>1, PlaceNames DEF AcceptFails, TypeOK
  <2>2. CASE JoinFull(h)
    BY <2>2, PlaceNames DEF JoinFull, TypeOK
  <2>3. CASE JoinBegin(h)
    BY <2>3, PlaceNames DEF JoinBegin, TypeOK
  <2> QED
    BY <1>3, <2>1, <2>2, <2>3
<1>4. ASSUME NEW h \in Conns, JoinEnd(h)
      PROVE  TypeOK'
  <2>1. room[h] \in Rooms
    BY <1>4, RunningHasRoom DEF JoinEnd
  <2>2. Append(peers[room[h]], h) \in Seq(Conns)
    BY <2>1, AppendToRoster DEF TypeOK
  <2>3. peers' \in [Rooms -> Seq(Conns)]
    BY <1>4, <2>1, <2>2 DEF JoinEnd, TypeOK
  <2>4. (Len(peers[room[h]]) = 1) \in BOOLEAN
    OBVIOUS
  <2>5. second' \in [Conns -> BOOLEAN]
    BY <1>4, <2>4 DEF JoinEnd, TypeOK
  <2> QED
    BY <1>4, <2>3, <2>5, PlaceNames DEF JoinEnd, TypeOK
<1>5. ASSUME NEW h \in Conns, NEW from \in InRoom, NEW to \in InRoom,
             NEW copy, room[h] \in Rooms => copy \in SUBSET Conns,
             CopyRoster(h, from, to, copy)
      PROVE  TypeOK'
  <2>1. room[h] \in Rooms
    BY <1>5, RunningHasRoom DEF CopyRoster
  <2>2. /\ snap' = [snap EXCEPT ![h] = copy] /\ copy \in SUBSET Conns
        /\ pc' = [pc EXCEPT ![h] = to] /\ to \in Places
        /\ UNCHANGED <<registryVars, peers, handlerVars, channelVars, socketVars>>
    BY <1>5, <2>1, PlaceNames DEF CopyRoster
  <2>3. snap' \in [Conns -> SUBSET Conns]
    <3>1. snap \in [Conns -> SUBSET Conns]
      BY DEF TypeOK
    <3> QED
      BY <2>2, <3>1
  <2>4. pc' \in [Conns -> Places]
    <3>1. pc \in [Conns -> Places]
      BY DEF TypeOK
    <3> QED
      BY <2>2, <3>1
  <2> QED
    BY <2>2, <2>3, <2>4 DEF TypeOK
<1>6. ASSUME NEW h \in Conns, CopyForWelcome(h) \/ CopyForAnnounce(h) \/ CopyForLeave(h)
      PROVE  TypeOK'
  BY <1>5, <1>6, PlaceNames, RoommatesType
     DEF CopyForWelcome, CopyForAnnounce, CopyForLeave
<1>7. ASSUME NEW h \in Conns, NEW t \in Conns, ReadSignal(h, t)
      PROVE  TypeOK'
  BY <1>5, <1>7, PlaceNames DEF ReadSignal
<1>8. ASSUME NEW h \in Conns, SendWelcome(h)
      PROVE  TypeOK'
  <2>1. TrySend(h, h, Welcome(h, snap[h]), "welcomed")
        /\ Welcome(h, snap[h]) \in Message /\ "welcomed" \in Places
    BY <1>8, MessageTypes, PlaceNames DEF SendWelcome, TypeOK
  <2>2. pc' \in [Conns -> Places] /\ send' \in [Conns -> Seq(Message)]
        /\ lost' \in [Conns -> BOOLEAN]
    BY <2>1, TrySendTypes
  <2> QED
    BY <1>8, <2>2 DEF SendWelcome, TypeOK
<1>9. ASSUME NEW h \in Conns, NEW p \in Conns, NEW m \in Message, SendNext(h, p, m)
      PROVE  TypeOK'
  <2>1. TrySend(h, p, m, pc[h]) /\ pc[h] \in Places
    BY <1>9 DEF SendNext, TypeOK
  <2>2. pc' \in [Conns -> Places] /\ send' \in [Conns -> Seq(Message)]
        /\ lost' \in [Conns -> BOOLEAN]
    BY <2>1, TrySendTypes
  <2> QED
    BY <1>9, <2>2 DEF SendNext, TypeOK
<1>10. ASSUME NEW h \in Conns, NEW p \in Conns, Announce(h, p) \/ Notify(h, p)
       PROVE  TypeOK'
  BY <1>9, <1>10, MessageTypes DEF Announce, Notify
<1>11. ASSUME NEW h \in Conns, Forward(h)
       PROVE  TypeOK'
  <2>1. PICK t \in snap[h] : TrySend(h, t, Signal(h), "reading")
    BY <1>11 DEF Forward
  <2>2. t \in Conns /\ Signal(h) \in Message /\ "reading" \in Places
    BY MessageTypes, PlaceNames DEF TypeOK
  <2>3. pc' \in [Conns -> Places] /\ send' \in [Conns -> Seq(Message)]
        /\ lost' \in [Conns -> BOOLEAN]
    BY <2>1, <2>2, TrySendTypes
  <2> QED
    BY <1>11, <2>3 DEF Forward, TypeOK
<1>12. ASSUME NEW h \in Conns, StartLoop(h) \/ ReadBye(h) \/ ReadError(h) \/ Finish(h)
       PROVE  TypeOK'
  <2>1. CASE StartLoop(h)
    BY <2>1, PlaceNames DEF StartLoop, TypeOK
  <2>2. CASE ReadBye(h)
    BY <2>2 DEF ReadBye, TypeOK
  <2>3. CASE ReadError(h)
    BY <2>3, PlaceNames DEF ReadError, TypeOK
  <2>4. CASE Finish(h)
    BY <2>4, PlaceNames DEF Finish, TypeOK
  <2> QED
    BY <1>12, <2>1, <2>2, <2>3, <2>4
<1>13. ASSUME NEW h \in Conns, RemovePeer(h)
       PROVE  TypeOK'
  <2>1. PICK i \in DOMAIN peers[room[h]] :
           peers' = [peers EXCEPT ![room[h]] = RemoveAt(@, i)]
    BY <1>13 DEF RemovePeer
  <2>2. room[h] \in Rooms
    BY <1>13, RunningHasRoom, PlaceNames DEF RemovePeer, Unwinding
  <2>3. RemoveAt(peers[room[h]], i) \in Seq(Conns)
    BY <2>2, RemoveFromRoster DEF TypeOK, PlacesRespected
  <2>4. peers' \in [Rooms -> Seq(Conns)]
    BY <2>1, <2>2, <2>3 DEF TypeOK
  <2>5. send' \in [Conns -> Seq(Message)]
    BY <1>13, EmptySeq DEF RemovePeer, TypeOK
  <2> QED
    BY <1>13, <2>4, <2>5, PlaceNames DEF RemovePeer, TypeOK
<1>14. ASSUME NEW h \in Conns, WriterStep(h) \/ PingTimeout(h) \/ Disconnect(h)
       PROVE  TypeOK'
  <2>1. CASE Deliver(h)
    <3>1. Tail(send[h]) \in Seq(Message)
      BY <2>1, HeadTailProperties DEF Deliver, TypeOK
    <3> QED
      BY <2>1, <3>1 DEF Deliver, TypeOK
  <2>2. CASE WriterStops(h)
    BY <2>2 DEF WriterStops, TypeOK
  <2>3. CASE PingTimeout(h)
    BY <2>3 DEF PingTimeout, TypeOK
  <2>4. CASE Disconnect(h)
    BY <2>4 DEF Disconnect, TypeOK
  <2> QED
    BY <1>14, <2>1, <2>2, <2>3, <2>4 DEF WriterStep
<1>15. CASE UNCHANGED vars
  BY <1>15 DEF TypeOK, vars
<1> QED
  BY <1>1, <1>2, <1>3, <1>4, <1>6, <1>7, <1>8, <1>10, <1>11, <1>12, <1>13, <1>14, <1>15
     DEF Next, HandlerStep, HandlerRuns, ClientStep

-------------------------------------------------------------------------------
(* The inductive invariant.  Of all steps, only nine touch what it speaks  *)
(* of: the others leave it alone or walk from place to place in the room.  *)

Still == UNCHANGED <<status, closed, peers, pc, room>>

Walk(h) ==
    /\ pc[h] \in InRoom
    /\ \E q \in InRoom : pc' = [pc EXCEPT ![h] = q]
    /\ UNCHANGED <<status, closed, peers, room>>

\* A handler gives up before it is in the room.
Quit(h) == AcceptFails(h) \/ JoinFull(h)

LEMMA CopyingWalks ==
    ASSUME NEW h \in Conns, NEW copy, NEW from \in InRoom, NEW to \in InRoom,
           CopyRoster(h, from, to, copy)
    PROVE  Walk(h)
BY DEF CopyRoster, Walk, registryVars, handlerVars, channelVars

LEMMA SendingWalks ==
    ASSUME NEW h \in Conns, NEW p, NEW m, NEW to \in InRoom, pc[h] \in InRoom,
           TrySend(h, p, m, to), UNCHANGED <<registryVars, peers, handlerVars, closed>>
    PROVE  Walk(h)
<1>1. \E q \in {"panicked", to} : pc' = [pc EXCEPT ![h] = q]
  BY DEF TrySend
<1> QED
  BY <1>1, PlaceNames DEF Walk, registryVars, handlerVars

LEMMA StepKinds ==
    ASSUME TypeOK, Next
    PROVE  \/ Still
           \/ \E r \in Rooms : Create(r) \/ Collect(r) \/ Delete(r)
           \/ \E h \in Conns :
                 \/ \E r \in Rooms : Lookup(h, r)
                 \/ Quit(h) \/ JoinBegin(h) \/ JoinEnd(h) \/ RemovePeer(h)
                 \/ Walk(h)
<1> USE DEF registryVars, handlerVars, channelVars, socketVars
<1>1. ASSUME NEW r \in Rooms, Age(r)
      PROVE  Still
  BY <1>1 DEF Age, Still
<1>2. ASSUME NEW h \in Conns,
             ReadBye(h) \/ Deliver(h) \/ WriterStops(h) \/ PingTimeout(h) \/ Disconnect(h)
      PROVE  Still
  BY <1>2 DEF ReadBye, Deliver, WriterStops, PingTimeout, Disconnect, Still
<1>3. ASSUME NEW h \in Conns,
             CopyForWelcome(h) \/ CopyForAnnounce(h) \/ CopyForLeave(h)
      PROVE  Walk(h)
  BY <1>3, CopyingWalks, PlaceNames DEF CopyForWelcome, CopyForAnnounce, CopyForLeave
<1>4. ASSUME NEW h \in Conns, NEW t \in Conns, ReadSignal(h, t)
      PROVE  Walk(h)
  BY <1>4, CopyingWalks, PlaceNames DEF ReadSignal
<1>5. ASSUME NEW h \in Conns, SendWelcome(h)
      PROVE  Walk(h)
  BY <1>5, SendingWalks, PlaceNames DEF SendWelcome
<1>6. ASSUME NEW h \in Conns, NEW p \in Conns, Announce(h, p) \/ Notify(h, p)
      PROVE  Walk(h)
  <2>1. CASE Announce(h, p)
    <3>1. pc[h] \in InRoom /\ TrySend(h, p, Joined(h), pc[h])
          /\ UNCHANGED <<registryVars, peers, handlerVars, closed>>
      BY <2>1, PlaceNames DEF Announce, SendNext
    <3> QED
      BY <3>1, SendingWalks
  <2>2. CASE Notify(h, p)
    <3>1. pc[h] \in InRoom /\ TrySend(h, p, Left(h), pc[h])
          /\ UNCHANGED <<registryVars, peers, handlerVars, closed>>
      BY <2>2, PlaceNames DEF Notify, SendNext
    <3> QED
      BY <3>1, SendingWalks
  <2> QED
    BY <1>6, <2>1, <2>2
<1>7. ASSUME NEW h \in Conns, Forward(h)
      PROVE  Walk(h)
  <2>1. PICK t \in snap[h] : TrySend(h, t, Signal(h), "reading")
    BY <1>7 DEF Forward
  <2> QED
    BY <1>7, <2>1, SendingWalks, PlaceNames DEF Forward
<1>8. ASSUME NEW h \in Conns, StartLoop(h) \/ ReadError(h) \/ Finish(h)
      PROVE  Walk(h)
  BY <1>8, PlaceNames DEF StartLoop, ReadError, Finish, Walk
<1>9. ASSUME NEW r \in Rooms, RegistryStep(r)
      PROVE  Still \/ Create(r) \/ Collect(r) \/ Delete(r)
  BY <1>1, <1>9 DEF RegistryStep
<1>10. ASSUME NEW h \in Conns, HandlerStep(h)
       PROVE  Quit(h) \/ JoinBegin(h) \/ JoinEnd(h) \/ RemovePeer(h) \/ Walk(h)
  BY <1>3, <1>5, <1>6, <1>7, <1>8, <1>10 DEF HandlerStep, HandlerRuns, Quit
<1>11. ASSUME NEW h \in Conns, ClientStep(h)
       PROVE  Still \/ Walk(h) \/ \E r \in Rooms : Lookup(h, r)
  BY <1>2, <1>4, <1>11 DEF ClientStep
<1>12. ASSUME NEW h \in Conns, WriterStep(h) \/ PingTimeout(h)
       PROVE  Still
  BY <1>2, <1>12 DEF WriterStep
<1> QED
  BY <1>9, <1>10, <1>11, <1>12 DEF Next

\* The four parts of IInv besides the types.
Core == RosterMatchesHandlers /\ HandlerRooms /\ AppendsExclude /\ PlacesRespected

\* A walk changes nothing but a place within the room for another one.
LEMMA WalkKeepsCore ==
    ASSUME TypeOK, Core, NEW h \in Conns, Walk(h)
    PROVE  Core'
<1>1. PICK q \in InRoom : pc' = [pc EXCEPT ![h] = q]
  BY DEF Walk
<1>2. q \notin {"idle", "found", "storing", "done"}
  BY DEF InRoom, Joining
<1>3. pc[h] \in InRoom /\ pc[h] \notin {"idle", "found", "storing", "done"}
  BY DEF Walk, InRoom, Joining
<1>4. \A g \in Conns : /\ pc'[g] \in InRoom <=> pc[g] \in InRoom
                       /\ pc'[g] \in {"idle", "done"} <=> pc[g] \in {"idle", "done"}
                       /\ pc'[g] = "storing" <=> pc[g] = "storing"
                       /\ pc'[g] = "done" <=> pc[g] = "done"
  BY <1>1, <1>2, <1>3 DEF TypeOK
<1>5. UNCHANGED <<status, closed, peers, room>>
  BY DEF Walk
<1>6. RosterMatchesHandlers'
  BY <1>4, <1>5 DEF Core, RosterMatchesHandlers
<1>7. HandlerRooms'
  BY <1>4, <1>5 DEF Core, HandlerRooms
<1>8. AppendsExclude'
  BY <1>4, <1>5 DEF Core, AppendsExclude
<1>9. PlacesRespected'
  BY <1>5 DEF Core, PlacesRespected
<1> QED
  BY <1>6, <1>7, <1>8, <1>9 DEF Core

\* The registry changes the fate of rooms, not who is in them.
LEMMA RegistryKeepsCore ==
    ASSUME TypeOK, Core, NEW r \in Rooms, Create(r) \/ Collect(r) \/ Delete(r)
    PROVE  Core'
<1>1. UNCHANGED <<peers, pc, room>>
  BY DEF Create, Collect, Delete, handlerVars
<1>2. RosterMatchesHandlers' /\ AppendsExclude' /\ PlacesRespected'
  BY <1>1 DEF Core, RosterMatchesHandlers, AppendsExclude, PlacesRespected
<1>3. \A x \in Rooms : /\ status[x] # "none" => status'[x] # "none"
                       /\ status[x] = "gone" => status'[x] = "gone"
  BY DEF Create, Collect, Delete, TypeOK
<1>4. \A h \in Conns : closed'[h] =>
          closed[h] \/ (pc[h] \in InRoom /\ status'[room[h]] = "gone")
  <2>1. CASE Create(r) \/ Collect(r)
    <3>1. closed' = closed
      BY <2>1 DEF Create, Collect, channelVars
    <3> QED
      BY <3>1
  <2>2. CASE Delete(r)
    <3>1. ASSUME NEW h \in Conns, closed'[h], ~closed[h]
          PROVE  pc[h] \in InRoom /\ status'[room[h]] = "gone"
      <4>1. h \in ToSet(peers[r])
        <5>1. closed'[h] = (closed[h] \/ h \in ToSet(peers[r]))
          BY <2>2 DEF Delete
        <5> QED
          BY <3>1, <5>1
      <4>2. pc[h] \in InRoom /\ room[h] = r
        BY <4>1 DEF Core, RosterMatchesHandlers
      <4>3. status'[r] = "gone"
        BY <2>2 DEF Delete, TypeOK
      <4> QED
        BY <4>2, <4>3
    <3> QED
      BY <3>1
  <2> QED
    BY <2>1, <2>2
<1>5. \A h \in Conns : room[h] # NoRoom => room[h] \in Rooms
  BY DEF TypeOK
<1>6. ASSUME NEW h \in Conns
      PROVE  /\ room'[h] = NoRoom <=> pc'[h] \in {"idle", "done"}
             /\ room'[h] # NoRoom => status'[room'[h]] # "none"
             /\ closed'[h] => pc'[h] \in InRoom \cup {"done"}
             /\ closed'[h] /\ pc'[h] \in InRoom => status'[room'[h]] = "gone"
  <2>1. pc[h] \in InRoom => room[h] \in Rooms
    BY RunningHasRoom DEF Core
  <2> QED
    BY <1>1, <1>3, <1>4, <1>5, <2>1 DEF Core, HandlerRooms
<1>7. HandlerRooms'
  BY <1>6 DEF HandlerRooms
<1> QED
  BY <1>2, <1>7 DEF Core

\* Before and after its time in the room a handler changes its own place only.
LEMMA OutsideKeepsCore ==
    ASSUME TypeOK, Core, NEW h \in Conns,
           (\E r \in Rooms : Lookup(h, r)) \/ Quit(h) \/ JoinBegin(h)
    PROVE  Core'
<1> USE DEF registryVars, handlerVars, channelVars
<1>1. ASSUME NEW r \in Rooms, Lookup(h, r)
      PROVE  Core'
  <2>1. /\ pc[h] = "idle" /\ pc' = [pc EXCEPT ![h] = "found"]
        /\ status[r] = "live" /\ room' = [room EXCEPT ![h] = r]
        /\ UNCHANGED <<status, closed, peers>>
    BY <1>1 DEF Lookup
  <2>2. \A g \in Conns : /\ pc'[g] = IF g = h THEN "found" ELSE pc[g]
                         /\ room'[g] = IF g = h THEN r ELSE room[g]
    BY <2>1 DEF TypeOK
  <2>3. {"idle", "found"} \cap InRoom = {}
    BY DEF InRoom, Joining
  <2>4. RosterMatchesHandlers'
    BY <2>1, <2>2, <2>3 DEF Core, RosterMatchesHandlers
  <2>5. ASSUME NEW g \in Conns
        PROVE  /\ room'[g] = NoRoom <=> pc'[g] \in {"idle", "done"}
               /\ room'[g] # NoRoom => status'[room'[g]] # "none"
               /\ closed'[g] => pc'[g] \in InRoom \cup {"done"}
               /\ closed'[g] /\ pc'[g] \in InRoom => status'[room'[g]] = "gone"
    BY <2>1, <2>2, <2>3, NoRoomAssumption DEF Core, HandlerRooms
  <2>6. HandlerRooms'
    BY <2>5 DEF HandlerRooms
  <2>7. AppendsExclude'
    BY <2>1, <2>2 DEF Core, AppendsExclude
  <2>8. PlacesRespected'
    BY <2>1 DEF Core, PlacesRespected
  <2> QED
    BY <2>4, <2>6, <2>7, <2>8 DEF Core
<1>2. CASE Quit(h)
  <2>1. /\ pc[h] = "found" /\ pc' = [pc EXCEPT ![h] = "done"]
        /\ room' = [room EXCEPT ![h] = NoRoom]
        /\ UNCHANGED <<status, closed, peers>>
    BY <1>2 DEF Quit, AcceptFails, JoinFull
  <2>2. \A g \in Conns : /\ pc'[g] = IF g = h THEN "done" ELSE pc[g]
                         /\ room'[g] = IF g = h THEN NoRoom ELSE room[g]
    BY <2>1 DEF TypeOK
  <2>3. {"found", "done"} \cap InRoom = {}
    BY DEF InRoom, Joining
  <2>4. RosterMatchesHandlers'
    BY <2>1, <2>2, <2>3 DEF Core, RosterMatchesHandlers
  <2>5. ASSUME NEW g \in Conns
        PROVE  /\ room'[g] = NoRoom <=> pc'[g] \in {"idle", "done"}
               /\ room'[g] # NoRoom => status'[room'[g]] # "none"
               /\ closed'[g] => pc'[g] \in InRoom \cup {"done"}
               /\ closed'[g] /\ pc'[g] \in InRoom => status'[room'[g]] = "gone"
    BY <2>1, <2>2, <2>3 DEF Core, HandlerRooms
  <2>6. HandlerRooms'
    BY <2>5 DEF HandlerRooms
  <2>7. AppendsExclude'
    BY <2>1, <2>2 DEF Core, AppendsExclude
  <2>8. PlacesRespected'
    BY <2>1 DEF Core, PlacesRespected
  <2> QED
    BY <2>4, <2>6, <2>7, <2>8 DEF Core
<1>3. CASE JoinBegin(h)
  <2>1. /\ pc[h] = "found" /\ pc' = [pc EXCEPT ![h] = "storing"]
        /\ RoomFree(room[h]) /\ Len(peers[room[h]]) < MaxPeers
        /\ UNCHANGED <<status, closed, peers, room>>
    BY <1>3 DEF JoinBegin
  <2>2. \A g \in Conns : pc'[g] = IF g = h THEN "storing" ELSE pc[g]
    BY <2>1 DEF TypeOK
  <2>3. {"found", "storing"} \cap (InRoom \cup {"idle", "done"}) = {}
    BY DEF InRoom, Joining
  <2>4. RosterMatchesHandlers'
    BY <2>1, <2>2, <2>3 DEF Core, RosterMatchesHandlers
  <2>5. HandlerRooms'
    BY <2>1, <2>2, <2>3 DEF Core, HandlerRooms
  <2>6. AppendsExclude'
    BY <2>1, <2>2 DEF Core, AppendsExclude, RoomFree
  <2>7. PlacesRespected'
    BY <2>1 DEF Core, PlacesRespected
  <2> QED
    BY <2>4, <2>5, <2>6, <2>7 DEF Core
<1> QED
  BY <1>1, <1>2, <1>3

\* The append: the newcomer was in no list, and its place was kept for it.
LEMMA JoinEndKeepsCore ==
    ASSUME TypeOK, Core, NEW h \in Conns, JoinEnd(h)
    PROVE  Core'
<1> DEFINE r == room[h]
<1>1. /\ pc[h] = "storing" /\ pc' = [pc EXCEPT ![h] = "joined"]
      /\ peers' = [peers EXCEPT ![r] = Append(@, h)]
      /\ UNCHANGED <<status, closed, room>>
  BY DEF JoinEnd, registryVars, channelVars
<1>2. r \in Rooms
  BY <1>1, RunningHasRoom DEF Core
<1> HIDE DEF r
<1>3. "joined" \in InRoom /\ {"storing", "idle", "done"} \cap InRoom = {}
  BY DEF InRoom, Joining
<1>4. \A g \in Conns : pc'[g] = IF g = h THEN "joined" ELSE pc[g]
  BY <1>1 DEF TypeOK
<1>5. \A x \in Rooms : peers'[x] = IF x = r THEN Append(peers[r], h) ELSE peers[x]
  BY <1>1, <1>2 DEF TypeOK
<1>6. ToSet(peers[r]) = {g \in Conns : pc[g] \in InRoom /\ room[g] = r}
  BY <1>2 DEF Core, RosterMatchesHandlers
<1>7. /\ peers[r] \in Seq(Conns) /\ IsInjective(peers[r])
      /\ h \notin ToSet(peers[r]) /\ Len(peers[r]) < MaxPeers
  BY <1>1, <1>2, <1>3, <1>6 DEF TypeOK, Core, PlacesRespected, AppendsExclude, r
<1>8. /\ Len(Append(peers[r], h)) = Len(peers[r]) + 1
      /\ ToSet(Append(peers[r], h)) = ToSet(peers[r]) \cup {h}
      /\ IsInjective(Append(peers[r], h))
  BY <1>7, AppendToRoster
<1>9. RosterMatchesHandlers'
  <2>1. ASSUME NEW x \in Rooms
        PROVE  ToSet(peers'[x]) = {g \in Conns : pc'[g] \in InRoom /\ room'[g] = x}
    <3>1. CASE x = r
      BY <1>1, <1>3, <1>4, <1>5, <1>6, <1>8, <3>1 DEF r
    <3>2. CASE x # r
      <4>1. ToSet(peers[x]) = {g \in Conns : pc[g] \in InRoom /\ room[g] = x}
        BY DEF Core, RosterMatchesHandlers
      <4> QED
        BY <1>1, <1>3, <1>4, <1>5, <3>2, <4>1 DEF r
    <3> QED
      BY <3>1, <3>2
  <2> QED
    BY <2>1 DEF RosterMatchesHandlers
<1>10. HandlerRooms'
  <2>1. \A g \in Conns : closed[g] => g # h
    BY <1>1, <1>3 DEF Core, HandlerRooms
  <2> QED
    BY <1>1, <1>3, <1>4, <2>1 DEF Core, HandlerRooms
<1>11. AppendsExclude'
  BY <1>1, <1>4, <1>5 DEF Core, AppendsExclude, r, TypeOK
<1>12. PlacesRespected'
  <2>1. Len(peers[r]) \in Nat /\ MaxPeers \in Nat
    BY <1>7, LenProperties, MaxPeersAssumption
  <2>2. Len(peers[r]) + 1 <= MaxPeers
    BY <1>7, <2>1
  <2>3. \A x \in Rooms : IsInjective(peers[x]) /\ Len(peers[x]) <= MaxPeers
    BY DEF Core, PlacesRespected
  <2>4. ASSUME NEW x \in Rooms
        PROVE  IsInjective(peers'[x]) /\ Len(peers'[x]) <= MaxPeers
    BY <1>5, <1>8, <2>2, <2>3
  <2> QED
    BY <2>4 DEF PlacesRespected
<1> QED
  BY <1>9, <1>10, <1>11, <1>12 DEF Core

\* The removal: exactly the leaving peer goes, and its place with it.
LEMMA RemovePeerKeepsCore ==
    ASSUME TypeOK, Core, NEW h \in Conns, RemovePeer(h)
    PROVE  Core'
<1> DEFINE r == room[h]
<1>1. PICK i \in DOMAIN peers[r] :
         peers[r][i] = h /\ peers' = [peers EXCEPT ![r] = RemoveAt(@, i)]
  BY DEF RemovePeer
<1>2. /\ pc[h] \in InRoom /\ pc' = [pc EXCEPT ![h] = "done"]
      /\ closed' = [closed EXCEPT ![h] = TRUE]
      /\ room' = [room EXCEPT ![h] = NoRoom] /\ UNCHANGED status
  BY PlaceNames DEF RemovePeer, Unwinding, registryVars
<1>3. r \in Rooms
  BY <1>2, RunningHasRoom DEF Core
<1>4. peers[r] \in Seq(Conns) /\ IsInjective(peers[r]) /\ Len(peers[r]) <= MaxPeers
  BY <1>3 DEF TypeOK, Core, PlacesRespected
<1>5. /\ Len(RemoveAt(peers[r], i)) = Len(peers[r]) - 1
      /\ ToSet(RemoveAt(peers[r], i)) = ToSet(peers[r]) \ {h}
      /\ IsInjective(RemoveAt(peers[r], i))
  BY <1>1, <1>4, RemoveFromRoster
<1>6. {"done", "idle", "storing"} \cap InRoom = {}
  BY DEF InRoom, Joining
<1>7. \A x \in Rooms : peers'[x] = IF x = r THEN RemoveAt(peers[r], i) ELSE peers[x]
  BY <1>1, <1>3 DEF TypeOK
<1>8. \A g \in Conns : /\ pc'[g] = IF g = h THEN "done" ELSE pc[g]
                       /\ room'[g] = IF g = h THEN NoRoom ELSE room[g]
                       /\ closed'[g] = IF g = h THEN TRUE ELSE closed[g]
  BY <1>2 DEF TypeOK
<1>9. RosterMatchesHandlers'
  <2>1. ASSUME NEW x \in Rooms
        PROVE  ToSet(peers'[x]) = {g \in Conns : pc'[g] \in InRoom /\ room'[g] = x}
    <3>1. ToSet(peers[x]) = {g \in Conns : pc[g] \in InRoom /\ room[g] = x}
      BY DEF Core, RosterMatchesHandlers
    <3>2. CASE x = r
      <4>1. ToSet(peers'[x]) = ToSet(peers[x]) \ {h}
        BY <1>5, <1>7, <3>2
      <4>2. ASSUME NEW g \in Conns
            PROVE  (pc'[g] \in InRoom /\ room'[g] = x)
                     <=> (pc[g] \in InRoom /\ room[g] = x /\ g # h)
        BY <1>6, <1>8
      <4> QED
        BY <3>1, <4>1, <4>2
    <3>3. CASE x # r
      <4>1. ToSet(peers'[x]) = ToSet(peers[x])
        BY <1>7, <3>3
      <4>2. ASSUME NEW g \in Conns
            PROVE  (pc'[g] \in InRoom /\ room'[g] = x)
                     <=> (pc[g] \in InRoom /\ room[g] = x)
        <5>1. CASE g = h
          BY <1>6, <1>8, <3>3, <5>1
        <5>2. CASE g # h
          BY <1>8, <5>2
        <5> QED
          BY <5>1, <5>2
      <4> QED
        BY <3>1, <4>1, <4>2
    <3> QED
      BY <3>2, <3>3
  <2> QED
    BY <2>1 DEF RosterMatchesHandlers
<1>10. HandlerRooms'
  <2>1. ASSUME NEW g \in Conns
        PROVE  /\ room'[g] = NoRoom <=> pc'[g] \in {"idle", "done"}
               /\ room'[g] # NoRoom => status'[room'[g]] # "none"
               /\ closed'[g] => pc'[g] \in InRoom \cup {"done"}
               /\ closed'[g] /\ pc'[g] \in InRoom => status'[room'[g]] = "gone"
    <3>1. CASE g = h
      BY <1>6, <1>8, <3>1, NoRoomAssumption
    <3>2. CASE g # h
      <4>1. pc'[g] = pc[g] /\ room'[g] = room[g] /\ closed'[g] = closed[g]
        BY <1>8, <3>2
      <4> QED
        BY <1>2, <4>1 DEF Core, HandlerRooms
    <3> QED
      BY <3>1, <3>2
  <2> QED
    BY <2>1 DEF HandlerRooms
<1>11. \A x \in Rooms : /\ IsInjective(peers'[x])
                        /\ Len(peers'[x]) <= Len(peers[x])
                        /\ Len(peers'[x]) \in Nat /\ Len(peers[x]) \in Nat
  <2>1. \A x \in Rooms : Len(peers[x]) \in Nat /\ IsInjective(peers[x])
    BY LenProperties DEF TypeOK, Core, PlacesRespected
  <2>2. RemoveAt(peers[r], i) \in Seq(Conns)
    BY <1>1, <1>4, RemoveFromRoster
  <2>3. Len(RemoveAt(peers[r], i)) \in Nat
    BY <2>2, LenProperties
  <2> QED
    BY <1>3, <1>5, <1>7, <2>1, <2>3
<1>12. PlacesRespected'
  BY <1>11, MaxPeersAssumption DEF Core, PlacesRespected
<1>13. AppendsExclude'
  <2>1. ASSUME NEW f \in Conns, NEW g \in Conns, pc'[f] = "storing", pc'[g] = "storing"
        PROVE  /\ Len(peers'[room'[g]]) < MaxPeers
               /\ room'[f] = room'[g] => f = g
    <3>1. f # h /\ g # h /\ pc[f] = "storing" /\ pc[g] = "storing"
          /\ room'[f] = room[f] /\ room'[g] = room[g]
      BY <1>8, <2>1
    <3>2. Len(peers[room[g]]) < MaxPeers /\ (room[f] = room[g] => f = g)
      BY <3>1 DEF Core, AppendsExclude
    <3>3. room[g] \in Rooms
      BY <3>1, RunningHasRoom DEF Core
    <3> QED
      BY <1>11, <3>1, <3>2, <3>3, MaxPeersAssumption
  <2> QED
    BY <2>1 DEF AppendsExclude
<1> QED
  BY <1>9, <1>10, <1>12, <1>13 DEF Core

-------------------------------------------------------------------------------
(* Theorems                                                                *)

LEMMA InitIInv == Init => IInv
<1> SUFFICES ASSUME Init PROVE IInv
  OBVIOUS
<1>1. ToSet(<<>>) = {} /\ Len(<<>>) = 0 /\ IsInjective(<<>>)
  BY DEF ToSet, IsInjective
<1>2. {"idle", "storing"} \cap InRoom = {} /\ "idle" \in Places
  BY DEF Places, InRoom, Joining
<1>3. TypeOK
  BY <1>2, EmptySeq DEF Init, TypeOK
<1>4. RosterMatchesHandlers
  BY <1>1, <1>2 DEF Init, RosterMatchesHandlers
<1>5. HandlerRooms /\ AppendsExclude
  BY DEF Init, HandlerRooms, AppendsExclude
<1>6. PlacesRespected
  BY <1>1, MaxPeersAssumption DEF Init, PlacesRespected
<1> QED
  BY <1>3, <1>4, <1>5, <1>6 DEF IInv

LEMMA NextIInv == IInv /\ [Next]_vars => IInv'
<1> SUFFICES ASSUME IInv, [Next]_vars PROVE IInv'
  OBVIOUS
<1>1. TypeOK /\ Core
  BY DEF IInv, Core
<1>2. TypeOK'
  BY <1>1, TypeStep DEF Core
<1>3. Core'
  <2>1. CASE Still \/ UNCHANGED vars
    BY <1>1, <2>1 DEF Still, vars, Core, RosterMatchesHandlers, HandlerRooms,
       AppendsExclude, PlacesRespected
  <2>2. CASE Next
    BY <1>1, <2>1, <2>2, StepKinds, RegistryKeepsCore, OutsideKeepsCore,
       JoinEndKeepsCore, RemovePeerKeepsCore, WalkKeepsCore
  <2> QED
    BY <2>1, <2>2
<1> QED
  BY <1>2, <1>3 DEF IInv, Core

\* The invariant all other theorems rest on: peer lists and handlers agree, one
\* append at a time, and a channel is closed only by removal or deletion.
THEOREM InductiveInvariant == Spec => []IInv
BY InitIInv, NextIInv, PTL DEF Spec

\* Every variable of the server keeps its type.
THEOREM TypeCorrectness == Spec => []TypeOK
<1>1. IInv => TypeOK
  BY DEF IInv
<1> QED
  BY <1>1, InductiveInvariant, PTL

\* Room.peers is exactly the set of handlers between AddPeer and RemovePeer.
THEOREM RosterCorrect == Spec => []RosterMatchesHandlers
<1>1. IInv => RosterMatchesHandlers
  BY DEF IInv
<1> QED
  BY <1>1, InductiveInvariant, PTL

\* A registered room lists only peers whose channel is open.
THEOREM RegisteredPeersOpen == Spec => []ListedPeersOpen
<1>1. IInv => ListedPeersOpen
  <2> SUFFICES ASSUME IInv, NEW r \in Rooms, status[r] = "live", NEW h \in ToSet(peers[r])
               PROVE  ~closed[h]
    BY DEF ListedPeersOpen
  <2>1. h \in Conns /\ pc[h] \in InRoom /\ room[h] = r
    BY DEF IInv, RosterMatchesHandlers
  <2> QED
    BY <2>1 DEF IInv, HandlerRooms
<1> QED
  BY <1>1, InductiveInvariant, PTL

\* No room holds more than MaxPeers peers, the append under way included.
THEOREM CapacityRespected == Spec => []RoomCapacity
<1>1. ASSUME IInv, NEW r \in Rooms
      PROVE  /\ IsInjective(peers[r])
             /\ Len(peers[r]) + Cardinality({h \in Conns : pc[h] = "storing" /\ room[h] = r})
                  <= MaxPeers
  <2> DEFINE appending == {h \in Conns : pc[h] = "storing" /\ room[h] = r}
  <2>1. IsInjective(peers[r]) /\ Len(peers[r]) <= MaxPeers
    BY <1>1 DEF IInv, PlacesRespected
  <2>2. Len(peers[r]) \in Nat /\ MaxPeers \in Nat
    BY <1>1, LenProperties, MaxPeersAssumption DEF IInv, TypeOK
  <2>3. CASE appending = {}
    <3>1. Cardinality(appending) = 0
      BY <2>3, FS_EmptySet
    <3> QED
      BY <2>1, <2>2, <3>1
  <2>4. CASE appending # {}
    <3>1. PICK h \in Conns : pc[h] = "storing" /\ room[h] = r
      BY <2>4
    <3>2. appending = {h}
      BY <1>1, <3>1 DEF IInv, AppendsExclude
    <3>3. Cardinality(appending) = 1
      BY <3>2, FS_Singleton
    <3>4. Len(peers[r]) < MaxPeers
      BY <1>1, <3>1 DEF IInv, AppendsExclude
    <3> QED
      BY <2>1, <2>2, <3>3, <3>4
  <2> QED
    BY <2>3, <2>4
<1>2. IInv => RoomCapacity
  BY <1>1 DEF RoomCapacity
<1> QED
  BY <1>2, InductiveInvariant, PTL

-------------------------------------------------------------------------------
(* Steps of the registry, and the implementation of CallRoom               *)

\* Only the registry's own operations change what becomes of a room.
LEMMA StatusSteps ==
    ASSUME TypeOK, Next
    PROVE  \/ status' = status
           \/ \E r \in Rooms : Create(r) \/ Collect(r) \/ Delete(r)
<1> USE DEF registryVars
<1>1. Still => status' = status
  BY DEF Still
<1>2. ASSUME NEW h \in Conns,
             \/ \E r \in Rooms : Lookup(h, r)
             \/ Quit(h) \/ JoinBegin(h) \/ JoinEnd(h) \/ RemovePeer(h) \/ Walk(h)
      PROVE  status' = status
  BY <1>2 DEF Lookup, Quit, AcceptFails, JoinFull, JoinBegin, JoinEnd, RemovePeer, Walk
<1> QED
  BY <1>1, <1>2, StepKinds

\* A room leaves the registry empty, or with all its peers' channels closed.
THEOREM RetirementClosesPeers == Spec => NoSilentRetirement
<1>1. ASSUME IInv, Next, NEW r \in Rooms, status[r] = "live", status'[r] = "gone",
             NEW h \in ToSet(peers[r])
      PROVE  closed'[h]
  <2>1. PICK x \in Rooms : Create(x) \/ Collect(x) \/ Delete(x)
    BY <1>1, StatusSteps DEF IInv
  <2>2. status'[r] = IF r = x THEN status'[x] ELSE status[r]
    BY <1>1, <2>1 DEF IInv, TypeOK, Create, Collect, Delete
  <2>3. r = x
    BY <1>1, <2>2
  <2>4. CASE Create(x)
    BY <1>1, <2>3, <2>4 DEF Create
  <2>5. CASE Collect(x)
    <3>1. ToSet(peers[r]) = {}
      BY <2>3, <2>5 DEF Collect, ToSet
    <3> QED
      BY <3>1
  <2>6. CASE Delete(x)
    <3>1. h \in Conns
      BY <1>1 DEF IInv, RosterMatchesHandlers
    <3> QED
      BY <2>3, <2>6, <3>1 DEF Delete
  <2> QED
    BY <2>1, <2>4, <2>5, <2>6
<1>2. IInv /\ [Next]_vars =>
        [\A r \in Rooms : status[r] = "live" /\ status'[r] = "gone" =>
            \A h \in ToSet(peers[r]) : closed'[h]]_vars
  BY <1>1
<1> QED
  BY <1>2, InductiveInvariant, PTL DEF Spec, NoSilentRetirement

\* The state of CallRoom as the server keeps it.
Members == [r \in Rooms |-> ToSet(peers[r])]
Entered == {h \in Conns : closed[h] \/ pc[h] \in InRoom}

LEMMA InitImplements == Init => Promise!CallInit
<1> SUFFICES ASSUME Init PROVE Promise!CallInit
  OBVIOUS
<1>1. ToSet(<<>>) = {}
  BY DEF ToSet
<1>2. "idle" \notin InRoom
  BY DEF InRoom, Joining
<1>3. Members = [r \in Rooms |-> {}] /\ Entered = {}
  BY <1>1, <1>2 DEF Init, Members, Entered
<1> QED
  BY <1>3 DEF Init, Members, Entered, Promise!CallInit

\* Steps that move nobody in or out of a room.
LEMMA QuietSteps ==
    ASSUME IInv, NEW h \in Conns,
           \/ \E r \in Rooms : Lookup(h, r)
           \/ Quit(h) \/ JoinBegin(h) \/ Walk(h)
    PROVE  status' = status /\ Members' = Members /\ Entered' = Entered
<1>1. UNCHANGED <<status, peers, closed>>
  BY DEF Lookup, Quit, AcceptFails, JoinFull, JoinBegin, Walk, registryVars, channelVars
<1>2. pc \in [Conns -> Places]
  BY DEF IInv, TypeOK
<1>3. \E q : pc' = [pc EXCEPT ![h] = q] /\ (q \in InRoom <=> pc[h] \in InRoom)
  <2>1. {"idle", "found", "storing", "done"} \cap InRoom = {}
    BY DEF InRoom, Joining
  <2>2. CASE Walk(h)
    BY <2>2 DEF Walk
  <2>3. CASE (\E r \in Rooms : Lookup(h, r)) \/ Quit(h) \/ JoinBegin(h)
    BY <2>1, <2>3 DEF Lookup, Quit, AcceptFails, JoinFull, JoinBegin
  <2> QED
    BY <2>2, <2>3
<1>4. \A g \in Conns : pc'[g] \in InRoom <=> pc[g] \in InRoom
  BY <1>2, <1>3
<1> QED
  BY <1>1, <1>4 DEF Members, Entered

LEMMA RegistryImplements ==
    ASSUME IInv, NEW r \in Rooms, Create(r) \/ Collect(r) \/ Delete(r)
    PROVE  Promise!Open(r) \/ Promise!Retire(r)
<1>1. UNCHANGED <<peers, pc>>
  BY DEF Create, Collect, Delete
<1>2. Members' = Members
  BY <1>1 DEF Members
<1>3. Entered' = Entered
  <2>1. CASE Create(r) \/ Collect(r)
    <3>1. closed' = closed
      BY <2>1 DEF Create, Collect, channelVars
    <3> QED
      BY <1>1, <3>1 DEF Entered
  <2>2. CASE Delete(r)
    <3>1. \A h \in Conns : closed'[h] <=> closed[h] \/ h \in ToSet(peers[r])
      BY <2>2 DEF Delete
    <3>2. \A h \in ToSet(peers[r]) : pc[h] \in InRoom
      BY DEF IInv, RosterMatchesHandlers
    <3> QED
      BY <1>1, <3>1, <3>2 DEF Entered
  <2> QED
    BY <2>1, <2>2
<1>4. \/ status[r] = "none" /\ status' = [status EXCEPT ![r] = "live"]
      \/ status[r] = "live" /\ status' = [status EXCEPT ![r] = "gone"]
  BY DEF Create, Collect, Delete
<1> QED
  BY <1>2, <1>3, <1>4 DEF Members, Entered, Promise!Open, Promise!Retire

\* CallRoom counts the members of a room as Signaling does.
LEMMA SameCount == \A S : Promise!Cardinality(S) = Cardinality(S)
BY DEF Promise!Cardinality, Cardinality

\* The append is the moment a connection enters its room.
LEMMA JoinImplements ==
    ASSUME IInv, NEW h \in Conns, JoinEnd(h)
    PROVE  room[h] \in Rooms /\ Promise!Enter(room[h], h)
<1> DEFINE r == room[h]
<1>1. /\ pc[h] = "storing" /\ pc' = [pc EXCEPT ![h] = "joined"]
      /\ peers' = [peers EXCEPT ![r] = Append(@, h)]
      /\ UNCHANGED <<status, closed>>
  BY DEF JoinEnd, registryVars, channelVars
<1>2. r \in Rooms
  BY <1>1, RunningHasRoom DEF IInv
<1>3. status[r] # "none" /\ ~closed[h] /\ Len(peers[r]) < MaxPeers
  <2>1. "storing" \notin InRoom \cup {"idle", "done"}
    BY DEF InRoom, Joining
  <2>2. room[h] # NoRoom
    BY <1>1, <2>1 DEF IInv, HandlerRooms
  <2> QED
    BY <1>1, <2>1, <2>2 DEF IInv, HandlerRooms, AppendsExclude
<1>4. peers[r] \in Seq(Conns) /\ IsInjective(peers[r]) /\ peers \in [Rooms -> Seq(Conns)]
  BY <1>2 DEF IInv, TypeOK, PlacesRespected
<1> HIDE DEF r
<1>5. Cardinality(ToSet(peers[r])) < MaxPeers
  BY <1>3, <1>4, RosterSize
<1>6. ToSet(Append(peers[r], h)) = ToSet(peers[r]) \cup {h}
  BY <1>4, AppendToRoster
<1>7. Members' = [Members EXCEPT ![r] = @ \cup {h}]
  BY <1>1, <1>2, <1>4, <1>6 DEF Members
<1>8. "storing" \notin InRoom /\ "joined" \in InRoom
  BY DEF InRoom, Joining
<1>9. \A g \in Conns : pc'[g] = IF g = h THEN "joined" ELSE pc[g]
  BY <1>1 DEF IInv, TypeOK
<1>10. h \notin Entered /\ Entered' = Entered \cup {h}
  BY <1>1, <1>3, <1>8, <1>9 DEF Entered
<1>11. Cardinality(Members[r]) < MaxPeers
  BY <1>2, <1>5 DEF Members
<1>12. Promise!Enter(r, h)
  <2>1. /\ h \notin Entered /\ Cardinality(Members[r]) < MaxPeers
        /\ Members' = [Members EXCEPT ![r] = Members[r] \cup {h}]
        /\ Entered' = Entered \cup {h}
        /\ status[r] # "none" /\ UNCHANGED status
    BY <1>1, <1>3, <1>7, <1>10, <1>11
  <2> QED
    BY <2>1, SameCount DEF Members, Entered, Promise!Enter
<1> QED
  BY <1>2, <1>12 DEF r

\* The removal is the moment it leaves, and it stays known as having entered.
LEMMA RemovalImplements ==
    ASSUME IInv, NEW h \in Conns, RemovePeer(h)
    PROVE  room[h] \in Rooms /\ Promise!Leave(room[h], h)
<1> DEFINE r == room[h]
<1>1. PICK i \in DOMAIN peers[r] :
         peers[r][i] = h /\ peers' = [peers EXCEPT ![r] = RemoveAt(@, i)]
  BY DEF RemovePeer
<1>2. /\ pc[h] \in InRoom /\ pc' = [pc EXCEPT ![h] = "done"]
      /\ closed' = [closed EXCEPT ![h] = TRUE] /\ UNCHANGED status
  BY PlaceNames DEF RemovePeer, Unwinding, registryVars
<1>3. r \in Rooms
  BY <1>2, RunningHasRoom DEF IInv
<1>4. peers[r] \in Seq(Conns) /\ IsInjective(peers[r]) /\ peers \in [Rooms -> Seq(Conns)]
  BY <1>3 DEF IInv, TypeOK, PlacesRespected
<1>5. ToSet(RemoveAt(peers[r], i)) = ToSet(peers[r]) \ {h}
  BY <1>1, <1>4, RemoveFromRoster
<1>6. h \in ToSet(peers[r])
  BY <1>1 DEF ToSet
<1> HIDE DEF r
<1>7. Members' = [Members EXCEPT ![r] = @ \ {h}]
  BY <1>1, <1>3, <1>4, <1>5 DEF Members
<1>8. \A g \in Conns : /\ pc'[g] = IF g = h THEN "done" ELSE pc[g]
                       /\ closed'[g] = IF g = h THEN TRUE ELSE closed[g]
  BY <1>2 DEF IInv, TypeOK
<1>9. Entered' = Entered
  BY <1>2, <1>8 DEF Entered
<1>10. h \in Members[r]
  BY <1>3, <1>6 DEF Members
<1>11. Promise!Leave(r, h)
  BY <1>2, <1>7, <1>9, <1>10 DEF Members, Entered, Promise!Leave
<1> QED
  BY <1>3, <1>11 DEF r

\* Every step of the server is a step of CallRoom or changes nothing it shows.
LEMMA StepImplements ==
    ASSUME IInv, [Next]_vars
    PROVE  [Promise!CallNext]_(Promise!callVars)
<1>1. (status' = status /\ Members' = Members /\ Entered' = Entered)
        => UNCHANGED Promise!callVars
  BY DEF Promise!callVars, Members, Entered
<1>2. CASE Still \/ UNCHANGED vars
  <2>1. UNCHANGED <<status, closed, peers, pc>>
    BY <1>2 DEF Still, vars
  <2>2. status' = status /\ Members' = Members /\ Entered' = Entered
    BY <2>1 DEF Members, Entered
  <2> QED
    BY <1>1, <2>2
<1>3. ASSUME NEW r \in Rooms, Create(r) \/ Collect(r) \/ Delete(r)
      PROVE  Promise!CallNext
  BY <1>3, RegistryImplements DEF Promise!CallNext
<1>4. ASSUME NEW h \in Conns,
             (\E r \in Rooms : Lookup(h, r)) \/ Quit(h) \/ JoinBegin(h) \/ Walk(h)
      PROVE  UNCHANGED Promise!callVars
  BY <1>1, <1>4, QuietSteps
<1>5. ASSUME NEW h \in Conns, JoinEnd(h) \/ RemovePeer(h)
      PROVE  Promise!CallNext
  BY <1>5, JoinImplements, RemovalImplements DEF Promise!CallNext
<1>6. TypeOK
  BY DEF IInv
<1> QED
  BY <1>2, <1>3, <1>4, <1>5, <1>6, StepKinds

\* The server implements CallRoom: the abstract room is the set of listed peers,
\* and a connection has entered once its handler got past AddPeer.
THEOREM ServerImplementsCallRoom == Spec => ImplementsCallRoom
<1>1. Spec => Promise!CallInit /\ [][Promise!CallNext]_(Promise!callVars)
  BY InitImplements, StepImplements, InductiveInvariant, PTL DEF Spec
<1> QED
  BY <1>1 DEF ImplementsCallRoom, Promise!CallSpec

===============================================================================
