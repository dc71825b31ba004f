------------------------------- MODULE Signaling -------------------------------
(***************************************************************************)
(* The signaling server: the room registry of internal/room/room.go and    *)
(* the WebSocket handler of internal/signal/ws.go.                         *)
(*                                                                         *)
(* Every connection h runs one handler goroutine (pc[h]) and, once it has  *)
(* joined, one writer goroutine (writer[h]) that drains the peer's bounded *)
(* channel (send[h]) to the socket.  A handler copies the peer list under  *)
(* the room's lock and pushes to the copied peers' channels AFTER it let   *)
(* go of the lock; leaving closes the channel.  The registry's Delete and  *)
(* its garbage collector run concurrently with all of that.                *)
(*                                                                         *)
(* The environment (browsers and the network) decides which requests       *)
(* arrive, what clients send, and when a socket dies.                      *)
(***************************************************************************)
EXTENDS Naturals, Sequences, SequencesExt, FiniteSets

CONSTANTS
    Rooms,      \* room identifiers; NewRoom draws a fresh one each time
    Conns,      \* WebSocket requests; a reloaded page is another request
    MaxPeers,   \* MaxPeersPerRoom
    SendCap,    \* capacity of Peer.Send
    NoRoom      \* the room of a handler that has looked none up

ASSUME MaxPeersAssumption == MaxPeers \in Nat \ {0}
ASSUME SendCapAssumption == SendCap \in Nat \ {0}
ASSUME NoRoomAssumption == NoRoom \notin Rooms

VARIABLES
    status,     \* registry entry of a room: "none", "live" or "gone"
    aged,       \* the registered room is older than roomMaxAge
    stuck,      \* Registry.mu was left locked by a panicking Delete
    peers,      \* Room.peers, in the order of joining
    pc,         \* where the connection's handler stands
    room,       \* the *Room the handler holds
    second,     \* the handler's initiator flag: AddPeer returned index 1
    snap,       \* what is left of the handler's copy of the peer list
    send,       \* Peer.Send, a buffered channel
    closed,     \* Peer.Close has run: Send and closed are closed channels
    writer,     \* the writer goroutine: "off", "on" or "exit"
    alive,      \* the WebSocket connection is open
    lost        \* history: a message for this peer met a full buffer

registryVars == <<status, aged, stuck>>
handlerVars == <<room, second>>
channelVars == <<send, closed, lost>>
socketVars == <<writer, alive>>
vars == <<status, aged, stuck, peers, pc, room, second, snap, send, closed,
          writer, alive, lost>>

-------------------------------------------------------------------------------
(* Handler positions                                                       *)

\* Between AddPeer and the deferred RemovePeer, on the way in ...
Joining == {"joined", "welcoming", "welcomed", "announcing"}
\* ... and in every later position: these handlers' peers are in Room.peers.
InRoom == Joining \cup
          {"reading", "forwarding", "leaving", "notifying", "unwinding", "panicked"}
Places == {"idle", "found", "storing", "done"} \cup InRoom
\* The function is returning: its deferred calls run next.
Unwinding == {"unwinding", "panicked"}

Message == [type : {"welcome", "joined", "left", "signal"},
            who : SUBSET Conns, initiator : BOOLEAN]

Welcome(h, others) == [type |-> "welcome", who |-> others, initiator |-> second[h]]
Joined(h) == [type |-> "joined", who |-> {h}, initiator |-> second[h]]
Left(h) == [type |-> "left", who |-> {h}, initiator |-> FALSE]
Signal(h) == [type |-> "signal", who |-> {h}, initiator |-> FALSE]

-------------------------------------------------------------------------------
(* Locks.  Only AddPeer holds Room.mu across two steps of this model, so   *)
(* the room's lock is free when no handler is in the middle of an append.  *)

RoomFree(r) == \A h \in Conns : ~(pc[h] = "storing" /\ room[h] = r)

Roommates(h) == ToSet(peers[room[h]]) \ {h}

Init ==
    /\ status = [r \in Rooms |-> "none"]
    /\ aged = [r \in Rooms |-> FALSE]
    /\ stuck = FALSE
    /\ peers = [r \in Rooms |-> <<>>]
    /\ pc = [h \in Conns |-> "idle"]
    /\ room = [h \in Conns |-> NoRoom]
    /\ second = [h \in Conns |-> FALSE]
    /\ snap = [h \in Conns |-> {}]
    /\ send = [h \in Conns |-> <<>>]
    /\ closed = [h \in Conns |-> FALSE]
    /\ writer = [h \in Conns |-> "off"]
    /\ alive = [h \in Conns |-> FALSE]
    /\ lost = [h \in Conns |-> FALSE]

-------------------------------------------------------------------------------
(* The registry                                                            *)

\* Mutant: a retired room's identifier is handed out again.
MutantCreate(r) ==
    /\ ~stuck
    /\ status[r] # "live"
    /\ status' = [status EXCEPT ![r] = "live"]
    /\ UNCHANGED <<aged, stuck, peers, pc, snap, handlerVars, channelVars, socketVars>>

\* POST /api/rooms
Create(r) ==
    /\ ~stuck
    /\ status[r] = "none"
    /\ status' = [status EXCEPT ![r] = "live"]
    /\ UNCHANGED <<aged, stuck, peers, pc, snap, handlerVars, channelVars, socketVars>>

\* Time passes: the room has existed for longer than roomMaxAge.
Age(r) ==
    /\ status[r] = "live" /\ ~aged[r]
    /\ aged' = [aged EXCEPT ![r] = TRUE]
    /\ UNCHANGED <<status, stuck, peers, pc, snap, handlerVars, channelVars, socketVars>>

\* Mutant: the collector goes by the age alone.
MutantCollect(r) ==
    /\ ~stuck /\ RoomFree(r)
    /\ status[r] = "live" /\ aged[r]
    /\ status' = [status EXCEPT ![r] = "gone"]
    /\ aged' = [aged EXCEPT ![r] = FALSE]
    /\ UNCHANGED <<stuck, peers, pc, snap, handlerVars, channelVars, socketVars>>

\* One room's turn in a sweep of gcLoop.
Collect(r) ==
    /\ ~stuck /\ RoomFree(r)
    /\ status[r] = "live" /\ aged[r]
    /\ peers[r] = <<>>
    /\ status' = [status EXCEPT ![r] = "gone"]
    /\ aged' = [aged EXCEPT ![r] = FALSE]
    /\ UNCHANGED <<stuck, peers, pc, snap, handlerVars, channelVars, socketVars>>

\* Mutant: a deleted room is told apart from a collected one.
MutantDelete(r) ==
    /\ ~stuck
    /\ status[r] = "live"
    /\ status' = [status EXCEPT ![r] = "deleted"]
    /\ closed' = [h \in Conns |-> closed[h] \/ h \in ToSet(peers[r])]
    /\ UNCHANGED <<aged, stuck, peers, pc, snap, handlerVars, send, lost, socketVars>>

\* DELETE /api/rooms/{id}.  The loop over room.peers does not take Room.mu.
\* Racing with the append in AddPeer it sees the old list, the new list, or
\* the new length before the new element is stored: then Close dereferences a
\* nil peer, and the panic leaves Registry.mu locked for good.
Delete(r) ==
    /\ ~stuck
    /\ status[r] = "live"
    /\ status' = [status EXCEPT ![r] = "gone"]
    /\ closed' = [h \in Conns |-> closed[h] \/ h \in ToSet(peers[r])]
    /\ stuck' \in {FALSE, ~RoomFree(r)}
    /\ aged' = [aged EXCEPT ![r] = FALSE]
    /\ UNCHANGED <<peers, pc, snap, handlerVars, send, lost, socketVars>>

-------------------------------------------------------------------------------
(* The handler: from the request to the room                               *)

Lookup(h, r) ==
    /\ ~stuck
    /\ pc[h] = "idle"
    /\ status[r] = "live"
    /\ pc' = [pc EXCEPT ![h] = "found"]
    /\ room' = [room EXCEPT ![h] = r]
    /\ UNCHANGED <<registryVars, peers, second, snap, channelVars, socketVars>>

\* Upgrade refused, no name given, or the client went away meanwhile.
AcceptFails(h) ==
    /\ pc[h] = "found"
    /\ pc' = [pc EXCEPT ![h] = "done"]
    /\ room' = [room EXCEPT ![h] = NoRoom]
    /\ UNCHANGED <<registryVars, peers, second, snap, channelVars, socketVars>>

\* Accepted, then refused by AddPeer: the socket is closed again.
JoinFull(h) ==
    /\ pc[h] = "found" /\ RoomFree(room[h])
    /\ Len(peers[room[h]]) >= MaxPeers
    /\ pc' = [pc EXCEPT ![h] = "done"]
    /\ room' = [room EXCEPT ![h] = NoRoom]
    /\ UNCHANGED <<registryVars, peers, second, snap, channelVars, socketVars>>

\* Mutant: the limit is off by one.
MutantJoinBegin(h) ==
    /\ pc[h] = "found" /\ RoomFree(room[h])
    /\ Len(peers[room[h]]) <= MaxPeers
    /\ pc' = [pc EXCEPT ![h] = "storing"]
    /\ alive' = [alive EXCEPT ![h] = TRUE]
    /\ UNCHANGED <<registryVars, peers, snap, handlerVars, channelVars, writer>>

\* Accept the socket, then AddPeer up to the append: Room.mu stays locked
\* until JoinEnd.  A socket that dies between Accept and AddPeer is noticed
\* only by the reader, as one that dies right afterwards.
JoinBegin(h) ==
    /\ pc[h] = "found" /\ RoomFree(room[h])
    /\ Len(peers[room[h]]) < MaxPeers
    /\ pc' = [pc EXCEPT ![h] = "storing"]
    /\ alive' = [alive EXCEPT ![h] = TRUE]
    /\ UNCHANGED <<registryVars, peers, snap, handlerVars, channelVars, writer>>

JoinEnd(h) ==
    /\ pc[h] = "storing"
    /\ peers' = [peers EXCEPT ![room[h]] = Append(@, h)]
    /\ second' = [second EXCEPT ![h] = Len(peers[room[h]]) = 1]
    /\ pc' = [pc EXCEPT ![h] = "joined"]
    /\ UNCHANGED <<registryVars, room, snap, channelVars, socketVars>>

-------------------------------------------------------------------------------
(* Messages to other peers                                                 *)

\* Room.Snapshot: take the room's lock, copy the list, let go of the lock.
CopyRoster(h, from, to, copy) ==
    /\ pc[h] = from /\ RoomFree(room[h])
    /\ snap' = [snap EXCEPT ![h] = copy]
    /\ pc' = [pc EXCEPT ![h] = to]
    /\ UNCHANGED <<registryVars, peers, handlerVars, channelVars, socketVars>>

\* Mutant: the send waits for room in the buffer.
MutantTrySend(h, p, m, to) ==
    /\ UNCHANGED lost
    /\ \/ /\ closed[p]
          /\ pc' = [pc EXCEPT ![h] = "panicked"]
          /\ UNCHANGED send
       \/ /\ ~closed[p] /\ Len(send[p]) < SendCap
          /\ send' = [send EXCEPT ![p] = Append(@, m)]
          /\ pc' = [pc EXCEPT ![h] = to]

\* select { case p.Send <- m: default: } in handler h, which goes on at "to".
\* A send on a closed channel panics, with a default case or without.
TrySend(h, p, m, to) ==
    \/ /\ closed[p]
       /\ pc' = [pc EXCEPT ![h] = "panicked"]
       /\ UNCHANGED <<send, lost>>
    \/ /\ ~closed[p]
       /\ Len(send[p]) < SendCap
       /\ send' = [send EXCEPT ![p] = Append(@, m)]
       /\ pc' = [pc EXCEPT ![h] = to]
       /\ UNCHANGED lost
    \/ /\ ~closed[p]
       /\ Len(send[p]) >= SendCap
       /\ lost' = [lost EXCEPT ![p] = TRUE]
       /\ pc' = [pc EXCEPT ![h] = to]
       /\ UNCHANGED send

\* One iteration of a loop over the copied list.
SendNext(h, p, m) ==
    /\ p \in snap[h]
    /\ snap' = [snap EXCEPT ![h] = @ \ {p}]
    /\ TrySend(h, p, m, pc[h])
    /\ UNCHANGED <<registryVars, peers, handlerVars, closed, socketVars>>

CopyForWelcome(h) == CopyRoster(h, "joined", "welcoming", Roommates(h))

\* Mutant: the newcomer is announced to the peers its welcome listed.
MutantSendWelcome(h) ==
    /\ pc[h] = "welcoming"
    /\ TrySend(h, h, Welcome(h, snap[h]), "announcing")
    /\ UNCHANGED <<registryVars, peers, snap, handlerVars, closed, socketVars>>

SendWelcome(h) ==
    /\ pc[h] = "welcoming"
    /\ TrySend(h, h, Welcome(h, snap[h]), "welcomed")
    /\ snap' = [snap EXCEPT ![h] = {}]
    /\ UNCHANGED <<registryVars, peers, handlerVars, closed, socketVars>>

CopyForAnnounce(h) == CopyRoster(h, "welcomed", "announcing", Roommates(h))

Announce(h, p) == pc[h] = "announcing" /\ SendNext(h, p, Joined(h))

\* All roommates are told: start the writer goroutine, enter the read loop.
StartLoop(h) ==
    /\ pc[h] = "announcing" /\ snap[h] = {}
    /\ pc' = [pc EXCEPT ![h] = "reading"]
    /\ writer' = [writer EXCEPT ![h] = "on"]
    /\ UNCHANGED <<registryVars, peers, snap, handlerVars, channelVars, alive>>

\* A "signal" message for t; one whose target is not in the room is dropped.
ReadSignal(h, t) ==
    /\ alive[h]
    /\ t \in ToSet(peers[room[h]])
    /\ CopyRoster(h, "reading", "forwarding", {t})

Forward(h) ==
    /\ pc[h] = "forwarding"
    /\ \E t \in snap[h] : TrySend(h, t, Signal(h), "reading")
    /\ snap' = [snap EXCEPT ![h] = {}]
    /\ UNCHANGED <<registryVars, peers, handlerVars, closed, socketVars>>

\* "bye" closes the socket; its break leaves the switch, not the loop.
ReadBye(h) ==
    /\ pc[h] = "reading" /\ alive[h]
    /\ alive' = [alive EXCEPT ![h] = FALSE]
    /\ UNCHANGED <<registryVars, peers, pc, snap, handlerVars, channelVars, writer>>

ReadError(h) ==
    /\ pc[h] = "reading" /\ ~alive[h]
    /\ pc' = [pc EXCEPT ![h] = "leaving"]
    /\ UNCHANGED <<registryVars, peers, snap, handlerVars, channelVars, socketVars>>

CopyForLeave(h) == CopyRoster(h, "leaving", "notifying", Roommates(h))

Notify(h, p) == pc[h] = "notifying" /\ SendNext(h, p, Left(h))

\* Mutant: the farewell is sent at a failed read, and the loop goes on.
MutantFinish(h) ==
    /\ pc[h] = "notifying" /\ snap[h] = {}
    /\ pc' = [pc EXCEPT ![h] = "reading"]
    /\ UNCHANGED <<registryVars, peers, snap, handlerVars, channelVars, socketVars>>

Finish(h) ==
    /\ pc[h] = "notifying" /\ snap[h] = {}
    /\ pc' = [pc EXCEPT ![h] = "unwinding"]
    /\ UNCHANGED <<registryVars, peers, snap, handlerVars, channelVars, socketVars>>

\* Mutant: a peer that is closed already is taken for removed.
MutantRemovePeer(h) ==
    /\ pc[h] \in Unwinding /\ RoomFree(room[h])
    /\ peers' = [peers EXCEPT ![room[h]] =
                   IF closed[h] THEN @ ELSE SelectSeq(@, LAMBDA p : p # h)]
    /\ closed' = [closed EXCEPT ![h] = TRUE]
    /\ pc' = [pc EXCEPT ![h] = "done"]
    /\ alive' = [alive EXCEPT ![h] = FALSE]
    /\ UNCHANGED <<registryVars, handlerVars, send, snap, lost, writer>>

\* The deferred calls: cancel, RemovePeer (which closes the channel under
\* Room.mu), conn.Close.  The handler's variables and the buffered messages
\* are garbage from here on; the writer's context is cancelled.
RemovePeer(h) ==
    /\ pc[h] \in Unwinding /\ RoomFree(room[h])
    /\ \E i \in DOMAIN peers[room[h]] :
          /\ peers[room[h]][i] = h
          /\ peers' = [peers EXCEPT ![room[h]] = RemoveAt(@, i)]
    /\ closed' = [closed EXCEPT ![h] = TRUE]
    /\ pc' = [pc EXCEPT ![h] = "done"]
    /\ alive' = [alive EXCEPT ![h] = FALSE]
    /\ writer' = [writer EXCEPT ![h] = "exit"]
    /\ send' = [send EXCEPT ![h] = <<>>]
    /\ snap' = [snap EXCEPT ![h] = {}]
    /\ room' = [room EXCEPT ![h] = NoRoom]
    /\ second' = [second EXCEPT ![h] = FALSE]
    /\ lost' = [lost EXCEPT ![h] = FALSE]
    /\ UNCHANGED registryVars

-------------------------------------------------------------------------------
(* The writer goroutine and the socket                                     *)

\* A closed channel still yields what it buffered; the select may prefer that
\* to the closed signal.  After RemovePeer the context is cancelled.
Deliver(h) ==
    /\ writer[h] = "on" /\ alive[h]
    /\ send[h] # <<>>
    /\ send' = [send EXCEPT ![h] = Tail(@)]
    /\ UNCHANGED <<registryVars, peers, pc, snap, handlerVars, closed, lost, socketVars>>

\* Closed(), the context, a failed write or a failed ping end the goroutine.
WriterStops(h) ==
    /\ writer[h] = "on"
    /\ closed[h] \/ ~alive[h] \/ pc[h] \in Unwinding
    /\ writer' = [writer EXCEPT ![h] = "exit"]
    /\ UNCHANGED <<registryVars, peers, pc, snap, handlerVars, channelVars, alive>>

\* No pong within 5 s: the writer returns, the socket may well stay open.
PingTimeout(h) ==
    /\ writer[h] = "on" /\ alive[h]
    /\ writer' = [writer EXCEPT ![h] = "exit"]
    /\ UNCHANGED <<registryVars, peers, pc, snap, handlerVars, channelVars, alive>>

\* Environment: the client or the network closes the socket, or a write to it
\* ran into its 10 s timeout, which closes it as well.
Disconnect(h) ==
    /\ alive[h]
    /\ alive' = [alive EXCEPT ![h] = FALSE]
    /\ UNCHANGED <<registryVars, peers, pc, snap, handlerVars, channelVars, writer>>

-------------------------------------------------------------------------------

RegistryStep(r) == Create(r) \/ Age(r) \/ Collect(r) \/ Delete(r)

\* What the handler does on its own once it is running; reading a message
\* needs a client that sends one.
HandlerRuns(h) ==
    \/ AcceptFails(h) \/ JoinFull(h) \/ JoinBegin(h) \/ JoinEnd(h)
    \/ CopyForWelcome(h) \/ SendWelcome(h) \/ CopyForAnnounce(h)
    \/ \E p \in Conns : Announce(h, p) \/ Notify(h, p)
    \/ StartLoop(h) \/ Forward(h) \/ ReadError(h)
    \/ CopyForLeave(h) \/ Finish(h)

HandlerStep(h) == HandlerRuns(h) \/ RemovePeer(h)

ClientStep(h) ==
    \/ \E r \in Rooms : Lookup(h, r)
    \/ \E t \in Conns : ReadSignal(h, t)
    \/ ReadBye(h) \/ Disconnect(h)

WriterStep(h) == Deliver(h) \/ WriterStops(h)

Next ==
    \/ \E r \in Rooms : RegistryStep(r)
    \/ \E h \in Conns :
          HandlerStep(h) \/ ClientStep(h) \/ WriterStep(h) \/ PingTimeout(h)

Spec == Init /\ [][Next]_vars

\* The Go scheduler runs every goroutine that can run, and its mutexes hand
\* the lock to every waiter.  Nothing is assumed of the clients.
HandlersRun == \A h \in Conns : WF_vars(HandlerStep(h))
WritersRun == \A h \in Conns : WF_vars(WriterStep(h))

FairSpec == Spec /\ HandlersRun /\ WritersRun

\* What departures need: they wait for no writer goroutine.
HandlerFairSpec == Spec /\ HandlersRun


-------------------------------------------------------------------------------
(* Properties                                                              *)

TypeOK ==
    /\ status \in [Rooms -> {"none", "live", "gone"}]
    /\ aged \in [Rooms -> BOOLEAN]
    /\ stuck \in BOOLEAN
    /\ peers \in [Rooms -> Seq(Conns)]
    /\ pc \in [Conns -> Places]
    /\ room \in [Conns -> Rooms \cup {NoRoom}]
    /\ second \in [Conns -> BOOLEAN]
    /\ snap \in [Conns -> SUBSET Conns]
    /\ send \in [Conns -> Seq(Message)]
    /\ closed \in [Conns -> BOOLEAN]
    /\ writer \in [Conns -> {"off", "on", "exit"}]
    /\ alive \in [Conns -> BOOLEAN]
    /\ lost \in [Conns -> BOOLEAN]

\* A room lists exactly the connections whose handler is between AddPeer and
\* RemovePeer in that room: no ghost keeps a slot, no running handler is
\* missing from the list the others send to, whatever panics or dies.
RosterMatchesHandlers ==
    \A r \in Rooms :
        ToSet(peers[r]) = {h \in Conns : pc[h] \in InRoom /\ room[h] = r}

\* A room holds at most MaxPeers peers, the one whose append is under way
\* included, and lists nobody twice.
RoomCapacity ==
    \A r \in Rooms :
        /\ IsInjective(peers[r])
        /\ Len(peers[r]) + Cardinality({h \in Conns : pc[h] = "storing" /\ room[h] = r})
             <= MaxPeers

\* As long as a room is registered, the channel of every peer it lists is
\* open: a handler that picks a listed peer and pushes to it at once is safe,
\* so a panic needs a departure or a deletion after the copy was taken.
ListedPeersOpen ==
    \A r \in Rooms : status[r] = "live" =>
        \A h \in ToSet(peers[r]) : ~closed[h]

\* What the handlers rely on: a handler holds a room exactly while it runs, the
\* room was created, and only a peer that was added can have been closed, by its
\* own removal or by the deletion of its room.
HandlerRooms ==
    \A h \in Conns :
        /\ room[h] = NoRoom <=> pc[h] \in {"idle", "done"}
        /\ room[h] # NoRoom => status[room[h]] # "none"
        /\ closed[h] => pc[h] \in InRoom \cup {"done"}
        /\ closed[h] /\ pc[h] \in InRoom => status[room[h]] = "gone"

\* Room.mu admits one append at a time, and there is a place for it.
AppendsExclude ==
    \A g, h \in Conns : pc[g] = "storing" /\ pc[h] = "storing" =>
        /\ Len(peers[room[h]]) < MaxPeers
        /\ room[g] = room[h] => g = h

PlacesRespected ==
    \A r \in Rooms : IsInjective(peers[r]) /\ Len(peers[r]) <= MaxPeers

\* The inductive invariant of Signaling_proofs.
IInv ==
    /\ TypeOK
    /\ RosterMatchesHandlers
    /\ HandlerRooms
    /\ AppendsExclude
    /\ PlacesRespected

\* A room leaves the registry either empty or with every listed peer's
\* channel closed in the same step: the collector never drops a call.
NoSilentRetirement ==
    [][\A r \in Rooms : status[r] = "live" /\ status'[r] = "gone" =>
          \A h \in ToSet(peers[r]) : closed'[h]]_vars

Promise == INSTANCE CallRoom WITH
    members <- [r \in Rooms |-> ToSet(peers[r])],
    joined <- {h \in Conns : closed[h] \/ pc[h] \in InRoom}

\* The server implements the room of CallRoom.
ImplementsCallRoom == Promise!CallSpec

\* A connection that is gone gives its place in the room back, even when its
\* roommates read nothing, the room is deleted or the handler panics.
DeadConnectionsLeave ==
    \A h \in Conns : (pc[h] \in InRoom /\ ~alive[h]) ~> pc[h] = "done"

\* room.go:96: "Snapshot returns a copy of the peer list (safe to iterate
\* without lock)".  Safe would mean that pushing to the copied peers, which is
\* all the copies are for, never brings a handler down.
NoHandlerPanics == \A h \in Conns : pc[h] # "panicked"

\* web/app.html:105, the dialog that asks before a room is deleted: whoever is
\* in it will be thrown out.
DeletionEvicts ==
    \A h \in Conns : (pc[h] = "reading" /\ closed[h]) ~> pc[h] = "done"

===============================================================================
