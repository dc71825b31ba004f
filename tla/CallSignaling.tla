----------------------------- MODULE CallSignaling -----------------------------
(***************************************************************************)
(* The signaling server together with what each page of a call believes:   *)
(* whom it talks to (remotePeerId of web/app.js) and whether it is the one *)
(* that ignores a colliding offer (initiator of web/app.js, called         *)
(* impolite here).  A page learns both from the server's messages only, in *)
(* the order in which its writer goroutine put them on the socket.         *)
(***************************************************************************)
EXTENDS Signaling

CONSTANT NoPeer     \* remotePeerId === null

ASSUME NoPeerAssumption == NoPeer \notin Conns

VARIABLES
    remote,     \* remotePeerId of the page behind a connection
    impolite    \* its initiator flag

pageVars == <<remote, impolite>>
callVars == <<status, aged, stuck, peers, pc, room, second, snap, send, closed,
              writer, alive, lost, remote, impolite>>

CallInit ==
    /\ Init
    /\ remote = [h \in Conns |-> NoPeer]
    /\ impolite = [h \in Conns |-> FALSE]

\* Mutant: a welcome that lists nobody makes the page forget its partner.
MutantOnWelcome(h, m) ==
    /\ impolite' = [impolite EXCEPT ![h] = m.initiator]
    /\ \/ m.who = {} /\ remote' = [remote EXCEPT ![h] = NoPeer]
       \/ \E p \in m.who : remote' = [remote EXCEPT ![h] = p]

\* welcome: adopt the server's flag; any listed peer becomes the remote one.
OnWelcome(h, m) ==
    /\ impolite' = [impolite EXCEPT ![h] = m.initiator]
    /\ \/ m.who = {} /\ UNCHANGED remote
       \/ \E p \in m.who : remote' = [remote EXCEPT ![h] = p]

\* peer-joined: the newcomer is the remote peer; an initiator demotes us.
OnJoined(h, m) ==
    /\ \E p \in m.who : remote' = [remote EXCEPT ![h] = p]
    /\ impolite' = [impolite EXCEPT ![h] = @ /\ ~m.initiator]

\* peer-left: forget the remote peer if it is the one that left.
OnLeft(h, m) ==
    /\ remote' = [remote EXCEPT ![h] = IF @ \in m.who THEN NoPeer ELSE @]
    /\ UNCHANGED impolite

OnMessage(h, m) ==
    \/ m.type = "welcome" /\ OnWelcome(h, m)
    \/ m.type = "joined" /\ OnJoined(h, m)
    \/ m.type = "left" /\ OnLeft(h, m)
    \/ m.type = "signal" /\ UNCHANGED pageVars

\* The assignments precede the first await of the page's message handler, so
\* a page's view follows the order of delivery.
Receive(h) == Deliver(h) /\ OnMessage(h, Head(send[h]))

\* The server is done with the connection; its page takes part no longer.
PageEnds(h) ==
    /\ RemovePeer(h)
    /\ remote' = [remote EXCEPT ![h] = NoPeer]
    /\ impolite' = [impolite EXCEPT ![h] = FALSE]

ServerStep ==
    \/ \E r \in Rooms : RegistryStep(r)
    \/ \E h \in Conns :
          HandlerRuns(h) \/ ClientStep(h) \/ WriterStops(h) \/ PingTimeout(h)

CallNext ==
    \/ \E h \in Conns : Receive(h) \/ PageEnds(h)
    \/ ServerStep /\ UNCHANGED pageVars

CallSpec == CallInit /\ [][CallNext]_callVars

-------------------------------------------------------------------------------
(* Properties                                                              *)

Occupants(r) == {h \in Conns : room[h] = r /\ pc[h] \in InRoom \cup {"storing"}}

\* Everyone in the room waits for messages, and every message was delivered.
Settled(r) ==
    \A h \in Occupants(r) :
        /\ pc[h] = "reading" /\ send[h] = <<>>
        /\ alive[h] /\ writer[h] = "on" /\ ~closed[h] /\ ~lost[h]

\* Once nothing is under way in a full room, the page that came last names the
\* one that was there first, and the first names somebody: no page of a pair
\* waits for a partner it already has.
LatecomerNamesFirst ==
    \A r \in Rooms : Settled(r) /\ Len(peers[r]) = 2 =>
        /\ remote[peers[r][2]] = peers[r][1]
        /\ remote[peers[r][1]] # NoPeer

\* Once nothing is under way, at most one page of a pair is impolite, so an
\* offer collision is never ignored by both.
NotBothImpolite ==
    \A r \in Rooms : Settled(r) =>
        \A p, q \in Occupants(r) : p # q => ~(impolite[p] /\ impolite[q])

\* The connection a message tells of or speaks for.  A welcome is of the page's
\* own handler.
Senders(m) == IF m.type = "welcome" THEN {} ELSE m.who

\* In a room for two, what a page is sent of another begins with its arrival and
\* ends with its farewell, and nothing comes of a third before the other is
\* done: the signals of two partners never mix, so handleSignal can do without
\* comparing a signal's sender with the remote peer.
MailInOrder ==
    \A h \in Conns : \A i, j \in DOMAIN send[h] : i < j =>
        \A p \in Senders(send[h][i]) \ {h}, q \in Senders(send[h][j]) \ {h} :
            IF p = q THEN send[h][i].type # "left" /\ send[h][j].type # "joined"
                     ELSE pc[p] = "done"

===============================================================================
