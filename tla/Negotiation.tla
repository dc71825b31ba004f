------------------------------ MODULE Negotiation ------------------------------
(***************************************************************************)
(* The two pages of a call agree on media: ensurePC, renegotiate,          *)
(* handleSignal and cleanupPC of web/app.js.                               *)
(*                                                                         *)
(* A page answers to messages of the server, to its user (who starts and   *)
(* stops sharing the screen) and to its RTCPeerConnection.  The connection *)
(* runs one operation at a time, in the order in which they were requested *)
(* (chain); each await in the code is an operation of the chain, and what  *)
(* follows the await runs when the operation completes.  Meanwhile other   *)
(* messages and clicks are served: that is where offers collide.           *)
(*                                                                         *)
(* The server is the orderly one: every message arrives, in order, and     *)
(* joining and leaving are single steps.  Signaling and CallSignaling are  *)
(* about the times when it is not.                                         *)
(***************************************************************************)
EXTENDS Naturals, Sequences

CONSTANTS
    Pages,       \* the two seats of the call
    MaxJoins,    \* bound: how many times a page is loaded
    MaxToggles   \* bound: how many times a share starts or stops

ASSUME PagesAssumption == \E a, b \in Pages : a # b /\ Pages = {a, b}
ASSUME MaxJoinsAssumption == MaxJoins \in Nat
ASSUME MaxTogglesAssumption == MaxToggles \in Nat

VARIABLES
    page,     \* what the page at each seat remembers
    chan,     \* messages of the server on their way to each seat
    joins,    \* pages loaded so far; the last one's peer id
    toggles   \* shares started and stopped so far

vars == <<page, chan, joins, toggles>>

-------------------------------------------------------------------------------
(* Data                                                                    *)

NoPeer == 0
Ids == 1 .. MaxJoins
\* Whether the page sends video: the direction of its video transceiver.
Directions == {"sendrecv", "recvonly"}

\* A session description names the direction and, to tell offers apart, the
\* offer: an answer repeats the number of the offer it answers.
NoDesc == [dir |-> "none", offer |-> 0]

Message(type, from, second, desc) ==
    [type |-> type, from |-> from, second |-> second, desc |-> desc]

Op(op, to, desc) == [op |-> op, to |-> to, desc |-> desc]

Other(p) == CHOOSE q \in Pages : q # p
Present(p) == page[p].id # NoPeer

\* Mutant: the connection is closed but kept.
MutantCleanedUp(s) == [s EXCEPT !.sig = "closed", !.making = FALSE, !.needs = FALSE,
                                !.chain = <<>>]

\* cleanupPC: what was awaited on the closed connection never completes.
CleanedUp(s) ==
    [s EXCEPT !.pc = FALSE, !.sig = "stable", !.making = FALSE, !.needs = FALSE,
              !.chain = <<>>, !.heard = NoDesc, !.held = 0, !.gathering = "new"]

Loaded(id) ==
    [id |-> id, impolite |-> FALSE, peer |-> NoPeer, dir |-> "recvonly", offers |-> 0,
     pc |-> FALSE, sig |-> "stable", making |-> FALSE, needs |-> FALSE,
     chain |-> <<>>, heard |-> NoDesc, held |-> 0, gathering |-> "new"]

Init ==
    /\ page = [p \in Pages |-> Loaded(NoPeer)]
    /\ chan = [p \in Pages |-> <<>>]
    /\ joins = 0
    /\ toggles = 0

-------------------------------------------------------------------------------
(* Parts of the page                                                       *)

Request(s, op) == [s EXCEPT !.chain = Append(@, op)]

\* Mutant: a request that finds an exchange in flight is dropped.
MutantRenegotiate(s) ==
    IF s.pc /\ s.peer # NoPeer /\ ~s.making /\ s.sig = "stable"
    THEN Request([s EXCEPT !.making = TRUE], Op("createOffer", s.peer, NoDesc))
    ELSE s

Renegotiate(s) ==
    CASE ~s.pc \/ s.peer = NoPeer -> s
      [] s.pc /\ s.peer # NoPeer /\ (s.making \/ s.sig # "stable") ->
            [s EXCEPT !.needs = TRUE]
      [] OTHER ->
            Request([s EXCEPT !.making = TRUE], Op("createOffer", s.peer, NoDesc))

\* signalingState returns to stable; the listener replays a queued request.
Stabilize(s) ==
    LET t == [s EXCEPT !.sig = "stable"]
    IN  IF t.needs THEN Renegotiate([t EXCEPT !.needs = FALSE]) ELSE t

\* The server passes a signal on if its target is still there.
Send(p, to, m) ==
    chan' = IF page[Other(p)].id = to
            THEN [chan EXCEPT ![Other(p)] = Append(@, m)] ELSE chan

\* ensurePC: a transceiver of each kind, sending or not, and the listeners that
\* Stabilize and Candidate stand for.
EnsurePC(s) == [s EXCEPT !.pc = TRUE]

Become(p, s) == page' = [page EXCEPT ![p] = s]

-------------------------------------------------------------------------------
(* Messages of the server                                                  *)

OnWelcome(s, m) ==
    LET t == EnsurePC([s EXCEPT !.impolite = m.second, !.peer = m.from])
    IN  IF t.impolite THEN Renegotiate(t) ELSE t

\* Mutant: the page that was here first stays impolite.
MutantOnJoined(s, m) == EnsurePC([s EXCEPT !.peer = m.from])

OnJoined(s, m) ==
    EnsurePC([s EXCEPT !.peer = m.from, !.impolite = @ /\ ~m.second])

OnLeft(s, m) ==
    IF m.from = s.peer THEN CleanedUp([s EXCEPT !.peer = NoPeer]) ELSE s

\* Mutant: a collision is noticed only once the own offer was sent.
MutantCollides(s) == s.sig # "stable"

Collides(s) == s.making \/ s.sig # "stable"

\* Mutant: the impolite page accepts the colliding offer as well.
MutantOnOffer(s, m) ==
    IF ~s.pc THEN s
    ELSE Request([s EXCEPT !.needs = @ \/ Collides(s)], Op("setRemote", m.from, m.desc))

OnOffer(s, m) ==
    IF ~s.pc \/ (Collides(s) /\ s.impolite) THEN s
    ELSE Request([s EXCEPT !.needs = @ \/ Collides(s)], Op("setRemote", m.from, m.desc))

OnAnswer(s, m) ==
    IF ~s.pc THEN s ELSE Request(s, Op("setAnswered", m.from, m.desc))

\* A candidate waits for the remote description.
OnIce(s, m) == IF s.pc /\ s.heard = NoDesc THEN [s EXCEPT !.held = @ + 1] ELSE s

OnMessage(s, m) ==
    CASE m.type = "welcome" -> OnWelcome(s, m)
      [] m.type = "joined" -> OnJoined(s, m)
      [] m.type = "left" -> OnLeft(s, m)
      [] m.type = "offer" -> OnOffer(s, m)
      [] m.type = "answer" -> OnAnswer(s, m)
      [] m.type = "ice" -> OnIce(s, m)

Receive(p) ==
    /\ chan[p] # <<>>
    /\ Become(p, OnMessage(page[p], Head(chan[p])))
    /\ chan' = [chan EXCEPT ![p] = Tail(@)]
    /\ UNCHANGED <<joins, toggles>>

-------------------------------------------------------------------------------
(* Operations of the connection, and the code behind each await            *)

\* The operation p's connection is at, and the page without it.
Current(p, op) == page[p].chain # <<>> /\ Head(page[p].chain).op = op
Desc(p) == Head(page[p].chain).desc
To(p) == Head(page[p].chain).to
Rest(p) == [page[p] EXCEPT !.chain = Tail(@)]

\* createOffer, then the check of the signaling state.  A browser may refuse
\* createOffer while a remote offer is pending, or leave it to the check.
CreateOffer(p) ==
    LET s == Rest(p)
        offer == [dir |-> s.dir, offer |-> s.offers + 1]
    IN  /\ Current(p, "createOffer")
        /\ \/ /\ s.sig = "stable"
              /\ Become(p, Request(s, Op("setOffer", To(p), offer)))
           \/ /\ s.sig # "stable"
              /\ Become(p, [s EXCEPT !.needs = TRUE, !.making = FALSE])
           \/ /\ s.sig = "remote"
              /\ Become(p, [s EXCEPT !.making = FALSE])
        /\ UNCHANGED <<chan, joins, toggles>>

\* setLocalDescription of the offer, sendSignal; an offer that has arrived
\* meanwhile makes the browser refuse it.
SetOffer(p) ==
    LET s == [Rest(p) EXCEPT !.making = FALSE]
    IN  /\ Current(p, "setOffer")
        /\ IF s.sig = "stable"
           THEN /\ Become(p, [s EXCEPT !.sig = "local", !.offers = Desc(p).offer,
                                       !.gathering = IF @ = "new" THEN "found" ELSE @])
                /\ Send(p, s.peer, Message("offer", s.id, FALSE, Desc(p)))
           ELSE Become(p, s) /\ UNCHANGED chan
        /\ UNCHANGED <<joins, toggles>>

\* setRemoteDescription of an offer (rolling back an own one), then the held
\* candidates, then the answer.
SetRemote(p) ==
    LET s == [Rest(p) EXCEPT !.sig = "remote", !.heard = Desc(p)]
        next == IF s.held > 0 THEN "addHeld" ELSE "createAnswer"
    IN  /\ Current(p, "setRemote")
        /\ Become(p, Request(s, Op(next, To(p), Desc(p))))
        /\ UNCHANGED <<chan, joins, toggles>>

\* setRemoteDescription of an answer; refused unless an own offer is pending.
SetAnswered(p) ==
    LET s == Rest(p)
        t == Stabilize([s EXCEPT !.heard = Desc(p)])
    IN  /\ Current(p, "setAnswered")
        /\ Become(p, CASE s.sig # "local" -> s
                       [] s.sig = "local" /\ s.held = 0 -> t
                       [] OTHER -> Request(t, Op("addHeld", To(p), NoDesc)))
        /\ UNCHANGED <<chan, joins, toggles>>

AddHeld(p) ==
    LET s == [Rest(p) EXCEPT !.held = 0]
    IN  /\ Current(p, "addHeld")
        /\ Become(p, IF Desc(p) = NoDesc THEN s
                     ELSE Request(s, Op("createAnswer", To(p), Desc(p))))
        /\ UNCHANGED <<chan, joins, toggles>>

CreateAnswer(p) ==
    LET s == Rest(p)
        answer == [Desc(p) EXCEPT !.dir = s.dir]
    IN  /\ Current(p, "createAnswer")
        /\ Become(p, IF s.sig = "remote"
                     THEN Request(s, Op("setAnswer", To(p), answer)) ELSE s)
        /\ UNCHANGED <<chan, joins, toggles>>

SetAnswer(p) ==
    LET s == Rest(p)
    IN  /\ Current(p, "setAnswer")
        /\ IF s.sig = "remote"
           THEN /\ Become(p, Stabilize([s EXCEPT !.gathering = IF @ = "new" THEN "found" ELSE @]))
                /\ Send(p, To(p), Message("answer", s.id, FALSE, Desc(p)))
           ELSE Become(p, s) /\ UNCHANGED chan
        /\ UNCHANGED <<joins, toggles>>

\* The connection found a candidate (one stands for all of them).
Candidate(p) ==
    /\ page[p].gathering = "found"
    /\ Become(p, [page[p] EXCEPT !.gathering = "done"])
    /\ Send(p, page[p].peer, Message("ice", page[p].id, FALSE, NoDesc))
    /\ UNCHANGED <<joins, toggles>>

-------------------------------------------------------------------------------
(* The user and the server                                                 *)

\* A share starts or ends: setOutgoingVideo changes the direction of the
\* video transceiver, or of the one the next connection will have.
Toggle(p) ==
    /\ Present(p) /\ toggles < MaxToggles
    /\ \E d \in Directions \ {page[p].dir} :
          Become(p, Renegotiate([page[p] EXCEPT !.dir = d]))
    /\ toggles' = toggles + 1
    /\ UNCHANGED <<chan, joins>>

\* A page is loaded and joins; the second of the room is the initiator.
Join(p) ==
    LET q == Other(p)
        id == joins + 1
        welcome == Message("welcome", page[q].id, Present(q), NoDesc)
        joined == Message("joined", id, Present(q), NoDesc)
    IN  /\ ~Present(p) /\ joins < MaxJoins
        /\ Become(p, Loaded(id))
        /\ chan' = [x \in Pages |->
                      CASE x = p -> <<welcome>>
                        [] x = q /\ Present(q) -> Append(chan[q], joined)
                        [] OTHER -> chan[x]]
        /\ joins' = id
        /\ UNCHANGED toggles

\* The page is closed, reloaded or loses its socket, which it never reopens.
Leave(p) ==
    LET q == Other(p)
        left == Message("left", page[p].id, FALSE, NoDesc)
    IN  /\ Present(p)
        /\ Become(p, Loaded(NoPeer))
        /\ chan' = [x \in Pages |->
                      CASE x = p -> <<>>
                        [] x = q /\ Present(q) -> Append(chan[q], left)
                        [] OTHER -> chan[x]]
        /\ UNCHANGED <<joins, toggles>>

-------------------------------------------------------------------------------

Complete(p) ==
    \/ CreateOffer(p) \/ SetOffer(p) \/ SetRemote(p) \/ SetAnswered(p)
    \/ AddHeld(p) \/ CreateAnswer(p) \/ SetAnswer(p)

Next ==
    \E p \in Pages :
        Receive(p) \/ Complete(p) \/ Candidate(p) \/ Toggle(p) \/ Join(p) \/ Leave(p)

Spec == Init /\ [][Next]_vars

\* The browser's event loop serves messages and completed operations; what the
\* users do is up to them.
FairSpec == Spec /\ \A p \in Pages : WF_vars(Receive(p)) /\ WF_vars(Complete(p))

-------------------------------------------------------------------------------
(* Properties                                                              *)

Descs == [dir : Directions \cup {"none"}, offer : Nat]
Ops == [op : {"createOffer", "setOffer", "setRemote", "setAnswered", "addHeld",
              "createAnswer", "setAnswer"},
        to : Ids, desc : Descs]
Messages == [type : {"welcome", "joined", "left", "offer", "answer", "ice"},
             from : Ids \cup {NoPeer}, second : BOOLEAN, desc : Descs]

TypeOK ==
    /\ page \in [Pages ->
          [id : Ids \cup {NoPeer}, impolite : BOOLEAN, peer : Ids \cup {NoPeer},
           dir : Directions, offers : Nat, pc : BOOLEAN,
           sig : {"stable", "local", "remote"}, making : BOOLEAN, needs : BOOLEAN,
           chain : Seq(Ops), heard : Descs, held : Nat,
           gathering : {"new", "found", "done"}]]
    /\ chan \in [Pages -> Seq(Messages)]
    /\ joins \in 0 .. MaxJoins
    /\ toggles \in 0 .. MaxToggles

\* Both pages know of each other.
Paired == \A p \in Pages : Present(p) /\ page[p].peer = page[Other(p)].id

\* Nothing is under way between them.
AtRest == Paired /\ \A p \in Pages : chan[p] = <<>> /\ page[p].chain = <<>>

\* Once everything has arrived and both connections are stable, each page has
\* heard the direction the other one has now, no request is left queued, and no
\* candidate is held back: a share that starts or stops in the middle of an
\* exchange, a collision or a reload is not forgotten.
SettledMedia ==
    (AtRest /\ \A p \in Pages : page[p].sig = "stable") =>
        \A p \in Pages :
            /\ page[Other(p)].heard.dir = page[p].dir
            /\ ~page[p].needs /\ ~page[p].making
            /\ page[p].held = 0

\* An answer is applied to the offer it answers, never to a later one, nor when
\* the offer has been rolled back.
AnswersMatch ==
    \A p \in Pages : Current(p, "setAnswered") =>
        page[p].sig = "local" /\ Desc(p).offer = page[p].offers

\* An impolite page's offer stands until it is answered: it is never rolled back
\* for the other page's offer, whenever that one arrives or is applied.
ImpolitePrevails ==
    [][\A p \in Pages : page[p].impolite /\ page'[p].id = page[p].id
          /\ page[p].sig = "local" => page'[p].sig # "remote"]_vars

\* Of two pages that know of each other exactly one is impolite, whoever has
\* left, come back and changed roles before.
OneImpolite == AtRest => \E p \in Pages : page[p].impolite /\ ~page[Other(p)].impolite

\* p is impolite and the other page of its pair has yet to hear its direction.
Unheard(p) ==
    /\ page[p].impolite /\ Present(Other(p)) /\ page[p].peer = page[Other(p)].id
    /\ page[Other(p)].heard.dir # page[p].dir

\* The impolite page's changes reach the other page, as long as both stay.
ImpoliteIsHeard == \A p \in Pages : Unheard(p) ~> ~Unheard(p)

\* app.js:454-455: a page demotes itself "so exactly one side stays impolite, or
\* the glare handling deadlocks".  With exactly one impolite page, then, no page
\* should be left waiting for an answer that never comes.
GlareResolves ==
    (AtRest /\ \E p \in Pages : page[p].impolite /\ ~page[Other(p)].impolite) =>
        \A p \in Pages : page[p].sig = "stable"

===============================================================================
