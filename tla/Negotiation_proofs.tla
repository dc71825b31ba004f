--------------------------- MODULE Negotiation_proofs ---------------------------
(***************************************************************************)
(* What holds of the negotiation of the two pages for any number of page   *)
(* loads and of shares.                                                    *)
(***************************************************************************)
EXTENDS Negotiation, SequenceTheorems, TLAPS

-------------------------------------------------------------------------------
(* The inductive invariant, in layers.  Its parts are about a page s, the  *)
(* messages c on their way to it, the other page o, and the messages d on  *)
(* their way to that one.                                                  *)

At(seq) == 1 .. Len(seq)

Presence == {"welcome", "joined", "left"}
\* Whom a page talks to once it has read a message about presence.
Named(m) == IF m.type = "left" THEN NoPeer ELSE m.from
\* The message names somebody who has come.
Arrives(m) == m.type \in {"welcome", "joined"} /\ m.from # NoPeer

\* A page that talks to "peer" talks to x once it has read n messages of c.
Believes(peer, c, n, x) ==
    \/ peer = x /\ \A j \in 1 .. n : c[j].type \notin Presence
    \/ \E i \in 1 .. n : /\ c[i].type \in Presence /\ Named(c[i]) = x
                         /\ \A j \in i + 1 .. n : c[j].type \notin Presence

(* Layer one: who talks to whom.                                           *)

Absent(s, c) == s.id = NoPeer => c = <<>> /\ s.peer = NoPeer /\ ~s.pc

\* Nothing is negotiated with nobody.
Alone(s) ==
    /\ s.peer = NoPeer => s.chain = <<>> /\ s.gathering # "found" /\ s.sig = "stable" /\ ~s.making
    /\ ~s.pc => s.peer = NoPeer

Addressed(s) == \A i \in At(s.chain) : s.chain[i].to = s.peer

\* A welcome is the first message a page reads.
Welcomed(s, c) ==
    \A i \in At(c) : c[i].type = "welcome" =>
        i = 1 /\ ~s.pc /\ ~s.impolite /\ (c[i].second <=> c[i].from # NoPeer)

\* A page knows whose messages it reads, and who left it.
Introduced(s, c) ==
    \A i \in At(c) :
        /\ c[i].type = "joined" =>
              c[i].from # NoPeer /\ c[i].second /\ Believes(s.peer, c, i - 1, NoPeer)
        /\ c[i].type \notin {"welcome", "joined"} =>
              c[i].from # NoPeer /\ Believes(s.peer, c, i - 1, c[i].from)

\* Pages come in the order of their ids, n of them so far.
InOrder(s, c, n) ==
    /\ s.id <= n /\ s.peer <= n
    /\ \A i \in At(c) : c[i].from <= n /\ (Arrives(c[i]) => s.peer < c[i].from)
    /\ \A i, j \in At(c) : i < j /\ Arrives(c[i]) /\ Arrives(c[j]) => c[i].from < c[j].from

\* Once it has read everything a page talks to the page that is there.
UpToDate(s, c, o) ==
    s.id # NoPeer =>
        /\ Believes(s.peer, c, Len(c), o.id) /\ o.id # s.id
        /\ \A i \in At(c) : c[i].type = "left" => c[i].from # o.id

Acquainted(s, c, o, n) ==
    /\ Absent(s, c) /\ Alone(s) /\ Addressed(s) /\ Welcomed(s, c)
    /\ Introduced(s, c) /\ InOrder(s, c, n) /\ UpToDate(s, c, o)

Acquaintance == \A p \in Pages : Acquainted(page[p], chan[p], page[Other(p)], joins)

-------------------------------------------------------------------------------
(* Seats and sequences                                                     *)

LEMMA TwoSeats ==
    ASSUME NEW p \in Pages
    PROVE  /\ Other(p) \in Pages /\ Other(p) # p /\ Other(Other(p)) = p
           /\ \A r \in Pages : r = p \/ r = Other(p)
<1>1. PICK a \in Pages, b \in Pages : a # b /\ Pages = {a, b}
  BY PagesAssumption
<1>2. Other(a) = b
  BY <1>1 DEF Other
<1>3. Other(b) = a
  BY <1>1 DEF Other
<1> QED
  BY <1>1, <1>2, <1>3

LEMMA Appended ==
    ASSUME NEW S, NEW c \in Seq(S), NEW m \in S
    PROVE  /\ Append(c, m) \in Seq(S) /\ Len(Append(c, m)) = Len(c) + 1 /\ Len(c) \in Nat
           /\ \A i \in At(c) : Append(c, m)[i] = c[i] /\ i \in At(Append(c, m))
           /\ Append(c, m)[Len(c) + 1] = m
           /\ \A i \in At(Append(c, m)) : i \in At(c) \/ i = Len(c) + 1
BY AppendProperties, LenProperties DEF At

\* The sequence e is c with m behind it.
Extended(e, c, m) ==
    /\ Len(e) = Len(c) + 1 /\ Len(c) \in Nat
    /\ \A i \in At(c) : i \in Nat /\ i <= Len(c) /\ e[i] = c[i] /\ i \in At(e)
    /\ e[Len(c) + 1] = m /\ Len(c) + 1 \in At(e)
    /\ \A i \in At(e) : i \in At(c) \/ i = Len(c) + 1

LEMMA AppendExtends ==
    ASSUME NEW S, NEW c \in Seq(S), NEW m \in S
    PROVE  Append(c, m) \in Seq(S) /\ Extended(Append(c, m), c, m)
<1> DEFINE e == Append(c, m)
<1>1. /\ e \in Seq(S) /\ Len(e) = Len(c) + 1 /\ Len(c) \in Nat
      /\ \A i \in At(c) : e[i] = c[i] /\ i \in At(e)
      /\ e[Len(c) + 1] = m
      /\ \A i \in At(e) : i \in At(c) \/ i = Len(c) + 1
  BY Appended
<1> HIDE DEF e
<1>2. Len(c) + 1 \in At(e) /\ \A i \in At(c) : i \in Nat /\ i <= Len(c)
  BY <1>1 DEF At
<1> QED
  BY <1>1, <1>2 DEF Extended, e

LEMMA Tailed ==
    ASSUME NEW S, NEW c \in Seq(S), c # <<>>
    PROVE  /\ Tail(c) \in Seq(S) /\ Len(Tail(c)) = Len(c) - 1 /\ Len(c) \in Nat \ {0}
           /\ Head(c) = c[1] /\ 1 \in At(c) /\ Head(c) \in S
           /\ \A i \in At(Tail(c)) : i \in Nat /\ i + 1 \in At(c) /\ Tail(c)[i] = c[i + 1]
BY HeadTailProperties, LenProperties, EmptySeq DEF At

-------------------------------------------------------------------------------
(* What a page believes                                                    *)

LEMMA SameBeliefs ==
    ASSUME NEW peer, NEW c, NEW d, NEW n \in Nat, NEW x,
           \A i \in 1 .. n : c[i] = d[i], Believes(peer, c, n, x)
    PROVE  Believes(peer, d, n, x)
<1>1. \A i \in 1 .. n : \A j \in i + 1 .. n : j \in 1 .. n
  OBVIOUS
<1> QED
  BY <1>1 DEF Believes

\* One more message.
LEMMA NextBelief ==
    ASSUME NEW peer, NEW c, NEW n \in Nat, NEW x,
           IF c[n + 1].type \in Presence THEN Named(c[n + 1]) = x ELSE Believes(peer, c, n, x)
    PROVE  Believes(peer, c, n + 1, x)
<1>1. CASE c[n + 1].type \in Presence
  <2>1. n + 1 \in 1 .. n + 1 /\ \A j \in (n + 1) + 1 .. n + 1 : FALSE
    OBVIOUS
  <2> QED
    BY <1>1, <2>1 DEF Believes
<1>2. CASE c[n + 1].type \notin Presence
  <2>1. \A j \in 1 .. n + 1 : j \in 1 .. n \/ j = n + 1
    OBVIOUS
  <2>2. \A i \in 1 .. n : i \in 1 .. n + 1 /\ \A j \in i + 1 .. n + 1 : j \in i + 1 .. n \/ j = n + 1
    OBVIOUS
  <2>3. CASE peer = x /\ \A j \in 1 .. n : c[j].type \notin Presence
    BY <1>2, <2>1, <2>3 DEF Believes
  <2>4. CASE \E i \in 1 .. n : /\ c[i].type \in Presence /\ Named(c[i]) = x
                               /\ \A j \in i + 1 .. n : c[j].type \notin Presence
    <3>1. PICK i \in 1 .. n : /\ c[i].type \in Presence /\ Named(c[i]) = x
                              /\ \A j \in i + 1 .. n : c[j].type \notin Presence
      BY <2>4
    <3>2. i \in 1 .. n + 1 /\ \A j \in i + 1 .. n + 1 : c[j].type \notin Presence
      BY <1>2, <2>2, <3>1
    <3> QED
      BY <3>1, <3>2 DEF Believes
  <2> QED
    BY <1>2, <2>3, <2>4 DEF Believes
<1> QED
  BY <1>1, <1>2

\* The first message has been read.
LEMMA ReadBelief ==
    ASSUME NEW S, NEW c \in Seq(S), c # <<>>, NEW peer, NEW new, NEW n \in Nat, NEW x,
           n <= Len(c) - 1, Believes(peer, c, n + 1, x),
           new = IF c[1].type \in Presence THEN Named(c[1]) ELSE peer
    PROVE  Believes(new, Tail(c), n, x)
<1>1. Len(c) \in Nat /\ \A i \in 1 .. n : Tail(c)[i] = c[i + 1]
  BY Tailed DEF At
<1>2. CASE peer = x /\ \A j \in 1 .. n + 1 : c[j].type \notin Presence
  <2>1. 1 \in 1 .. n + 1 /\ \A j \in 1 .. n : j + 1 \in 1 .. n + 1
    OBVIOUS
  <2> QED
    BY <1>1, <1>2, <2>1 DEF Believes
<1>3. CASE \E i \in 1 .. n + 1 : /\ c[i].type \in Presence /\ Named(c[i]) = x
                                 /\ \A j \in i + 1 .. n + 1 : c[j].type \notin Presence
  <2>1. PICK i \in 1 .. n + 1 : /\ c[i].type \in Presence /\ Named(c[i]) = x
                                /\ \A j \in i + 1 .. n + 1 : c[j].type \notin Presence
    BY <1>3
  <2>2. CASE i = 1
    <3>1. \A j \in 1 .. n : j + 1 \in i + 1 .. n + 1
      BY <2>2
    <3> QED
      BY <1>1, <2>1, <2>2, <3>1 DEF Believes
  <2>3. CASE i # 1
    <3> DEFINE k == i - 1
    <3>1. k \in 1 .. n /\ k + 1 = i /\ \A j \in k + 1 .. n : j \in 1 .. n /\ j + 1 \in i + 1 .. n + 1
      BY <2>3
    <3> HIDE DEF k
    <3> QED
      BY <1>1, <2>1, <3>1 DEF Believes
  <2> QED
    BY <2>2, <2>3
<1> QED
  BY <1>2, <1>3 DEF Believes

-------------------------------------------------------------------------------
(* Types, and what the parts of a page change                              *)

PageRecord ==
    [id : Ids \cup {NoPeer}, impolite : BOOLEAN, peer : Ids \cup {NoPeer},
     dir : Directions, offers : Nat, pc : BOOLEAN,
     sig : {"stable", "local", "remote"}, making : BOOLEAN, needs : BOOLEAN,
     chain : Seq(Ops), heard : Descs, held : Nat,
     gathering : {"new", "found", "done"}]

LEMMA TypesOfParts ==
    TypeOK <=> /\ page \in [Pages -> PageRecord] /\ chan \in [Pages -> Seq(Messages)]
               /\ joins \in 0 .. MaxJoins /\ toggles \in 0 .. MaxToggles
BY DEF TypeOK, PageRecord

LEMMA NoDescType == NoDesc \in Descs
BY DEF NoDesc, Descs

LEMMA MessageType ==
    ASSUME NEW type \in {"welcome", "joined", "left", "offer", "answer", "ice"},
           NEW from \in Ids \cup {NoPeer}, NEW second \in BOOLEAN, NEW desc \in Descs
    PROVE  LET m == Message(type, from, second, desc)
           IN  /\ m \in Messages /\ m.type = type /\ m.from = from
               /\ m.second = second /\ m.desc = desc
BY DEF Message, Messages

LEMMA OpType ==
    ASSUME NEW op \in {"createOffer", "setOffer", "setRemote", "setAnswered", "addHeld",
                       "createAnswer", "setAnswer"},
           NEW to \in Ids, NEW desc \in Descs
    PROVE  LET o == Op(op, to, desc)
           IN  o \in Ops /\ o.op = op /\ o.to = to /\ o.desc = desc
BY DEF Op, Ops

\* Who is at the seat, whom the page talks to, its role and its connection.
SameView(t, s) ==
    t.id = s.id /\ t.peer = s.peer /\ t.impolite = s.impolite /\ t.pc = s.pc

\* A request for an offer would have to wait.
Busy(s) == s.making \/ s.sig # "stable"

\* The direction of the page, what it has queued, heard and held back.
SameMedia(t, s) ==
    t.dir = s.dir /\ (t.needs <=> s.needs) /\ t.heard = s.heard /\ t.held = s.held

\* The same, but an offer may have been queued.
Postpones(t, s) ==
    t.dir = s.dir /\ t.heard = s.heard /\ t.held = s.held /\ (s.needs => t.needs)

\* An offer that was queued is requested, or waits for one that is in the making.
Replayed(t, s) ==
    /\ s.pc /\ s.peer # NoPeer /\ s.needs => t.making
    /\ t.needs => t.making
    /\ s.pc /\ s.peer # NoPeer /\ s.making => (t.needs <=> s.needs)

\* A new direction is told, now or later, unless there is nobody to be told.
Turned(t, s) ==
    /\ t.heard = s.heard /\ t.held = s.held
    /\ \/ (~s.pc \/ s.peer = NoPeer) /\ (t.needs <=> s.needs) /\ (t.making <=> s.making)
       \/ Busy(s) /\ t.needs /\ (t.making <=> s.making)
       \/ ~Busy(s) /\ t.making /\ (t.needs <=> s.needs)

LEMMA RequestEffect ==
    ASSUME NEW s \in PageRecord, NEW o \in Ops
    PROVE  LET t == Request(s, o)
           IN  /\ t \in PageRecord /\ SameView(t, s) /\ t.chain = Append(s.chain, o)
               /\ t.dir = s.dir /\ t.offers = s.offers /\ t.sig = s.sig
               /\ t.making = s.making /\ t.needs = s.needs /\ t.heard = s.heard
               /\ t.held = s.held /\ t.gathering = s.gathering
<1>1. Append(s.chain, o) \in Seq(Ops)
  BY AppendProperties DEF PageRecord
<1> QED
  BY <1>1 DEF Request, PageRecord, SameView

\* What a request for an offer does: it is made, queued or dropped.
RequestsOffer(t, s) ==
    \/ t = s /\ (~s.pc \/ s.peer = NoPeer)
    \/ s.pc /\ s.peer # NoPeer /\ (s.making \/ s.sig # "stable")
       /\ t.chain = s.chain /\ t.making = s.making /\ t.needs
    \/ s.pc /\ s.peer # NoPeer /\ ~s.making /\ s.sig = "stable"
       /\ t.chain = Append(s.chain, Op("createOffer", s.peer, NoDesc)) /\ t.making
       /\ t.needs = s.needs

LEMMA RenegotiateEffect ==
    ASSUME NEW s \in PageRecord
    PROVE  LET t == Renegotiate(s)
           IN  /\ t \in PageRecord /\ SameView(t, s) /\ RequestsOffer(t, s)
               /\ t.dir = s.dir /\ t.offers = s.offers /\ t.sig = s.sig
               /\ t.heard = s.heard /\ t.held = s.held /\ t.gathering = s.gathering
<1> DEFINE t == Renegotiate(s)
<1>1. CASE ~s.pc \/ s.peer = NoPeer
  BY <1>1 DEF Renegotiate, RequestsOffer, SameView
<1>2. CASE s.pc /\ s.peer # NoPeer /\ (s.making \/ s.sig # "stable")
  <2>1. t = [s EXCEPT !.needs = TRUE]
    BY <1>2 DEF Renegotiate
  <2> HIDE DEF t
  <2>2. /\ t \in PageRecord /\ t.id = s.id /\ t.peer = s.peer /\ t.impolite = s.impolite
        /\ t.pc = s.pc /\ t.chain = s.chain /\ t.making = s.making /\ t.needs = TRUE
        /\ t.dir = s.dir /\ t.offers = s.offers /\ t.sig = s.sig
        /\ t.heard = s.heard /\ t.held = s.held /\ t.gathering = s.gathering
    BY <2>1 DEF PageRecord
  <2>3. SameView(t, s)
    BY <2>2 DEF SameView
  <2>4. RequestsOffer(t, s)
    BY <1>2, <2>2 DEF RequestsOffer
  <2> QED
    BY <2>2, <2>3, <2>4 DEF t
<1>3. CASE s.pc /\ s.peer # NoPeer /\ ~s.making /\ s.sig = "stable"
  <2> DEFINE u == [s EXCEPT !.making = TRUE]
             o == Op("createOffer", s.peer, NoDesc)
  <2>1. t = Request(u, o)
    BY <1>3 DEF Renegotiate
  <2>2. s.peer \in Ids
    BY <1>3 DEF PageRecord
  <2>3. o \in Ops
    BY <2>2, OpType, NoDescType
  <2>4. /\ u \in PageRecord /\ SameView(u, s) /\ u.making = TRUE /\ u.chain = s.chain
        /\ u.dir = s.dir /\ u.offers = s.offers /\ u.sig = s.sig /\ u.needs = s.needs
        /\ u.heard = s.heard /\ u.held = s.held /\ u.gathering = s.gathering
    BY DEF PageRecord, SameView
  <2> HIDE DEF t, u, o
  <2>5. /\ t \in PageRecord /\ SameView(t, u) /\ t.chain = Append(u.chain, o)
        /\ t.dir = u.dir /\ t.offers = u.offers /\ t.sig = u.sig
        /\ t.making = u.making /\ t.needs = u.needs /\ t.heard = u.heard
        /\ t.held = u.held /\ t.gathering = u.gathering
    BY <2>1, <2>3, <2>4, RequestEffect
  <2>6. SameView(t, s)
    BY <2>4, <2>5 DEF SameView
  <2>7. RequestsOffer(t, s)
    BY <1>3, <2>4, <2>5 DEF RequestsOffer, o
  <2> QED
    BY <2>4, <2>5, <2>6, <2>7 DEF t
<1> QED
  BY <1>1, <1>2, <1>3

\* The connection is stable again, and an offer that was queued is requested.
LEMMA StabilizeEffect ==
    ASSUME NEW s \in PageRecord
    PROVE  LET t == Stabilize(s)
           IN  /\ t \in PageRecord /\ SameView(t, s) /\ t.sig = "stable"
               /\ t.dir = s.dir /\ t.offers = s.offers
               /\ t.heard = s.heard /\ t.held = s.held /\ t.gathering = s.gathering
               /\ Replayed(t, s)
               /\ \/ t.chain = s.chain /\ t.making = s.making
                  \/ /\ s.pc /\ s.peer # NoPeer /\ ~s.making /\ t.making
                     /\ t.chain = Append(s.chain, Op("createOffer", s.peer, NoDesc))
<1> DEFINE t == Stabilize(s)
           u == [s EXCEPT !.sig = "stable"]
           v == [u EXCEPT !.needs = FALSE]
<1>1. t = IF u.needs THEN Renegotiate(v) ELSE u
  BY DEF Stabilize
<1>2. /\ u \in PageRecord /\ SameView(u, s) /\ u.sig = "stable" /\ u.chain = s.chain
      /\ u.dir = s.dir /\ u.offers = s.offers /\ u.making = s.making /\ u.needs = s.needs
      /\ u.heard = s.heard /\ u.held = s.held /\ u.gathering = s.gathering
  BY DEF PageRecord, SameView
<1> HIDE DEF u
<1>3. /\ v \in PageRecord /\ SameView(v, u) /\ v.sig = u.sig /\ v.chain = u.chain
      /\ v.dir = u.dir /\ v.offers = u.offers /\ v.making = u.making /\ v.needs = FALSE
      /\ v.heard = u.heard /\ v.held = u.held /\ v.gathering = u.gathering
  BY <1>2 DEF PageRecord, SameView
<1> HIDE DEF v, t
<1>4. CASE u.needs
  <2>1. /\ t \in PageRecord /\ SameView(t, v) /\ RequestsOffer(t, v)
        /\ t.dir = v.dir /\ t.offers = v.offers /\ t.sig = v.sig
        /\ t.heard = v.heard /\ t.held = v.held /\ t.gathering = v.gathering
    BY <1>1, <1>3, <1>4, RenegotiateEffect
  <2>2. \/ t.chain = v.chain /\ t.making = v.making
        \/ /\ v.pc /\ v.peer # NoPeer /\ ~v.making /\ t.making
           /\ t.chain = Append(v.chain, Op("createOffer", v.peer, NoDesc))
    BY <2>1 DEF RequestsOffer
  <2>3. Replayed(t, s)
    BY <1>2, <1>3, <1>4, <2>1 DEF RequestsOffer, SameView, Replayed
  <2> QED
    BY <1>2, <1>3, <2>1, <2>2, <2>3 DEF SameView, t
<1>5. CASE ~u.needs
  <2>1. t = u
    BY <1>1, <1>5
  <2>2. Replayed(t, s)
    BY <1>2, <1>5, <2>1 DEF Replayed
  <2> QED
    BY <1>2, <2>1, <2>2 DEF t
<1> QED
  BY <1>4, <1>5

LEMMA CleanedUpEffect ==
    ASSUME NEW s \in PageRecord
    PROVE  LET t == CleanedUp(s)
           IN  /\ t \in PageRecord /\ t.id = s.id /\ t.peer = s.peer /\ t.impolite = s.impolite
               /\ ~t.pc /\ t.sig = "stable" /\ ~t.making /\ ~t.needs /\ t.chain = <<>>
               /\ t.heard = NoDesc /\ t.held = 0 /\ t.gathering = "new"
               /\ t.dir = s.dir /\ t.offers = s.offers
<1>1. <<>> \in Seq(Ops) /\ NoDesc \in Descs
  BY EmptySeq, NoDescType
<1> QED
  BY <1>1 DEF CleanedUp, PageRecord

LEMMA LoadedEffect ==
    ASSUME NEW id \in Ids \cup {NoPeer}
    PROVE  LET t == Loaded(id)
           IN  /\ t \in PageRecord /\ t.id = id /\ t.peer = NoPeer /\ ~t.impolite
               /\ ~t.pc /\ t.sig = "stable" /\ ~t.making /\ ~t.needs /\ t.chain = <<>>
               /\ t.heard = NoDesc /\ t.held = 0 /\ t.gathering = "new" /\ t.offers = 0
<1>1. <<>> \in Seq(Ops) /\ NoDesc \in Descs /\ NoPeer \in Ids \cup {NoPeer}
  BY EmptySeq, NoDescType
<1> QED
  BY <1>1 DEF Loaded, PageRecord, Directions

-------------------------------------------------------------------------------
(* What the actions do, page by page: s becomes t, and d, the messages on  *)
(* their way to the other page o, becomes d2.                              *)

Took(s, op) == s.chain # <<>> /\ s.chain[1].op = op

\* A message reaches the page that it is meant for.
Told(d2, d, o, to, m) == d2 = IF o.id = to THEN Append(d, m) ELSE d

\* An offer is requested once the connection is stable, if one was queued.
Asked(w, making, s, rest) ==
    \/ w = rest /\ (making <=> s.making)
    \/ /\ s.pc /\ s.peer # NoPeer /\ ~s.making /\ making
       /\ w = Append(rest, Op("createOffer", s.peer, NoDesc))

CreatedOffer(t, s) ==
    /\ Took(s, "createOffer") /\ t.sig = s.sig /\ t.offers = s.offers
    /\ \/ /\ s.sig = "stable" /\ (t.making <=> s.making) /\ SameMedia(t, s)
          /\ t.chain = Append(Tail(s.chain),
                              Op("setOffer", s.chain[1].to, [dir |-> s.dir, offer |-> s.offers + 1]))
       \/ s.sig # "stable" /\ ~t.making /\ t.chain = Tail(s.chain) /\ Postpones(t, s)

AppliedOffer(t, s, o, d2, d) ==
    /\ Took(s, "setOffer") /\ ~t.making /\ t.chain = Tail(s.chain) /\ SameMedia(t, s)
    /\ \/ /\ s.sig = "stable" /\ t.sig = "local" /\ t.offers = s.chain[1].desc.offer
          /\ Told(d2, d, o, s.peer, Message("offer", s.id, FALSE, s.chain[1].desc))
       \/ s.sig # "stable" /\ t.sig = s.sig /\ t.offers = s.offers /\ d2 = d

HeardOffer(t, s) ==
    /\ Took(s, "setRemote") /\ t.sig = "remote" /\ t.offers = s.offers /\ (t.making <=> s.making)
    /\ t.dir = s.dir /\ (t.needs <=> s.needs) /\ t.held = s.held /\ t.heard = s.chain[1].desc
    /\ \E op \in {"addHeld", "createAnswer"} :
          /\ s.held > 0 => op = "addHeld"
          /\ t.chain = Append(Tail(s.chain), Op(op, s.chain[1].to, s.chain[1].desc))

HeardAnswer(t, s) ==
    /\ Took(s, "setAnswered") /\ t.offers = s.offers /\ t.held = s.held
    /\ \/ /\ s.sig # "local" /\ t.sig = s.sig /\ (t.making <=> s.making) /\ SameMedia(t, s)
          /\ t.chain = Tail(s.chain)
       \/ /\ s.sig = "local" /\ t.sig = "stable"
          /\ t.dir = s.dir /\ t.heard = s.chain[1].desc /\ Replayed(t, s)
          /\ \E w \in Seq(Ops) :
                /\ Asked(w, t.making, s, Tail(s.chain))
                /\ \/ t.chain = w /\ s.held = 0
                   \/ t.chain = Append(w, Op("addHeld", s.chain[1].to, NoDesc))

AddedHeld(t, s) ==
    /\ Took(s, "addHeld") /\ t.sig = s.sig /\ t.offers = s.offers /\ (t.making <=> s.making)
    /\ t.dir = s.dir /\ (t.needs <=> s.needs) /\ t.heard = s.heard /\ t.held = 0
    /\ \/ s.chain[1].desc = NoDesc /\ t.chain = Tail(s.chain)
       \/ /\ s.chain[1].desc # NoDesc
          /\ t.chain = Append(Tail(s.chain), Op("createAnswer", s.chain[1].to, s.chain[1].desc))

CreatedAnswer(t, s) ==
    /\ Took(s, "createAnswer") /\ t.sig = s.sig /\ t.offers = s.offers /\ (t.making <=> s.making)
    /\ SameMedia(t, s)
    /\ \/ s.sig # "remote" /\ t.chain = Tail(s.chain)
       \/ /\ s.sig = "remote"
          /\ t.chain = Append(Tail(s.chain),
                              Op("setAnswer", s.chain[1].to, [s.chain[1].desc EXCEPT !.dir = s.dir]))

AppliedAnswer(t, s, o, d2, d) ==
    /\ Took(s, "setAnswer") /\ t.offers = s.offers
    /\ \/ /\ s.sig = "remote" /\ t.sig = "stable" /\ Asked(t.chain, t.making, s, Tail(s.chain))
          /\ t.dir = s.dir /\ t.heard = s.heard /\ t.held = s.held /\ Replayed(t, s)
          /\ Told(d2, d, o, s.chain[1].to, Message("answer", s.id, FALSE, s.chain[1].desc))
       \/ /\ s.sig # "remote" /\ t.sig = s.sig /\ (t.making <=> s.making) /\ SameMedia(t, s)
          /\ t.chain = Tail(s.chain) /\ d2 = d

FoundCandidate(t, s, o, d2, d) ==
    /\ s.gathering = "found" /\ t.sig = s.sig /\ t.offers = s.offers /\ (t.making <=> s.making)
    /\ SameMedia(t, s)
    /\ t.chain = s.chain /\ Told(d2, d, o, s.peer, Message("ice", s.id, FALSE, NoDesc))

Toggled(t, s) ==
    /\ t.sig = s.sig /\ t.offers = s.offers /\ Asked(t.chain, t.making, s, s.chain) /\ Turned(t, s)
    /\ s.making \/ s.sig # "stable" => t.chain = s.chain /\ (t.making <=> s.making)

\* The page works on its own: an operation completes, a candidate is found, or
\* its user starts or stops a share.
Worked(t, s, o, d2, d) ==
    /\ SameView(t, s)
    /\ \/ d2 = d /\ CreatedOffer(t, s)
       \/ AppliedOffer(t, s, o, d2, d)
       \/ d2 = d /\ HeardOffer(t, s)
       \/ d2 = d /\ HeardAnswer(t, s)
       \/ d2 = d /\ AddedHeld(t, s)
       \/ d2 = d /\ CreatedAnswer(t, s)
       \/ AppliedAnswer(t, s, o, d2, d)
       \/ FoundCandidate(t, s, o, d2, d) /\ t.gathering = "done"
       \/ d2 = d /\ Toggled(t, s) /\ t.gathering = s.gathering

WorksAt(p) ==
    /\ page' \in [Pages -> PageRecord] /\ chan' \in [Pages -> Seq(Messages)]
    /\ joins' = joins /\ toggles' \in 0 .. MaxToggles
    /\ page'[Other(p)] = page[Other(p)] /\ chan'[p] = chan[p]
    /\ Worked(page'[p], page[p], page[Other(p)], chan'[Other(p)], chan[Other(p)])

LEMMA BecomeEffect ==
    ASSUME TypeOK, NEW p \in Pages, NEW t \in PageRecord, Become(p, t)
    PROVE  /\ page' \in [Pages -> PageRecord] /\ page'[p] = t
           /\ page'[Other(p)] = page[Other(p)]
BY TypesOfParts, TwoSeats DEF Become

LEMMA SendEffect ==
    ASSUME TypeOK, NEW p \in Pages, NEW to, NEW m \in Messages, Send(p, to, m)
    PROVE  /\ chan' \in [Pages -> Seq(Messages)] /\ chan'[p] = chan[p]
           /\ Told(chan'[Other(p)], chan[Other(p)], page[Other(p)], to, m)
<1>1. chan \in [Pages -> Seq(Messages)] /\ Other(p) \in Pages /\ Other(p) # p
  BY TypesOfParts, TwoSeats
<1>2. Append(chan[Other(p)], m) \in Seq(Messages)
  BY <1>1, AppendProperties
<1> QED
  BY <1>1, <1>2 DEF Send, Told

\* The page without the operation that completes.
LEMMA RestEffect ==
    ASSUME TypeOK, NEW p \in Pages, NEW op, Current(p, op)
    PROVE  LET t == Rest(p)
               s == page[p]
           IN  /\ t \in PageRecord /\ s \in PageRecord /\ SameView(t, s)
               /\ t.chain = Tail(s.chain) /\ s.chain # <<>> /\ s.chain[1].op = op
               /\ s.chain[1] \in Ops /\ Desc(p) = s.chain[1].desc /\ To(p) = s.chain[1].to
               /\ Desc(p) \in Descs /\ To(p) \in Ids
               /\ t.dir = s.dir /\ t.offers = s.offers /\ t.sig = s.sig
               /\ t.making = s.making /\ t.needs = s.needs /\ t.heard = s.heard
               /\ t.held = s.held /\ t.gathering = s.gathering
<1> DEFINE s == page[p]
<1>1. s \in PageRecord
  BY TypesOfParts
<1>2. s.chain \in Seq(Ops) /\ s.chain # <<>> /\ Head(s.chain).op = op
  BY <1>1 DEF PageRecord, Current
<1>3. Tail(s.chain) \in Seq(Ops) /\ Head(s.chain) = s.chain[1] /\ s.chain[1] \in Ops
  BY <1>2, Tailed
<1>4. s.chain[1].desc \in Descs /\ s.chain[1].to \in Ids
  BY <1>3 DEF Ops
<1>5. LET t == Rest(p)
      IN  /\ t \in PageRecord /\ SameView(t, s) /\ t.chain = Tail(s.chain)
          /\ t.dir = s.dir /\ t.offers = s.offers /\ t.sig = s.sig
          /\ t.making = s.making /\ t.needs = s.needs /\ t.heard = s.heard
          /\ t.held = s.held /\ t.gathering = s.gathering
  BY <1>1, <1>3 DEF Rest, PageRecord, SameView
<1> QED
  BY <1>1, <1>2, <1>3, <1>4, <1>5 DEF Desc, To

LEMMA CreateOfferStep ==
    ASSUME TypeOK, NEW p \in Pages, CreateOffer(p)
    PROVE  WorksAt(p)
<1> DEFINE s == page[p]
           r == Rest(p)
           h == s.chain[1]
           offer == [dir |-> r.dir, offer |-> r.offers + 1]
           o == Op("setOffer", h.to, offer)
<1>1. /\ r \in PageRecord /\ s \in PageRecord /\ SameView(r, s)
      /\ r.chain = Tail(s.chain) /\ s.chain # <<>> /\ h.op = "createOffer"
      /\ Desc(p) = h.desc /\ To(p) = h.to /\ To(p) \in Ids
      /\ r.dir = s.dir /\ r.offers = s.offers /\ r.sig = s.sig
      /\ r.making = s.making /\ r.needs = s.needs /\ r.heard = s.heard /\ r.held = s.held
  <2>1. Current(p, "createOffer")
    BY DEF CreateOffer
  <2> QED
    BY <2>1, RestEffect
<1>2. offer \in Descs
  BY <1>1 DEF Descs, PageRecord
<1>3. o \in Ops
  BY <1>1, <1>2, OpType
<1>4. \/ r.sig = "stable" /\ Become(p, Request(r, o))
      \/ r.sig # "stable" /\ Become(p, [r EXCEPT !.needs = TRUE, !.making = FALSE])
      \/ r.sig = "remote" /\ Become(p, [r EXCEPT !.making = FALSE])
  BY <1>1 DEF CreateOffer
<1>5. Took(s, "createOffer") /\ joins \in 0 .. MaxJoins /\ toggles \in 0 .. MaxToggles
      /\ chan \in [Pages -> Seq(Messages)] /\ chan' = chan /\ joins' = joins /\ toggles' = toggles
  <2>1. chan' = chan /\ joins' = joins /\ toggles' = toggles
    BY DEF CreateOffer
  <2> QED
    BY <1>1, <2>1, TypesOfParts DEF Took
<1>6. CASE r.sig = "stable" /\ Become(p, Request(r, o))
  <2> DEFINE t == Request(r, o)
  <2> HIDE DEF o, r, s
  <2>1. /\ t \in PageRecord /\ SameView(t, r) /\ t.chain = Append(r.chain, o)
        /\ t.offers = r.offers /\ t.sig = r.sig /\ t.making = r.making
        /\ t.dir = r.dir /\ t.needs = r.needs /\ t.heard = r.heard /\ t.held = r.held
    BY <1>1, <1>3, RequestEffect
  <2>2. SameMedia(t, s)
    BY <1>1, <2>1 DEF SameMedia
  <2>3. CreatedOffer(t, s) /\ SameView(t, s)
    BY <1>1, <1>5, <1>6, <2>1, <2>2 DEF CreatedOffer, SameView, o
  <2> HIDE DEF t
  <2>4. /\ page' \in [Pages -> PageRecord] /\ page'[p] = t /\ page'[Other(p)] = page[Other(p)]
    BY <1>6, <2>1, BecomeEffect DEF t
  <2> QED
    BY <1>5, <2>3, <2>4 DEF WorksAt, Worked, s
<1>7. ASSUME NEW t \in PageRecord, Become(p, t), SameView(t, r), r.sig # "stable", ~t.making,
             t.sig = r.sig, t.offers = r.offers, t.chain = r.chain, Postpones(t, s)
      PROVE  WorksAt(p)
  <2> HIDE DEF o, r, s
  <2>1. CreatedOffer(t, s) /\ SameView(t, s)
    BY <1>1, <1>5, <1>7 DEF CreatedOffer, SameView
  <2>2. /\ page' \in [Pages -> PageRecord] /\ page'[p] = t /\ page'[Other(p)] = page[Other(p)]
    BY <1>7, BecomeEffect
  <2> QED
    BY <1>5, <2>1, <2>2 DEF WorksAt, Worked, s
<1>8. CASE r.sig # "stable" /\ Become(p, [r EXCEPT !.needs = TRUE, !.making = FALSE])
  <2> DEFINE t == [r EXCEPT !.needs = TRUE, !.making = FALSE]
  <2> HIDE DEF o, r, s
  <2>1. /\ t \in PageRecord /\ SameView(t, r) /\ t.chain = r.chain
        /\ t.offers = r.offers /\ t.sig = r.sig /\ t.making = FALSE
        /\ t.dir = r.dir /\ t.heard = r.heard /\ t.held = r.held /\ t.needs = TRUE
    BY <1>1 DEF PageRecord, SameView
  <2>2. Postpones(t, s)
    BY <1>1, <2>1 DEF Postpones
  <2> QED
    BY <1>7, <1>8, <2>1, <2>2
<1>9. CASE r.sig = "remote" /\ Become(p, [r EXCEPT !.making = FALSE])
  <2> DEFINE t == [r EXCEPT !.making = FALSE]
  <2> HIDE DEF o, r, s
  <2>1. /\ t \in PageRecord /\ SameView(t, r) /\ t.chain = r.chain
        /\ t.offers = r.offers /\ t.sig = r.sig /\ t.making = FALSE
        /\ t.dir = r.dir /\ t.heard = r.heard /\ t.held = r.held /\ t.needs = r.needs
    BY <1>1 DEF PageRecord, SameView
  <2>2. Postpones(t, s)
    BY <1>1, <2>1 DEF Postpones
  <2> QED
    BY <1>7, <1>9, <2>1, <2>2
<1> QED
  BY <1>4, <1>6, <1>8, <1>9

LEMMA SetOfferStep ==
    ASSUME TypeOK, NEW p \in Pages, SetOffer(p)
    PROVE  WorksAt(p)
<1> DEFINE s == page[p]
           r == Rest(p)
           h == s.chain[1]
           u == [r EXCEPT !.making = FALSE]
           m == Message("offer", u.id, FALSE, Desc(p))
<1>1. /\ r \in PageRecord /\ s \in PageRecord /\ SameView(r, s)
      /\ r.chain = Tail(s.chain) /\ s.chain # <<>> /\ h.op = "setOffer"
      /\ Desc(p) = h.desc /\ Desc(p) \in Descs
      /\ r.offers = s.offers /\ r.sig = s.sig /\ Current(p, "setOffer")
      /\ r.dir = s.dir /\ r.needs = s.needs /\ r.heard = s.heard /\ r.held = s.held
  <2>1. Current(p, "setOffer")
    BY DEF SetOffer
  <2> QED
    BY <2>1, RestEffect
<1>2. /\ u \in PageRecord /\ SameView(u, s) /\ u.chain = Tail(s.chain) /\ ~u.making
      /\ u.offers = s.offers /\ u.sig = s.sig
      /\ u.dir = s.dir /\ u.needs = s.needs /\ u.heard = s.heard /\ u.held = s.held
  <2> HIDE DEF r, s
  <2> QED
    BY <1>1 DEF PageRecord, SameView
<1>3. Took(s, "setOffer") /\ joins \in 0 .. MaxJoins /\ toggles \in 0 .. MaxToggles
      /\ chan \in [Pages -> Seq(Messages)]
  BY <1>1, TypesOfParts DEF Took
<1>4. joins' = joins /\ toggles' = toggles
  BY DEF SetOffer
<1>5. CASE s.sig = "stable"
  <2> DEFINE t == [u EXCEPT !.sig = "local", !.offers = Desc(p).offer,
                            !.gathering = IF @ = "new" THEN "found" ELSE @]
  <2>1. Become(p, t) /\ Send(p, u.peer, m)
    BY <1>2, <1>5 DEF SetOffer
  <2>2. Desc(p).offer \in Nat
    BY <1>1 DEF Descs
  <2>3. m \in Messages /\ u.id = s.id /\ u.peer = s.peer
    <3>1. u.id \in Ids \cup {NoPeer} /\ u.id = s.id /\ u.peer = s.peer
      BY <1>2 DEF PageRecord, SameView
    <3> QED
      BY <1>1, <3>1, MessageType
  <2> HIDE DEF u
  <2>4. /\ t \in PageRecord /\ SameView(t, u) /\ t.chain = u.chain /\ t.making = u.making
        /\ t.sig = "local" /\ t.offers = Desc(p).offer
        /\ t.dir = u.dir /\ t.needs = u.needs /\ t.heard = u.heard /\ t.held = u.held
    BY <1>2, <2>2 DEF PageRecord, SameView
  <2> HIDE DEF t, m
  <2>5. /\ chan' \in [Pages -> Seq(Messages)] /\ chan'[p] = chan[p]
        /\ Told(chan'[Other(p)], chan[Other(p)], page[Other(p)], u.peer, m)
    BY <2>1, <2>3, SendEffect
  <2>6. /\ page' \in [Pages -> PageRecord] /\ page'[p] = t /\ page'[Other(p)] = page[Other(p)]
    BY <2>1, <2>4, BecomeEffect
  <2> HIDE DEF s
  <2>7. SameMedia(t, s)
    BY <1>2, <2>4 DEF SameMedia
  <2>8. AppliedOffer(t, s, page[Other(p)], chan'[Other(p)], chan[Other(p)]) /\ SameView(t, s)
    BY <1>1, <1>2, <1>3, <1>5, <2>3, <2>4, <2>5, <2>7 DEF AppliedOffer, SameView, m
  <2> QED
    BY <1>3, <1>4, <2>5, <2>6, <2>8 DEF WorksAt, Worked, s
<1>6. CASE s.sig # "stable"
  <2>1. Become(p, u) /\ chan' = chan
    BY <1>2, <1>6 DEF SetOffer
  <2> HIDE DEF u
  <2>2. /\ page' \in [Pages -> PageRecord] /\ page'[p] = u /\ page'[Other(p)] = page[Other(p)]
    BY <1>2, <2>1, BecomeEffect
  <2> HIDE DEF s
  <2>3. SameMedia(u, s)
    BY <1>2 DEF SameMedia
  <2>4. AppliedOffer(u, s, page[Other(p)], chan'[Other(p)], chan[Other(p)])
    BY <1>2, <1>3, <1>6, <2>1, <2>3 DEF AppliedOffer
  <2> QED
    BY <1>2, <1>3, <1>4, <2>1, <2>2, <2>4 DEF WorksAt, Worked, s
<1> QED
  BY <1>5, <1>6

LEMMA SetRemoteStep ==
    ASSUME TypeOK, NEW p \in Pages, SetRemote(p)
    PROVE  WorksAt(p)
<1> DEFINE s == page[p]
           r == Rest(p)
           h == s.chain[1]
           u == [r EXCEPT !.sig = "remote", !.heard = Desc(p)]
           next == IF u.held > 0 THEN "addHeld" ELSE "createAnswer"
           o == Op(next, To(p), Desc(p))
           t == Request(u, o)
<1>1. /\ r \in PageRecord /\ s \in PageRecord /\ SameView(r, s)
      /\ r.chain = Tail(s.chain) /\ s.chain # <<>> /\ h.op = "setRemote"
      /\ Desc(p) = h.desc /\ Desc(p) \in Descs /\ To(p) = h.to /\ To(p) \in Ids
      /\ r.offers = s.offers /\ r.sig = s.sig /\ r.making = s.making
      /\ r.dir = s.dir /\ r.needs = s.needs /\ r.held = s.held
  <2>1. Current(p, "setRemote")
    BY DEF SetRemote
  <2> QED
    BY <2>1, RestEffect
<1>2. Become(p, t) /\ UNCHANGED <<chan, joins, toggles>>
  BY DEF SetRemote
<1>3. o \in Ops /\ next \in {"addHeld", "createAnswer"} /\ (s.held > 0 => next = "addHeld")
  <2>1. next \in {"addHeld", "createAnswer"} /\ u.held = r.held
    BY <1>1 DEF PageRecord
  <2> HIDE DEF r, u
  <2>2. s.held > 0 => next = "addHeld"
    BY <1>1, <2>1
  <2> QED
    BY <1>1, <2>1, <2>2, OpType
<1>4. Took(s, "setRemote") /\ joins \in 0 .. MaxJoins /\ toggles \in 0 .. MaxToggles
      /\ chan \in [Pages -> Seq(Messages)]
  BY <1>1, TypesOfParts DEF Took
<1> HIDE DEF r, s, next
<1>5. /\ u \in PageRecord /\ SameView(u, s) /\ u.chain = Tail(s.chain)
      /\ (u.making <=> s.making) /\ u.offers = s.offers /\ u.sig = "remote"
      /\ u.dir = s.dir /\ (u.needs <=> s.needs) /\ u.held = s.held /\ u.heard = Desc(p)
  BY <1>1 DEF PageRecord, SameView
<1> HIDE DEF u, o
<1>6. /\ t \in PageRecord /\ SameView(t, u) /\ t.chain = Append(u.chain, o)
      /\ t.offers = u.offers /\ t.sig = u.sig /\ t.making = u.making
      /\ t.dir = u.dir /\ t.needs = u.needs /\ t.heard = u.heard /\ t.held = u.held
  BY <1>3, <1>5, RequestEffect
<1> HIDE DEF t
<1>7. HeardOffer(t, s) /\ SameView(t, s)
  BY <1>1, <1>3, <1>4, <1>5, <1>6 DEF HeardOffer, SameView, o
<1>8. /\ page' \in [Pages -> PageRecord] /\ page'[p] = t /\ page'[Other(p)] = page[Other(p)]
  BY <1>2, <1>6, BecomeEffect
<1> QED
  BY <1>2, <1>4, <1>7, <1>8 DEF WorksAt, Worked, s

LEMMA SetAnsweredStep ==
    ASSUME TypeOK, NEW p \in Pages, SetAnswered(p)
    PROVE  WorksAt(p)
<1> DEFINE s == page[p]
           r == Rest(p)
           h == s.chain[1]
           u == [r EXCEPT !.heard = Desc(p)]
           t == Stabilize(u)
           o == Op("addHeld", To(p), NoDesc)
           v == Request(t, o)
<1>1. /\ r \in PageRecord /\ s \in PageRecord /\ SameView(r, s)
      /\ r.chain = Tail(s.chain) /\ s.chain # <<>> /\ h.op = "setAnswered"
      /\ Desc(p) \in Descs /\ Desc(p) = h.desc /\ To(p) = h.to /\ To(p) \in Ids
      /\ r.offers = s.offers /\ r.sig = s.sig /\ r.making = s.making
      /\ r.dir = s.dir /\ r.needs = s.needs /\ r.heard = s.heard /\ r.held = s.held
  <2>1. Current(p, "setAnswered")
    BY DEF SetAnswered
  <2> QED
    BY <2>1, RestEffect
<1>2. /\ joins \in 0 .. MaxJoins /\ toggles \in 0 .. MaxToggles
      /\ chan \in [Pages -> Seq(Messages)] /\ chan' = chan /\ joins' = joins /\ toggles' = toggles
  <2>1. chan' = chan /\ joins' = joins /\ toggles' = toggles
    BY DEF SetAnswered
  <2> QED
    BY <2>1, TypesOfParts
<1>3. /\ s.sig # "local" => Become(p, r)
      /\ s.sig = "local" => (s.held = 0 /\ Become(p, t)) \/ Become(p, v)
  <2>1. Become(p, CASE r.sig # "local" -> r
                    [] r.sig = "local" /\ r.held = 0 -> t
                    [] OTHER -> v)
    BY DEF SetAnswered
  <2> HIDE DEF r, t, v
  <2>2. CASE r.sig # "local"
    BY <1>1, <2>1, <2>2
  <2>3. CASE r.sig = "local" /\ r.held = 0
    BY <1>1, <2>1, <2>3
  <2>4. CASE r.sig = "local" /\ r.held # 0
    BY <1>1, <2>1, <2>4
  <2> QED
    BY <2>2, <2>3, <2>4
<1>4. Took(s, "setAnswered")
  BY <1>1 DEF Took
<1> HIDE DEF r, s, t, v
<1>5. CASE s.sig # "local"
  <2>1. HeardAnswer(r, s)
    <3>1. SameMedia(r, s)
      BY <1>1 DEF SameMedia
    <3> QED
      BY <1>1, <1>4, <1>5, <3>1 DEF HeardAnswer
  <2>2. /\ page' \in [Pages -> PageRecord] /\ page'[p] = r /\ page'[Other(p)] = page[Other(p)]
    BY <1>1, <1>3, <1>5, BecomeEffect
  <2> QED
    BY <1>1, <1>2, <2>1, <2>2 DEF WorksAt, Worked, s
<1>6. CASE s.sig = "local"
  <2>1. /\ u \in PageRecord /\ SameView(u, s) /\ u.chain = Tail(s.chain)
        /\ u.offers = s.offers /\ u.making = s.making /\ u.needs = s.needs
        /\ u.dir = s.dir /\ u.heard = h.desc /\ u.held = s.held
    BY <1>1 DEF PageRecord, SameView
  <2> HIDE DEF u
  <2>2. /\ t \in PageRecord /\ SameView(t, u) /\ t.sig = "stable" /\ t.offers = u.offers
        /\ t.dir = u.dir /\ t.heard = u.heard /\ t.held = u.held /\ Replayed(t, u)
        /\ \/ t.chain = u.chain /\ t.making = u.making
           \/ /\ u.pc /\ u.peer # NoPeer /\ ~u.making /\ t.making
              /\ t.chain = Append(u.chain, Op("createOffer", u.peer, NoDesc))
    BY <2>1, StabilizeEffect DEF t
  <2>3. Asked(t.chain, t.making, s, Tail(s.chain)) /\ SameView(t, s) /\ t.chain \in Seq(Ops)
    <3>1. t.chain \in Seq(Ops)
      BY <2>2 DEF PageRecord
    <3> QED
      BY <2>1, <2>2, <3>1 DEF Asked, SameView
  <2>4. o \in Ops
    BY <1>1, OpType, NoDescType
  <2> HIDE DEF o
  <2>5. /\ v \in PageRecord /\ SameView(v, t) /\ v.chain = Append(t.chain, o)
        /\ v.offers = t.offers /\ v.sig = t.sig /\ v.making = t.making
        /\ v.dir = t.dir /\ v.needs = t.needs /\ v.heard = t.heard /\ v.held = t.held
    BY <2>2, <2>4, RequestEffect DEF v
  <2>6. ASSUME NEW w \in PageRecord, (s.held = 0 /\ w = t) \/ w = v, Become(p, w)
        PROVE  WorksAt(p)
    <3>1. /\ SameView(w, s) /\ w.offers = s.offers /\ w.sig = "stable" /\ w.making = t.making
          /\ w.dir = s.dir /\ w.heard = h.desc /\ w.held = s.held /\ w.needs = t.needs
          /\ \/ w.chain = t.chain /\ s.held = 0
             \/ w.chain = Append(t.chain, Op("addHeld", h.to, NoDesc))
      BY <1>1, <2>1, <2>2, <2>3, <2>5, <2>6 DEF SameView, o
    <3>2. HeardAnswer(w, s)
      <4>1. Replayed(w, s)
        BY <2>1, <2>2, <3>1 DEF Replayed, SameView
      <4> QED
        BY <1>4, <1>6, <2>3, <3>1, <4>1 DEF HeardAnswer
    <3>3. /\ page' \in [Pages -> PageRecord] /\ page'[p] = w /\ page'[Other(p)] = page[Other(p)]
      BY <2>6, BecomeEffect
    <3> QED
      BY <1>2, <3>1, <3>2, <3>3 DEF WorksAt, Worked, s
  <2> QED
    BY <1>3, <1>6, <2>2, <2>5, <2>6
<1> QED
  BY <1>5, <1>6

LEMMA AddHeldStep ==
    ASSUME TypeOK, NEW p \in Pages, AddHeld(p)
    PROVE  WorksAt(p)
<1> DEFINE s == page[p]
           r == Rest(p)
           h == s.chain[1]
           u == [r EXCEPT !.held = 0]
           o == Op("createAnswer", To(p), Desc(p))
           t == Request(u, o)
<1>1. /\ r \in PageRecord /\ s \in PageRecord /\ SameView(r, s)
      /\ r.chain = Tail(s.chain) /\ s.chain # <<>> /\ h.op = "addHeld"
      /\ Desc(p) = h.desc /\ Desc(p) \in Descs /\ To(p) = h.to /\ To(p) \in Ids
      /\ r.offers = s.offers /\ r.sig = s.sig /\ r.making = s.making
      /\ r.dir = s.dir /\ r.needs = s.needs /\ r.heard = s.heard
  <2>1. Current(p, "addHeld")
    BY DEF AddHeld
  <2> QED
    BY <2>1, RestEffect
<1>2. /\ joins \in 0 .. MaxJoins /\ toggles \in 0 .. MaxToggles
      /\ chan \in [Pages -> Seq(Messages)] /\ chan' = chan /\ joins' = joins /\ toggles' = toggles
  <2>1. chan' = chan /\ joins' = joins /\ toggles' = toggles
    BY DEF AddHeld
  <2> QED
    BY <2>1, TypesOfParts
<1>3. /\ Desc(p) = NoDesc => Become(p, u)
      /\ Desc(p) # NoDesc => Become(p, t)
  <2>1. Become(p, IF Desc(p) = NoDesc THEN u ELSE t)
    BY DEF AddHeld
  <2> HIDE DEF u, t
  <2> QED
    BY <2>1
<1>4. Took(s, "addHeld") /\ o \in Ops
  BY <1>1, OpType DEF Took
<1> HIDE DEF r, s, t
<1>5. /\ u \in PageRecord /\ SameView(u, s) /\ u.chain = Tail(s.chain)
      /\ u.offers = s.offers /\ (u.making <=> s.making) /\ u.sig = s.sig
      /\ u.dir = s.dir /\ (u.needs <=> s.needs) /\ u.heard = s.heard /\ u.held = 0
  BY <1>1 DEF PageRecord, SameView
<1> HIDE DEF u, o
<1>6. CASE Desc(p) = NoDesc
  <2>1. AddedHeld(u, s)
    BY <1>1, <1>4, <1>5, <1>6 DEF AddedHeld
  <2>2. /\ page' \in [Pages -> PageRecord] /\ page'[p] = u /\ page'[Other(p)] = page[Other(p)]
    BY <1>3, <1>5, <1>6, BecomeEffect
  <2> QED
    BY <1>2, <1>5, <2>1, <2>2 DEF WorksAt, Worked, s
<1>7. CASE Desc(p) # NoDesc
  <2>1. /\ t \in PageRecord /\ SameView(t, u) /\ t.chain = Append(u.chain, o)
        /\ t.offers = u.offers /\ t.sig = u.sig /\ t.making = u.making
        /\ t.dir = u.dir /\ t.needs = u.needs /\ t.heard = u.heard /\ t.held = u.held
    BY <1>4, <1>5, RequestEffect DEF t
  <2>2. AddedHeld(t, s) /\ SameView(t, s)
    BY <1>1, <1>4, <1>5, <1>7, <2>1 DEF AddedHeld, SameView, o
  <2>3. /\ page' \in [Pages -> PageRecord] /\ page'[p] = t /\ page'[Other(p)] = page[Other(p)]
    BY <1>3, <1>7, <2>1, BecomeEffect
  <2> QED
    BY <1>2, <2>2, <2>3 DEF WorksAt, Worked, s
<1> QED
  BY <1>6, <1>7

LEMMA CreateAnswerStep ==
    ASSUME TypeOK, NEW p \in Pages, CreateAnswer(p)
    PROVE  WorksAt(p)
<1> DEFINE s == page[p]
           r == Rest(p)
           h == s.chain[1]
           answer == [Desc(p) EXCEPT !.dir = r.dir]
           o == Op("setAnswer", To(p), answer)
           t == Request(r, o)
<1>1. /\ r \in PageRecord /\ s \in PageRecord /\ SameView(r, s)
      /\ r.chain = Tail(s.chain) /\ s.chain # <<>> /\ h.op = "createAnswer"
      /\ Desc(p) = h.desc /\ Desc(p) \in Descs /\ To(p) = h.to /\ To(p) \in Ids
      /\ r.dir = s.dir /\ r.offers = s.offers /\ r.sig = s.sig /\ r.making = s.making
      /\ r.needs = s.needs /\ r.heard = s.heard /\ r.held = s.held
  <2>1. Current(p, "createAnswer")
    BY DEF CreateAnswer
  <2> QED
    BY <2>1, RestEffect
<1>2. /\ joins \in 0 .. MaxJoins /\ toggles \in 0 .. MaxToggles
      /\ chan \in [Pages -> Seq(Messages)] /\ chan' = chan /\ joins' = joins /\ toggles' = toggles
  <2>1. chan' = chan /\ joins' = joins /\ toggles' = toggles
    BY DEF CreateAnswer
  <2> QED
    BY <2>1, TypesOfParts
<1>3. /\ r.sig # "remote" => Become(p, r)
      /\ r.sig = "remote" => Become(p, t)
  <2>1. Become(p, IF r.sig = "remote" THEN t ELSE r)
    BY DEF CreateAnswer
  <2> HIDE DEF r, t
  <2> QED
    BY <2>1
<1>4. answer \in Descs
  <2>1. r.dir \in Directions
    BY <1>1 DEF PageRecord
  <2> HIDE DEF r
  <2> QED
    BY <1>1, <2>1 DEF Descs
<1>5. Took(s, "createAnswer") /\ o \in Ops
  BY <1>1, <1>4, OpType DEF Took
<1> HIDE DEF r, s, t, o
<1>6. CASE r.sig # "remote"
  <2>1. CreatedAnswer(r, s)
    <3>1. SameMedia(r, s)
      BY <1>1 DEF SameMedia
    <3> QED
      BY <1>1, <1>5, <1>6, <3>1 DEF CreatedAnswer
  <2>2. /\ page' \in [Pages -> PageRecord] /\ page'[p] = r /\ page'[Other(p)] = page[Other(p)]
    BY <1>1, <1>3, <1>6, BecomeEffect
  <2> QED
    BY <1>1, <1>2, <2>1, <2>2 DEF WorksAt, Worked, s
<1>7. CASE r.sig = "remote"
  <2>1. /\ t \in PageRecord /\ SameView(t, r) /\ t.chain = Append(r.chain, o)
        /\ t.offers = r.offers /\ t.sig = r.sig /\ t.making = r.making
        /\ t.dir = r.dir /\ t.needs = r.needs /\ t.heard = r.heard /\ t.held = r.held
    BY <1>1, <1>5, RequestEffect DEF t
  <2>2. CreatedAnswer(t, s) /\ SameView(t, s)
    <3>1. SameMedia(t, s)
      BY <1>1, <2>1 DEF SameMedia
    <3> QED
      BY <1>1, <1>5, <1>7, <2>1, <3>1 DEF CreatedAnswer, SameView, o
  <2>3. /\ page' \in [Pages -> PageRecord] /\ page'[p] = t /\ page'[Other(p)] = page[Other(p)]
    BY <1>3, <1>7, <2>1, BecomeEffect
  <2> QED
    BY <1>2, <2>2, <2>3 DEF WorksAt, Worked, s
<1> QED
  BY <1>6, <1>7

LEMMA SetAnswerStep ==
    ASSUME TypeOK, NEW p \in Pages, SetAnswer(p)
    PROVE  WorksAt(p)
<1> DEFINE s == page[p]
           r == Rest(p)
           h == s.chain[1]
           u == [r EXCEPT !.gathering = IF @ = "new" THEN "found" ELSE @]
           t == Stabilize(u)
           m == Message("answer", r.id, FALSE, Desc(p))
<1>1. /\ r \in PageRecord /\ s \in PageRecord /\ SameView(r, s)
      /\ r.chain = Tail(s.chain) /\ s.chain # <<>> /\ h.op = "setAnswer"
      /\ Desc(p) = h.desc /\ Desc(p) \in Descs /\ To(p) = h.to
      /\ r.offers = s.offers /\ r.sig = s.sig /\ r.making = s.making
      /\ r.dir = s.dir /\ r.needs = s.needs /\ r.heard = s.heard /\ r.held = s.held
  <2>1. Current(p, "setAnswer")
    BY DEF SetAnswer
  <2> QED
    BY <2>1, RestEffect
<1>2. /\ joins \in 0 .. MaxJoins /\ toggles \in 0 .. MaxToggles
      /\ chan \in [Pages -> Seq(Messages)] /\ joins' = joins /\ toggles' = toggles
  <2>1. joins' = joins /\ toggles' = toggles
    BY DEF SetAnswer
  <2> QED
    BY <2>1, TypesOfParts
<1>3. /\ r.sig # "remote" => Become(p, r) /\ chan' = chan
      /\ r.sig = "remote" => Become(p, t) /\ Send(p, To(p), m)
  BY DEF SetAnswer
<1>4. m \in Messages /\ r.id = s.id
  <2>1. r.id \in Ids \cup {NoPeer} /\ r.id = s.id
    BY <1>1 DEF PageRecord, SameView
  <2> QED
    BY <1>1, <2>1, MessageType
<1>5. Took(s, "setAnswer")
  BY <1>1 DEF Took
<1> HIDE DEF r, s, t, m
<1>6. CASE r.sig # "remote"
  <2>1. AppliedAnswer(r, s, page[Other(p)], chan'[Other(p)], chan[Other(p)])
    <3>1. SameMedia(r, s)
      BY <1>1 DEF SameMedia
    <3> QED
      BY <1>1, <1>3, <1>5, <1>6, <3>1 DEF AppliedAnswer
  <2>2. /\ page' \in [Pages -> PageRecord] /\ page'[p] = r /\ page'[Other(p)] = page[Other(p)]
    BY <1>1, <1>3, <1>6, BecomeEffect
  <2> QED
    BY <1>1, <1>2, <1>3, <1>6, <2>1, <2>2 DEF WorksAt, Worked, s
<1>7. CASE r.sig = "remote"
  <2>1. /\ u \in PageRecord /\ SameView(u, s) /\ u.chain = Tail(s.chain)
        /\ u.offers = s.offers /\ u.making = s.making /\ u.needs = s.needs
        /\ u.dir = s.dir /\ u.heard = s.heard /\ u.held = s.held
    BY <1>1 DEF PageRecord, SameView
  <2> HIDE DEF u
  <2>2. /\ t \in PageRecord /\ SameView(t, u) /\ t.sig = "stable" /\ t.offers = u.offers
        /\ t.dir = u.dir /\ t.heard = u.heard /\ t.held = u.held /\ Replayed(t, u)
        /\ \/ t.chain = u.chain /\ t.making = u.making
           \/ /\ u.pc /\ u.peer # NoPeer /\ ~u.making /\ t.making
              /\ t.chain = Append(u.chain, Op("createOffer", u.peer, NoDesc))
    BY <2>1, StabilizeEffect DEF t
  <2>3. Asked(t.chain, t.making, s, Tail(s.chain)) /\ SameView(t, s)
    BY <2>1, <2>2 DEF Asked, SameView
  <2>4. /\ chan' \in [Pages -> Seq(Messages)] /\ chan'[p] = chan[p]
        /\ Told(chan'[Other(p)], chan[Other(p)], page[Other(p)], To(p), m)
    BY <1>3, <1>4, <1>7, SendEffect
  <2>5. AppliedAnswer(t, s, page[Other(p)], chan'[Other(p)], chan[Other(p)])
    <3>1. Replayed(t, s)
      BY <2>1, <2>2 DEF Replayed, SameView
    <3> QED
      BY <1>1, <1>4, <1>5, <1>7, <2>1, <2>2, <2>3, <2>4, <3>1 DEF AppliedAnswer, m
  <2>6. /\ page' \in [Pages -> PageRecord] /\ page'[p] = t /\ page'[Other(p)] = page[Other(p)]
    BY <1>3, <1>7, <2>2, BecomeEffect
  <2> QED
    BY <1>2, <2>3, <2>4, <2>5, <2>6 DEF WorksAt, Worked, s
<1> QED
  BY <1>6, <1>7

LEMMA CandidateStep ==
    ASSUME TypeOK, NEW p \in Pages, Candidate(p)
    PROVE  WorksAt(p)
<1> DEFINE s == page[p]
           t == [s EXCEPT !.gathering = "done"]
           m == Message("ice", s.id, FALSE, NoDesc)
<1>1. /\ joins \in 0 .. MaxJoins /\ toggles \in 0 .. MaxToggles
      /\ chan \in [Pages -> Seq(Messages)] /\ joins' = joins /\ toggles' = toggles
      /\ s \in PageRecord
  <2>1. joins' = joins /\ toggles' = toggles
    BY DEF Candidate
  <2> QED
    BY <2>1, TypesOfParts
<1>2. Become(p, t) /\ Send(p, s.peer, m) /\ s.gathering = "found"
  BY DEF Candidate
<1>3. m \in Messages
  <2>1. s.id \in Ids \cup {NoPeer}
    BY <1>1 DEF PageRecord
  <2> QED
    BY <2>1, MessageType, NoDescType
<1> HIDE DEF s
<1>4. /\ t \in PageRecord /\ SameView(t, s) /\ t.chain = s.chain /\ t.gathering = "done"
      /\ t.offers = s.offers /\ (t.making <=> s.making) /\ t.sig = s.sig /\ SameMedia(t, s)
  BY <1>1 DEF PageRecord, SameView, SameMedia
<1> HIDE DEF t, m
<1>5. /\ chan' \in [Pages -> Seq(Messages)] /\ chan'[p] = chan[p]
      /\ Told(chan'[Other(p)], chan[Other(p)], page[Other(p)], s.peer, m)
  BY <1>2, <1>3, SendEffect
<1>6. /\ page' \in [Pages -> PageRecord] /\ page'[p] = t /\ page'[Other(p)] = page[Other(p)]
  BY <1>2, <1>4, BecomeEffect
<1>7. FoundCandidate(t, s, page[Other(p)], chan'[Other(p)], chan[Other(p)])
  BY <1>2, <1>4, <1>5 DEF FoundCandidate, m
<1> QED
  BY <1>1, <1>4, <1>5, <1>6, <1>7 DEF WorksAt, Worked, s

LEMMA ToggleStep ==
    ASSUME TypeOK, NEW p \in Pages, Toggle(p)
    PROVE  WorksAt(p)
<1> DEFINE s == page[p]
<1>1. PICK dir \in Directions : Become(p, Renegotiate([s EXCEPT !.dir = dir]))
  BY DEF Toggle
<1> DEFINE u == [s EXCEPT !.dir = dir]
           t == Renegotiate(u)
<1>2. /\ joins \in 0 .. MaxJoins /\ toggles' \in 0 .. MaxToggles
      /\ chan \in [Pages -> Seq(Messages)] /\ joins' = joins /\ chan' = chan
      /\ s \in PageRecord
  <2>1. joins' = joins /\ chan' = chan /\ toggles' = toggles + 1 /\ toggles < MaxToggles
    BY DEF Toggle
  <2> QED
    BY <2>1, TypesOfParts, MaxTogglesAssumption
<1>3. Become(p, t)
  BY <1>1
<1> HIDE DEF s, t
<1>4. /\ u \in PageRecord /\ SameView(u, s) /\ u.chain = s.chain /\ u.gathering = s.gathering
      /\ u.offers = s.offers /\ (u.making <=> s.making) /\ u.sig = s.sig
      /\ (u.needs <=> s.needs) /\ u.heard = s.heard /\ u.held = s.held
  BY <1>2 DEF PageRecord, SameView
<1> HIDE DEF u
<1>5. /\ t \in PageRecord /\ SameView(t, u) /\ RequestsOffer(t, u)
      /\ t.offers = u.offers /\ t.sig = u.sig /\ t.gathering = u.gathering
      /\ t.heard = u.heard /\ t.held = u.held
  BY <1>4, RenegotiateEffect DEF t
<1>6. SameView(t, s) /\ Toggled(t, s) /\ t.gathering = s.gathering
  <2>1. Turned(t, s)
    BY <1>4, <1>5 DEF SameView, RequestsOffer, Turned, Busy
  <2> QED
    BY <1>4, <1>5, <2>1 DEF SameView, RequestsOffer, Toggled, Asked
<1>7. /\ page' \in [Pages -> PageRecord] /\ page'[p] = t /\ page'[Other(p)] = page[Other(p)]
  BY <1>3, <1>5, BecomeEffect
<1> QED
  BY <1>2, <1>6, <1>7 DEF WorksAt, Worked, s

\* Every step of a page on its own.
LEMMA WorkingSteps ==
    ASSUME TypeOK, NEW p \in Pages, Complete(p) \/ Candidate(p) \/ Toggle(p)
    PROVE  WorksAt(p)
BY CreateOfferStep, SetOfferStep, SetRemoteStep, SetAnsweredStep, AddHeldStep,
   CreateAnswerStep, SetAnswerStep, CandidateStep, ToggleStep DEF Complete

\* A page without a connection gets one, or loses it.
Reset(t) == t.chain = <<>> /\ t.sig = "stable" /\ ~t.making /\ t.gathering # "found"

\* The connection goes on as it was.
Continues(t, s) ==
    /\ SameView(t, s) /\ t.sig = s.sig /\ t.offers = s.offers /\ (t.making <=> s.making)
    /\ t.gathering = s.gathering

\* What reading the message m makes of the page.
ReadWelcome(t, s, m) ==
    /\ m.type = "welcome" /\ ~s.impolite /\ (m.second <=> m.from # NoPeer)
    /\ Reset(s) /\ t.pc /\ t.peer = m.from /\ (t.impolite <=> m.second) /\ SameMedia(t, s)
    /\ \/ ~m.second /\ Reset(t)
       \/ /\ m.second /\ t.making /\ t.sig = "stable" /\ t.gathering # "found"
          /\ t.chain = Append(<<>>, Op("createOffer", m.from, NoDesc))

ReadJoined(t, s, m) ==
    /\ m.type = "joined" /\ s.peer = NoPeer /\ m.from # NoPeer
    /\ Reset(t) /\ t.pc /\ t.peer = m.from /\ ~t.impolite /\ SameMedia(t, s)

ReadLeft(t, s, m) ==
    /\ m.type = "left" /\ s.peer = m.from /\ m.from # NoPeer
    /\ Reset(t) /\ ~t.pc /\ t.peer = NoPeer /\ (t.impolite <=> s.impolite)
    /\ ~t.needs /\ t.held = 0

ReadOffer(t, s, m) ==
    /\ m.type = "offer" /\ s.peer = m.from /\ s.peer # NoPeer /\ Continues(t, s)
    /\ \/ s.impolite /\ (s.making \/ s.sig # "stable") /\ t.chain = s.chain /\ SameMedia(t, s)
       \/ /\ s.impolite => ~s.making /\ s.sig = "stable"
          /\ t.dir = s.dir /\ t.heard = s.heard /\ t.held = s.held
          /\ t.needs <=> s.needs \/ Busy(s)
          /\ t.chain = Append(s.chain, Op("setRemote", s.peer, m.desc))

ReadAnswer(t, s, m) ==
    /\ m.type = "answer" /\ s.peer = m.from /\ s.peer # NoPeer /\ Continues(t, s)
    /\ t.chain = Append(s.chain, Op("setAnswered", s.peer, m.desc)) /\ SameMedia(t, s)

ReadIce(t, s, m) ==
    /\ m.type = "ice" /\ s.peer = m.from /\ s.peer # NoPeer /\ Continues(t, s)
    /\ t.chain = s.chain /\ t.dir = s.dir /\ (t.needs <=> s.needs) /\ t.heard = s.heard
    /\ t.held = s.held \/ s.heard = NoDesc

Read(t, s, m) ==
    /\ t.id = s.id
    /\ \/ ReadWelcome(t, s, m) \/ ReadJoined(t, s, m) \/ ReadLeft(t, s, m)
       \/ ReadOffer(t, s, m) \/ ReadAnswer(t, s, m) \/ ReadIce(t, s, m)

LEMMA EnsurePCEffect ==
    ASSUME NEW s \in PageRecord
    PROVE  LET t == EnsurePC(s)
           IN  /\ t \in PageRecord /\ t.id = s.id /\ t.peer = s.peer /\ t.impolite = s.impolite
               /\ t.pc = TRUE /\ t.sig = s.sig /\ t.making = s.making /\ t.needs = s.needs
               /\ t.chain = s.chain /\ t.heard = s.heard /\ t.held = s.held
               /\ t.gathering = s.gathering /\ t.dir = s.dir /\ t.offers = s.offers
BY DEF EnsurePC, PageRecord

LEMMA WelcomeRead ==
    ASSUME NEW s \in PageRecord, NEW m \in Messages, m.type = "welcome", Reset(s),
           ~s.impolite, m.second <=> m.from # NoPeer
    PROVE  LET t == OnWelcome(s, m)
           IN  t \in PageRecord /\ t.id = s.id /\ ReadWelcome(t, s, m)
<1> DEFINE u == [s EXCEPT !.impolite = m.second, !.peer = m.from]
           v == EnsurePC(u)
           t == OnWelcome(s, m)
<1>1. m.from \in Ids \cup {NoPeer} /\ m.second \in BOOLEAN
  BY DEF Messages
<1>2. /\ u \in PageRecord /\ u.id = s.id /\ u.peer = m.from /\ u.impolite = m.second
      /\ u.sig = s.sig /\ u.making = s.making /\ u.chain = s.chain /\ u.gathering = s.gathering
      /\ u.dir = s.dir /\ u.needs = s.needs /\ u.heard = s.heard /\ u.held = s.held
  BY <1>1 DEF PageRecord
<1>3. t = IF v.impolite THEN Renegotiate(v) ELSE v
  BY DEF OnWelcome
<1> HIDE DEF u, t
<1>4. /\ v \in PageRecord /\ v.id = s.id /\ v.peer = m.from /\ v.impolite = m.second /\ v.pc = TRUE
      /\ v.sig = s.sig /\ v.making = s.making /\ v.chain = s.chain /\ v.gathering = s.gathering
      /\ v.dir = s.dir /\ v.needs = s.needs /\ v.heard = s.heard /\ v.held = s.held
  BY <1>2, EnsurePCEffect
<1> HIDE DEF v
<1>5. CASE ~m.second
  BY <1>3, <1>4, <1>5 DEF ReadWelcome, Reset, SameMedia, t
<1>6. CASE m.second
  <2>1. /\ t \in PageRecord /\ SameView(t, v) /\ RequestsOffer(t, v)
        /\ t.sig = v.sig /\ t.gathering = v.gathering
        /\ t.dir = v.dir /\ t.heard = v.heard /\ t.held = v.held
    BY <1>3, <1>4, <1>6, RenegotiateEffect
  <2>2. t.chain = Append(<<>>, Op("createOffer", m.from, NoDesc)) /\ t.making
        /\ t.needs = v.needs
    BY <1>4, <1>6, <2>1 DEF RequestsOffer, Reset
  <2>3. SameMedia(t, s)
    BY <1>4, <2>1, <2>2 DEF SameMedia
  <2> QED
    BY <1>4, <1>6, <2>1, <2>2, <2>3 DEF ReadWelcome, Reset, SameView, t
<1> QED
  BY <1>5, <1>6

LEMMA JoinedRead ==
    ASSUME NEW s \in PageRecord, NEW m \in Messages, m.type = "joined", Reset(s),
           s.peer = NoPeer, m.from # NoPeer, m.second
    PROVE  LET t == OnJoined(s, m)
           IN  t \in PageRecord /\ t.id = s.id /\ ReadJoined(t, s, m)
<1> DEFINE u == [s EXCEPT !.peer = m.from, !.impolite = @ /\ ~m.second]
           t == OnJoined(s, m)
<1>1. m.from \in Ids \cup {NoPeer} /\ (s.impolite /\ ~m.second) = FALSE
  BY DEF Messages
<1>2. /\ u \in PageRecord /\ u.id = s.id /\ u.peer = m.from /\ u.impolite = FALSE
      /\ u.sig = s.sig /\ u.making = s.making /\ u.chain = s.chain /\ u.gathering = s.gathering
      /\ u.dir = s.dir /\ u.needs = s.needs /\ u.heard = s.heard /\ u.held = s.held
  BY <1>1 DEF PageRecord
<1>3. t = EnsurePC(u)
  BY DEF OnJoined
<1> HIDE DEF u, t
<1>4. /\ t \in PageRecord /\ t.id = u.id /\ t.peer = u.peer /\ t.impolite = u.impolite
      /\ t.pc = TRUE /\ t.sig = u.sig /\ t.making = u.making
      /\ t.chain = u.chain /\ t.gathering = u.gathering
      /\ t.dir = u.dir /\ t.needs = u.needs /\ t.heard = u.heard /\ t.held = u.held
  BY <1>2, <1>3, EnsurePCEffect
<1>5. SameMedia(t, s)
  BY <1>2, <1>4 DEF SameMedia
<1> QED
  BY <1>2, <1>4, <1>5 DEF ReadJoined, Reset, t

LEMMA LeftRead ==
    ASSUME NEW s \in PageRecord, NEW m \in Messages, m.type = "left", s.peer = m.from,
           m.from # NoPeer
    PROVE  LET t == OnLeft(s, m)
           IN  t \in PageRecord /\ t.id = s.id /\ ReadLeft(t, s, m)
<1> DEFINE u == [s EXCEPT !.peer = NoPeer]
           t == OnLeft(s, m)
<1>1. u \in PageRecord /\ u.id = s.id /\ u.peer = NoPeer /\ u.impolite = s.impolite
  BY DEF PageRecord
<1>2. t = CleanedUp(u)
  BY DEF OnLeft
<1> HIDE DEF u, t
<1>3. /\ t \in PageRecord /\ t.id = u.id /\ t.peer = u.peer /\ t.impolite = u.impolite
      /\ ~t.pc /\ t.sig = "stable" /\ ~t.making /\ t.chain = <<>> /\ t.gathering = "new"
      /\ ~t.needs /\ t.held = 0
  BY <1>1, <1>2, CleanedUpEffect
<1> QED
  BY <1>1, <1>3 DEF ReadLeft, Reset, t

LEMMA OfferRead ==
    ASSUME NEW s \in PageRecord, NEW m \in Messages, m.type = "offer", s.peer = m.from,
           m.from # NoPeer, s.pc
    PROVE  LET t == OnOffer(s, m)
           IN  t \in PageRecord /\ t.id = s.id /\ ReadOffer(t, s, m)
<1> DEFINE u == [s EXCEPT !.needs = @ \/ Collides(s)]
           o == Op("setRemote", m.from, m.desc)
           t == OnOffer(s, m)
<1>1. o \in Ops
  <2>1. m.from \in Ids /\ m.desc \in Descs
    BY DEF Messages
  <2> QED
    BY <2>1, OpType
<1>2. (s.needs \/ Collides(s)) \in BOOLEAN
  BY DEF PageRecord, Collides
<1>3. /\ u \in PageRecord /\ SameView(u, s) /\ u.sig = s.sig /\ u.making = s.making
      /\ u.chain = s.chain /\ u.gathering = s.gathering /\ u.offers = s.offers
      /\ u.dir = s.dir /\ u.heard = s.heard /\ u.held = s.held /\ (u.needs <=> s.needs \/ Collides(s))
  BY <1>2 DEF PageRecord, SameView
<1>4. t = IF Collides(s) /\ s.impolite THEN s ELSE Request(u, o)
  BY DEF OnOffer
<1> HIDE DEF u, t
<1>5. CASE Collides(s) /\ s.impolite
  <2>1. t = s /\ SameMedia(t, s)
    BY <1>4, <1>5 DEF SameMedia
  <2> QED
    BY <1>5, <2>1 DEF ReadOffer, Continues, SameView, Collides, t
<1>6. CASE ~(Collides(s) /\ s.impolite)
  <2> HIDE DEF o
  <2>1. /\ t \in PageRecord /\ SameView(t, u) /\ t.chain = Append(u.chain, o) /\ t.sig = u.sig
        /\ t.offers = u.offers /\ t.making = u.making /\ t.gathering = u.gathering
        /\ t.dir = u.dir /\ t.needs = u.needs /\ t.heard = u.heard /\ t.held = u.held
    BY <1>1, <1>3, <1>4, <1>6, RequestEffect
  <2>2. Continues(t, s)
    BY <1>3, <2>1 DEF Continues, SameView
  <2>3. s.impolite => ~s.making /\ s.sig = "stable"
    BY <1>6 DEF Collides
  <2>4. t.needs <=> s.needs \/ Busy(s)
    BY <1>3, <2>1 DEF Busy, Collides
  <2> QED
    BY <1>3, <2>1, <2>2, <2>3, <2>4 DEF ReadOffer, Continues, SameView, t, o
<1> QED
  BY <1>5, <1>6

LEMMA AnswerRead ==
    ASSUME NEW s \in PageRecord, NEW m \in Messages, m.type = "answer", s.peer = m.from,
           m.from # NoPeer, s.pc
    PROVE  LET t == OnAnswer(s, m)
           IN  t \in PageRecord /\ t.id = s.id /\ ReadAnswer(t, s, m)
<1> DEFINE o == Op("setAnswered", m.from, m.desc)
           t == OnAnswer(s, m)
<1>1. o \in Ops
  <2>1. m.from \in Ids /\ m.desc \in Descs
    BY DEF Messages
  <2> QED
    BY <2>1, OpType
<1>2. t = Request(s, o)
  BY DEF OnAnswer
<1> HIDE DEF o, t
<1>3. /\ t \in PageRecord /\ SameView(t, s) /\ t.chain = Append(s.chain, o) /\ t.sig = s.sig
      /\ t.offers = s.offers /\ t.making = s.making /\ t.gathering = s.gathering
      /\ t.dir = s.dir /\ t.needs = s.needs /\ t.heard = s.heard /\ t.held = s.held
  BY <1>1, <1>2, RequestEffect
<1> QED
  BY <1>3 DEF ReadAnswer, Continues, SameView, SameMedia, o, t

LEMMA IceRead ==
    ASSUME NEW s \in PageRecord, NEW m \in Messages, m.type = "ice", s.peer = m.from,
           m.from # NoPeer
    PROVE  LET t == OnIce(s, m)
           IN  t \in PageRecord /\ t.id = s.id /\ ReadIce(t, s, m)
<1> DEFINE u == [s EXCEPT !.held = @ + 1]
<1>1. s.held + 1 \in Nat
  BY DEF PageRecord
<1>2. /\ u \in PageRecord /\ Continues(u, s) /\ u.chain = s.chain
      /\ u.dir = s.dir /\ (u.needs <=> s.needs) /\ u.heard = s.heard
  BY <1>1 DEF PageRecord, Continues, SameView
<1>3. Continues(s, s)
  BY DEF Continues, SameView
<1> HIDE DEF u
<1> QED
  BY <1>2, <1>3 DEF OnIce, ReadIce, Continues, SameView, u

\* A page that has read everything before its first message.
LEMMA FirstBelief ==
    ASSUME NEW peer, NEW c, NEW x, Believes(peer, c, 0, x)
    PROVE  peer = x
<1>1. 1 .. 0 = {}
  OBVIOUS
<1> QED
  BY <1>1 DEF Believes

LEMMA MessageRead ==
    ASSUME NEW s \in PageRecord, NEW c \in Seq(Messages), c # <<>>, NEW o, NEW n,
           Acquainted(s, c, o, n)
    PROVE  LET t == OnMessage(s, Head(c))
           IN  t \in PageRecord /\ Read(t, s, c[1])
<1> DEFINE m == c[1]
           t == OnMessage(s, Head(c))
<1>1. Head(c) = m /\ m \in Messages /\ 1 \in At(c) /\ 1 - 1 = 0
  BY Tailed
<1>2. Welcomed(s, c) /\ Introduced(s, c) /\ Alone(s)
  BY DEF Acquainted
<1>3. m.type \in {"welcome", "joined", "left", "offer", "answer", "ice"}
  BY <1>1 DEF Messages
<1>4. CASE m.type = "welcome"
  <2>1. ~s.pc /\ ~s.impolite /\ (m.second <=> m.from # NoPeer)
    BY <1>1, <1>2, <1>4 DEF Welcomed
  <2>2. Reset(s)
    BY <1>2, <2>1 DEF Alone, Reset
  <2>3. t = OnWelcome(s, m)
    BY <1>1, <1>4 DEF OnMessage
  <2> HIDE DEF t, m
  <2> QED
    BY <1>1, <1>4, <2>1, <2>2, <2>3, WelcomeRead DEF Read, t, m
<1>5. CASE m.type = "joined"
  <2>1. m.from # NoPeer /\ m.second /\ Believes(s.peer, c, 1 - 1, NoPeer)
    BY <1>1, <1>2, <1>5 DEF Introduced
  <2>2. s.peer = NoPeer
    BY <1>1, <2>1, FirstBelief
  <2>3. Reset(s)
    BY <1>2, <2>2 DEF Alone, Reset
  <2>4. t = OnJoined(s, m)
    BY <1>1, <1>5 DEF OnMessage
  <2> HIDE DEF t, m
  <2> QED
    BY <1>1, <1>5, <2>1, <2>2, <2>3, <2>4, JoinedRead DEF Read, t, m
<1>6. m.type \notin {"welcome", "joined"} => s.peer = m.from /\ m.from # NoPeer /\ s.pc
  <2>1. HAVE m.type \notin {"welcome", "joined"}
  <2>2. m.from # NoPeer /\ Believes(s.peer, c, 1 - 1, m.from)
    BY <1>1, <1>2, <2>1 DEF Introduced
  <2>3. s.peer = m.from
    BY <1>1, <2>2, FirstBelief
  <2>4. s.pc
    BY <1>2, <2>2, <2>3 DEF Alone
  <2> QED
    BY <2>2, <2>3, <2>4
<1>7. CASE m.type = "left"
  <2>1. t = OnLeft(s, m)
    BY <1>1, <1>7 DEF OnMessage
  <2> HIDE DEF t, m
  <2> QED
    BY <1>1, <1>6, <1>7, <2>1, LeftRead DEF Read, t, m
<1>8. CASE m.type = "offer"
  <2>1. t = OnOffer(s, m)
    BY <1>1, <1>8 DEF OnMessage
  <2> HIDE DEF t, m
  <2> QED
    BY <1>1, <1>6, <1>8, <2>1, OfferRead DEF Read, t, m
<1>9. CASE m.type = "answer"
  <2>1. t = OnAnswer(s, m)
    BY <1>1, <1>9 DEF OnMessage
  <2> HIDE DEF t, m
  <2> QED
    BY <1>1, <1>6, <1>9, <2>1, AnswerRead DEF Read, t, m
<1>10. CASE m.type = "ice"
  <2>1. t = OnIce(s, m)
    BY <1>1, <1>10 DEF OnMessage
  <2> HIDE DEF t, m
  <2> QED
    BY <1>1, <1>6, <1>10, <2>1, IceRead DEF Read, t, m
<1> QED
  BY <1>3, <1>4, <1>5, <1>7, <1>8, <1>9, <1>10

\* A message of the server is served.
ReadsAt(p) ==
    /\ page' \in [Pages -> PageRecord] /\ chan' \in [Pages -> Seq(Messages)]
    /\ joins' = joins /\ toggles' = toggles
    /\ page'[Other(p)] = page[Other(p)] /\ chan'[Other(p)] = chan[Other(p)]
    /\ chan[p] # <<>> /\ chan'[p] = Tail(chan[p])
    /\ Read(page'[p], page[p], chan[p][1])

LEMMA ReceiveStep ==
    ASSUME TypeOK, Acquaintance, NEW p \in Pages, Receive(p)
    PROVE  ReadsAt(p)
<1> DEFINE s == page[p]
           c == chan[p]
           t == OnMessage(s, Head(c))
<1>1. s \in PageRecord /\ c \in Seq(Messages) /\ chan \in [Pages -> Seq(Messages)]
      /\ Other(p) \in Pages /\ Other(p) # p
  BY TypesOfParts, TwoSeats
<1>2. c # <<>> /\ Become(p, t) /\ chan' = [chan EXCEPT ![p] = Tail(@)]
      /\ joins' = joins /\ toggles' = toggles
  BY DEF Receive
<1>3. Tail(c) \in Seq(Messages)
  BY <1>1, <1>2, Tailed
<1>4. Acquainted(s, c, page[Other(p)], joins)
  BY DEF Acquaintance
<1>5. chan' \in [Pages -> Seq(Messages)] /\ chan'[p] = Tail(c) /\ chan'[Other(p)] = chan[Other(p)]
  BY <1>1, <1>2, <1>3
<1> HIDE DEF s, c, t
<1>6. t \in PageRecord /\ Read(t, s, c[1])
  BY <1>1, <1>2, <1>4, MessageRead DEF t
<1>7. /\ page' \in [Pages -> PageRecord] /\ page'[p] = t /\ page'[Other(p)] = page[Other(p)]
  BY <1>2, <1>6, BecomeEffect
<1> QED
  BY <1>2, <1>5, <1>6, <1>7 DEF ReadsAt, s, c

\* A page is loaded into its seat: the messages for it and for the other page.
FirstMessage(o) == Message("welcome", o.id, o.id # NoPeer, NoDesc)
Announced(d2, d, o, m) == d2 = IF o.id # NoPeer THEN Append(d, m) ELSE d

ArrivesAt(p) ==
    LET q == Other(p) IN
    /\ page' \in [Pages -> PageRecord] /\ chan' \in [Pages -> Seq(Messages)]
    /\ joins' = joins + 1 /\ joins' \in 0 .. MaxJoins /\ toggles' = toggles
    /\ page'[q] = page[q] /\ page'[p] = Loaded(joins') /\ page[p].id = NoPeer
    /\ chan'[p] = Append(<<>>, FirstMessage(page[q])) /\ FirstMessage(page[q]) \in Messages
    /\ Announced(chan'[q], chan[q], page[q], Message("joined", joins', page[q].id # NoPeer, NoDesc))

DepartsFrom(p) ==
    LET q == Other(p) IN
    /\ page' \in [Pages -> PageRecord] /\ chan' \in [Pages -> Seq(Messages)]
    /\ joins' = joins /\ toggles' = toggles
    /\ page'[q] = page[q] /\ page'[p] = Loaded(NoPeer) /\ page[p].id # NoPeer
    /\ chan'[p] = <<>>
    /\ Announced(chan'[q], chan[q], page[q], Message("left", page[p].id, FALSE, NoDesc))

LEMMA JoinStep ==
    ASSUME TypeOK, NEW p \in Pages, Join(p)
    PROVE  ArrivesAt(p)
<1> DEFINE q == Other(p)
           id == joins + 1
           joined == Message("joined", id, Present(q), NoDesc)
           welcome == Message("welcome", page[q].id, Present(q), NoDesc)
<1>1. page \in [Pages -> PageRecord] /\ chan \in [Pages -> Seq(Messages)] /\ joins \in 0 .. MaxJoins
      /\ q \in Pages /\ q # p /\ \A x \in Pages : x = p \/ x = q
  BY TypesOfParts, TwoSeats
<1>2. /\ ~Present(p) /\ joins < MaxJoins /\ joins' = id /\ toggles' = toggles
      /\ Become(p, Loaded(id))
      /\ chan' = [x \in Pages |-> CASE x = p -> <<welcome>>
                                    [] x = q /\ Present(q) -> Append(chan[q], joined)
                                    [] OTHER -> chan[x]]
  BY DEF Join
<1>3. id \in Ids /\ id \in 0 .. MaxJoins /\ Loaded(id) \in PageRecord
  <2>1. id \in Ids /\ id \in 0 .. MaxJoins
    BY <1>1, <1>2, MaxJoinsAssumption DEF Ids
  <2> QED
    BY <2>1, LoadedEffect
<1>4. Present(q) = (page[q].id # NoPeer) /\ Present(p) = (page[p].id # NoPeer)
      /\ page[q].id \in Ids \cup {NoPeer}
  BY <1>1 DEF Present, PageRecord
<1>5. joined \in Messages /\ welcome \in Messages
  <2>1. Present(q) \in BOOLEAN /\ id \in Ids \cup {NoPeer} /\ page[q].id \in Ids \cup {NoPeer}
    BY <1>3, <1>4
  <2> HIDE DEF q, id
  <2>2. Message("joined", id, Present(q), NoDesc) \in Messages
    BY <2>1, MessageType, NoDescType
  <2>3. Message("welcome", page[q].id, Present(q), NoDesc) \in Messages
    BY <2>1, MessageType, NoDescType
  <2> QED
    BY <2>2, <2>3
<1>6. <<welcome>> = Append(<<>>, welcome) /\ <<welcome>> \in Seq(Messages)
  <2>1. \A x \in Messages : <<x>> \in Seq(Messages) /\ <<x>> = Append(<<>>, x)
    OBVIOUS
  <2> QED
    BY <1>5, <2>1
<1>7. Append(chan[q], joined) \in Seq(Messages) /\ chan[q] \in Seq(Messages)
  BY <1>1, <1>5, AppendProperties
<1> HIDE DEF joined, welcome
<1>8. /\ chan' \in [Pages -> Seq(Messages)] /\ chan'[p] = <<welcome>>
      /\ chan'[q] = IF Present(q) THEN Append(chan[q], joined) ELSE chan[q]
  BY <1>1, <1>2, <1>6, <1>7
<1>9. /\ page' \in [Pages -> PageRecord] /\ page'[p] = Loaded(id) /\ page'[q] = page[q]
  BY <1>2, <1>3, BecomeEffect
<1>10. welcome = FirstMessage(page[q]) /\ joined = Message("joined", id, page[q].id # NoPeer, NoDesc)
  BY <1>4 DEF welcome, joined, FirstMessage
<1> HIDE DEF q
<1> QED
  BY <1>2, <1>3, <1>4, <1>5, <1>6, <1>8, <1>9, <1>10 DEF ArrivesAt, Announced, q

LEMMA LeaveStep ==
    ASSUME TypeOK, NEW p \in Pages, Leave(p)
    PROVE  DepartsFrom(p)
<1> DEFINE q == Other(p)
           left == Message("left", page[p].id, FALSE, NoDesc)
<1>1. page \in [Pages -> PageRecord] /\ chan \in [Pages -> Seq(Messages)]
      /\ q \in Pages /\ q # p /\ \A x \in Pages : x = p \/ x = q
  BY TypesOfParts, TwoSeats
<1>2. /\ Present(p) /\ joins' = joins /\ toggles' = toggles
      /\ Become(p, Loaded(NoPeer))
      /\ chan' = [x \in Pages |-> CASE x = p -> <<>>
                                    [] x = q /\ Present(q) -> Append(chan[q], left)
                                    [] OTHER -> chan[x]]
  BY DEF Leave
<1>3. Loaded(NoPeer) \in PageRecord
  BY LoadedEffect
<1>4. Present(q) = (page[q].id # NoPeer) /\ Present(p) = (page[p].id # NoPeer)
      /\ page[p].id \in Ids \cup {NoPeer}
  BY <1>1 DEF Present, PageRecord
<1>5. left \in Messages
  BY <1>4, MessageType, NoDescType
<1>6. <<>> \in Seq(Messages) /\ Append(chan[q], left) \in Seq(Messages) /\ chan[q] \in Seq(Messages)
  BY <1>1, <1>5, AppendProperties, EmptySeq
<1> HIDE DEF left
<1>7. /\ chan' \in [Pages -> Seq(Messages)] /\ chan'[p] = <<>>
      /\ chan'[q] = IF Present(q) THEN Append(chan[q], left) ELSE chan[q]
  BY <1>1, <1>2, <1>6
<1>8. /\ page' \in [Pages -> PageRecord] /\ page'[p] = Loaded(NoPeer) /\ page'[q] = page[q]
  BY <1>2, <1>3, BecomeEffect
<1> HIDE DEF q
<1> QED
  BY <1>2, <1>4, <1>7, <1>8 DEF DepartsFrom, Announced, q, left

\* Every step of the call is one of these.
LEMMA StepKinds ==
    ASSUME TypeOK, Acquaintance, Next
    PROVE  \E p \in Pages : WorksAt(p) \/ ReadsAt(p) \/ ArrivesAt(p) \/ DepartsFrom(p)
BY WorkingSteps, ReceiveStep, JoinStep, LeaveStep DEF Next

-------------------------------------------------------------------------------
(* Layer one is inductive.                                                 *)

\* The page changes neither its seat nor the one it talks to.
LEMMA StillAcquainted ==
    ASSUME NEW s \in PageRecord, NEW t \in PageRecord, NEW c \in Seq(Messages), NEW o, NEW o2,
           NEW n \in Nat, NEW n2 \in Nat, n <= n2, Acquainted(s, c, o, n),
           SameView(t, s), Alone(t), Addressed(t), s.id # NoPeer => o2.id = o.id
    PROVE  Acquainted(t, c, o2, n2)
<1>1. t.id = s.id /\ t.peer = s.peer /\ (t.impolite <=> s.impolite) /\ (t.pc <=> s.pc)
  BY DEF SameView
<1>2. Absent(t, c) /\ Welcomed(t, c) /\ Introduced(t, c) /\ UpToDate(t, c, o2)
  BY <1>1 DEF Acquainted, Absent, Welcomed, Introduced, UpToDate
<1>3. \A i \in At(c) : c[i].from \in Nat
  <2>1. \A i \in At(c) : c[i] \in Messages
    BY ElementOfSeq, LenProperties DEF At
  <2> QED
    BY <2>1 DEF Messages, Ids, NoPeer
<1>4. s.id \in Nat /\ s.peer \in Nat
  BY DEF PageRecord, Ids, NoPeer
<1>5. InOrder(s, c, n)
  BY DEF Acquainted
<1>6. InOrder(t, c, n2)
  BY <1>1, <1>3, <1>4, <1>5 DEF InOrder
<1> QED
  BY <1>2, <1>6 DEF Acquainted

\* A message follows those that are on their way.
LEMMA ToldAcquainted ==
    ASSUME NEW o \in PageRecord, NEW d \in Seq(Messages), NEW s, NEW s2, NEW m \in Messages,
           NEW n \in Nat, NEW n2 \in Nat, n <= n2, Acquainted(o, d, s, n), o.id # NoPeer,
           m.type # "welcome", m.from # NoPeer, m.from <= n2, s2.id # o.id,
           m.type = "joined" => m.second /\ s.id = NoPeer /\ m.from > n,
           m.type # "joined" => m.from = s.id,
           m.type = "left" => m.from # s2.id,
           s2.id = IF m.type \in Presence THEN Named(m) ELSE s.id,
           \A i \in At(d) : d[i].type = "left" => d[i].from # s2.id
    PROVE  Acquainted(o, Append(d, m), s2, n2)
<1> DEFINE e == Append(d, m)
           k == Len(d)
<1>1. /\ e \in Seq(Messages) /\ Len(e) = k + 1 /\ k \in Nat
      /\ \A i \in At(d) : e[i] = d[i] /\ i \in At(e)
      /\ e[k + 1] = m /\ \A i \in At(e) : i \in At(d) \/ i = k + 1
  BY Appended
<1>2. /\ Absent(o, d) /\ Alone(o) /\ Addressed(o) /\ Welcomed(o, d) /\ Introduced(o, d)
      /\ InOrder(o, d, n) /\ UpToDate(o, d, s)
  BY DEF Acquainted
<1>3. At(d) = 1 .. k
  BY DEF At
<1> HIDE DEF e, k
<1>4. Absent(o, e)
  BY <1>2 DEF Absent
<1>5. Welcomed(o, e)
  BY <1>1, <1>2 DEF Welcomed
<1>6. ASSUME NEW i \in At(d), NEW x, Believes(o.peer, d, i - 1, x)
      PROVE  Believes(o.peer, e, i - 1, x)
  <2>1. i - 1 \in Nat /\ \A j \in 1 .. i - 1 : j \in At(d)
    BY <1>1, <1>3
  <2>2. \A j \in 1 .. i - 1 : d[j] = e[j]
    BY <1>1, <2>1
  <2> QED
    BY <1>6, <2>1, <2>2, SameBeliefs
<1>7. \A x : Believes(o.peer, d, k, x) => Believes(o.peer, e, k, x)
  <2> TAKE x
  <2>1. \A j \in 1 .. k : d[j] = e[j]
    BY <1>1, <1>3
  <2> QED
    BY <1>1, <2>1, SameBeliefs
<1>8. Believes(o.peer, d, k, s.id)
  BY <1>2 DEF UpToDate, k
<1>9. Introduced(o, e)
  <2>1. SUFFICES ASSUME NEW i \in At(e)
                 PROVE  /\ e[i].type = "joined" =>
                              e[i].from # NoPeer /\ e[i].second /\ Believes(o.peer, e, i - 1, NoPeer)
                        /\ e[i].type \notin {"welcome", "joined"} =>
                              e[i].from # NoPeer /\ Believes(o.peer, e, i - 1, e[i].from)
    BY DEF Introduced
  <2>2. CASE i \in At(d)
    BY <1>1, <1>2, <1>6, <2>2 DEF Introduced
  <2>3. CASE i = k + 1
    <3>1. e[i] = m /\ i - 1 = k
      BY <1>1, <2>3
    <3> QED
      BY <1>7, <1>8, <3>1
  <2> QED
    BY <1>1, <2>2, <2>3
<1>10. InOrder(o, e, n2)
  <2>1. o.id \in Nat /\ o.peer \in Nat /\ m.from \in Nat
    BY DEF PageRecord, Messages, Ids, NoPeer
  <2>2. \A i \in At(d) : d[i].from \in Nat
    <3>1. \A i \in At(d) : d[i] \in Messages
      BY ElementOfSeq, LenProperties DEF At
    <3> QED
      BY <3>1 DEF Messages, Ids, NoPeer
  <2>3. Arrives(m) => m.from > n
    BY DEF Arrives
  <2>4. \A i \in At(e) : e[i].from <= n2 /\ (Arrives(e[i]) => o.peer < e[i].from)
    BY <1>1, <1>2, <2>1, <2>2, <2>3 DEF InOrder
  <2>5. ASSUME NEW i \in At(e), NEW j \in At(e), i < j, Arrives(e[i]), Arrives(e[j])
        PROVE  e[i].from < e[j].from
    <3>1. i \in At(d)
      BY <1>1, <1>3, <2>5 DEF At
    <3>2. CASE j \in At(d)
      BY <1>1, <1>2, <2>5, <3>1, <3>2 DEF InOrder
    <3>3. CASE j = k + 1
      BY <1>1, <1>2, <2>2, <2>3, <2>5, <3>1, <3>3, <2>1 DEF InOrder
    <3> QED
      BY <1>1, <3>2, <3>3
  <2>6. o.id <= n2 /\ o.peer <= n2
    BY <1>2, <2>1 DEF InOrder
  <2> QED
    BY <2>4, <2>5, <2>6 DEF InOrder
<1>11. UpToDate(o, e, s2)
  <2>1. Believes(o.peer, e, k + 1, s2.id)
    BY <1>1, <1>7, <1>8, NextBelief
  <2>2. \A i \in At(e) : e[i].type = "left" => e[i].from # s2.id
    BY <1>1
  <2> QED
    BY <1>1, <2>1, <2>2 DEF UpToDate
<1> QED
  BY <1>2, <1>4, <1>5, <1>9, <1>10, <1>11 DEF Acquainted, e

\* The chain of a page that has read a message.
LEMMA ReadAddressed ==
    ASSUME NEW s \in PageRecord, NEW t \in PageRecord, NEW m \in Messages, Read(t, s, m),
           Alone(s), Addressed(s)
    PROVE  Alone(t) /\ Addressed(t)
<1>1. s.chain \in Seq(Ops) /\ t.chain \in Seq(Ops)
  BY DEF PageRecord
<1>2. \A x : Reset(x) => \A i \in At(x.chain) : FALSE
  BY EmptySeq DEF Reset, At
<1>3. CASE ReadWelcome(t, s, m)
  <2>1. CASE ~m.second /\ Reset(t)
    BY <1>2, <1>3, <2>1 DEF ReadWelcome, Alone, Addressed, Reset
  <2>2. CASE /\ m.second /\ t.gathering # "found"
             /\ t.chain = Append(<<>>, Op("createOffer", m.from, NoDesc))
    <3> DEFINE o == Op("createOffer", m.from, NoDesc)
    <3>1. m.from # NoPeer /\ t.peer = m.from /\ t.pc
      BY <1>3, <2>2 DEF ReadWelcome
    <3>2. o \in Ops /\ o.to = m.from
      <4>1. m.from \in Ids
        BY <3>1 DEF Messages
      <4> QED
        BY <4>1, OpType, NoDescType
    <3> HIDE DEF o
    <3>3. <<>> \in Seq(Ops) /\ Len(<<>>) = 0
      BY EmptySeq
    <3>4. \A i \in At(t.chain) : t.chain[i] = o
      BY <2>2, <3>2, <3>3, Appended DEF At, o
    <3> QED
      BY <3>1, <3>2, <3>4 DEF Alone, Addressed
  <2> QED
    BY <1>3, <2>1, <2>2 DEF ReadWelcome
<1>4. CASE ReadJoined(t, s, m)
  BY <1>2, <1>4 DEF ReadJoined, Alone, Addressed
<1>5. CASE ReadLeft(t, s, m)
  BY <1>2, <1>5 DEF ReadLeft, Alone, Addressed, Reset
<1>6. ASSUME Continues(t, s), s.peer # NoPeer
      PROVE  Alone(t)
  BY <1>6 DEF Continues, SameView, Alone
<1>7. ASSUME Continues(t, s), s.peer # NoPeer, NEW o \in Ops, o.to = s.peer,
             t.chain = s.chain \/ t.chain = Append(s.chain, o)
      PROVE  Addressed(t)
  <2>1. t.peer = s.peer
    BY <1>7 DEF Continues, SameView
  <2>2. CASE t.chain = s.chain
    BY <2>1, <2>2 DEF Addressed
  <2>3. CASE t.chain = Append(s.chain, o)
    <3>1. \A i \in At(t.chain) : (i \in At(s.chain) /\ t.chain[i] = s.chain[i]) \/ t.chain[i] = o
      <4> DEFINE ch == s.chain
      <4>0. o \in Ops
        BY <1>7
      <4>1. ch \in Seq(Ops) /\ t.chain = Append(ch, o)
        BY <1>1, <2>3
      <4> HIDE DEF ch
      <4>2. /\ Append(ch, o) \in Seq(Ops) /\ Len(Append(ch, o)) = Len(ch) + 1
            /\ \A i \in At(ch) : Append(ch, o)[i] = ch[i] /\ i \in At(Append(ch, o))
            /\ Append(ch, o)[Len(ch) + 1] = o
            /\ \A i \in At(Append(ch, o)) : i \in At(ch) \/ i = Len(ch) + 1
        BY <4>0, <4>1, Appended
      <4>3. \A i \in At(t.chain) : (i \in At(ch) /\ t.chain[i] = ch[i]) \/ t.chain[i] = o
        BY <4>1, <4>2
      <4> QED
        BY <4>3 DEF ch
    <3> QED
      BY <1>7, <2>1, <3>1 DEF Addressed
  <2> QED
    BY <1>7, <2>2, <2>3
<1>8. ASSUME s.peer # NoPeer, NEW op \in {"setRemote", "setAnswered"}
      PROVE  Op(op, s.peer, m.desc) \in Ops /\ Op(op, s.peer, m.desc).to = s.peer
  <2>1. s.peer \in Ids /\ m.desc \in Descs
    BY <1>8 DEF PageRecord, Messages
  <2> QED
    BY <2>1, OpType
<1>9. CASE ReadOffer(t, s, m)
  <2>1. /\ Continues(t, s) /\ s.peer # NoPeer
        /\ t.chain = s.chain \/ t.chain = Append(s.chain, Op("setRemote", s.peer, m.desc))
    BY <1>9 DEF ReadOffer
  <2> QED
    BY <1>6, <1>7, <1>8, <2>1
<1>10. CASE ReadAnswer(t, s, m)
  <2>1. /\ Continues(t, s) /\ s.peer # NoPeer
        /\ t.chain = Append(s.chain, Op("setAnswered", s.peer, m.desc))
    BY <1>10 DEF ReadAnswer
  <2> QED
    BY <1>6, <1>7, <1>8, <2>1
<1>11. CASE ReadIce(t, s, m)
  <2>1. Continues(t, s) /\ s.peer # NoPeer /\ t.chain = s.chain
    BY <1>11 DEF ReadIce
  <2>2. Op("setRemote", s.peer, m.desc) \in Ops /\ Op("setRemote", s.peer, m.desc).to = s.peer
    BY <1>8, <2>1
  <2> QED
    BY <1>6, <1>7, <2>1, <2>2
<1> QED
  BY <1>3, <1>4, <1>5, <1>9, <1>10, <1>11 DEF Read

\* Whom a page talks to after a message.
LEMMA ReadPeer ==
    ASSUME NEW s, NEW t, NEW m, Read(t, s, m)
    PROVE  t.peer = IF m.type \in Presence THEN Named(m) ELSE s.peer
<1>1. CASE ReadWelcome(t, s, m) \/ ReadJoined(t, s, m) \/ ReadLeft(t, s, m)
  BY <1>1 DEF ReadWelcome, ReadJoined, ReadLeft, Presence, Named
<1>2. CASE ReadOffer(t, s, m) \/ ReadAnswer(t, s, m) \/ ReadIce(t, s, m)
  BY <1>2 DEF ReadOffer, ReadAnswer, ReadIce, Presence, Continues, SameView
<1> QED
  BY <1>1, <1>2 DEF Read

LEMMA ReadAcquainted ==
    ASSUME NEW s \in PageRecord, NEW t \in PageRecord, NEW c \in Seq(Messages), NEW o,
           NEW n \in Nat, Acquainted(s, c, o, n), c # <<>>, Read(t, s, c[1])
    PROVE  Acquainted(t, Tail(c), o, n)
<1> DEFINE e == Tail(c)
           k == Len(c) - 1
<1>1. /\ e \in Seq(Messages) /\ Len(e) = k /\ k \in Nat /\ Len(c) = k + 1 /\ k <= Len(c) - 1
      /\ 1 \in At(c) /\ c[1] \in Messages
      /\ \A i \in At(e) : i \in Nat /\ i > 0 /\ i + 1 \in At(c) /\ e[i] = c[i + 1]
  BY Tailed DEF At
<1>2. /\ Absent(s, c) /\ Alone(s) /\ Addressed(s) /\ Welcomed(s, c) /\ Introduced(s, c)
      /\ InOrder(s, c, n) /\ UpToDate(s, c, o)
  BY DEF Acquainted
<1>3. t.id = s.id /\ t.id # NoPeer
  BY <1>2 DEF Read, Absent
<1>4. Alone(t) /\ Addressed(t)
  BY <1>1, <1>2, ReadAddressed
<1>5. t.peer = IF c[1].type \in Presence THEN Named(c[1]) ELSE s.peer
  BY ReadPeer
<1> HIDE DEF e, k
<1>6. Absent(t, e)
  BY <1>3 DEF Absent
<1>7. \A i \in At(e) : e[i].type # "welcome"
  <2>1. \A i \in At(e) : i + 1 # 1
    BY <1>1
  <2> QED
    BY <1>1, <1>2, <2>1 DEF Welcomed
<1>8. Welcomed(t, e)
  BY <1>7 DEF Welcomed
<1>9. ASSUME NEW i \in Nat, i <= k, NEW x, Believes(s.peer, c, i + 1, x)
      PROVE  Believes(t.peer, e, i, x)
  BY <1>1, <1>5, <1>9, ReadBelief DEF e
<1>10. Introduced(t, e)
  <2>1. SUFFICES ASSUME NEW i \in At(e)
                 PROVE  /\ e[i].type = "joined" =>
                              e[i].from # NoPeer /\ e[i].second /\ Believes(t.peer, e, i - 1, NoPeer)
                        /\ e[i].type \notin {"welcome", "joined"} =>
                              e[i].from # NoPeer /\ Believes(t.peer, e, i - 1, e[i].from)
    BY DEF Introduced
  <2> DEFINE j == i - 1
  <2>2. j \in Nat /\ j <= k /\ i + 1 \in At(c) /\ e[i] = c[i + 1] /\ (i + 1) - 1 = j + 1
    BY <1>1 DEF At
  <2> HIDE DEF j
  <2>3. /\ c[i + 1].type = "joined" =>
             c[i + 1].from # NoPeer /\ c[i + 1].second /\ Believes(s.peer, c, j + 1, NoPeer)
        /\ c[i + 1].type \notin {"welcome", "joined"} =>
             c[i + 1].from # NoPeer /\ Believes(s.peer, c, j + 1, c[i + 1].from)
    BY <1>2, <2>2 DEF Introduced
  <2>4. /\ e[i].type = "joined" =>
             e[i].from # NoPeer /\ e[i].second /\ Believes(t.peer, e, j, NoPeer)
        /\ e[i].type \notin {"welcome", "joined"} =>
             e[i].from # NoPeer /\ Believes(t.peer, e, j, e[i].from)
    BY <1>9, <2>2, <2>3
  <2> QED
    BY <2>4 DEF j
<1>11. InOrder(t, e, n)
  <2>1. \A i \in At(c) : c[i].from \in Nat
    <3>1. \A i \in At(c) : c[i] \in Messages
      BY ElementOfSeq, LenProperties DEF At
    <3> QED
      BY <3>1 DEF Messages, Ids, NoPeer
  <2>2. t.peer <= n /\ t.id <= n
    BY <1>1, <1>2, <1>3, <1>5 DEF InOrder, Named, NoPeer
  <2>3. \A i \in At(e) : e[i].from <= n
    BY <1>1, <1>2 DEF InOrder
  <2>4. \A i \in At(e), j \in At(e) : i < j /\ Arrives(e[i]) /\ Arrives(e[j]) => e[i].from < e[j].from
    <3>1. \A i \in At(e), j \in At(e) : i < j => i + 1 < j + 1
      BY <1>1
    <3> QED
      BY <1>1, <1>2, <3>1 DEF InOrder
  <2>5. ASSUME NEW i \in At(e), Arrives(e[i])
        PROVE  t.peer < e[i].from
    <3>1. i + 1 \in At(c) /\ e[i] = c[i + 1] /\ 1 < i + 1 /\ e[i].from \in Nat /\ e[i].from # NoPeer
      BY <1>1, <2>1, <2>5 DEF Arrives
    <3>2. CASE c[1].type \notin Presence
      BY <1>2, <1>5, <2>5, <3>1, <3>2 DEF InOrder
    <3>3. CASE c[1].type \in Presence /\ Named(c[1]) = NoPeer
      BY <1>5, <3>1, <3>3 DEF NoPeer
    <3>4. CASE c[1].type \in Presence /\ Named(c[1]) # NoPeer
      <4>1. Arrives(c[1]) /\ Named(c[1]) = c[1].from
        BY <3>4 DEF Arrives, Named, Presence
      <4> QED
        BY <1>1, <1>2, <1>5, <2>5, <3>1, <3>4, <4>1 DEF InOrder
    <3> QED
      BY <3>2, <3>3, <3>4
  <2> QED
    BY <2>2, <2>3, <2>4, <2>5 DEF InOrder
<1>12. UpToDate(t, e, o)
  <2>1. Believes(s.peer, c, k + 1, o.id) /\ o.id # s.id
    BY <1>1, <1>2, <1>3 DEF UpToDate
  <2>2. Believes(t.peer, e, k, o.id)
    BY <1>1, <1>9, <2>1
  <2>3. \A i \in At(e) : e[i].type = "left" => e[i].from # o.id
    BY <1>1, <1>2, <1>3 DEF UpToDate
  <2> QED
    BY <1>1, <1>3, <2>1, <2>2, <2>3 DEF UpToDate
<1> QED
  BY <1>4, <1>6, <1>8, <1>10, <1>11, <1>12 DEF Acquainted, e

\* Requests go to the page that is talked to.
LEMMA WorkedAddressed ==
    ASSUME NEW s \in PageRecord, NEW t \in PageRecord, NEW o, NEW d, NEW d2,
           Worked(t, s, o, d2, d), Alone(s), Addressed(s)
    PROVE  Alone(t) /\ Addressed(t)
<1>1. /\ s.chain \in Seq(Ops) /\ t.chain \in Seq(Ops)
      /\ s.peer # NoPeer => s.peer \in Ids
  BY DEF PageRecord
<1>2. t.peer = s.peer /\ (t.pc <=> s.pc)
  BY DEF Worked, SameView
<1>3. ASSUME NEW rest \in Seq(Ops), NEW o1 \in Ops, o1.to = s.peer,
             \A i \in At(rest) : rest[i].to = s.peer
      PROVE  /\ Append(rest, o1) \in Seq(Ops)
             /\ \A i \in At(Append(rest, o1)) : Append(rest, o1)[i].to = s.peer
  <2> DEFINE w == Append(rest, o1)
  <2>1. rest \in Seq(Ops) /\ o1 \in Ops
    BY <1>3
  <2>2. /\ w \in Seq(Ops) /\ Len(w) = Len(rest) + 1 /\ Len(rest) \in Nat
        /\ \A i \in At(rest) : w[i] = rest[i] /\ i \in At(w)
        /\ w[Len(rest) + 1] = o1 /\ \A i \in At(w) : i \in At(rest) \/ i = Len(rest) + 1
    BY <2>1, Appended
  <2> HIDE DEF w
  <2>3. \A i \in At(w) : w[i].to = s.peer
    BY <1>3, <2>2
  <2> QED
    BY <2>2, <2>3 DEF w
<1>4. ASSUME NEW rest \in Seq(Ops), \A i \in At(rest) : rest[i].to = s.peer,
             NEW w, NEW making, Asked(w, making, s, rest)
      PROVE  w \in Seq(Ops) /\ \A i \in At(w) : w[i].to = s.peer
  <2>1. CASE w = rest
    BY <1>4, <2>1
  <2>2. CASE s.peer # NoPeer /\ w = Append(rest, Op("createOffer", s.peer, NoDesc))
    <3> DEFINE o1 == Op("createOffer", s.peer, NoDesc)
    <3>1. o1 \in Ops /\ o1.to = s.peer
      BY <1>1, <2>2, OpType, NoDescType
    <3> HIDE DEF o1
    <3>2. w = Append(rest, o1)
      BY <2>2 DEF o1
    <3> QED
      BY <1>3, <1>4, <3>1, <3>2
  <2> QED
    BY <1>4, <2>1, <2>2 DEF Asked
<1>5. ASSUME s.chain # <<>>
      PROVE  /\ Alone(t) /\ Tail(s.chain) \in Seq(Ops) /\ s.chain[1] \in Ops /\ s.chain[1].to = s.peer
             /\ s.chain[1].to \in Ids /\ s.chain[1].desc \in Descs
             /\ \A i \in At(Tail(s.chain)) : Tail(s.chain)[i].to = s.peer
  <2>1. /\ Tail(s.chain) \in Seq(Ops) /\ 1 \in At(s.chain) /\ s.chain[1] \in Ops
        /\ \A i \in At(Tail(s.chain)) : i + 1 \in At(s.chain) /\ Tail(s.chain)[i] = s.chain[i + 1]
    BY <1>1, <1>5, Tailed
  <2>2. s.peer # NoPeer /\ s.pc
    BY <1>5 DEF Alone
  <2>3. Alone(t)
    BY <1>2, <2>2 DEF Alone
  <2>4. s.chain[1].to \in Ids /\ s.chain[1].desc \in Descs
    BY <2>1 DEF Ops
  <2> QED
    BY <2>1, <2>3, <2>4 DEF Addressed
<1>6. ASSUME s.chain # <<>>, t.chain = Tail(s.chain)
      PROVE  Alone(t) /\ Addressed(t)
  BY <1>2, <1>5, <1>6 DEF Addressed
<1>7. ASSUME s.chain # <<>>, NEW op \in {"setOffer", "addHeld", "createAnswer", "setAnswer"},
             NEW desc \in Descs, t.chain = Append(Tail(s.chain), Op(op, s.chain[1].to, desc))
      PROVE  Alone(t) /\ Addressed(t)
  <2> DEFINE o1 == Op(op, s.chain[1].to, desc)
  <2>1. o1 \in Ops /\ o1.to = s.peer
    <3>1. s.chain[1].to \in Ids /\ s.chain[1].to = s.peer
      BY <1>5, <1>7
    <3> QED
      BY <1>7, <3>1, OpType
  <2> HIDE DEF o1
  <2>2. \A i \in At(t.chain) : t.chain[i].to = s.peer
    <3> DEFINE rest == Tail(s.chain)
    <3>1. t.chain = Append(rest, o1)
      BY <1>7 DEF o1
    <3>2. rest \in Seq(Ops) /\ \A i \in At(rest) : rest[i].to = s.peer
      BY <1>5, <1>7
    <3> HIDE DEF rest
    <3>3. \A i \in At(Append(rest, o1)) : Append(rest, o1)[i].to = s.peer
      BY <1>3, <2>1, <3>2
    <3> QED
      BY <3>1, <3>3
  <2> QED
    BY <1>2, <1>5, <1>7, <2>2 DEF Addressed
<1>8. CASE CreatedOffer(t, s)
  <2>1. [dir |-> s.dir, offer |-> s.offers + 1] \in Descs
    BY DEF Descs, PageRecord
  <2> QED
    BY <1>6, <1>7, <1>8, <2>1 DEF CreatedOffer, Took
<1>9. CASE AppliedOffer(t, s, o, d2, d)
  BY <1>6, <1>9 DEF AppliedOffer, Took
<1>10. CASE HeardOffer(t, s)
  BY <1>5, <1>7, <1>10 DEF HeardOffer, Took
<1>11. CASE HeardAnswer(t, s)
  <2>1. s.chain # <<>>
    BY <1>11 DEF HeardAnswer, Took
  <2>2. CASE t.chain = Tail(s.chain)
    BY <1>6, <2>1, <2>2
  <2>3. ASSUME NEW w \in Seq(Ops), Asked(w, t.making, s, Tail(s.chain)),
               t.chain = w \/ t.chain = Append(w, Op("addHeld", s.chain[1].to, NoDesc))
        PROVE  Alone(t) /\ Addressed(t)
    <3> DEFINE o1 == Op("addHeld", s.chain[1].to, NoDesc)
    <3>1. \A i \in At(w) : w[i].to = s.peer
      BY <1>4, <1>5, <2>1, <2>3
    <3>2. o1 \in Ops /\ o1.to = s.peer
      BY <1>5, <2>1, OpType, NoDescType
    <3> HIDE DEF o1
    <3>3. \A i \in At(Append(w, o1)) : Append(w, o1)[i].to = s.peer
      BY <1>3, <2>3, <3>1, <3>2
    <3>4. t.chain = w \/ t.chain = Append(w, o1)
      BY <2>3 DEF o1
    <3>5. \A i \in At(t.chain) : t.chain[i].to = s.peer
      BY <3>1, <3>3, <3>4
    <3> QED
      BY <1>2, <1>5, <2>1, <3>5 DEF Addressed
  <2> QED
    BY <1>11, <2>2, <2>3 DEF HeardAnswer
<1>12. CASE AddedHeld(t, s)
  BY <1>5, <1>6, <1>7, <1>12 DEF AddedHeld, Took
<1>13. CASE CreatedAnswer(t, s)
  <2>1. s.chain # <<>>
    BY <1>13 DEF CreatedAnswer, Took
  <2>2. [s.chain[1].desc EXCEPT !.dir = s.dir] \in Descs
    <3>1. s.chain[1].desc \in Descs
      BY <1>5, <2>1
    <3>2. s.dir \in Directions
      BY DEF PageRecord
    <3> QED
      BY <3>1, <3>2 DEF Descs
  <2> QED
    BY <1>6, <1>7, <1>13, <2>1, <2>2 DEF CreatedAnswer
<1>14. CASE AppliedAnswer(t, s, o, d2, d)
  <2>1. s.chain # <<>>
    BY <1>14 DEF AppliedAnswer, Took
  <2>2. CASE t.chain = Tail(s.chain)
    BY <1>6, <2>1, <2>2
  <2>3. CASE Asked(t.chain, t.making, s, Tail(s.chain))
    BY <1>2, <1>4, <1>5, <2>1, <2>3 DEF Addressed
  <2> QED
    BY <1>14, <2>2, <2>3 DEF AppliedAnswer
<1>15. CASE FoundCandidate(t, s, o, d2, d)
  BY <1>2, <1>15 DEF FoundCandidate, Alone, Addressed
<1>16. CASE Toggled(t, s) /\ t.gathering = s.gathering
  <2>1. Asked(t.chain, t.making, s, s.chain) /\ t.sig = s.sig
    BY <1>16 DEF Toggled
  <2>2. \A i \in At(t.chain) : t.chain[i].to = s.peer
    BY <1>1, <1>4, <2>1 DEF Addressed
  <2> QED
    BY <1>2, <1>16, <2>1, <2>2 DEF Alone, Addressed, Asked
<1> QED
  BY <1>8, <1>9, <1>10, <1>11, <1>12, <1>13, <1>14, <1>15, <1>16 DEF Worked

\* What a page says on its own reaches the page it talks to, if at all.
LEMMA WorkedTells ==
    ASSUME NEW s \in PageRecord, NEW t, NEW o, NEW d, NEW d2, Worked(t, s, o, d2, d),
           Alone(s), Addressed(s)
    PROVE  \/ d2 = d
           \/ /\ o.id = s.peer /\ s.peer # NoPeer
              /\ \E m \in Messages : /\ m.type \in {"offer", "answer", "ice"} /\ m.from = s.id
                                     /\ d2 = Append(d, m)
<1>1. s.id \in Ids \cup {NoPeer}
  BY DEF PageRecord
<1>2. ASSUME NEW type \in {"offer", "answer", "ice"}, NEW desc \in Descs
      PROVE  LET m == Message(type, s.id, FALSE, desc)
             IN  m \in Messages /\ m.type = type /\ m.from = s.id
  <2>1. /\ type \in {"welcome", "joined", "left", "offer", "answer", "ice"} /\ FALSE \in BOOLEAN
        /\ desc \in Descs
    BY <1>2
  <2> DEFINE x == s.id
  <2>2. x \in Ids \cup {NoPeer}
    BY <1>1
  <2> HIDE DEF x
  <2>3. LET m == Message(type, x, FALSE, desc)
        IN  m \in Messages /\ m.type = type /\ m.from = x
    BY <2>1, <2>2 DEF Message, Messages
  <2> QED
    BY <2>3 DEF x
<1>3. s.chain # <<>> => /\ s.chain[1].desc \in Descs /\ s.chain[1].to = s.peer /\ s.peer # NoPeer
  <2>1. HAVE s.chain # <<>>
  <2>2. s.chain \in Seq(Ops)
    BY DEF PageRecord
  <2>3. 1 \in At(s.chain) /\ s.chain[1] \in Ops
    BY <2>1, <2>2, Tailed
  <2> QED
    BY <2>1, <2>3 DEF Addressed, Alone, Ops
<1>4. CASE AppliedOffer(t, s, o, d2, d)
  <2>1. s.chain # <<>> /\ (d2 = d \/ Told(d2, d, o, s.peer, Message("offer", s.id, FALSE, s.chain[1].desc)))
    BY <1>4 DEF AppliedOffer, Took
  <2> QED
    BY <1>2, <1>3, <2>1 DEF Told
<1>5. CASE AppliedAnswer(t, s, o, d2, d)
  <2>1. s.chain # <<>> /\ (d2 = d \/ Told(d2, d, o, s.chain[1].to, Message("answer", s.id, FALSE, s.chain[1].desc)))
    BY <1>5 DEF AppliedAnswer, Took
  <2> QED
    BY <1>2, <1>3, <2>1 DEF Told
<1>6. CASE FoundCandidate(t, s, o, d2, d)
  <2>1. s.peer # NoPeer /\ Told(d2, d, o, s.peer, Message("ice", s.id, FALSE, NoDesc))
    BY <1>6 DEF FoundCandidate, Alone
  <2> QED
    BY <1>2, <2>1, NoDescType DEF Told
<1> QED
  BY <1>4, <1>5, <1>6 DEF Worked

LEMMA LoadedAcquainted ==
    ASSUME NEW id \in Ids \cup {NoPeer}, NEW c \in Seq(Messages), NEW o \in PageRecord,
           NEW n \in Nat, id <= n,
           \/ c = <<>> /\ id = NoPeer
           \/ /\ c = Append(<<>>, FirstMessage(o)) /\ FirstMessage(o) \in Messages
              /\ id # NoPeer /\ o.id # id /\ o.id <= n
    PROVE  Acquainted(Loaded(id), c, o, n)
<1> DEFINE s == Loaded(id)
<1>1. /\ s \in PageRecord /\ s.id = id /\ s.peer = NoPeer /\ ~s.impolite
      /\ ~s.pc /\ s.sig = "stable" /\ ~s.making /\ s.chain = <<>> /\ s.gathering = "new"
  BY LoadedEffect
<1> HIDE DEF s
<1>2. At(s.chain) = {}
  BY <1>1, EmptySeq DEF At
<1>3. Alone(s) /\ Addressed(s)
  BY <1>1, <1>2 DEF Alone, Addressed
<1>4. s.id \in Nat /\ NoPeer \in Nat /\ NoPeer <= n
  BY <1>1 DEF Ids, NoPeer
<1>5. CASE c = <<>> /\ id = NoPeer
  <2>1. At(c) = {}
    BY <1>5, EmptySeq DEF At
  <2> QED
    BY <1>1, <1>3, <1>4, <1>5, <2>1
       DEF Acquainted, Absent, Welcomed, Introduced, InOrder, UpToDate, s
<1>6. CASE /\ c = Append(<<>>, FirstMessage(o)) /\ FirstMessage(o) \in Messages
           /\ id # NoPeer /\ o.id # id /\ o.id <= n
  <2> DEFINE m == FirstMessage(o)
  <2>1. m \in Messages /\ m.type = "welcome" /\ m.from = o.id /\ m.second = (o.id # NoPeer)
    BY <1>6 DEF FirstMessage, Message
  <2>2. <<>> \in Seq(Messages) /\ Len(<<>>) = 0
    BY EmptySeq
  <2>3. At(c) = {1} /\ c[1] = m /\ Len(c) = 1
    BY <1>6, <2>1, <2>2, Appended DEF At
  <2>4. o.id \in Nat
    BY DEF PageRecord, Ids, NoPeer
  <2> HIDE DEF m
  <2>5. Absent(s, c) /\ Welcomed(s, c) /\ Introduced(s, c)
    BY <1>1, <1>6, <2>1, <2>3 DEF Absent, Welcomed, Introduced
  <2>6. InOrder(s, c, n)
    <3>1. Arrives(m) => NoPeer < m.from
      BY <2>1, <2>4 DEF Arrives, NoPeer
    <3>2. \A i, j \in At(c) : ~(i < j)
      BY <2>3
    <3> QED
      BY <1>1, <1>4, <1>6, <2>1, <2>3, <3>1, <3>2 DEF InOrder
  <2>7. UpToDate(s, c, o)
    <3>1. Believes(s.peer, c, 1, o.id)
      <4>1. 1 \in 1 .. 1 /\ \A j \in 1 + 1 .. 1 : FALSE
        OBVIOUS
      <4> QED
        BY <2>1, <2>3, <4>1 DEF Believes, Presence, Named
    <3> QED
      BY <1>1, <1>6, <2>1, <2>3, <3>1 DEF UpToDate
  <2> QED
    BY <1>3, <2>5, <2>6, <2>7 DEF Acquainted, s
<1> QED
  BY <1>5, <1>6

LEMMA AcquaintanceInit == Init => Acquaintance
<1> SUFFICES ASSUME Init, NEW p \in Pages
             PROVE  Acquainted(page[p], chan[p], page[Other(p)], joins)
  BY DEF Acquaintance
<1>1. page[p] = Loaded(NoPeer) /\ page[Other(p)] = Loaded(NoPeer) /\ chan[p] = <<>> /\ joins = 0
  BY TwoSeats DEF Init
<1>2. Loaded(NoPeer) \in PageRecord /\ <<>> \in Seq(Messages) /\ NoPeer <= 0 /\ NoPeer \in Ids \cup {NoPeer}
  BY LoadedEffect, EmptySeq DEF NoPeer
<1> QED
  BY <1>1, <1>2, LoadedAcquainted

\* What the steps need to know about the two seats.
LEMMA SeatTypes ==
    ASSUME TypeOK, Acquaintance, NEW p \in Pages
    PROVE  LET q == Other(p) IN
           /\ q \in Pages /\ q # p /\ Other(q) = p
           /\ page[p] \in PageRecord /\ page[q] \in PageRecord
           /\ chan[p] \in Seq(Messages) /\ chan[q] \in Seq(Messages)
           /\ joins \in Nat /\ page[p].id \in Ids \cup {NoPeer} /\ page[q].id \in Ids \cup {NoPeer}
           /\ Acquainted(page[p], chan[p], page[q], joins)
           /\ Acquainted(page[q], chan[q], page[p], joins)
<1>1. /\ Other(p) \in Pages /\ Other(p) # p /\ Other(Other(p)) = p
      /\ page \in [Pages -> PageRecord] /\ chan \in [Pages -> Seq(Messages)] /\ joins \in Nat
  BY TwoSeats, TypesOfParts
<1>2. page[p] \in PageRecord /\ page[Other(p)] \in PageRecord
  BY <1>1
<1>3. page[p].id \in Ids \cup {NoPeer} /\ page[Other(p)].id \in Ids \cup {NoPeer}
  BY <1>2 DEF PageRecord
<1> QED
  BY <1>1, <1>2, <1>3 DEF Acquaintance

LEMMA BothAcquainted ==
    ASSUME NEW p \in Pages,
           Acquainted(page'[p], chan'[p], page'[Other(p)], joins'),
           Acquainted(page'[Other(p)], chan'[Other(p)], page'[p], joins')
    PROVE  Acquaintance'
<1>1. /\ Other(Other(p)) = p /\ \A r \in Pages : r = p \/ r = Other(p)
  BY TwoSeats
<1>2. \A r \in Pages : Acquainted(page'[r], chan'[r], page'[Other(r)], joins')
  BY <1>1
<1> QED
  BY <1>2 DEF Acquaintance

LEMMA WorkAcquaintance ==
    ASSUME TypeOK, Acquaintance, NEW p \in Pages, WorksAt(p)
    PROVE  Acquaintance'
<1> DEFINE q == Other(p)
           s == page[p]
           t == page'[p]
           o == page[q]
           c == chan[p]
           d == chan[q]
           d2 == chan'[q]
           n == joins
<1>1. /\ s \in PageRecord /\ o \in PageRecord /\ c \in Seq(Messages) /\ d \in Seq(Messages)
      /\ n \in Nat /\ s.id \in Ids \cup {NoPeer} /\ o.id \in Ids \cup {NoPeer}
      /\ Acquainted(s, c, o, n) /\ Acquainted(o, d, s, n) /\ q \in Pages
  BY SeatTypes
<1>2. /\ page' \in [Pages -> PageRecord] /\ Worked(t, s, o, d2, d)
      /\ page'[q] = o /\ chan'[p] = c /\ joins' = n
  BY DEF WorksAt
<1>3. t \in PageRecord
  BY <1>2
<1> HIDE DEF s, t, o, c, d, d2, n, q
<1>4. Alone(s) /\ Addressed(s) /\ Absent(s, c) /\ UpToDate(s, c, o) /\ InOrder(s, c, n)
      /\ UpToDate(o, d, s) /\ Alone(o) /\ Addressed(o)
  BY <1>1 DEF Acquainted
<1>5. Alone(t) /\ Addressed(t) /\ SameView(t, s)
  BY <1>1, <1>2, <1>3, <1>4, WorkedAddressed DEF Worked
<1>6. t.id = s.id /\ n <= n /\ SameView(o, o)
  BY <1>1, <1>5 DEF SameView
<1>7. Acquainted(t, c, o, n)
  BY <1>1, <1>3, <1>5, <1>6, StillAcquainted
<1>8. Acquainted(o, d2, t, n)
  <2>1. CASE d2 = d
    BY <1>1, <1>3, <1>4, <1>6, <2>1, StillAcquainted
  <2>2. ASSUME NEW m \in Messages, m.type \in {"offer", "answer", "ice"}, m.from = s.id,
               d2 = Append(d, m), o.id = s.peer, s.peer # NoPeer
        PROVE  Acquainted(o, d2, t, n)
    <3>1. s.id # NoPeer /\ o.id # NoPeer
      BY <1>4, <2>2 DEF Absent
    <3>2. /\ m.type # "welcome" /\ m.type # "joined" /\ m.type # "left" /\ m.type \notin Presence
          /\ m.from # NoPeer /\ m.from <= n
      BY <1>4, <2>2, <3>1 DEF Presence, InOrder
    <3>3. t.id # o.id
      BY <1>4, <1>6, <3>1 DEF UpToDate
    <3>4. \A i \in At(d) : d[i].type = "left" => d[i].from # t.id
      BY <1>4, <1>6, <3>1 DEF UpToDate
    <3> QED
      BY <1>1, <1>6, <2>2, <3>1, <3>2, <3>3, <3>4, ToldAcquainted
  <2>3. \/ d2 = d
        \/ /\ o.id = s.peer /\ s.peer # NoPeer
           /\ \E m \in Messages : /\ m.type \in {"offer", "answer", "ice"} /\ m.from = s.id
                                  /\ d2 = Append(d, m)
    BY <1>1, <1>2, <1>4, WorkedTells
  <2> QED
    BY <2>1, <2>2, <2>3
<1>9. Acquainted(t, chan'[p], page'[q], joins') /\ Acquainted(page'[q], d2, t, joins')
  BY <1>2, <1>7, <1>8
<1> QED
  BY <1>9, BothAcquainted DEF t, d2, q

LEMMA ReadAcquaintance ==
    ASSUME TypeOK, Acquaintance, NEW p \in Pages, ReadsAt(p)
    PROVE  Acquaintance'
<1> DEFINE q == Other(p)
           s == page[p]
           t == page'[p]
           o == page[q]
           c == chan[p]
           d == chan[q]
           n == joins
<1>1. /\ s \in PageRecord /\ o \in PageRecord /\ c \in Seq(Messages) /\ d \in Seq(Messages)
      /\ n \in Nat /\ Acquainted(s, c, o, n) /\ Acquainted(o, d, s, n) /\ q \in Pages
  BY SeatTypes
<1>2. /\ page' \in [Pages -> PageRecord] /\ Read(t, s, c[1]) /\ c # <<>> /\ chan'[p] = Tail(c)
      /\ page'[q] = o /\ chan'[q] = d /\ joins' = n
  BY DEF ReadsAt
<1>3. t \in PageRecord
  BY <1>2
<1> HIDE DEF s, t, o, c, d, n, q
<1>4. Acquainted(t, Tail(c), o, n)
  BY <1>1, <1>2, <1>3, ReadAcquainted
<1>5. n <= n /\ SameView(o, o) /\ t.id = s.id /\ Alone(o) /\ Addressed(o)
  BY <1>1, <1>2 DEF SameView, Acquainted, Read
<1>6. Acquainted(o, d, t, n)
  BY <1>1, <1>5, StillAcquainted
<1>7. Acquainted(t, chan'[p], page'[q], joins') /\ Acquainted(page'[q], chan'[q], t, joins')
  BY <1>2, <1>4, <1>6
<1> QED
  BY <1>7, BothAcquainted DEF t, q

LEMMA ArriveAcquaintance ==
    ASSUME TypeOK, Acquaintance, NEW p \in Pages, ArrivesAt(p)
    PROVE  Acquaintance'
<1> DEFINE q == Other(p)
           s == page[p]
           o == page[q]
           c == chan[p]
           d == chan[q]
           d2 == chan'[q]
           n == joins
           t == Loaded(n + 1)
           m == Message("joined", n + 1, o.id # NoPeer, NoDesc)
<1>1. /\ s \in PageRecord /\ o \in PageRecord /\ c \in Seq(Messages) /\ d \in Seq(Messages)
      /\ n \in Nat /\ o.id \in Ids \cup {NoPeer}
      /\ Acquainted(s, c, o, n) /\ Acquainted(o, d, s, n) /\ q \in Pages
  BY SeatTypes
<1>2. /\ joins' = n + 1 /\ n + 1 \in 0 .. MaxJoins /\ page'[q] = o /\ page'[p] = t /\ s.id = NoPeer
      /\ chan'[p] = Append(<<>>, FirstMessage(o)) /\ FirstMessage(o) \in Messages
      /\ Announced(d2, d, o, m) /\ chan' \in [Pages -> Seq(Messages)]
  BY DEF ArrivesAt
<1>3. n + 1 \in Ids /\ n + 1 # NoPeer /\ n <= n + 1 /\ n + 1 \in Nat /\ chan'[p] \in Seq(Messages)
  BY <1>1, <1>2, MaxJoinsAssumption DEF Ids, NoPeer
<1>4. o.id <= n /\ o.id \in Nat /\ Alone(o) /\ Addressed(o) /\ UpToDate(o, d, s)
  BY <1>1 DEF Acquainted, InOrder, Ids, NoPeer
<1>5. o.id # n + 1 /\ o.id <= n + 1
  BY <1>1, <1>4
<1>6. t \in PageRecord /\ t.id = n + 1
  BY <1>3, LoadedEffect
<1>7. m \in Messages /\ m.type = "joined" /\ m.from = n + 1 /\ (m.second <=> o.id # NoPeer)
  <2>1. (o.id # NoPeer) \in BOOLEAN /\ n + 1 \in Ids \cup {NoPeer}
    BY <1>3
  <2> DEFINE b == o.id # NoPeer
  <2> HIDE DEF b, n, o
  <2>2. b \in BOOLEAN
    BY <2>1 DEF b
  <2>3. LET x == Message("joined", n + 1, b, NoDesc)
        IN  x \in Messages /\ x.type = "joined" /\ x.from = n + 1 /\ x.second = b
    BY <2>1, <2>2, NoDescType DEF Message, Messages
  <2> QED
    BY <2>3 DEF b
<1> HIDE DEF s, o, c, d, d2, n, q, m
<1>8. Acquainted(t, chan'[p], o, n + 1)
  <2> DEFINE k == n + 1
  <2>1. k \in Ids \cup {NoPeer} /\ k \in Nat /\ k <= k /\ k # NoPeer /\ o.id # k /\ o.id <= k
    BY <1>3, <1>5
  <2> HIDE DEF k
  <2>2. Acquainted(Loaded(k), chan'[p], o, k)
    BY <1>1, <1>2, <1>3, <2>1, LoadedAcquainted
  <2> QED
    BY <2>2 DEF k
<1> HIDE DEF t
<1>9. Acquainted(o, d2, t, n + 1)
  <2>1. CASE o.id = NoPeer
    <3>1. d2 = d
      BY <1>2, <2>1 DEF Announced
    <3>2. SameView(o, o) /\ Absent(o, d) /\ Welcomed(o, d) /\ Introduced(o, d) /\ InOrder(o, d, n)
      BY <1>1 DEF SameView, Acquainted
    <3>3. UpToDate(o, d, t)
      BY <2>1 DEF UpToDate
    <3>4. Acquainted(o, d, t, n)
      BY <1>4, <3>2, <3>3 DEF Acquainted
    <3> QED
      BY <1>1, <1>3, <1>4, <3>1, <3>2, <3>4, StillAcquainted
  <2>2. CASE o.id # NoPeer
    <3>1. d2 = Append(d, m)
      BY <1>2, <2>2 DEF Announced
    <3>2. /\ m.type # "welcome" /\ m.type # "left" /\ m.second /\ m.from # NoPeer
          /\ m.from <= n + 1 /\ m.from > n /\ t.id = IF m.type \in Presence THEN Named(m) ELSE s.id
      BY <1>1, <1>3, <1>6, <1>7, <2>2 DEF Presence, Named
    <3>3. \A i \in At(d) : d[i].type = "left" => d[i].from # t.id
      <4>1. \A i \in At(d) : d[i].from <= n
        BY <1>1 DEF Acquainted, InOrder
      <4> QED
        BY <1>1, <1>6, <4>1
    <3> QED
      BY <1>1, <1>2, <1>3, <1>5, <1>6, <1>7, <2>2, <3>1, <3>2, <3>3, ToldAcquainted
  <2> QED
    BY <2>1, <2>2
<1>10. Acquainted(page'[p], chan'[p], page'[q], joins') /\ Acquainted(page'[q], d2, page'[p], joins')
  BY <1>2, <1>8, <1>9
<1> QED
  BY <1>10, BothAcquainted DEF d2, q

LEMMA DepartAcquaintance ==
    ASSUME TypeOK, Acquaintance, NEW p \in Pages, DepartsFrom(p)
    PROVE  Acquaintance'
<1> DEFINE q == Other(p)
           s == page[p]
           o == page[q]
           c == chan[p]
           d == chan[q]
           d2 == chan'[q]
           n == joins
           t == Loaded(NoPeer)
           m == Message("left", s.id, FALSE, NoDesc)
<1>1. /\ s \in PageRecord /\ o \in PageRecord /\ c \in Seq(Messages) /\ d \in Seq(Messages)
      /\ n \in Nat /\ o.id \in Ids \cup {NoPeer} /\ s.id \in Ids \cup {NoPeer}
      /\ Acquainted(s, c, o, n) /\ Acquainted(o, d, s, n) /\ q \in Pages
  BY SeatTypes
<1>2. /\ joins' = n /\ page'[q] = o /\ page'[p] = t /\ s.id # NoPeer
      /\ chan'[p] = <<>> /\ Announced(d2, d, o, m)
  BY DEF DepartsFrom
<1>3. t \in PageRecord /\ t.id = NoPeer /\ NoPeer \in Ids \cup {NoPeer} /\ NoPeer <= n
      /\ <<>> \in Seq(Messages) /\ n <= n
  BY <1>1, LoadedEffect, EmptySeq DEF NoPeer
<1>4. m \in Messages /\ m.type = "left" /\ m.from = s.id
  <2> DEFINE x == s.id
  <2>1. x \in Ids \cup {NoPeer} /\ FALSE \in BOOLEAN
    BY <1>1
  <2> HIDE DEF x
  <2>2. LET y == Message("left", x, FALSE, NoDesc)
        IN  y \in Messages /\ y.type = "left" /\ y.from = x
    BY <2>1, NoDescType DEF Message, Messages
  <2> QED
    BY <2>2 DEF x
<1> HIDE DEF s, o, c, d, d2, n, q, m
<1>5. Acquainted(t, chan'[p], o, n)
  BY <1>1, <1>2, <1>3, LoadedAcquainted
<1> HIDE DEF t
<1>6. /\ SameView(o, o) /\ Absent(o, d) /\ Welcomed(o, d) /\ Introduced(o, d) /\ InOrder(o, d, n)
      /\ Alone(o) /\ Addressed(o) /\ InOrder(s, c, n)
  BY <1>1 DEF SameView, Acquainted
<1>7. Acquainted(o, d2, t, n)
  <2>1. CASE o.id = NoPeer
    <3>1. d2 = d
      BY <1>2, <2>1 DEF Announced
    <3>2. UpToDate(o, d, t)
      BY <2>1 DEF UpToDate
    <3> QED
      BY <1>6, <3>1, <3>2 DEF Acquainted
  <2>2. CASE o.id # NoPeer
    <3>1. d2 = Append(d, m)
      BY <1>2, <2>2 DEF Announced
    <3>2. /\ m.type # "welcome" /\ m.type # "joined" /\ m.from # NoPeer
          /\ m.from <= n /\ t.id = IF m.type \in Presence THEN Named(m) ELSE s.id
          /\ m.from # t.id /\ t.id # o.id
      BY <1>2, <1>3, <1>4, <1>6, <2>2 DEF Presence, Named, InOrder
    <3>3. \A i \in At(d) : d[i].type = "left" => d[i].from # t.id
      BY <1>3, <1>6 DEF Introduced
    <3> QED
      BY <1>1, <1>3, <1>4, <2>2, <3>1, <3>2, <3>3, ToldAcquainted
  <2> QED
    BY <2>1, <2>2
<1>8. Acquainted(page'[p], chan'[p], page'[q], joins') /\ Acquainted(page'[q], d2, page'[p], joins')
  BY <1>2, <1>5, <1>7
<1> QED
  BY <1>8, BothAcquainted DEF d2, q

LEMMA AcquaintanceStep ==
    ASSUME TypeOK, Acquaintance, [Next]_vars
    PROVE  TypeOK' /\ Acquaintance'
<1>1. CASE UNCHANGED vars
  BY <1>1 DEF vars, TypeOK, Acquaintance
<1>2. CASE Next
  <2>1. PICK p \in Pages : WorksAt(p) \/ ReadsAt(p) \/ ArrivesAt(p) \/ DepartsFrom(p)
    BY <1>2, StepKinds
  <2>2. joins \in 0 .. MaxJoins /\ toggles \in 0 .. MaxToggles
    BY TypesOfParts
  <2>3. /\ page' \in [Pages -> PageRecord] /\ chan' \in [Pages -> Seq(Messages)]
        /\ joins' \in 0 .. MaxJoins /\ toggles' \in 0 .. MaxToggles
    BY <2>1, <2>2 DEF WorksAt, ReadsAt, ArrivesAt, DepartsFrom
  <2>4. TypeOK'
    BY <2>3 DEF TypeOK, PageRecord
  <2>5. Acquaintance'
    BY <2>1, WorkAcquaintance, ReadAcquaintance, ArriveAcquaintance, DepartAcquaintance
  <2> QED
    BY <2>4, <2>5
<1> QED
  BY <1>1, <1>2

LEMMA TypeInit == Init => TypeOK
<1> SUFFICES ASSUME Init
             PROVE  TypeOK
  OBVIOUS
<1>1. Loaded(NoPeer) \in PageRecord /\ <<>> \in Seq(Messages)
  BY LoadedEffect, EmptySeq
<1>2. page \in [Pages -> PageRecord] /\ chan \in [Pages -> Seq(Messages)]
  BY <1>1 DEF Init
<1>3. joins \in 0 .. MaxJoins /\ toggles \in 0 .. MaxToggles
  BY MaxJoinsAssumption, MaxTogglesAssumption DEF Init
<1> QED
  BY <1>2, <1>3, TypesOfParts

-------------------------------------------------------------------------------
(* Layer two: which of two pages is the impolite one.                      *)

\* Who joins is younger than who reads of it, and nobody has come since unless
\* that page is still to be read of.
Younger(s, c, o) ==
    \A i \in At(c) : c[i].type = "joined" =>
        s.id < c[i].from /\ (o.id # NoPeer => c[i].from <= o.id)

\* The younger page s is impolite once it has read its welcome, the older one o
\* is polite once it has read that s joined.
Seniority(s, c, o, d) ==
    o.id # NoPeer /\ s.id # NoPeer /\ o.id < s.id =>
        /\ s.impolite \/ \E i \in At(c) : c[i].type = "welcome" /\ c[i].second
        /\ \/ ~o.impolite /\ \A i \in At(d) : d[i].type # "welcome"
           \/ \E i \in At(d) : d[i].type = "joined" /\ d[i].from = s.id

Ranked(s, c, o, d) == Younger(s, c, o) /\ Seniority(s, c, o, d)

Roles == \A p \in Pages : Ranked(page[p], chan[p], page[Other(p)], chan[Other(p)])

LEMMA BothRanked ==
    ASSUME NEW p \in Pages,
           Ranked(page'[p], chan'[p], page'[Other(p)], chan'[Other(p)]),
           Ranked(page'[Other(p)], chan'[Other(p)], page'[p], chan'[p])
    PROVE  Roles'
<1>1. /\ Other(Other(p)) = p /\ \A r \in Pages : r = p \/ r = Other(p)
  BY TwoSeats
<1>2. \A r \in Pages : Ranked(page'[r], chan'[r], page'[Other(r)], chan'[Other(r)])
  BY <1>1
<1> QED
  BY <1>2 DEF Roles

\* Neither page changes its role, and messages about other things follow.
LEMMA StillRanked ==
    ASSUME NEW s, NEW s2, NEW o, NEW o2, NEW c, NEW c2, NEW d, NEW d2, Ranked(s, c, o, d),
           s2.id = s.id, s2.impolite <=> s.impolite, o2.id = o.id, o2.impolite <=> o.impolite,
           \A i \in At(c) : i \in At(c2) /\ c2[i] = c[i],
           \A i \in At(d) : i \in At(d2) /\ d2[i] = d[i],
           \A i \in At(c2) : c2[i].type \in Presence => i \in At(c),
           \A i \in At(d2) : d2[i].type \in Presence => i \in At(d)
    PROVE  Ranked(s2, c2, o2, d2)
<1>1. Younger(s2, c2, o2)
  <2>1. Younger(s, c, o)
    BY DEF Ranked
  <2>2. \A i \in At(c2) : c2[i].type = "joined" => i \in At(c) /\ c2[i] = c[i]
    BY DEF Presence
  <2> QED
    BY <2>1, <2>2 DEF Younger
<1>2. Seniority(s2, c2, o2, d2)
  <2>1. SUFFICES ASSUME o2.id # NoPeer, s2.id # NoPeer, o2.id < s2.id
                 PROVE  /\ s2.impolite \/ \E i \in At(c2) : c2[i].type = "welcome" /\ c2[i].second
                        /\ \/ ~o2.impolite /\ \A i \in At(d2) : d2[i].type # "welcome"
                           \/ \E i \in At(d2) : d2[i].type = "joined" /\ d2[i].from = s2.id
    BY DEF Seniority
  <2>2. /\ s.impolite \/ \E i \in At(c) : c[i].type = "welcome" /\ c[i].second
        /\ \/ ~o.impolite /\ \A i \in At(d) : d[i].type # "welcome"
           \/ \E i \in At(d) : d[i].type = "joined" /\ d[i].from = s.id
    BY <2>1 DEF Ranked, Seniority
  <2>3. s2.impolite \/ \E i \in At(c2) : c2[i].type = "welcome" /\ c2[i].second
    BY <2>2
  <2>4. (\A i \in At(d) : d[i].type # "welcome") => \A i \in At(d2) : d2[i].type # "welcome"
    BY DEF Presence
  <2>5. (\E i \in At(d) : d[i].type = "joined" /\ d[i].from = s.id)
           => \E i \in At(d2) : d2[i].type = "joined" /\ d2[i].from = s2.id
    OBVIOUS
  <2> QED
    BY <2>2, <2>3, <2>4, <2>5
<1> QED
  BY <1>1, <1>2 DEF Ranked

\* What a page says on its own changes nobody's role.
LEMMA WorkRoles ==
    ASSUME TypeOK, Acquaintance, Roles, NEW p \in Pages, WorksAt(p)
    PROVE  Roles'
<1> DEFINE q == Other(p)
           s == page[p]
           t == page'[p]
           o == page[q]
           c == chan[p]
           d == chan[q]
           d2 == chan'[q]
<1>1. /\ s \in PageRecord /\ c \in Seq(Messages) /\ d \in Seq(Messages)
      /\ Acquainted(s, c, o, joins) /\ q \in Pages /\ Other(q) = p
  BY SeatTypes
<1>2. Worked(t, s, o, d2, d) /\ page'[q] = o /\ chan'[p] = c
  BY DEF WorksAt
<1>3. Ranked(s, c, o, d) /\ Ranked(o, d, s, c)
  BY <1>1 DEF Roles
<1> HIDE DEF s, t, o, c, d, d2, q
<1>4. t.id = s.id /\ (t.impolite <=> s.impolite)
  BY <1>2 DEF Worked, SameView
<1>5. \/ d2 = d
      \/ \E m \in Messages : m.type \in {"offer", "answer", "ice"} /\ d2 = Append(d, m)
  <2>1. Alone(s) /\ Addressed(s)
    BY <1>1 DEF Acquainted
  <2> QED
    BY <1>1, <1>2, <2>1, WorkedTells
<1>6. /\ \A i \in At(d) : i \in At(d2) /\ d2[i] = d[i]
      /\ \A i \in At(d2) : d2[i].type \in Presence => i \in At(d)
  <2>1. ASSUME NEW m \in Messages, m.type \in {"offer", "answer", "ice"}, d2 = Append(d, m)
        PROVE  /\ \A i \in At(d) : i \in At(d2) /\ d2[i] = d[i]
               /\ \A i \in At(d2) : d2[i].type \in Presence => i \in At(d)
    <3>1. Extended(d2, d, m)
      BY <1>1, <2>1, AppendExtends
    <3>2. m.type \notin Presence
      BY <2>1 DEF Presence
    <3> QED
      BY <3>1, <3>2 DEF Extended
  <2> QED
    BY <1>5, <2>1
<1>7. Ranked(t, c, o, d2)
  BY <1>3, <1>4, <1>6, StillRanked
<1>8. Ranked(o, d2, t, c)
  BY <1>3, <1>4, <1>6, StillRanked
<1> QED
  BY <1>2, <1>7, <1>8, BothRanked DEF t, c, o, d2, q

LEMMA ReadRoles ==
    ASSUME TypeOK, Acquaintance, Roles, NEW p \in Pages, ReadsAt(p)
    PROVE  Roles'
<1> DEFINE q == Other(p)
           s == page[p]
           t == page'[p]
           o == page[q]
           c == chan[p]
           d == chan[q]
           e == Tail(c)
<1>1. /\ s \in PageRecord /\ c \in Seq(Messages) /\ d \in Seq(Messages)
      /\ Acquainted(s, c, o, joins) /\ q \in Pages /\ Other(q) = p
      /\ s.id \in Nat /\ o.id \in Nat
  BY SeatTypes DEF Ids, NoPeer
<1>2. Read(t, s, c[1]) /\ c # <<>> /\ chan'[p] = e /\ page'[q] = o /\ chan'[q] = d
  BY DEF ReadsAt
<1>3. Ranked(s, c, o, d) /\ Ranked(o, d, s, c) /\ Welcomed(s, c)
  BY <1>1 DEF Roles, Acquainted
<1>4. /\ 1 \in At(c)
      /\ \A i \in At(e) : i \in Nat /\ i + 1 \in At(c) /\ e[i] = c[i + 1] /\ i + 1 # 1
      /\ \A i \in At(c) : i # 1 => i - 1 \in At(e) /\ e[i - 1] = c[i]
  <2>1. /\ Len(e) = Len(c) - 1 /\ Len(c) \in Nat \ {0} /\ 1 \in At(c)
        /\ \A i \in At(e) : i \in Nat /\ i + 1 \in At(c) /\ e[i] = c[i + 1]
    BY <1>1, <1>2, Tailed
  <2> HIDE DEF e
  <2>2. \A i \in At(e) : i + 1 # 1
    BY <2>1 DEF At
  <2>3. ASSUME NEW i \in At(c), i # 1
        PROVE  i - 1 \in At(e) /\ e[i - 1] = c[i]
    <3>1. i - 1 \in At(e) /\ (i - 1) + 1 = i
      BY <2>1, <2>3 DEF At
    <3> DEFINE j == i - 1
    <3>2. j \in At(e) /\ j + 1 = i
      BY <3>1
    <3> HIDE DEF j
    <3>3. e[j] = c[i]
      BY <2>1, <3>2
    <3> QED
      BY <3>1, <3>3 DEF j
  <2> QED
    BY <2>1, <2>2, <2>3
<1> HIDE DEF s, t, o, c, d, e, q
<1>5. t.id = s.id
  BY <1>2 DEF Read
<1>6. \A i \in At(e) : e[i].type # "welcome"
  BY <1>3, <1>4 DEF Welcomed
<1>7. /\ c[1].type = "welcome" => /\ t.impolite <=> c[1].second
                                  /\ ~s.impolite
      /\ c[1].type = "joined" => ~t.impolite
      /\ c[1].type \notin {"welcome", "joined"} => (t.impolite <=> s.impolite)
  BY <1>2 DEF Read, ReadWelcome, ReadJoined, ReadLeft, ReadOffer, ReadAnswer, ReadIce, Continues, SameView
<1>8. Younger(t, e, o) /\ Younger(o, d, t)
  BY <1>3, <1>4, <1>5 DEF Ranked, Younger
<1>9. Seniority(t, e, o, d)
  <2>1. SUFFICES ASSUME o.id # NoPeer, s.id # NoPeer, o.id < s.id
                 PROVE  /\ t.impolite
                        /\ \/ ~o.impolite /\ \A i \in At(d) : d[i].type # "welcome"
                           \/ \E i \in At(d) : d[i].type = "joined" /\ d[i].from = s.id
    BY <1>5 DEF Seniority
  <2>2. /\ s.impolite \/ \E i \in At(c) : c[i].type = "welcome" /\ c[i].second
        /\ \/ ~o.impolite /\ \A i \in At(d) : d[i].type # "welcome"
           \/ \E i \in At(d) : d[i].type = "joined" /\ d[i].from = s.id
    BY <1>3, <2>1 DEF Ranked, Seniority
  <2>3. \A i \in At(c) : c[i].type = "joined" => c[i].from \in Nat
    <3>1. \A i \in At(c) : c[i] \in Messages
      BY <1>1, ElementOfSeq, LenProperties DEF At
    <3> QED
      BY <3>1 DEF Messages, Ids, NoPeer
  <2>4. c[1].type # "joined"
    BY <1>1, <1>3, <1>4, <2>1, <2>3 DEF Ranked, Younger
  <2>5. s.impolite => t.impolite
    BY <1>7, <2>4
  <2>6. (\E i \in At(c) : c[i].type = "welcome" /\ c[i].second) => t.impolite
    BY <1>3, <1>7 DEF Welcomed
  <2> QED
    BY <2>2, <2>5, <2>6
<1>10. Seniority(o, d, t, e)
  <2>1. SUFFICES ASSUME o.id # NoPeer, s.id # NoPeer, s.id < o.id
                 PROVE  /\ o.impolite \/ \E i \in At(d) : d[i].type = "welcome" /\ d[i].second
                        /\ \/ ~t.impolite
                           \/ \E i \in At(e) : e[i].type = "joined" /\ e[i].from = o.id
    BY <1>5, <1>6 DEF Seniority
  <2>2. /\ o.impolite \/ \E i \in At(d) : d[i].type = "welcome" /\ d[i].second
        /\ \/ ~s.impolite /\ \A i \in At(c) : c[i].type # "welcome"
           \/ \E i \in At(c) : c[i].type = "joined" /\ c[i].from = o.id
    BY <1>3, <2>1 DEF Ranked, Seniority
  <2>3. CASE ~s.impolite /\ \A i \in At(c) : c[i].type # "welcome"
    BY <1>4, <1>7, <2>2, <2>3
  <2>4. CASE \E i \in At(c) : c[i].type = "joined" /\ c[i].from = o.id
    BY <1>4, <1>7, <2>2, <2>4
  <2> QED
    BY <2>2, <2>3, <2>4
<1>11. Ranked(t, e, o, d) /\ Ranked(o, d, t, e)
  BY <1>8, <1>9, <1>10 DEF Ranked
<1> QED
  BY <1>2, <1>11, BothRanked DEF t, q

LEMMA ArriveRoles ==
    ASSUME TypeOK, Acquaintance, Roles, NEW p \in Pages, ArrivesAt(p)
    PROVE  Roles'
<1> DEFINE q == Other(p)
           o == page[q]
           d == chan[q]
           c2 == chan'[p]
           d2 == chan'[q]
           n == joins
           t == Loaded(n + 1)
           m == Message("joined", n + 1, o.id # NoPeer, NoDesc)
           w == FirstMessage(o)
<1>1. /\ o \in PageRecord /\ d \in Seq(Messages) /\ n \in Nat /\ o.id \in Nat
      /\ Acquainted(o, d, page[p], n) /\ q \in Pages /\ Other(q) = p
  BY SeatTypes DEF Ids, NoPeer
<1>2. /\ joins' = n + 1 /\ n + 1 \in 0 .. MaxJoins /\ page'[q] = o /\ page'[p] = t
      /\ c2 = Append(<<>>, w) /\ w \in Messages
      /\ Announced(d2, d, o, m)
  BY DEF ArrivesAt
<1>3. n + 1 \in Ids /\ n + 1 # NoPeer
  BY <1>1, <1>2, MaxJoinsAssumption DEF Ids, NoPeer
<1>4. t.id = n + 1
  BY <1>3, LoadedEffect
<1>5. /\ m.type = "joined" /\ m.from = n + 1
      /\ w.type = "welcome" /\ w.second = (o.id # NoPeer)
  BY DEF Message, FirstMessage
<1>6. o.id <= n /\ \A i \in At(d) : d[i].from <= n /\ d[i].from \in Nat
  <2>1. \A i \in At(d) : d[i] \in Messages
    BY <1>1, ElementOfSeq, LenProperties DEF At
  <2>2. \A i \in At(d) : d[i].from \in Nat
    BY <2>1 DEF Messages, Ids, NoPeer
  <2> QED
    BY <1>1, <2>2 DEF Acquainted, InOrder
<1>7. Younger(o, d, page[p])
  BY <1>1 DEF Roles, Ranked
<1>8. m \in Messages
  <2> DEFINE b == o.id # NoPeer
  <2>1. b \in BOOLEAN /\ n + 1 \in Ids \cup {NoPeer}
    BY <1>3
  <2> HIDE DEF b, n, o
  <2>2. Message("joined", n + 1, b, NoDesc) \in Messages
    BY <2>1, NoDescType DEF Message, Messages
  <2> QED
    BY <2>2 DEF b
<1> HIDE DEF o, d, c2, d2, n, t, m, w, q
<1>9. At(c2) = {1} /\ c2[1] = w
  <2>1. <<>> \in Seq(Messages) /\ Len(<<>>) = 0
    BY EmptySeq
  <2> QED
    BY <1>2, <2>1, Appended DEF At
<1>10. CASE o.id = NoPeer
  <2>1. d2 = d
    BY <1>2, <1>10 DEF Announced
  <2>2. Younger(t, c2, o)
    BY <1>5, <1>9 DEF Younger
  <2>3. Younger(o, d2, t)
    BY <1>1, <1>4, <1>6, <1>7, <2>1 DEF Younger
  <2>4. Ranked(t, c2, o, d2) /\ Ranked(o, d2, t, c2)
    BY <1>10, <2>2, <2>3 DEF Ranked, Seniority
  <2> QED
    BY <1>2, <2>4, BothRanked DEF c2, d2, q
<1>11. CASE o.id # NoPeer
  <2>1. /\ d2[Len(d) + 1] = m /\ Len(d) + 1 \in At(d2)
        /\ \A i \in At(d2) : (i \in At(d) /\ d2[i] = d[i]) \/ d2[i] = m
    <3>1. d2 = Append(d, m)
      BY <1>2, <1>11 DEF Announced
    <3>2. Extended(d2, d, m)
      BY <1>1, <1>8, <3>1, AppendExtends
    <3> QED
      BY <3>2 DEF Extended
  <2>2. Younger(t, c2, o)
    BY <1>5, <1>9 DEF Younger
  <2>3. Younger(o, d2, t)
    BY <1>1, <1>4, <1>5, <1>6, <1>7, <2>1 DEF Younger
  <2>4. Seniority(t, c2, o, d2)
    BY <1>4, <1>5, <1>9, <1>11, <2>1 DEF Seniority
  <2>5. Seniority(o, d2, t, c2)
    BY <1>1, <1>4, <1>6 DEF Seniority
  <2>6. Ranked(t, c2, o, d2) /\ Ranked(o, d2, t, c2)
    BY <2>2, <2>3, <2>4, <2>5 DEF Ranked
  <2> QED
    BY <1>2, <2>6, BothRanked DEF c2, d2, q
<1> QED
  BY <1>10, <1>11

LEMMA DepartRoles ==
    ASSUME TypeOK, Acquaintance, Roles, NEW p \in Pages, DepartsFrom(p)
    PROVE  Roles'
<1> DEFINE q == Other(p)
           s == page[p]
           o == page[q]
           d == chan[q]
           d2 == chan'[q]
           t == Loaded(NoPeer)
           m == Message("left", s.id, FALSE, NoDesc)
<1>1. /\ o \in PageRecord /\ d \in Seq(Messages) /\ q \in Pages /\ Other(q) = p
      /\ s.id \in Ids \cup {NoPeer}
  BY SeatTypes
<1>2. /\ page'[q] = o /\ page'[p] = t /\ chan'[p] = <<>> /\ Announced(d2, d, o, m)
  BY DEF DepartsFrom
<1>3. t.id = NoPeer
  BY LoadedEffect
<1>4. m.type = "left" /\ m \in Messages
  <2> DEFINE x == s.id
  <2>1. x \in Ids \cup {NoPeer} /\ FALSE \in BOOLEAN
    BY <1>1
  <2> HIDE DEF x
  <2>2. LET y == Message("left", x, FALSE, NoDesc)
        IN  y \in Messages /\ y.type = "left"
    BY <2>1, NoDescType DEF Message, Messages
  <2> QED
    BY <2>2 DEF x
<1>5. Younger(o, d, s)
  BY <1>1 DEF Roles, Ranked
<1> HIDE DEF s, o, d, d2, t, m, q
<1>6. At(<<>>) = {}
  BY EmptySeq DEF At
<1>7. \A i \in At(d2) : (i \in At(d) /\ d2[i] = d[i]) \/ d2[i] = m
  <2>1. CASE d2 = d
    BY <2>1
  <2>2. CASE d2 = Append(d, m)
    <3>1. Extended(d2, d, m)
      BY <1>1, <1>4, <2>2, AppendExtends
    <3> QED
      BY <3>1 DEF Extended
  <2> QED
    BY <1>2, <2>1, <2>2 DEF Announced
<1>8. Younger(t, <<>>, o)
  BY <1>6 DEF Younger
<1>9. Younger(o, d2, t)
  BY <1>3, <1>4, <1>5, <1>7 DEF Younger
<1>10. Ranked(t, <<>>, o, d2) /\ Ranked(o, d2, t, <<>>)
  BY <1>3, <1>8, <1>9 DEF Ranked, Seniority
<1> QED
  BY <1>2, <1>10, BothRanked DEF d2, q

LEMMA RolesInit == Init => Roles
<1> SUFFICES ASSUME Init, NEW p \in Pages
             PROVE  Ranked(page[p], chan[p], page[Other(p)], chan[Other(p)])
  BY DEF Roles
<1>1. page[p] = Loaded(NoPeer) /\ chan[p] = <<>>
  BY DEF Init
<1>2. page[p].id = NoPeer
  BY <1>1, LoadedEffect
<1>3. At(chan[p]) = {}
  BY <1>1, EmptySeq DEF At
<1> QED
  BY <1>2, <1>3 DEF Ranked, Younger, Seniority

LEMMA RolesStep ==
    ASSUME TypeOK, Acquaintance, Roles, [Next]_vars
    PROVE  Roles'
<1>1. CASE UNCHANGED vars
  BY <1>1 DEF vars, Roles
<1>2. CASE Next
  BY <1>2, StepKinds, WorkRoles, ReadRoles, ArriveRoles, DepartRoles
<1> QED
  BY <1>1, <1>2

\* Of two pages that talk to each other the younger one is impolite.
LEMMA YoungerIsImpolite ==
    ASSUME NEW s \in PageRecord, NEW o \in PageRecord, NEW c, NEW d, NEW n,
           Acquainted(s, c, o, n), Acquainted(o, d, s, n), Ranked(s, c, o, d),
           s.id # NoPeer, o.id # NoPeer, s.peer = o.id, o.peer = s.id, o.id < s.id
    PROVE  s.impolite /\ ~o.impolite
<1>1. s.pc /\ o.pc
  BY DEF Acquainted, Alone
<1>2. \A i \in At(c) : c[i].type # "welcome"
  BY <1>1 DEF Acquainted, Welcomed
<1>3. \A i \in At(d) : ~(d[i].type = "joined" /\ d[i].from = s.id)
  <2>1. SUFFICES ASSUME NEW i \in At(d), d[i].type = "joined", d[i].from = s.id
                 PROVE  FALSE
    OBVIOUS
  <2>2. o.peer < d[i].from
    BY <2>1 DEF Acquainted, InOrder, Arrives
  <2>3. s.id \in Nat
    BY DEF PageRecord, Ids, NoPeer
  <2> QED
    BY <2>1, <2>2, <2>3
<1> QED
  BY <1>2, <1>3 DEF Ranked, Seniority

\* Two pages that talk to each other have opposite roles.
LEMMA Opposed ==
    ASSUME NEW s \in PageRecord, NEW o \in PageRecord, NEW c \in Seq(Messages),
           NEW d \in Seq(Messages), NEW n, Acquainted(s, c, o, n), Acquainted(o, d, s, n),
           Ranked(s, c, o, d), Ranked(o, d, s, c),
           s.id # NoPeer, o.id # NoPeer, s.peer = o.id, o.peer = s.id
    PROVE  s.impolite <=> ~o.impolite
<1>1. s.id \in Nat /\ o.id \in Nat /\ s.id # o.id
  BY DEF PageRecord, Ids, NoPeer, Acquainted, UpToDate
<1>2. CASE o.id < s.id
  BY <1>2, YoungerIsImpolite
<1>3. CASE s.id < o.id
  BY <1>3, YoungerIsImpolite
<1> QED
  BY <1>1, <1>2, <1>3

\* Two pages that talk to each other and have nothing more to read.
LEMMA RolesAtRest ==
    ASSUME TypeOK, Acquaintance, Roles
    PROVE  OneImpolite
<1> SUFFICES ASSUME AtRest
             PROVE  \E p \in Pages : page[p].impolite /\ ~page[Other(p)].impolite
  BY DEF OneImpolite
<1>1. PICK p \in Pages : TRUE
  BY PagesAssumption
<1> DEFINE q == Other(p)
<1>2. /\ q \in Pages /\ Other(q) = p /\ page[p] \in PageRecord /\ page[q] \in PageRecord
      /\ chan[p] \in Seq(Messages) /\ chan[q] \in Seq(Messages)
      /\ Acquainted(page[p], chan[p], page[q], joins) /\ Acquainted(page[q], chan[q], page[p], joins)
  BY SeatTypes
<1>3. Ranked(page[p], chan[p], page[q], chan[q]) /\ Ranked(page[q], chan[q], page[p], chan[p])
  BY <1>2 DEF Roles
<1>4. /\ page[p].id # NoPeer /\ page[q].id # NoPeer
      /\ page[p].peer = page[q].id /\ page[q].peer = page[p].id
  BY <1>2 DEF AtRest, Paired, Present
<1>5. page[p].impolite <=> ~page[q].impolite
  <2> DEFINE s == page[p]
             o == page[q]
             c == chan[p]
             d == chan[q]
  <2> HIDE DEF s, o, c, d
  <2> SUFFICES s.impolite <=> ~o.impolite
    BY DEF s, o
  <2> QED
    BY <1>2, <1>3, <1>4, Opposed DEF s, o, c, d
<1> QED
  BY <1>2, <1>5

-------------------------------------------------------------------------------
(* Layer three: one offer is made at a time, and an impolite page never    *)
(* turns to an offer of the other page while it makes one of its own or    *)
(* waits for the answer.                                                   *)

\* The sequence e is c without its first element.
Shifted(e, c) ==
    /\ Len(c) = Len(e) + 1 /\ Len(e) \in Nat /\ 1 \in At(c)
    /\ \A i \in At(e) : i \in Nat \ {0} /\ i + 1 \in At(c) /\ e[i] = c[i + 1]
    /\ \A i \in At(c) : i # 1 => i - 1 \in At(e) /\ e[i - 1] = c[i]

LEMMA TailShifts ==
    ASSUME NEW S, NEW c \in Seq(S), c # <<>>
    PROVE  Tail(c) \in Seq(S) /\ Shifted(Tail(c), c) /\ c[1] \in S
<1> DEFINE e == Tail(c)
<1>1. /\ e \in Seq(S) /\ Len(e) = Len(c) - 1 /\ Len(c) \in Nat \ {0}
      /\ Head(c) = c[1] /\ 1 \in At(c) /\ Head(c) \in S
      /\ \A i \in At(e) : i \in Nat /\ i + 1 \in At(c) /\ e[i] = c[i + 1]
  BY Tailed
<1> HIDE DEF e
<1>2. \A i \in At(e) : i \in Nat \ {0}
  BY <1>1 DEF At
<1>3. ASSUME NEW i \in At(c), i # 1
      PROVE  i - 1 \in At(e) /\ e[i - 1] = c[i]
  <2> DEFINE j == i - 1
  <2>1. j \in At(e) /\ j + 1 = i
    BY <1>1, <1>3 DEF At
  <2> HIDE DEF j
  <2>2. e[j] = c[i]
    BY <1>1, <2>1
  <2> QED
    BY <2>1, <2>2 DEF j
<1>4. Len(c) = Len(e) + 1 /\ Len(e) \in Nat
  BY <1>1
<1> QED
  BY <1>1, <1>2, <1>3, <1>4 DEF Shifted, e

Offering == {"createOffer", "setOffer"}

\* At most one offer is in the making, and the page knows whether there is one.
Making(ch, making) ==
    /\ making <=> \E i \in At(ch) : ch[i].op \in Offering
    /\ \A i, j \in At(ch) : ch[i].op \in Offering /\ ch[j].op \in Offering => i = j

\* No offer of the other page waits behind an own one.
Guarded(ch) ==
    \A i, j \in At(ch) : ch[i].op = "setRemote" /\ j <= i => ch[j].op \notin Offering

NoRemote(ch) == \A i \in At(ch) : ch[i].op # "setRemote"

Upright(s) ==
    /\ Making(s.chain, s.making)
    /\ s.sig = "local" => ~s.making
    /\ s.impolite => Guarded(s.chain) /\ (s.sig = "local" => NoRemote(s.chain))

Steadfast == \A p \in Pages : Upright(page[p])

LEMMA ShiftedMaking ==
    ASSUME NEW e, NEW c, Shifted(e, c), NEW making, Making(c, making)
    PROVE  /\ c[1].op \in Offering => Making(e, FALSE)
           /\ c[1].op \notin Offering => Making(e, making)
<1>1. \A i \in At(e) : i \in Nat \ {0} /\ i + 1 \in At(c) /\ e[i] = c[i + 1] /\ i + 1 # 1
  BY DEF Shifted
<1>2. \A i, j \in At(e) : e[i].op \in Offering /\ e[j].op \in Offering => i = j
  BY <1>1 DEF Making
<1>3. CASE c[1].op \in Offering
  <2>1. 1 \in At(c)
    BY DEF Shifted
  <2>2. \A i \in At(e) : e[i].op \notin Offering
    BY <1>1, <1>3, <2>1 DEF Making
  <2> QED
    BY <1>3, <2>2 DEF Making
<1>4. CASE c[1].op \notin Offering
  <2>1. (\E i \in At(e) : e[i].op \in Offering) => making
    BY <1>1 DEF Making
  <2>2. making => \E i \in At(e) : e[i].op \in Offering
    BY <1>4 DEF Making, Shifted
  <2> QED
    BY <1>2, <1>4, <2>1, <2>2 DEF Making
<1> QED
  BY <1>3, <1>4

LEMMA ExtendedMaking ==
    ASSUME NEW e, NEW c, NEW x, Extended(e, c, x), NEW making \in BOOLEAN, Making(c, making)
    PROVE  /\ x.op \notin Offering => Making(e, making)
           /\ x.op \in Offering /\ ~making => Making(e, TRUE)
<1>1. /\ \A i \in At(c) : e[i] = c[i] /\ i \in At(e)
      /\ \A i \in At(e) : (i \in At(c) /\ e[i] = c[i]) \/ (i = Len(c) + 1 /\ e[i] = x)
      /\ Len(c) + 1 \in At(e) /\ e[Len(c) + 1] = x
  BY DEF Extended
<1>2. CASE x.op \notin Offering
  BY <1>1, <1>2 DEF Making
<1>3. CASE x.op \in Offering /\ ~making
  BY <1>1, <1>3 DEF Making
<1> QED
  BY <1>2, <1>3

LEMMA ShiftedGuard ==
    ASSUME NEW e, NEW c, Shifted(e, c)
    PROVE  /\ Guarded(c) => Guarded(e)
           /\ Guarded(c) /\ c[1].op \in Offering => NoRemote(e)
           /\ NoRemote(c) => NoRemote(e)
<1>1. \A i \in At(e) : i \in Nat \ {0} /\ i + 1 \in At(c) /\ e[i] = c[i + 1] /\ 1 <= i + 1
  BY DEF Shifted
<1>2. 1 \in At(c)
  BY DEF Shifted
<1>3. ASSUME Guarded(c)
      PROVE  Guarded(e)
  <2>1. \A i, j \in At(e) : j <= i => j + 1 <= i + 1
    BY <1>1
  <2> QED
    BY <1>1, <1>3, <2>1 DEF Guarded
<1>4. ASSUME Guarded(c), c[1].op \in Offering
      PROVE  NoRemote(e)
  BY <1>1, <1>2, <1>4 DEF Guarded, NoRemote
<1>5. ASSUME NoRemote(c)
      PROVE  NoRemote(e)
  BY <1>1, <1>5 DEF NoRemote
<1> QED
  BY <1>3, <1>4, <1>5

LEMMA ExtendedGuard ==
    ASSUME NEW e, NEW c, NEW x, Extended(e, c, x)
    PROVE  /\ Guarded(c) /\ x.op # "setRemote" => Guarded(e)
           /\ (\A i \in At(c) : c[i].op \notin Offering) /\ x.op \notin Offering => Guarded(e)
           /\ NoRemote(c) /\ x.op # "setRemote" => NoRemote(e)
<1>1. \A i \in At(e) : (i \in At(c) /\ i <= Len(c) /\ i \in Nat /\ e[i] = c[i]) \/ (i = Len(c) + 1 /\ e[i] = x)
  BY DEF Extended
<1>2. Len(c) \in Nat
  BY DEF Extended
<1>3. ASSUME Guarded(c), x.op # "setRemote"
      PROVE  Guarded(e)
  <2>1. SUFFICES ASSUME NEW i \in At(e), NEW j \in At(e), e[i].op = "setRemote", j <= i
                 PROVE  e[j].op \notin Offering
    BY DEF Guarded
  <2>2. i \in At(c) /\ i <= Len(c) /\ i \in Nat /\ e[i] = c[i]
    BY <1>1, <1>3, <2>1
  <2>3. j \in At(c) /\ e[j] = c[j]
    BY <1>1, <1>2, <2>1, <2>2
  <2> QED
    BY <1>3, <2>1, <2>2, <2>3 DEF Guarded
<1>4. ASSUME \A i \in At(c) : c[i].op \notin Offering, x.op \notin Offering
      PROVE  Guarded(e)
  BY <1>1, <1>4 DEF Guarded
<1>5. ASSUME NoRemote(c), x.op # "setRemote"
      PROVE  NoRemote(e)
  BY <1>1, <1>5 DEF NoRemote
<1> QED
  BY <1>3, <1>4, <1>5

LEMMA AskedUpright ==
    ASSUME NEW s \in PageRecord, NEW rest \in Seq(Ops), NEW w, NEW making \in BOOLEAN,
           Asked(w, making, s, rest), Making(rest, s.making)
    PROVE  /\ Making(w, making) /\ w \in Seq(Ops)
           /\ Guarded(rest) => Guarded(w)
           /\ NoRemote(rest) => NoRemote(w)
<1>1. CASE w = rest /\ (making <=> s.making)
  BY <1>1 DEF Making
<1>2. CASE /\ s.peer # NoPeer /\ ~s.making /\ making
           /\ w = Append(rest, Op("createOffer", s.peer, NoDesc))
  <2> DEFINE x == Op("createOffer", s.peer, NoDesc)
  <2>1. s.peer \in Ids
    BY <1>2 DEF PageRecord
  <2>2. x \in Ops /\ x.op = "createOffer"
    BY <2>1, OpType, NoDescType
  <2> HIDE DEF x
  <2>3. w = Append(rest, x)
    BY <1>2 DEF x
  <2>4. w \in Seq(Ops) /\ Extended(w, rest, x)
    BY <2>2, <2>3, AppendExtends
  <2>5. Making(w, TRUE)
    <3>1. Making(rest, FALSE)
      BY <1>2 DEF Making
    <3>2. x.op \in Offering
      BY <2>2 DEF Offering
    <3> QED
      BY <2>4, <3>1, <3>2, ExtendedMaking
  <2>6. (Guarded(rest) => Guarded(w)) /\ (NoRemote(rest) => NoRemote(w))
    BY <2>2, <2>4, ExtendedGuard
  <2> QED
    BY <1>2, <2>4, <2>5, <2>6 DEF Making
<1> QED
  BY <1>1, <1>2 DEF Asked

\* The operation at hand, and the chain without it.
LEMMA TookRest ==
    ASSUME NEW s \in PageRecord, NEW op, Took(s, op)
    PROVE  /\ Tail(s.chain) \in Seq(Ops) /\ Shifted(Tail(s.chain), s.chain)
           /\ s.chain[1] \in Ops /\ s.chain[1].op = op
           /\ s.chain[1].to \in Ids /\ s.chain[1].desc \in Descs /\ s.chain \in Seq(Ops)
<1>1. s.chain \in Seq(Ops) /\ s.chain # <<>> /\ s.chain[1].op = op
  BY DEF PageRecord, Took
<1>2. Tail(s.chain) \in Seq(Ops) /\ Shifted(Tail(s.chain), s.chain) /\ s.chain[1] \in Ops
  BY <1>1, TailShifts
<1>3. s.chain[1].to \in Ids /\ s.chain[1].desc \in Descs
  BY <1>2 DEF Ops
<1> QED
  BY <1>1, <1>2, <1>3

\* The operation that follows the one at hand.
LEMMA FollowUp ==
    ASSUME NEW s \in PageRecord, NEW op, Took(s, op), NEW desc \in Descs,
           NEW next \in {"setOffer", "addHeld", "createAnswer", "setAnswer"}
    PROVE  LET x == Op(next, s.chain[1].to, desc)
           IN  x \in Ops /\ x.op = next /\ x.to = s.chain[1].to /\ x.desc = desc
<1> DEFINE to == s.chain[1].to
<1>1. to \in Ids
  BY TookRest
<1> HIDE DEF to
<1>2. LET x == Op(next, to, desc)
      IN  x \in Ops /\ x.op = next /\ x.to = to /\ x.desc = desc
  BY <1>1 DEF Op, Ops
<1> QED
  BY <1>2 DEF to

LEMMA AnswerDescType ==
    ASSUME NEW s \in PageRecord, NEW desc \in Descs
    PROVE  LET a == [desc EXCEPT !.dir = s.dir] IN a \in Descs /\ a.offer = desc.offer
<1> DEFINE dir == s.dir
<1>1. dir \in Directions
  BY DEF PageRecord
<1> HIDE DEF dir
<1>2. LET a == [desc EXCEPT !.dir = dir] IN a \in Descs /\ a.offer = desc.offer
  BY <1>1 DEF Descs
<1> QED
  BY <1>2 DEF dir

LEMMA WorkedUpright ==
    ASSUME NEW s \in PageRecord, NEW t \in PageRecord, NEW o, NEW d, NEW d2,
           Worked(t, s, o, d2, d), Upright(s)
    PROVE  Upright(t)
<1> DEFINE ch == s.chain
           h == s.chain[1]
           rest == Tail(s.chain)
<1>1. /\ Making(ch, s.making) /\ (s.sig = "local" => ~s.making)
      /\ s.impolite => Guarded(ch) /\ (s.sig = "local" => NoRemote(ch))
  BY DEF Upright
<1>2. /\ (t.impolite <=> s.impolite) /\ t.making \in BOOLEAN /\ s.making \in BOOLEAN
      /\ s.chain \in Seq(Ops) /\ s.sig \in {"stable", "local", "remote"}
  BY DEF Worked, SameView, PageRecord
<1>3. ASSUME NEW op, Took(s, op)
      PROVE  /\ rest \in Seq(Ops) /\ h.op = op
             /\ op \in Offering => Making(rest, FALSE)
             /\ op \notin Offering => Making(rest, s.making)
             /\ Guarded(ch) => Guarded(rest)
             /\ Guarded(ch) /\ op \in Offering => NoRemote(rest)
             /\ NoRemote(ch) => NoRemote(rest)
  <2>1. rest \in Seq(Ops) /\ Shifted(rest, ch) /\ h.op = op
    BY <1>3, TookRest
  <2> HIDE DEF rest, ch
  <2>2. (h.op \in Offering => Making(rest, FALSE)) /\ (h.op \notin Offering => Making(rest, s.making))
    BY <1>1, <2>1, ShiftedMaking DEF ch
  <2>3. /\ Guarded(ch) => Guarded(rest)
        /\ Guarded(ch) /\ h.op \in Offering => NoRemote(rest)
        /\ NoRemote(ch) => NoRemote(rest)
    BY <2>1, ShiftedGuard DEF ch
  <2> QED
    BY <2>1, <2>2, <2>3
\* One operation follows another.
<1>4. ASSUME NEW op, Took(s, op), NEW next \in {"setOffer", "addHeld", "createAnswer", "setAnswer"},
             NEW desc \in Descs, NEW base \in Seq(Ops), NEW w, NEW making \in BOOLEAN, Making(base, making),
             next \in Offering => ~making,
             w = Append(base, Op(next, s.chain[1].to, desc))
      PROVE  /\ next \in Offering => Making(w, TRUE)
             /\ next \notin Offering => Making(w, making)
             /\ Guarded(base) => Guarded(w)
             /\ NoRemote(base) => NoRemote(w)
  <2> DEFINE x == Op(next, s.chain[1].to, desc)
  <2>1. x \in Ops /\ x.op = next
    BY <1>4, FollowUp
  <2>2. x.op # "setRemote" /\ base \in Seq(Ops) /\ w = Append(base, x)
    BY <1>4, <2>1
  <2> HIDE DEF x
  <2>3. Extended(w, base, x)
    BY <2>1, <2>2, AppendExtends
  <2>4. Making(base, making) /\ making \in BOOLEAN
    BY <1>4
  <2>5. /\ x.op \notin Offering => Making(w, making)
        /\ x.op \in Offering /\ ~making => Making(w, TRUE)
    BY <2>3, <2>4, ExtendedMaking
  <2> QED
    BY <1>4, <2>1, <2>2, <2>3, <2>5, ExtendedGuard
<1> HIDE DEF ch, h, rest
<1>14. ASSUME NEW op, Took(s, op), NEW next \in {"addHeld", "createAnswer", "setAnswer"},
              NEW desc \in Descs, NEW w, Making(rest, s.making), rest \in Seq(Ops),
              w = Append(rest, Op(next, s.chain[1].to, desc))
       PROVE  /\ Making(w, s.making)
              /\ Guarded(rest) => Guarded(w)
              /\ NoRemote(rest) => NoRemote(w)
  <2> DEFINE b == s.making
  <2>1. b \in BOOLEAN /\ Making(rest, b)
    BY <1>2, <1>14
  <2>2. next \in {"setOffer", "addHeld", "createAnswer", "setAnswer"} /\ next \notin Offering
    BY <1>14 DEF Offering
  <2> DEFINE x == Op(next, s.chain[1].to, desc)
  <2>3. x \in Ops /\ x.op = next
    BY <1>14, <2>2, FollowUp
  <2>4. x.op # "setRemote" /\ x.op \notin Offering /\ w = Append(rest, x) /\ rest \in Seq(Ops)
    BY <1>14, <2>2, <2>3
  <2> HIDE DEF b, x
  <2>5. Extended(w, rest, x)
    BY <2>3, <2>4, AppendExtends
  <2>6. Making(w, b)
    <3>1. /\ x.op \notin Offering => Making(w, b)
          /\ x.op \in Offering /\ ~b => Making(w, TRUE)
      BY <2>1, <2>5, ExtendedMaking
    <3> QED
      BY <2>4, <3>1
  <2>7. (Guarded(rest) => Guarded(w)) /\ (NoRemote(rest) => NoRemote(w))
    BY <2>4, <2>5, ExtendedGuard
  <2> QED
    BY <2>6, <2>7 DEF b
<1>5. CASE CreatedOffer(t, s)
  <2>1. Took(s, "createOffer") /\ "createOffer" \in Offering /\ t.sig = s.sig
    BY <1>5 DEF CreatedOffer, Offering
  <2>2. Making(rest, FALSE) /\ (Guarded(ch) => Guarded(rest) /\ NoRemote(rest)) /\ rest \in Seq(Ops)
    BY <1>3, <2>1
  <2>3. s.making /\ s.sig # "local"
    <3>1. 1 \in At(ch) /\ ch[1].op \in Offering
      BY <2>1, TookRest DEF Shifted, ch
    <3> QED
      BY <1>1, <3>1 DEF Making
  <2>4. CASE s.sig # "stable" /\ ~t.making /\ t.chain = rest
    <3>1. Making(t.chain, t.making)
      BY <2>2, <2>4 DEF Making
    <3> QED
      BY <1>1, <1>2, <2>1, <2>2, <2>3, <2>4, <3>1 DEF Upright
  <2>5. CASE /\ s.sig = "stable" /\ (t.making <=> s.making)
             /\ t.chain = Append(rest, Op("setOffer", s.chain[1].to,
                                          [dir |-> s.dir, offer |-> s.offers + 1]))
    <3>1. [dir |-> s.dir, offer |-> s.offers + 1] \in Descs
      BY DEF Descs, PageRecord
    <3>2. "setOffer" \in Offering
      BY DEF Offering
    <3> DEFINE offer == [dir |-> s.dir, offer |-> s.offers + 1]
    <3>4. offer \in Descs /\ t.chain = Append(rest, Op("setOffer", s.chain[1].to, offer))
      BY <2>5, <3>1
    <3> HIDE DEF offer
    <3>5. Making(t.chain, TRUE) /\ (NoRemote(rest) => NoRemote(t.chain)) /\ (Guarded(rest) => Guarded(t.chain))
      BY <1>4, <2>1, <2>2, <3>2, <3>4
    <3>6. t.making = TRUE
      BY <1>2, <2>3, <2>5
    <3> QED
      BY <1>1, <1>2, <2>1, <2>2, <2>3, <2>5, <3>5, <3>6 DEF Upright
  <2> QED
    BY <1>5, <2>4, <2>5 DEF CreatedOffer, rest
<1>6. CASE AppliedOffer(t, s, o, d2, d)
  <2>1. Took(s, "setOffer") /\ "setOffer" \in Offering /\ t.chain = rest /\ ~t.making
    BY <1>6 DEF AppliedOffer, Offering, rest
  <2>2. Making(rest, FALSE) /\ (Guarded(ch) => Guarded(rest) /\ NoRemote(rest))
    BY <1>3, <2>1
  <2>3. Making(t.chain, t.making)
    BY <2>1, <2>2 DEF Making
  <2> QED
    BY <1>1, <1>2, <2>1, <2>2, <2>3 DEF Upright
<1>7. CASE HeardOffer(t, s)
  <2>1. Took(s, "setRemote") /\ "setRemote" \notin Offering /\ t.sig = "remote" /\ (t.making <=> s.making)
    BY <1>7 DEF HeardOffer, Offering
  <2>2. PICK op \in {"addHeld", "createAnswer"} : t.chain = Append(rest, Op(op, s.chain[1].to, s.chain[1].desc))
    BY <1>7 DEF HeardOffer, rest
  <2>3. rest \in Seq(Ops) /\ Making(rest, s.making) /\ (Guarded(ch) => Guarded(rest))
    BY <1>3, <2>1
  <2>4. /\ op \in {"setOffer", "addHeld", "createAnswer", "setAnswer"} /\ op \notin Offering
        /\ s.chain[1].desc \in Descs
    BY <2>1, TookRest DEF Offering
  <2>5. Making(t.chain, s.making) /\ (Guarded(rest) => Guarded(t.chain))
    <3> DEFINE desc == s.chain[1].desc
    <3>1. desc \in Descs /\ t.chain = Append(rest, Op(op, s.chain[1].to, desc))
      BY <2>2, <2>4
    <3> HIDE DEF desc
    <3> QED
      BY <1>14, <2>1, <2>3, <3>1
  <2>6. Making(t.chain, t.making)
    BY <2>1, <2>5 DEF Making
  <2> QED
    BY <1>1, <1>2, <2>1, <2>3, <2>5, <2>6 DEF Upright
<1>8. CASE HeardAnswer(t, s)
  <2>1. Took(s, "setAnswered") /\ "setAnswered" \notin Offering
    BY <1>8 DEF HeardAnswer, Offering
  <2>2. /\ rest \in Seq(Ops) /\ Making(rest, s.making) /\ (Guarded(ch) => Guarded(rest))
        /\ (NoRemote(ch) => NoRemote(rest))
    BY <1>3, <2>1
  <2>3. CASE s.sig # "local" /\ t.sig = s.sig /\ (t.making <=> s.making) /\ t.chain = rest
    <3>1. Making(t.chain, t.making)
      BY <2>2, <2>3 DEF Making
    <3> QED
      BY <1>1, <1>2, <2>2, <2>3, <3>1 DEF Upright
  <2>4. ASSUME s.sig = "local", t.sig = "stable", NEW w \in Seq(Ops), Asked(w, t.making, s, rest),
               t.chain = w \/ t.chain = Append(w, Op("addHeld", s.chain[1].to, NoDesc))
        PROVE  Upright(t)
    <3>1. Making(w, t.making) /\ (Guarded(rest) => Guarded(w))
      BY <1>2, <2>2, <2>4, AskedUpright
    <3>2. "addHeld" \notin Offering /\ NoDesc \in Descs
      BY NoDescType DEF Offering
    <3>3. Making(t.chain, t.making) /\ (Guarded(w) => Guarded(t.chain))
      BY <1>2, <1>4, <2>1, <2>4, <3>1, <3>2
    <3> QED
      BY <1>1, <1>2, <2>2, <2>4, <3>1, <3>3 DEF Upright
  <2> QED
    BY <1>8, <2>3, <2>4 DEF HeardAnswer, rest
<1>9. CASE AddedHeld(t, s)
  <2>1. Took(s, "addHeld") /\ "addHeld" \notin Offering /\ "createAnswer" \notin Offering
        /\ t.sig = s.sig /\ (t.making <=> s.making)
    BY <1>9 DEF AddedHeld, Offering
  <2>2. /\ rest \in Seq(Ops) /\ Making(rest, s.making) /\ (Guarded(ch) => Guarded(rest))
        /\ (NoRemote(ch) => NoRemote(rest)) /\ s.chain[1].desc \in Descs
    BY <1>3, <2>1, TookRest
  <2>3. /\ Making(t.chain, s.making) /\ (Guarded(rest) => Guarded(t.chain))
        /\ (NoRemote(rest) => NoRemote(t.chain))
    <3>1. CASE t.chain = rest
      BY <2>2, <3>1
    <3>2. CASE t.chain = Append(rest, Op("createAnswer", s.chain[1].to, s.chain[1].desc))
      BY <1>14, <2>1, <2>2, <3>2
    <3> QED
      BY <1>9, <3>1, <3>2 DEF AddedHeld, rest
  <2>4. Making(t.chain, t.making)
    BY <2>1, <2>3 DEF Making
  <2> QED
    BY <1>1, <1>2, <2>1, <2>2, <2>3, <2>4 DEF Upright
<1>10. CASE CreatedAnswer(t, s)
  <2>1. Took(s, "createAnswer") /\ "createAnswer" \notin Offering /\ "setAnswer" \notin Offering
        /\ t.sig = s.sig /\ (t.making <=> s.making)
    BY <1>10 DEF CreatedAnswer, Offering
  <2> DEFINE a == [s.chain[1].desc EXCEPT !.dir = s.dir]
  <2>2. /\ rest \in Seq(Ops) /\ Making(rest, s.making) /\ (Guarded(ch) => Guarded(rest))
        /\ (NoRemote(ch) => NoRemote(rest)) /\ s.chain[1].desc \in Descs
    BY <1>3, <2>1, TookRest
  <2>3. a \in Descs
    BY <2>2, AnswerDescType
  <2>4. t.chain = rest \/ t.chain = Append(rest, Op("setAnswer", s.chain[1].to, a))
    BY <1>10 DEF CreatedAnswer, rest
  <2> HIDE DEF a
  <2>5. /\ Making(t.chain, s.making) /\ (Guarded(rest) => Guarded(t.chain))
        /\ (NoRemote(rest) => NoRemote(t.chain))
    BY <1>14, <2>1, <2>2, <2>3, <2>4
  <2>6. Making(t.chain, t.making)
    BY <2>1, <2>5 DEF Making
  <2> QED
    BY <1>1, <1>2, <2>1, <2>2, <2>5, <2>6 DEF Upright
<1>11. CASE AppliedAnswer(t, s, o, d2, d)
  <2>1. Took(s, "setAnswer") /\ "setAnswer" \notin Offering
    BY <1>11 DEF AppliedAnswer, Offering
  <2>2. /\ rest \in Seq(Ops) /\ Making(rest, s.making) /\ (Guarded(ch) => Guarded(rest))
        /\ (NoRemote(ch) => NoRemote(rest))
    BY <1>3, <2>1
  <2>3. CASE t.sig = s.sig /\ (t.making <=> s.making) /\ t.chain = rest
    <3>1. Making(t.chain, t.making)
      BY <2>2, <2>3 DEF Making
    <3> QED
      BY <1>1, <1>2, <2>2, <2>3, <3>1 DEF Upright
  <2>4. CASE t.sig = "stable" /\ Asked(t.chain, t.making, s, rest)
    <3>1. Making(t.chain, t.making) /\ (Guarded(rest) => Guarded(t.chain))
      BY <1>2, <2>2, <2>4, AskedUpright
    <3> QED
      BY <1>1, <1>2, <2>2, <2>4, <3>1 DEF Upright
  <2> QED
    BY <1>11, <2>3, <2>4 DEF AppliedAnswer, rest
<1>12. CASE FoundCandidate(t, s, o, d2, d)
  <2>1. t.sig = s.sig /\ (t.making <=> s.making) /\ t.chain = ch
    BY <1>12 DEF FoundCandidate, ch
  <2>2. Making(t.chain, t.making)
    BY <1>1, <2>1 DEF Making
  <2> QED
    BY <1>1, <1>2, <2>1, <2>2 DEF Upright
<1>13. CASE Toggled(t, s)
  <2>1. /\ t.sig = s.sig /\ Asked(t.chain, t.making, s, ch)
        /\ (s.making \/ s.sig # "stable") => t.chain = ch /\ (t.making <=> s.making)
    BY <1>13 DEF Toggled, ch
  <2>2. ch \in Seq(Ops)
    BY <1>2 DEF ch
  <2>3. Making(t.chain, t.making) /\ (Guarded(ch) => Guarded(t.chain)) /\ (NoRemote(ch) => NoRemote(t.chain))
    BY <1>1, <1>2, <2>1, <2>2, AskedUpright
  <2> QED
    BY <1>1, <1>2, <2>1, <2>3 DEF Upright
<1> QED
  BY <1>5, <1>6, <1>7, <1>8, <1>9, <1>10, <1>11, <1>12, <1>13 DEF Worked

LEMMA EmptyUpright ==
    ASSUME NEW t, t.chain = <<>>, ~t.making
    PROVE  Upright(t)
<1>1. At(<<>>) = {}
  BY EmptySeq DEF At
<1> QED
  BY <1>1 DEF Upright, Making, Guarded, NoRemote

LEMMA ReadUpright ==
    ASSUME NEW s \in PageRecord, NEW t \in PageRecord, NEW m \in Messages, Read(t, s, m),
           Upright(s)
    PROVE  Upright(t)
<1> DEFINE ch == s.chain
<1>1. /\ Making(ch, s.making) /\ (s.sig = "local" => ~s.making)
      /\ s.impolite => Guarded(ch) /\ (s.sig = "local" => NoRemote(ch))
  BY DEF Upright
<1>2. /\ t.making \in BOOLEAN /\ s.making \in BOOLEAN /\ ch \in Seq(Ops)
      /\ s.peer # NoPeer => s.peer \in Ids
  BY DEF PageRecord
<1>3. CASE ReadWelcome(t, s, m)
  <2>1. CASE Reset(t)
    BY <2>1, EmptyUpright DEF Reset
  <2>2. CASE m.second
    <3> DEFINE x == Op("createOffer", m.from, NoDesc)
    <3>1. t.chain = Append(<<>>, x) /\ t.making /\ t.sig = "stable"
      BY <1>3, <2>2 DEF ReadWelcome, Reset
    <3>2. x \in Ops /\ x.op = "createOffer"
      <4>1. m.from \in Ids
        BY <1>3, <2>2 DEF ReadWelcome, Messages
      <4> QED
        BY <4>1, OpType, NoDescType
    <3> HIDE DEF x
    <3>3. <<>> \in Seq(Ops) /\ Len(<<>>) = 0 /\ At(<<>>) = {}
      BY EmptySeq DEF At
    <3>4. Extended(t.chain, <<>>, x)
      BY <3>1, <3>2, <3>3, AppendExtends
    <3>5. \A i \in At(t.chain) : i = 1 /\ t.chain[i].op = "createOffer"
      BY <3>2, <3>3, <3>4 DEF Extended
    <3>6. 1 \in At(t.chain)
      BY <3>3, <3>4 DEF Extended
    <3>7. Making(t.chain, t.making)
      BY <3>1, <3>5, <3>6 DEF Making, Offering
    <3>8. Guarded(t.chain) /\ NoRemote(t.chain)
      BY <3>5 DEF Guarded, NoRemote
    <3> QED
      BY <3>1, <3>7, <3>8 DEF Upright
  <2> QED
    BY <1>3, <2>1, <2>2 DEF ReadWelcome
<1>4. CASE ReadJoined(t, s, m) \/ ReadLeft(t, s, m)
  BY <1>4, EmptyUpright DEF ReadJoined, ReadLeft, Reset
<1>5. ASSUME Continues(t, s)
      PROVE  (t.impolite <=> s.impolite) /\ t.sig = s.sig /\ (t.making <=> s.making)
  BY <1>5 DEF Continues, SameView
<1>6. ASSUME s.peer # NoPeer, NEW op \in {"setRemote", "setAnswered"},
             t.chain = Append(ch, Op(op, s.peer, m.desc))
      PROVE  /\ Making(t.chain, s.making)
             /\ op = "setAnswered" => /\ Guarded(ch) => Guarded(t.chain)
                                      /\ NoRemote(ch) => NoRemote(t.chain)
             /\ ~s.making => Guarded(t.chain)
  <2> DEFINE x == Op(op, s.peer, m.desc)
  <2>1. x \in Ops /\ x.op = op
    <3>1. s.peer \in Ids /\ m.desc \in Descs
      BY <1>2, <1>6 DEF Messages
    <3> QED
      BY <1>6, <3>1, OpType
  <2>2. x.op \notin Offering /\ t.chain = Append(ch, x)
    BY <1>6, <2>1 DEF Offering
  <2> HIDE DEF x, ch
  <2>3. Extended(t.chain, ch, x)
    BY <1>2, <2>1, <2>2, AppendExtends
  <2>4. /\ x.op \notin Offering => Making(t.chain, s.making)
        /\ x.op \in Offering /\ ~s.making => Making(t.chain, TRUE)
    <3> DEFINE b == s.making
               e == t.chain
    <3>1. b \in BOOLEAN /\ Making(ch, b) /\ Extended(e, ch, x)
      BY <1>1, <1>2, <2>3
    <3> HIDE DEF b, e
    <3>2. /\ x.op \notin Offering => Making(e, b)
          /\ x.op \in Offering /\ ~b => Making(e, TRUE)
      BY <3>1, ExtendedMaking
    <3> QED
      BY <3>2 DEF b, e
  <2>5. /\ Guarded(ch) /\ x.op # "setRemote" => Guarded(t.chain)
        /\ (\A i \in At(ch) : ch[i].op \notin Offering) /\ x.op \notin Offering => Guarded(t.chain)
        /\ NoRemote(ch) /\ x.op # "setRemote" => NoRemote(t.chain)
    BY <2>3, ExtendedGuard
  <2>6. ~s.making => \A i \in At(ch) : ch[i].op \notin Offering
    BY <1>1 DEF Making
  <2> QED
    BY <2>1, <2>2, <2>4, <2>5, <2>6
<1>7. CASE ReadOffer(t, s, m)
  <2>1. CASE t.chain = ch
    <3>1. Making(t.chain, t.making)
      BY <1>1, <1>5, <1>7, <2>1 DEF ReadOffer, Making
    <3> QED
      BY <1>1, <1>5, <1>7, <2>1, <3>1 DEF ReadOffer, Upright
  <2>2. CASE /\ s.impolite => ~s.making /\ s.sig = "stable"
             /\ t.chain = Append(ch, Op("setRemote", s.peer, m.desc))
    <3>1. Making(t.chain, s.making) /\ (~s.making => Guarded(t.chain))
      BY <1>6, <1>7, <2>2 DEF ReadOffer
    <3>2. Making(t.chain, t.making)
      BY <1>5, <1>7, <3>1 DEF ReadOffer, Making
    <3> QED
      BY <1>1, <1>5, <1>7, <2>2, <3>1, <3>2 DEF ReadOffer, Upright
  <2> QED
    BY <1>7, <2>1, <2>2 DEF ReadOffer
<1>8. CASE ReadAnswer(t, s, m)
  <2>1. /\ Making(t.chain, s.making) /\ (Guarded(ch) => Guarded(t.chain))
        /\ (NoRemote(ch) => NoRemote(t.chain))
    BY <1>6, <1>8 DEF ReadAnswer
  <2>2. Making(t.chain, t.making)
    BY <1>5, <1>8, <2>1 DEF ReadAnswer, Making
  <2> QED
    BY <1>1, <1>5, <1>8, <2>1, <2>2 DEF ReadAnswer, Upright
<1>9. CASE ReadIce(t, s, m)
  <2>1. Making(t.chain, t.making) /\ t.chain = ch
    BY <1>1, <1>5, <1>9 DEF ReadIce, Making
  <2> QED
    BY <1>1, <1>5, <1>9, <2>1 DEF ReadIce, Upright
<1> QED
  BY <1>3, <1>4, <1>7, <1>8, <1>9 DEF Read

LEMMA SteadfastInit == Init => Steadfast
<1> SUFFICES ASSUME Init, NEW p \in Pages
             PROVE  Upright(page[p])
  BY DEF Steadfast
<1>1. page[p] = Loaded(NoPeer)
  BY DEF Init
<1>2. page[p].chain = <<>> /\ ~page[p].making
  BY <1>1, LoadedEffect
<1> QED
  BY <1>2, EmptyUpright

\* The page at the other seat is not concerned.
LEMMA BothUpright ==
    ASSUME NEW p \in Pages, Steadfast, page'[Other(p)] = page[Other(p)], Upright(page'[p])
    PROVE  Steadfast'
<1>1. \A r \in Pages : Upright(page'[r])
  BY TwoSeats DEF Steadfast
<1> QED
  BY <1>1 DEF Steadfast

LEMMA SteadfastStep ==
    ASSUME TypeOK, Acquaintance, Steadfast, [Next]_vars
    PROVE  Steadfast'
<1>1. CASE UNCHANGED vars
  BY <1>1 DEF vars, Steadfast
<1>2. CASE Next
  <2>1. PICK p \in Pages : WorksAt(p) \/ ReadsAt(p) \/ ArrivesAt(p) \/ DepartsFrom(p)
    BY <1>2, StepKinds
  <2>2. page[p] \in PageRecord /\ Upright(page[p]) /\ chan[p] \in Seq(Messages)
    BY SeatTypes DEF Steadfast
  <2>3. page'[Other(p)] = page[Other(p)] /\ page'[p] \in PageRecord
    BY <2>1 DEF WorksAt, ReadsAt, ArrivesAt, DepartsFrom
  <2>4. CASE WorksAt(p)
    <3>1. Upright(page'[p])
      BY <2>2, <2>3, <2>4, WorkedUpright DEF WorksAt
    <3> QED
      BY <2>3, <3>1, BothUpright
  <2>5. CASE ReadsAt(p)
    <3>1. Read(page'[p], page[p], chan[p][1]) /\ chan[p][1] \in Messages
      BY <2>2, <2>5, Tailed DEF ReadsAt
    <3>2. Upright(page'[p])
      BY <2>2, <2>3, <3>1, ReadUpright
    <3> QED
      BY <2>3, <3>2, BothUpright
  <2>6. CASE ArrivesAt(p) \/ DepartsFrom(p)
    <3>1. PICK id \in Ids \cup {NoPeer} : page'[p] = Loaded(id)
      <4>1. CASE ArrivesAt(p)
        <5>1. joins \in 0 .. MaxJoins /\ joins' = joins + 1 /\ joins' \in 0 .. MaxJoins
          BY <4>1, TypesOfParts DEF ArrivesAt
        <5>2. joins' \in Ids
          BY <5>1, MaxJoinsAssumption DEF Ids
        <5> QED
          BY <4>1, <5>2 DEF ArrivesAt
      <4>2. CASE DepartsFrom(p)
        BY <4>2 DEF DepartsFrom
      <4> QED
        BY <2>6, <4>1, <4>2
    <3>2. page'[p].chain = <<>> /\ ~page'[p].making
      BY <3>1, LoadedEffect
    <3>3. Upright(page'[p])
      BY <3>2, EmptyUpright
    <3> QED
      BY <2>3, <3>3, BothUpright
  <2> QED
    BY <2>1, <2>4, <2>5, <2>6
<1> QED
  BY <1>1, <1>2

\* A step that turns to an offer of the other page is not one of an impolite
\* page that waits for an answer.
LEMMA OfferStands ==
    ASSUME TypeOK, Acquaintance, Steadfast, [Next]_vars, NEW r \in Pages,
           page[r].impolite, page'[r].id = page[r].id, page[r].sig = "local"
    PROVE  page'[r].sig # "remote"
<1>1. CASE UNCHANGED vars
  BY <1>1 DEF vars
<1>2. CASE Next
  <2>1. PICK p \in Pages : WorksAt(p) \/ ReadsAt(p) \/ ArrivesAt(p) \/ DepartsFrom(p)
    BY <1>2, StepKinds
  <2>2. page'[Other(p)] = page[Other(p)]
    BY <2>1 DEF WorksAt, ReadsAt, ArrivesAt, DepartsFrom
  <2>3. CASE r # p
    BY <2>2, <2>3, TwoSeats
  <2>4. CASE r = p
    <3> DEFINE s == page[p]
               t == page'[p]
    <3>1. s \in PageRecord /\ Upright(s) /\ s.impolite /\ s.sig = "local"
      BY <2>4, SeatTypes DEF Steadfast
    <3> HIDE DEF s, t
    <3>2. CASE WorksAt(p)
      <4>1. Worked(t, s, page[Other(p)], chan'[Other(p)], chan[Other(p)])
        BY <3>2 DEF WorksAt, s, t
      <4>2. ~HeardOffer(t, s)
        <5>1. HeardOffer(t, s) => 1 \in At(s.chain) /\ s.chain[1].op = "setRemote"
          BY <3>1, TookRest DEF HeardOffer, Shifted
        <5> QED
          BY <3>1, <5>1 DEF Upright, NoRemote
      <4> QED
        BY <2>4, <3>1, <4>1, <4>2
           DEF Worked, CreatedOffer, AppliedOffer, HeardAnswer, AddedHeld, CreatedAnswer,
               AppliedAnswer, FoundCandidate, Toggled, t
    <3>3. CASE ReadsAt(p)
      <4>1. Read(t, s, chan[p][1])
        BY <3>3 DEF ReadsAt, s, t
      <4> QED
        BY <2>4, <3>1, <4>1
           DEF Read, ReadWelcome, ReadJoined, ReadLeft, ReadOffer, ReadAnswer, ReadIce,
               Reset, Continues, t
    <3>4. CASE ArrivesAt(p)
      <4>1. t.id = s.id /\ s.id = NoPeer
        BY <2>4, <3>4 DEF ArrivesAt, s, t
      <4>2. joins \in 0 .. MaxJoins /\ joins' = joins + 1 /\ joins' \in 0 .. MaxJoins /\ t = Loaded(joins')
        BY <3>4, TypesOfParts DEF ArrivesAt, t
      <4>3. joins' \in Ids /\ joins' # NoPeer
        BY <4>2, MaxJoinsAssumption DEF Ids, NoPeer
      <4>4. t.id = joins'
        BY <4>2, <4>3, LoadedEffect
      <4> QED
        BY <4>1, <4>3, <4>4
    <3>5. CASE DepartsFrom(p)
      <4>1. t.id = s.id /\ s.id # NoPeer /\ t = Loaded(NoPeer)
        BY <2>4, <3>5 DEF DepartsFrom, s, t
      <4>2. t.id = NoPeer
        BY <4>1, LoadedEffect
      <4> QED
        BY <4>1, <4>2
    <3> QED
      BY <2>1, <3>2, <3>3, <3>4, <3>5
  <2> QED
    BY <2>3, <2>4
<1> QED
  BY <1>1, <1>2

-------------------------------------------------------------------------------
(* The first three layers.                                                 *)

Standing == TypeOK /\ Acquaintance /\ Roles /\ Steadfast

LEMMA StandingInit == Init => Standing
BY TypeInit, AcquaintanceInit, RolesInit, SteadfastInit DEF Standing

LEMMA StandingStep == Standing /\ [Next]_vars => Standing'
BY AcquaintanceStep, RolesStep, SteadfastStep DEF Standing

\* At any time: who talks to whom, who is impolite, and what an impolite page
\* has requested.
THEOREM StandingHolds == Spec => []Standing
BY StandingInit, StandingStep, PTL DEF Spec

\* Every variable keeps its type.
THEOREM TypeCorrectness == Spec => []TypeOK
<1>1. Standing => TypeOK
  BY DEF Standing
<1> QED
  BY <1>1, StandingHolds, PTL

\* Of two pages that know of each other exactly one is impolite once everything
\* has arrived, however often either of them was loaded anew (handleSignal).
THEOREM OneSideYields == Spec => []OneImpolite
<1>1. Standing => OneImpolite
  BY RolesAtRest DEF Standing
<1> QED
  BY <1>1, StandingHolds, PTL

\* An impolite page's offer is never rolled back, whatever offer of the other
\* page arrives and whenever the connection applies it (handleSignal, case offer).
THEOREM ImpoliteOffersStand == Spec => ImpolitePrevails
<1>1. Standing /\ [Next]_vars =>
        [\A p \in Pages : page[p].impolite /\ page'[p].id = page[p].id
            /\ page[p].sig = "local" => page'[p].sig # "remote"]_vars
  BY OfferStands DEF Standing
<1> QED
  BY <1>1, StandingHolds, PTL DEF Spec, ImpolitePrevails

===============================================================================
