------------------------ MODULE NegotiationMedia_proofs ------------------------
(***************************************************************************)
(* What the two pages agree on: every answer is applied to the offer it    *)
(* answers, and no direction is forgotten, for any number of page loads    *)
(* and of shares.                                                          *)
(***************************************************************************)
EXTENDS Negotiation_proofs

-------------------------------------------------------------------------------
(* Layer four: offers and answers.  An offer that is on its way, or that   *)
(* the other page has begun to answer, is the one its page is waiting to   *)
(* see answered; the exception is an offer that the older page takes back, *)
(* which the younger, impolite page will drop.                             *)

\* An operation that leads to an answer, and one whose offer has been applied.
Answers(x) ==
    \/ x.op \in {"setRemote", "createAnswer", "setAnswer"}
    \/ x.op = "addHeld" /\ x.desc # NoDesc
Advanced(x) == Answers(x) /\ x.op # "setRemote"

\* A message of the page that s talks to.
Near(s, m, type) == m.type = type /\ m.from = s.peer

\* No answer is on its way or waits to be applied.
NoAnswer(s, c) ==
    /\ \A i \in At(s.chain) : s.chain[i].op # "setAnswered"
    /\ \A i \in At(c) : ~Near(s, c[i], "answer")

\* The page waits for the answer to its offer n.
Awaiting(s, c, n) == s.sig = "local" /\ s.offers = n /\ NoAnswer(s, c)

\* Offers are not empty.
Described(s, c) ==
    /\ \A i \in At(s.chain) : s.chain[i].op \in {"setOffer", "setRemote"} => s.chain[i].desc # NoDesc
    /\ \A i \in At(c) : c[i].type = "offer" => c[i].desc # NoDesc

\* One offer is answered at a time.
Answering(s, c) ==
    /\ \A i \in At(s.chain) : Advanced(s.chain[i]) => s.sig = "remote"
    /\ \A i, j \in At(s.chain) : Answers(s.chain[i]) /\ Answers(s.chain[j]) => i = j
    /\ \A i \in At(s.chain), j \in At(c) : Answers(s.chain[i]) => ~Near(s, c[j], "offer")

\* There is one answer at a time, and it is the answer to the page's offer.
Answered(s, c) ==
    /\ \A i \in At(s.chain) : s.chain[i].op = "setAnswered" =>
          /\ s.sig = "local" /\ s.chain[i].desc.offer = s.offers
          /\ \A j \in At(s.chain) : s.chain[j].op = "setAnswered" => j = i
          /\ \A j \in At(c) : ~Near(s, c[j], "answer")
    /\ \A i \in At(c) : Near(s, c[i], "answer") =>
          /\ s.sig = "local" /\ c[i].desc.offer = s.offers
          /\ \A j \in At(c) : Near(s, c[j], "answer") => j = i

\* A polite page applies the answer before it turns to an offer.
AnswerFirst(s, c) ==
    ~s.impolite =>
        /\ \A i, j \in At(s.chain) :
              s.chain[i].op = "setAnswered" /\ s.chain[j].op = "setRemote" => i < j
        /\ \A i \in At(c) : Near(s, c[i], "answer") =>
              /\ \A j \in At(s.chain) : s.chain[j].op # "setRemote"
              /\ \A j \in At(c) : Near(s, c[j], "offer") => i < j

\* A polite page has one offer to read; an impolite one may have more, or an
\* answer behind the offer, only as long as it waits for an answer itself.
OneOffer(s, c) ==
    /\ ~s.impolite => \A i, j \in At(c) : Near(s, c[i], "offer") /\ Near(s, c[j], "offer") => i = j
    /\ s.impolite => \A i, j \in At(c) :
          i < j /\ Near(s, c[i], "offer") /\ (Near(s, c[j], "offer") \/ Near(s, c[j], "answer")) =>
             /\ s.sig = "local" /\ \A k \in At(s.chain) : s.chain[k].op # "setAnswered"
             /\ \A k \in At(c) : Near(s, c[k], "answer") => i < k

\* A page that s does not know of yet has sent it one offer at most.
Strangers(s, c) ==
    \A i \in At(c) : c[i].from # s.peer =>
        /\ c[i].type # "answer"
        /\ \A j \in At(c) :
              c[i].type = "offer" /\ c[j].type = "offer" /\ c[i].from = c[j].from => i = j

\* Who sends something or is answered talks to s.
Mutual(s, c, o) ==
    s.id # NoPeer =>
        /\ \A i \in At(s.chain) :
              s.chain[i].to = o.id /\ (Answers(s.chain[i]) \/ s.chain[i].op = "setAnswered")
                 => o.peer = s.id
        /\ \A i \in At(c) : c[i].type \notin Presence /\ c[i].from = o.id => o.peer = s.id

\* The page whose offer is being answered waits for the answer.
Owed(s, o, d) ==
    \A i \in At(s.chain) :
        s.chain[i].to = o.id /\ Answers(s.chain[i]) => Awaiting(o, d, s.chain[i].desc.offer)

\* So does the page whose offer is on its way, unless it took the offer back.
Offered(s, c, o, d) ==
    \A i \in At(c) : c[i].type = "offer" /\ c[i].from = o.id =>
        \/ Awaiting(o, d, c[i].desc.offer)
        \/ /\ o.id < s.id /\ s.sig = "local"
           /\ \/ \E j \in At(o.chain) : Advanced(o.chain[j])
              \/ \E j \in At(c) : i < j /\ c[j].type = "answer" /\ c[j].from = o.id

Exchange(s, c, o, d) ==
    /\ Described(s, c) /\ Answering(s, c) /\ Answered(s, c) /\ AnswerFirst(s, c)
    /\ OneOffer(s, c) /\ Strangers(s, c) /\ Mutual(s, c, o) /\ Owed(s, o, d)
    /\ Offered(s, c, o, d)

Exchanges == \A p \in Pages : Exchange(page[p], chan[p], page[Other(p)], chan[Other(p)])

\* All that is known of a page and of the other one.
Side(s, c, o, d, n) ==
    /\ s \in PageRecord /\ c \in Seq(Messages)
    /\ Acquainted(s, c, o, n) /\ Ranked(s, c, o, d) /\ Upright(s) /\ Exchange(s, c, o, d)
Pair(s, c, o, d, n) == n \in Nat /\ Side(s, c, o, d, n) /\ Side(o, d, s, c, n)

-------------------------------------------------------------------------------
(* What a page that works on its own does to offers and answers.           *)

Plain(x) == ~Answers(x) /\ x.op # "setAnswered"
Fresh(x) == Plain(x) /\ (x.op = "setOffer" => x.desc # NoDesc)

\* The chain e is c, without its first operation if k is one, and with fresh
\* operations behind it.
Keeps(e, c, k) ==
    /\ \A i \in At(e) : Fresh(e[i]) \/ (i + k \in At(c) /\ e[i] = c[i + k])
    /\ \A i \in At(c) : (k = 1 /\ i = 1) \/ (i - k \in At(e) /\ e[i - k] = c[i])

\* The chain e is c with the operation x behind it in place of the first one.
Replaces(e, c, x) ==
    /\ Len(c) \in At(e) /\ e[Len(c)] = x
    /\ \A i \in At(e) : i = Len(c) \/ (i + 1 \in At(c) /\ i + 1 # 1 /\ e[i] = c[i + 1])

First(s, op) == 1 \in At(s.chain) /\ s.chain[1].op = op

\* What the page has told is what it has, or it is going to tell it anew.
Turns(t, s) ==
    /\ t.heard = s.heard /\ (s.needs => t.needs) /\ (Busy(s) => Busy(t))
    /\ t.dir = s.dir \/ s.peer = NoPeer \/ (Busy(t) /\ (s.sig = "stable" \/ t.needs))

\* Nothing happens to offers and answers.
Idles(t, s, o, d2, d) ==
    /\ t.sig = s.sig /\ t.offers = s.offers /\ Turns(t, s)
    /\ \/ Keeps(t.chain, s.chain, 0)
       \/ 1 \in At(s.chain) /\ Plain(s.chain[1]) /\ Keeps(t.chain, s.chain, 1)
    /\ d2 = d \/ Told(d2, d, o, s.peer, Message("ice", s.id, FALSE, NoDesc))

\* The page sends an offer.
Offers(t, s, o, d2, d) ==
    /\ First(s, "setOffer") /\ Keeps(t.chain, s.chain, 1)
    /\ s.sig = "stable" /\ t.sig = "local" /\ t.offers = s.chain[1].desc.offer
    /\ SameMedia(t, s)
    /\ Told(d2, d, o, s.peer, Message("offer", s.id, FALSE, s.chain[1].desc))

\* The page turns to an offer, or works on the answer.
Proceeds(t, s, d2, d) ==
    /\ 1 \in At(s.chain) /\ Answers(s.chain[1])
    /\ s.chain[1].op = "setRemote" \/ s.sig = "remote"
    /\ t.sig = "remote" /\ t.offers = s.offers /\ d2 = d
    /\ t.dir = s.dir /\ (t.needs <=> s.needs)
    /\ t.heard = IF s.chain[1].op = "setRemote" THEN s.chain[1].desc ELSE s.heard
    /\ \E x \in Ops : /\ Advanced(x) /\ x.to = s.chain[1].to
                      /\ x.desc.offer = s.chain[1].desc.offer /\ Replaces(t.chain, s.chain, x)

\* The page sends its answer.
Replies(t, s, o, d2, d) ==
    /\ First(s, "setAnswer") /\ Keeps(t.chain, s.chain, 1)
    /\ s.sig = "remote" /\ t.sig = "stable" /\ t.offers = s.offers
    /\ t.dir = s.dir /\ t.heard = s.heard /\ Replayed(t, s)
    /\ Told(d2, d, o, s.chain[1].to, Message("answer", s.id, FALSE, s.chain[1].desc))

\* The page applies an answer.
Settles(t, s, d2, d) ==
    /\ First(s, "setAnswered") /\ Keeps(t.chain, s.chain, 1)
    /\ s.sig = "local" /\ t.sig = "stable" /\ t.offers = s.offers /\ d2 = d
    /\ t.dir = s.dir /\ t.heard = s.chain[1].desc /\ Replayed(t, s)

Acted(t, s, o, d2, d) ==
    /\ SameView(t, s)
    /\ \/ Idles(t, s, o, d2, d) \/ Offers(t, s, o, d2, d) \/ Proceeds(t, s, d2, d)
       \/ Replies(t, s, o, d2, d) \/ Settles(t, s, d2, d)

LEMMA KeepsAll ==
    ASSUME NEW c
    PROVE  Keeps(c, c, 0)
<1>1. \A i \in At(c) : i + 0 = i /\ i - 0 = i
  BY DEF At
<1> QED
  BY <1>1 DEF Keeps

LEMMA KeepsRest ==
    ASSUME NEW e, NEW c, Shifted(e, c)
    PROVE  Keeps(e, c, 1) /\ 1 \in At(c)
BY DEF Keeps, Shifted

\* A fresh operation is requested.
LEMMA KeepsMore ==
    ASSUME NEW e, NEW c \in Seq(Ops), NEW k \in {0, 1}, NEW w, NEW x, Keeps(e, c, k),
           Extended(w, e, x), Fresh(x)
    PROVE  Keeps(w, c, k)
<1>1. \A i \in At(w) : Fresh(w[i]) \/ (i + k \in At(c) /\ w[i] = c[i + k])
  BY DEF Keeps, Extended
<1>2. \A i \in At(c) : (k = 1 /\ i = 1) \/ (i - k \in At(w) /\ w[i - k] = c[i])
  BY DEF Keeps, Extended
<1> QED
  BY <1>1, <1>2 DEF Keeps

LEMMA RestReplaced ==
    ASSUME NEW e, NEW c, NEW w, NEW x, Shifted(e, c), Extended(w, e, x)
    PROVE  Replaces(w, c, x)
<1>1. Len(c) = Len(e) + 1 /\ Len(e) + 1 \in At(w) /\ w[Len(e) + 1] = x
  BY DEF Shifted, Extended
<1>2. \A i \in At(w) : i = Len(e) + 1 \/ (i \in At(e) /\ w[i] = e[i])
  BY DEF Extended
<1>3. \A i \in At(e) : i + 1 \in At(c) /\ i + 1 # 1 /\ e[i] = c[i + 1]
  BY DEF Shifted
<1> QED
  BY <1>1, <1>2, <1>3 DEF Replaces

\* An operation that is requested anew.
LEMMA FreshOps ==
    ASSUME NEW to \in Ids, NEW desc \in Descs
    PROVE  /\ Fresh(Op("createOffer", to, NoDesc)) /\ Op("createOffer", to, NoDesc) \in Ops
           /\ Fresh(Op("addHeld", to, NoDesc)) /\ Op("addHeld", to, NoDesc) \in Ops
           /\ desc # NoDesc => Fresh(Op("setOffer", to, desc))
<1>1. ASSUME NEW op \in {"createOffer", "addHeld", "setOffer"}, NEW e \in Descs,
             op = "createOffer" \/ e = NoDesc \/ op = "setOffer", op = "setOffer" => e # NoDesc
      PROVE  Fresh(Op(op, to, e)) /\ Op(op, to, e) \in Ops
  <2> DEFINE x == Op(op, to, e)
  <2>1. x \in Ops /\ x.op = op /\ x.desc = e
    BY <1>1, OpType
  <2> HIDE DEF x
  <2>2. Fresh(x)
    BY <1>1, <2>1 DEF Fresh, Plain, Answers
  <2> QED
    BY <2>1, <2>2 DEF x
<1> QED
  BY <1>1, NoDescType

\* An offer is requested, if at all.
LEMMA AskedKeeps ==
    ASSUME NEW s \in PageRecord, NEW rest \in Seq(Ops), NEW w, NEW making,
           Asked(w, making, s, rest), NEW c \in Seq(Ops), NEW k \in {0, 1}, Keeps(rest, c, k)
    PROVE  Keeps(w, c, k)
<1>1. CASE w = rest
  BY <1>1
<1>2. CASE s.peer # NoPeer /\ w = Append(rest, Op("createOffer", s.peer, NoDesc))
  <2> DEFINE x == Op("createOffer", s.peer, NoDesc)
  <2>1. s.peer \in Ids
    BY <1>2 DEF PageRecord
  <2>2. x \in Ops /\ Fresh(x)
    BY <2>1, FreshOps, NoDescType
  <2> HIDE DEF x
  <2>3. w = Append(rest, x)
    BY <1>2 DEF x
  <2>4. Extended(w, rest, x)
    BY <2>2, <2>3, AppendExtends
  <2> QED
    BY <2>2, <2>4, KeepsMore
<1> QED
  BY <1>1, <1>2 DEF Asked

\* A page's work as seen by whoever follows its offers and answers.
LEMMA ActsOfWork ==
    ASSUME NEW s \in PageRecord, NEW t \in PageRecord, NEW o, NEW c, NEW d, NEW d2,
           Worked(t, s, o, d2, d), Described(s, c), Answering(s, c), Answered(s, c), Alone(s)
    PROVE  Acted(t, s, o, d2, d)
<1> DEFINE ch == s.chain
           h == s.chain[1]
           rest == Tail(s.chain)
<1>1. SameView(t, s)
  BY DEF Worked
<1>2. SUFFICES \/ Idles(t, s, o, d2, d) \/ Offers(t, s, o, d2, d) \/ Proceeds(t, s, d2, d)
               \/ Replies(t, s, o, d2, d) \/ Settles(t, s, d2, d)
  BY <1>1 DEF Acted
<1>3. ch \in Seq(Ops)
  BY DEF PageRecord
<1>4. ASSUME NEW op, Took(s, op)
      PROVE  /\ rest \in Seq(Ops) /\ Shifted(rest, ch) /\ Keeps(rest, ch, 1) /\ 1 \in At(ch)
             /\ h \in Ops /\ h.op = op /\ h.to \in Ids /\ h.desc \in Descs
  <2>1. /\ Tail(s.chain) \in Seq(Ops) /\ Shifted(Tail(s.chain), s.chain)
        /\ s.chain[1] \in Ops /\ s.chain[1].op = op
        /\ s.chain[1].to \in Ids /\ s.chain[1].desc \in Descs /\ s.chain \in Seq(Ops)
    BY <1>4, TookRest
  <2> QED
    BY <2>1, KeepsRest
<1>5. \A x \in Ops : x.op \in {"createOffer", "setOffer"} => Plain(x)
  BY DEF Plain, Answers
<1> HIDE DEF ch, h, rest
<1>6. CASE d2 = d /\ CreatedOffer(t, s)
  <2>1. Took(s, "createOffer") /\ t.sig = s.sig /\ t.offers = s.offers
    BY <1>6 DEF CreatedOffer
  <2>2. /\ rest \in Seq(Ops) /\ Shifted(rest, ch) /\ Keeps(rest, ch, 1) /\ 1 \in At(ch)
        /\ h \in Ops /\ h.op = "createOffer" /\ h.to \in Ids /\ h.desc \in Descs
    BY <1>4, <2>1
  <2>3. Keeps(t.chain, ch, 1)
    <3>1. CASE t.chain = rest
      BY <2>2, <3>1
    <3>2. CASE t.chain = Append(rest, Op("setOffer", h.to, [dir |-> s.dir, offer |-> s.offers + 1]))
      <4> DEFINE desc == [dir |-> s.dir, offer |-> s.offers + 1]
      <4>1. desc \in Descs /\ desc # NoDesc
        <5>1. s.dir \in Directions /\ s.offers \in Nat /\ s.offers + 1 # 0
          BY DEF PageRecord
        <5> QED
          BY <5>1 DEF Descs, NoDesc
      <4> HIDE DEF desc
      <4> DEFINE x == Op("setOffer", h.to, desc)
      <4>2. x \in Ops /\ Fresh(x)
        BY <2>2, <4>1, OpType, FreshOps
      <4> HIDE DEF x
      <4>3. t.chain = Append(rest, x)
        BY <3>2 DEF x, desc
      <4>4. Extended(t.chain, rest, x)
        BY <2>2, <4>2, <4>3, AppendExtends
      <4> QED
        BY <1>3, <2>2, <4>2, <4>4, KeepsMore
    <3> QED
      BY <1>6, <3>1, <3>2 DEF CreatedOffer, h, rest
  <2>4. Turns(t, s)
    BY <1>6, <2>1 DEF CreatedOffer, SameMedia, Postpones, Turns, Busy
  <2> QED
    BY <1>5, <1>6, <2>1, <2>2, <2>3, <2>4 DEF Idles, ch, h
<1>7. CASE AppliedOffer(t, s, o, d2, d)
  <2>1. Took(s, "setOffer") /\ t.chain = rest
    BY <1>7 DEF AppliedOffer, rest
  <2>2. /\ rest \in Seq(Ops) /\ Shifted(rest, ch) /\ Keeps(rest, ch, 1) /\ 1 \in At(ch)
        /\ h \in Ops /\ h.op = "setOffer" /\ h.to \in Ids /\ h.desc \in Descs
    BY <1>4, <2>1
  <2>3. CASE s.sig # "stable" /\ t.sig = s.sig /\ t.offers = s.offers /\ d2 = d
    <3>1. Turns(t, s)
      BY <1>7, <2>3 DEF AppliedOffer, SameMedia, Turns, Busy
    <3> QED
      BY <1>5, <2>1, <2>2, <2>3, <3>1 DEF Idles, ch, h
  <2>4. CASE /\ s.sig = "stable" /\ t.sig = "local" /\ t.offers = s.chain[1].desc.offer
             /\ Told(d2, d, o, s.peer, Message("offer", s.id, FALSE, s.chain[1].desc))
    BY <1>7, <2>1, <2>2, <2>4 DEF AppliedOffer, Offers, First, ch, h
  <2> QED
    BY <1>7, <2>3, <2>4 DEF AppliedOffer
<1>8. CASE d2 = d /\ HeardOffer(t, s)
  <2>1. Took(s, "setRemote") /\ t.sig = "remote" /\ t.offers = s.offers
    BY <1>8 DEF HeardOffer
  <2>2. /\ rest \in Seq(Ops) /\ Shifted(rest, ch) /\ Keeps(rest, ch, 1) /\ 1 \in At(ch)
        /\ h \in Ops /\ h.op = "setRemote" /\ h.to \in Ids /\ h.desc \in Descs
    BY <1>4, <2>1
  <2>3. PICK op \in {"addHeld", "createAnswer"} : t.chain = Append(rest, Op(op, h.to, h.desc))
    BY <1>8 DEF HeardOffer, h, rest
  <2> DEFINE x == Op(op, h.to, h.desc)
  <2>4. x \in Ops /\ x.op = op /\ x.to = h.to /\ x.desc = h.desc
    BY <2>2, OpType
  <2> HIDE DEF x
  <2>5. h.desc # NoDesc
    BY <2>2 DEF Described, ch, h
  <2>6. Advanced(x) /\ Answers(h)
    BY <2>2, <2>4, <2>5 DEF Advanced, Answers
  <2>7. Extended(t.chain, rest, x)
    BY <2>2, <2>3, <2>4, AppendExtends DEF x
  <2>8. Replaces(t.chain, ch, x)
    BY <2>2, <2>7, RestReplaced
  <2> QED
    BY <1>8, <2>1, <2>2, <2>4, <2>6, <2>8 DEF HeardOffer, Proceeds, ch, h
<1>9. CASE d2 = d /\ HeardAnswer(t, s)
  <2>1. Took(s, "setAnswered") /\ t.offers = s.offers
    BY <1>9 DEF HeardAnswer
  <2>2. /\ rest \in Seq(Ops) /\ Shifted(rest, ch) /\ Keeps(rest, ch, 1) /\ 1 \in At(ch)
        /\ h \in Ops /\ h.op = "setAnswered" /\ h.to \in Ids /\ h.desc \in Descs
    BY <1>4, <2>1
  <2>3. s.sig = "local"
    BY <2>2 DEF Answered, ch, h
  <2>4. PICK w \in Seq(Ops) : /\ Asked(w, t.making, s, rest) /\ t.sig = "stable"
                              /\ t.chain = w \/ t.chain = Append(w, Op("addHeld", h.to, NoDesc))
    BY <1>9, <2>3 DEF HeardAnswer, h, rest
  <2>5. Keeps(w, ch, 1)
    BY <1>3, <2>2, <2>4, AskedKeeps
  <2>6. Keeps(t.chain, ch, 1)
    <3>1. CASE t.chain = w
      BY <2>5, <3>1
    <3>2. CASE t.chain = Append(w, Op("addHeld", h.to, NoDesc))
      <4> DEFINE x == Op("addHeld", h.to, NoDesc)
      <4>1. x \in Ops /\ Fresh(x)
        BY <2>2, FreshOps, NoDescType
      <4> HIDE DEF x
      <4>2. Extended(t.chain, w, x)
        BY <3>2, <4>1, AppendExtends DEF x
      <4> QED
        BY <1>3, <2>5, <4>1, <4>2, KeepsMore
    <3> QED
      BY <2>4, <3>1, <3>2
  <2>7. t.dir = s.dir /\ t.heard = s.chain[1].desc /\ Replayed(t, s)
    BY <1>9, <2>3 DEF HeardAnswer
  <2> QED
    BY <1>9, <2>1, <2>2, <2>3, <2>4, <2>6, <2>7 DEF Settles, First, ch, h
<1>10. CASE d2 = d /\ AddedHeld(t, s)
  <2>1. Took(s, "addHeld") /\ t.sig = s.sig /\ t.offers = s.offers
    BY <1>10 DEF AddedHeld
  <2>2. /\ rest \in Seq(Ops) /\ Shifted(rest, ch) /\ Keeps(rest, ch, 1) /\ 1 \in At(ch)
        /\ h \in Ops /\ h.op = "addHeld" /\ h.to \in Ids /\ h.desc \in Descs
    BY <1>4, <2>1
  <2>3. CASE h.desc = NoDesc /\ t.chain = rest
    <3>1. Plain(h)
      BY <2>2, <2>3 DEF Plain, Answers
    <3>2. Turns(t, s)
      BY <1>10 DEF AddedHeld, Turns, Busy
    <3> QED
      BY <1>10, <2>1, <2>2, <2>3, <3>1, <3>2 DEF Idles, ch, h
  <2>4. CASE h.desc # NoDesc /\ t.chain = Append(rest, Op("createAnswer", h.to, h.desc))
    <3> DEFINE x == Op("createAnswer", h.to, h.desc)
    <3>1. x \in Ops /\ x.op = "createAnswer" /\ x.to = h.to /\ x.desc = h.desc
      BY <2>2, OpType
    <3> HIDE DEF x
    <3>2. Advanced(x) /\ Answers(h) /\ Advanced(h)
      BY <2>2, <2>4, <3>1 DEF Advanced, Answers
    <3>3. s.sig = "remote"
      BY <2>2, <3>2 DEF Answering, ch, h
    <3>4. Extended(t.chain, rest, x)
      BY <2>2, <2>4, <3>1, AppendExtends DEF x
    <3>5. Replaces(t.chain, ch, x)
      BY <2>2, <3>4, RestReplaced
    <3>6. t.dir = s.dir /\ (t.needs <=> s.needs) /\ t.heard = s.heard
      BY <1>10 DEF AddedHeld
    <3> QED
      BY <1>10, <2>1, <2>2, <3>1, <3>2, <3>3, <3>5, <3>6 DEF Proceeds, ch, h
  <2> QED
    BY <1>10, <2>3, <2>4 DEF AddedHeld, h, rest
<1>11. CASE d2 = d /\ CreatedAnswer(t, s)
  <2>1. Took(s, "createAnswer") /\ t.sig = s.sig /\ t.offers = s.offers
    BY <1>11 DEF CreatedAnswer
  <2>2. /\ rest \in Seq(Ops) /\ Shifted(rest, ch) /\ Keeps(rest, ch, 1) /\ 1 \in At(ch)
        /\ h \in Ops /\ h.op = "createAnswer" /\ h.to \in Ids /\ h.desc \in Descs
    BY <1>4, <2>1
  <2>3. Advanced(h) /\ Answers(h)
    BY <2>2 DEF Advanced, Answers
  <2>4. s.sig = "remote"
    BY <2>2, <2>3 DEF Answering, ch, h
  <2> DEFINE answer == [h.desc EXCEPT !.dir = s.dir]
  <2>5. answer \in Descs /\ answer.offer = h.desc.offer
    BY <2>2, AnswerDescType
  <2>6. t.chain = Append(rest, Op("setAnswer", h.to, answer))
    BY <1>11, <2>4 DEF CreatedAnswer, h, rest
  <2> HIDE DEF answer
  <2> DEFINE x == Op("setAnswer", h.to, answer)
  <2>7. x \in Ops /\ x.op = "setAnswer" /\ x.to = h.to /\ x.desc = answer
    BY <2>2, <2>5, OpType
  <2> HIDE DEF x
  <2>8. Advanced(x)
    BY <2>7 DEF Advanced, Answers
  <2>9. Extended(t.chain, rest, x)
    BY <2>2, <2>6, <2>7, AppendExtends DEF x
  <2>10. Replaces(t.chain, ch, x)
    BY <2>2, <2>9, RestReplaced
  <2>11. t.dir = s.dir /\ (t.needs <=> s.needs) /\ t.heard = s.heard
    BY <1>11 DEF CreatedAnswer, SameMedia
  <2> QED
    BY <1>11, <2>1, <2>2, <2>3, <2>4, <2>5, <2>7, <2>8, <2>10, <2>11 DEF Proceeds, ch, h
<1>12. CASE AppliedAnswer(t, s, o, d2, d)
  <2>1. Took(s, "setAnswer") /\ t.offers = s.offers
    BY <1>12 DEF AppliedAnswer
  <2>2. /\ rest \in Seq(Ops) /\ Shifted(rest, ch) /\ Keeps(rest, ch, 1) /\ 1 \in At(ch)
        /\ h \in Ops /\ h.op = "setAnswer" /\ h.to \in Ids /\ h.desc \in Descs
    BY <1>4, <2>1
  <2>3. Advanced(h)
    BY <2>2 DEF Advanced, Answers
  <2>4. s.sig = "remote"
    BY <2>2, <2>3 DEF Answering, ch, h
  <2>5. /\ t.sig = "stable" /\ Asked(t.chain, t.making, s, rest)
        /\ Told(d2, d, o, s.chain[1].to, Message("answer", s.id, FALSE, s.chain[1].desc))
        /\ t.dir = s.dir /\ t.heard = s.heard /\ Replayed(t, s)
    BY <1>12, <2>4 DEF AppliedAnswer, rest
  <2>6. Keeps(t.chain, ch, 1)
    BY <1>3, <2>2, <2>5, AskedKeeps
  <2> QED
    BY <2>1, <2>2, <2>4, <2>5, <2>6 DEF Replies, First, ch, h
<1>13. CASE FoundCandidate(t, s, o, d2, d)
  <2>1. Keeps(ch, ch, 0)
    BY KeepsAll
  <2>2. Turns(t, s)
    BY <1>13 DEF FoundCandidate, SameMedia, Turns, Busy
  <2> QED
    BY <1>13, <2>1, <2>2 DEF FoundCandidate, Idles, ch
<1>14. CASE d2 = d /\ Toggled(t, s)
  <2>1. Asked(t.chain, t.making, s, ch)
    BY <1>14 DEF Toggled, ch
  <2>2. Keeps(ch, ch, 0)
    BY KeepsAll
  <2>3. Keeps(t.chain, ch, 0)
    BY <1>3, <2>1, <2>2, AskedKeeps
  <2>4. Turns(t, s)
    BY <1>14 DEF Toggled, Turned, Turns, Busy, Alone
  <2> QED
    BY <1>14, <2>3, <2>4 DEF Toggled, Idles, ch
<1> QED
  BY <1>6, <1>7, <1>8, <1>9, <1>10, <1>11, <1>12, <1>13, <1>14 DEF Worked

-------------------------------------------------------------------------------
(* What the two pages know of each other.                                  *)

LEMMA OtherSide ==
    ASSUME NEW s, NEW c, NEW o, NEW d, NEW n, Pair(s, c, o, d, n)
    PROVE  /\ Pair(o, d, s, c, n) /\ Exchange(s, c, o, d) /\ Exchange(o, d, s, c)
           /\ s \in PageRecord /\ o \in PageRecord /\ c \in Seq(Messages) /\ d \in Seq(Messages)
           /\ Upright(s) /\ Upright(o) /\ Acquainted(s, c, o, n) /\ Acquainted(o, d, s, n)
           /\ Ranked(s, c, o, d) /\ Ranked(o, d, s, c)
BY DEF Pair, Side

LEMMA SaidTypes ==
    /\ "offer" \notin Presence /\ "answer" \notin Presence /\ "ice" \notin Presence
    /\ "welcome" \in Presence /\ "joined" \in Presence /\ "left" \in Presence
BY DEF Presence

\* Whom a page talks to, and who waits for it.
LEMMA Ties ==
    ASSUME NEW s, NEW c, NEW o, NEW d, NEW n, Pair(s, c, o, d, n)
    PROVE  /\ s.id \in Nat /\ o.id \in Nat /\ s.peer \in Nat
           /\ \A i \in At(s.chain) :
                 /\ s.chain[i] \in Ops /\ s.chain[i].to = s.peer
                 /\ s.peer # NoPeer /\ s.id # NoPeer /\ s.id # o.id
           /\ \A i \in At(c) : c[i] \in Messages /\ s.id # NoPeer /\ s.id # o.id
           /\ \A i \in At(c) : c[i].type \notin Presence =>
                 c[i].from # NoPeer /\ (c[i].from = o.id => o.peer = s.id)
           /\ \A i \in At(s.chain) : s.peer = o.id =>
                 /\ Answers(s.chain[i]) \/ s.chain[i].op = "setAnswered" => o.peer = s.id
                 /\ Answers(s.chain[i]) => Awaiting(o, d, s.chain[i].desc.offer)
<1>1. /\ s \in PageRecord /\ o \in PageRecord /\ c \in Seq(Messages)
      /\ Acquainted(s, c, o, n) /\ Exchange(s, c, o, d)
  BY OtherSide
<1>2. s.id \in Nat /\ o.id \in Nat /\ s.peer \in Nat /\ s.chain \in Seq(Ops)
  BY <1>1 DEF PageRecord, Ids, NoPeer
<1>3. ASSUME NEW i \in At(s.chain)
      PROVE  /\ s.chain[i] \in Ops /\ s.chain[i].to = s.peer
             /\ s.peer # NoPeer /\ s.id # NoPeer /\ s.id # o.id
  <2>1. s.chain[i] \in Ops
    BY <1>2, ElementOfSeq DEF At
  <2>2. s.chain[i].to = s.peer /\ s.chain[i].to \in Ids
    BY <1>1, <2>1 DEF Acquainted, Addressed, Ops
  <2>3. s.peer # NoPeer
    BY <2>2 DEF Ids, NoPeer
  <2>4. s.id # NoPeer /\ s.id # o.id
    BY <1>1, <2>3 DEF Acquainted, Absent, UpToDate
  <2> QED
    BY <2>1, <2>2, <2>3, <2>4
<1>4. ASSUME NEW i \in At(c)
      PROVE  c[i] \in Messages /\ s.id # NoPeer /\ s.id # o.id
  <2>1. c[i] \in Messages
    BY <1>1, ElementOfSeq DEF At
  <2>2. c # <<>>
    BY EmptySeq DEF At
  <2>3. s.id # NoPeer /\ s.id # o.id
    BY <1>1, <2>2 DEF Acquainted, Absent, UpToDate
  <2> QED
    BY <2>1, <2>3
<1>5. ASSUME NEW i \in At(c), c[i].type \notin Presence
      PROVE  c[i].from # NoPeer /\ (c[i].from = o.id => o.peer = s.id)
  BY <1>1, <1>4, <1>5 DEF Acquainted, Introduced, Presence, Exchange, Mutual
<1>6. ASSUME NEW i \in At(s.chain), s.peer = o.id
      PROVE  /\ Answers(s.chain[i]) \/ s.chain[i].op = "setAnswered" => o.peer = s.id
             /\ Answers(s.chain[i]) => Awaiting(o, d, s.chain[i].desc.offer)
  BY <1>1, <1>3, <1>6 DEF Exchange, Mutual, Owed
<1> QED
  BY <1>2, <1>3, <1>4, <1>5, <1>6

\* Of two pages that talk to each other the younger one is impolite.
LEMMA Elder ==
    ASSUME NEW s, NEW c, NEW o, NEW d, NEW n, Pair(s, c, o, d, n),
           s.peer = o.id, o.peer = s.id, s.id # NoPeer, o.id # NoPeer
    PROVE  /\ s.id # o.id
           /\ o.id < s.id => s.impolite /\ ~o.impolite
           /\ s.id < o.id => o.impolite /\ ~s.impolite
<1>1. /\ s \in PageRecord /\ o \in PageRecord /\ c \in Seq(Messages) /\ d \in Seq(Messages)
      /\ Acquainted(s, c, o, n) /\ Acquainted(o, d, s, n)
      /\ Ranked(s, c, o, d) /\ Ranked(o, d, s, c)
  BY OtherSide
<1>2. s.id # o.id
  BY <1>1 DEF Acquainted, UpToDate
<1>3. o.id < s.id => s.impolite /\ ~o.impolite
  BY <1>1, YoungerIsImpolite
<1>4. s.id < o.id => o.impolite /\ ~s.impolite
  BY <1>1, YoungerIsImpolite
<1> QED
  BY <1>2, <1>3, <1>4

\* An older page whose offer a waiting page is to read is the one it talks to.
LEMMA TakenBack ==
    ASSUME NEW s, NEW c, NEW o, NEW d, NEW n, Pair(s, c, o, d, n), NEW i \in At(c),
           c[i].type = "offer", c[i].from = o.id, o.id < s.id, s.sig = "local"
    PROVE  s.peer = o.id /\ o.peer = s.id /\ s.impolite /\ ~o.impolite /\ o.id # NoPeer
<1>1. Acquainted(s, c, o, n) /\ Ranked(s, c, o, d)
  BY OtherSide
<1>2. /\ s.id \in Nat /\ o.id \in Nat /\ s.id # NoPeer /\ c[i].from # NoPeer
      /\ o.peer = s.id
  BY Ties, SaidTypes
<1>3. Believes(s.peer, c, i - 1, o.id)
  BY <1>1 DEF Acquainted, Introduced
<1>4. s.pc
  BY <1>1 DEF Acquainted, Alone
<1>5. ASSUME NEW k \in 1 .. i - 1, c[k].type \in Presence, Named(c[k]) = o.id
      PROVE  FALSE
  <2>1. k \in At(c)
    BY <1>5 DEF At
  <2>2. c[k].type # "welcome"
    BY <1>1, <1>4, <2>1 DEF Acquainted, Welcomed
  <2>3. c[k].type = "joined" /\ c[k].from = o.id
    BY <1>2, <1>5, <2>2 DEF Presence, Named
  <2>4. s.id < o.id
    BY <1>1, <2>1, <2>3 DEF Ranked, Younger
  <2> QED
    BY <1>2, <2>4
<1>6. s.peer = o.id
  BY <1>3, <1>5 DEF Believes
<1> QED
  BY <1>2, <1>6, Elder

\* Two pages do not answer each other at the same time.
LEMMA NoClash ==
    ASSUME NEW s, NEW c, NEW o, NEW d, NEW n, Pair(s, c, o, d, n), NEW i \in At(s.chain),
           NEW j \in At(o.chain), s.peer = o.id, o.peer = s.id,
           Answers(s.chain[i]), Answers(o.chain[j])
    PROVE  FALSE
<1>1. Pair(o, d, s, c, n) /\ Upright(s) /\ Upright(o) /\ Exchange(s, c, o, d) /\ Exchange(o, d, s, c)
  BY OtherSide
<1>2. s.id # NoPeer /\ s.id \in Nat /\ o.id \in Nat /\ Awaiting(o, d, s.chain[i].desc.offer)
  BY Ties
<1>3. o.id # NoPeer /\ Awaiting(s, c, o.chain[j].desc.offer)
  BY <1>1, Ties
<1>4. s.sig = "local" /\ o.sig = "local"
  BY <1>2, <1>3 DEF Awaiting
<1>5. s.chain[i].op = "setRemote" /\ o.chain[j].op = "setRemote"
  BY <1>1, <1>4 DEF Exchange, Answering, Advanced
<1>6. ~s.impolite /\ ~o.impolite
  BY <1>1, <1>4, <1>5 DEF Upright, NoRemote
<1> QED
  BY <1>2, <1>3, <1>6, Elder

\* What does not depend on the signaling state.
LEMMA KeptSide ==
    ASSUME NEW s, NEW c, NEW o, NEW d, NEW n, Pair(s, c, o, d, n), NEW t, SameView(t, s),
           NEW k \in {0, 1}, Keeps(t.chain, s.chain, k)
    PROVE  Described(t, c) /\ Strangers(t, c) /\ Mutual(t, c, o)
<1>1. Exchange(s, c, o, d) /\ t.peer = s.peer /\ t.id = s.id
  BY OtherSide DEF SameView
<1>2. \A i \in At(t.chain) : Fresh(t.chain[i]) \/ (i + k \in At(s.chain) /\ t.chain[i] = s.chain[i + k])
  BY DEF Keeps
<1>3. Described(t, c)
  BY <1>1, <1>2 DEF Exchange, Described, Fresh, Plain, Answers
<1>4. Strangers(t, c)
  BY <1>1 DEF Exchange, Strangers
<1>5. Mutual(t, c, o)
  BY <1>1, <1>2 DEF Exchange, Mutual, Fresh, Plain
<1> QED
  BY <1>3, <1>4, <1>5

\* The page at the other seat has nothing more to read.
LEMMA SameSide ==
    ASSUME NEW s, NEW c, NEW o, NEW d, NEW n, Pair(s, c, o, d, n), NEW t, SameView(t, s)
    PROVE  /\ Described(o, d) /\ Answering(o, d) /\ Answered(o, d) /\ AnswerFirst(o, d)
           /\ OneOffer(o, d) /\ Strangers(o, d) /\ Mutual(o, d, t)
<1>1. Exchange(o, d, s, c) /\ t.peer = s.peer /\ t.id = s.id
  BY OtherSide DEF SameView
<1>2. Mutual(o, d, t)
  BY <1>1 DEF Exchange, Mutual
<1> QED
  BY <1>1, <1>2 DEF Exchange

LEMMA SettlesNear ==
    ASSUME NEW s, NEW c, NEW o, NEW d, NEW n, Pair(s, c, o, d, n), NEW t, NEW d2,
           SameView(t, s), Settles(t, s, d2, d)
    PROVE  Exchange(t, c, o, d2)
<1>1. /\ Exchange(s, c, o, d) /\ t.peer = s.peer /\ t.id = s.id /\ (t.impolite <=> s.impolite)
      /\ d2 = d
  BY OtherSide DEF SameView, Settles
<1>2. /\ 1 \in At(s.chain) /\ s.chain[1].op = "setAnswered" /\ s.sig = "local"
      /\ \A i \in At(t.chain) :
            Fresh(t.chain[i]) \/ (i + 1 \in At(s.chain) /\ i + 1 # 1 /\ t.chain[i] = s.chain[i + 1])
  BY DEF Settles, First, Keeps, At
<1>3. /\ \A i \in At(s.chain) : s.chain[i].op = "setAnswered" => i = 1
      /\ \A i \in At(s.chain) : ~Advanced(s.chain[i])
      /\ \A i \in At(c) : ~Near(s, c[i], "answer")
  BY <1>1, <1>2 DEF Exchange, Answered, Answering
<1>4. NoAnswer(t, c)
  BY <1>1, <1>2, <1>3 DEF NoAnswer, Near, Fresh, Plain
<1>5. Answering(t, c)
  <2>1. \A i \in At(t.chain) : ~Advanced(t.chain[i])
    BY <1>2, <1>3 DEF Fresh, Plain, Advanced
  <2>2. \A i, j \in At(t.chain) : Answers(t.chain[i]) /\ Answers(t.chain[j]) => i = j
    <3>1. ASSUME NEW i \in At(t.chain), NEW j \in At(t.chain), Answers(t.chain[i]), Answers(t.chain[j])
          PROVE  i = j
      <4>1. i + 1 = j + 1
        BY <1>1, <1>2, <3>1 DEF Exchange, Answering, Fresh, Plain
      <4> QED
        BY <4>1 DEF At
    <3> QED
      BY <3>1
  <2>3. \A i \in At(t.chain), j \in At(c) : Answers(t.chain[i]) => ~Near(t, c[j], "offer")
    BY <1>1, <1>2 DEF Exchange, Answering, Fresh, Plain, Near
  <2> QED
    BY <2>1, <2>2, <2>3 DEF Answering
<1>6. Answered(t, c) /\ AnswerFirst(t, c)
  BY <1>4 DEF NoAnswer, Answered, AnswerFirst
<1>7. OneOffer(t, c)
  BY <1>1, <1>2 DEF Exchange, OneOffer, Near
<1>8. Owed(t, o, d)
  BY <1>1, <1>2 DEF Exchange, Owed, Fresh, Plain
<1>9. Offered(t, c, o, d)
  <2>1. SUFFICES ASSUME NEW i \in At(c), c[i].type = "offer", c[i].from = o.id
                 PROVE  Awaiting(o, d, c[i].desc.offer)
    BY DEF Offered
  <2>2. CASE /\ o.id < s.id
             /\ \/ \E j \in At(o.chain) : Advanced(o.chain[j])
                \/ \E j \in At(c) : i < j /\ c[j].type = "answer" /\ c[j].from = o.id
    <3>1. s.peer = o.id /\ o.peer = s.id
      BY <1>2, <2>1, <2>2, TakenBack
    <3>2. CASE \E j \in At(o.chain) : Advanced(o.chain[j])
      <4>1. PICK j \in At(o.chain) : Answers(o.chain[j])
        BY <3>2 DEF Advanced
      <4>2. Awaiting(s, c, o.chain[j].desc.offer)
        BY <3>1, <4>1, Ties, OtherSide
      <4> QED
        BY <1>2, <4>2 DEF Awaiting, NoAnswer
    <3>3. CASE \E j \in At(c) : i < j /\ c[j].type = "answer" /\ c[j].from = o.id
      BY <1>3, <3>1, <3>3 DEF Near
    <3> QED
      BY <2>2, <3>2, <3>3
  <2> QED
    BY <1>1, <2>1, <2>2 DEF Exchange, Offered
<1>10. Described(t, c) /\ Strangers(t, c) /\ Mutual(t, c, o)
  BY KeptSide DEF Settles
<1> QED
  BY <1>1, <1>5, <1>6, <1>7, <1>8, <1>9, <1>10 DEF Exchange

LEMMA SettlesFar ==
    ASSUME NEW s, NEW c, NEW o, NEW d, NEW n, Pair(s, c, o, d, n), NEW t, NEW d2,
           SameView(t, s), Settles(t, s, d2, d)
    PROVE  Exchange(o, d2, t, c)
<1>1. /\ Exchange(s, c, o, d) /\ Exchange(o, d, s, c) /\ t.peer = s.peer /\ t.id = s.id
      /\ d2 = d /\ Pair(o, d, s, c, n)
  BY OtherSide DEF SameView, Settles
<1>2. 1 \in At(s.chain) /\ s.chain[1].op = "setAnswered" /\ s.sig = "local"
  BY DEF Settles, First
<1>3. \A m : ~Awaiting(s, c, m)
  BY <1>2 DEF Awaiting, NoAnswer
<1>4. Owed(o, t, c)
  BY <1>1, <1>3, Ties DEF Owed
<1>5. Offered(o, d, t, c)
  BY <1>1, <1>2, <1>3 DEF Exchange, Offered, Answering
<1> QED
  BY <1>1, <1>4, <1>5, SameSide DEF Exchange

\* A message reaches the other page, if it is the one that is meant.
LEMMA ToldExtends ==
    ASSUME NEW d \in Seq(Messages), NEW d2, NEW o, NEW to, NEW m \in Messages,
           Told(d2, d, o, to, m)
    PROVE  d2 = d \/ (o.id = to /\ Extended(d2, d, m))
<1>1. Extended(Append(d, m), d, m)
  BY AppendExtends
<1> QED
  BY <1>1 DEF Told

LEMMA OffersNear ==
    ASSUME NEW s, NEW c, NEW o, NEW d, NEW n, Pair(s, c, o, d, n), NEW t, NEW d2,
           SameView(t, s), Offers(t, s, o, d2, d)
    PROVE  Exchange(t, c, o, d2) /\ Awaiting(t, c, s.chain[1].desc.offer)
<1>1. /\ Exchange(s, c, o, d) /\ t.peer = s.peer /\ t.id = s.id /\ (t.impolite <=> s.impolite)
      /\ s \in PageRecord /\ d \in Seq(Messages)
  BY OtherSide DEF SameView
<1>2. /\ 1 \in At(s.chain) /\ s.chain[1].op = "setOffer" /\ s.sig = "stable"
      /\ t.sig = "local" /\ t.offers = s.chain[1].desc.offer
      /\ \A i \in At(t.chain) :
            Fresh(t.chain[i]) \/ (i + 1 \in At(s.chain) /\ t.chain[i] = s.chain[i + 1])
  BY DEF Offers, First, Keeps
<1>3. /\ \A i \in At(s.chain) : s.chain[i].op # "setAnswered" /\ ~Advanced(s.chain[i])
      /\ \A i \in At(c) : ~Near(s, c[i], "answer")
  BY <1>1, <1>2 DEF Exchange, Answered, Answering
<1>4. NoAnswer(t, c)
  BY <1>1, <1>2, <1>3 DEF NoAnswer, Near, Fresh, Plain
<1>5. Answering(t, c)
  <2>1. \A i \in At(t.chain) : ~Advanced(t.chain[i])
    BY <1>2, <1>3 DEF Fresh, Plain, Advanced
  <2>2. \A i, j \in At(t.chain) : Answers(t.chain[i]) /\ Answers(t.chain[j]) => i = j
    <3>1. ASSUME NEW i \in At(t.chain), NEW j \in At(t.chain), Answers(t.chain[i]), Answers(t.chain[j])
          PROVE  i = j
      <4>1. i + 1 = j + 1
        BY <1>1, <1>2, <3>1 DEF Exchange, Answering, Fresh, Plain
      <4> QED
        BY <4>1 DEF At
    <3> QED
      BY <3>1
  <2>3. \A i \in At(t.chain), j \in At(c) : Answers(t.chain[i]) => ~Near(t, c[j], "offer")
    BY <1>1, <1>2 DEF Exchange, Answering, Fresh, Plain, Near
  <2> QED
    BY <2>1, <2>2, <2>3 DEF Answering
<1>6. Answered(t, c) /\ AnswerFirst(t, c)
  BY <1>4 DEF NoAnswer, Answered, AnswerFirst
<1>7. OneOffer(t, c)
  BY <1>1, <1>2 DEF Exchange, OneOffer, Near
<1>8. ASSUME NEW m, Awaiting(o, d, m)
      PROVE  Awaiting(o, d2, m)
  <2>1. s.chain[1].desc \in Descs /\ s.id \in Ids \cup {NoPeer}
    BY <1>1, <1>2, Ties DEF PageRecord, Ops
  <2> DEFINE x == Message("offer", s.id, FALSE, s.chain[1].desc)
  <2>2. x \in Messages /\ x.type = "offer" /\ x.from = s.id /\ x.desc = s.chain[1].desc
    BY <2>1 DEF Message, Messages
  <2>3. Told(d2, d, o, s.peer, x)
    BY DEF Offers
  <2> HIDE DEF x
  <2>4. d2 = d \/ (o.id = s.peer /\ Extended(d2, d, x))
    BY <1>1, <2>2, <2>3, ToldExtends
  <2> QED
    BY <1>8, <2>2, <2>4 DEF Awaiting, NoAnswer, Near, Extended
<1>9. Owed(t, o, d2)
  BY <1>1, <1>2, <1>8 DEF Exchange, Owed, Fresh, Plain
<1>10. Offered(t, c, o, d2)
  BY <1>1, <1>2, <1>8 DEF Exchange, Offered
<1>11. Described(t, c) /\ Strangers(t, c) /\ Mutual(t, c, o)
  BY KeptSide DEF Offers
<1>12. Awaiting(t, c, s.chain[1].desc.offer)
  BY <1>2, <1>4 DEF Awaiting
<1> QED
  BY <1>5, <1>6, <1>7, <1>9, <1>10, <1>11, <1>12 DEF Exchange

LEMMA OffersFar ==
    ASSUME NEW s, NEW c, NEW o, NEW d, NEW n, Pair(s, c, o, d, n), NEW t, NEW d2,
           SameView(t, s), Offers(t, s, o, d2, d)
    PROVE  Exchange(o, d2, t, c)
<1>1. /\ Exchange(s, c, o, d) /\ Exchange(o, d, s, c) /\ t.peer = s.peer /\ t.id = s.id
      /\ Pair(o, d, s, c, n) /\ s \in PageRecord /\ d \in Seq(Messages)
  BY OtherSide DEF SameView
<1>2. /\ 1 \in At(s.chain) /\ s.chain[1].op = "setOffer" /\ s.sig = "stable"
      /\ \A m : ~Awaiting(s, c, m)
  BY DEF Offers, First, Awaiting
<1>3. /\ \A i \in At(s.chain) : ~Advanced(s.chain[i])
      /\ s.chain[1].desc # NoDesc
  BY <1>1, <1>2 DEF Exchange, Answering, Described
<1>4. Owed(o, t, c)
  BY <1>1, <1>2, Ties DEF Owed
\* An offer of s that has not been read is one that s took back and answered.
<1>5. \A i \in At(d) : d[i].type = "offer" /\ d[i].from = s.id =>
         /\ s.id < o.id /\ o.sig = "local"
         /\ \E j \in At(d) : i < j /\ d[j].type = "answer" /\ d[j].from = s.id
  BY <1>1, <1>2, <1>3 DEF Exchange, Offered
<1>6. CASE d2 = d
  <2>1. Offered(o, d, t, c)
    BY <1>1, <1>5 DEF Offered
  <2> QED
    BY <1>1, <1>4, <1>6, <2>1, SameSide DEF Exchange
<1>7. ASSUME NEW m \in Messages, m.type = "offer", m.from = s.id, m.desc = s.chain[1].desc,
             Extended(d2, d, m), o.id = s.peer
      PROVE  Exchange(o, d2, t, c)
  <2>1. /\ \A i \in At(d) : i \in Nat /\ i <= Len(d) /\ d2[i] = d[i] /\ i \in At(d2)
        /\ \A i \in At(d2) : (i \in At(d) /\ i <= Len(d) /\ d2[i] = d[i])
                                \/ (i = Len(d) + 1 /\ d2[i] = m)
        /\ Len(d) \in Nat
    BY <1>7 DEF Extended
  <2>2. s.peer = o.id /\ s.id # NoPeer /\ o.id # NoPeer
    BY <1>2, <1>7, Ties
  <2>3. ~Near(o, m, "answer") /\ m.type \notin Presence
    BY <1>7 DEF Near, Presence
  <2>4. Described(o, d2)
    BY <1>1, <1>3, <1>7, <2>1 DEF Exchange, Described
  <2>5. Answering(o, d2)
    <3>1. \A j \in At(o.chain) : Answers(o.chain[j]) => o.peer # s.id
      BY <1>1, <1>2, Ties
    <3> QED
      BY <1>1, <1>7, <2>1, <3>1 DEF Exchange, Answering, Near
  <2>6. Answered(o, d2)
    BY <1>1, <2>1, <2>3 DEF Exchange, Answered
  <2>7. AnswerFirst(o, d2)
    BY <1>1, <2>1, <2>3 DEF Exchange, AnswerFirst
  <2>8. OneOffer(o, d2)
    <3>1. CASE o.peer # s.id
      <4>1. ~Near(o, m, "offer")
        BY <1>7, <3>1 DEF Near
      <4> QED
        BY <1>1, <2>1, <2>3, <4>1 DEF Exchange, OneOffer
    <3>2. CASE o.peer = s.id
      <4>1. \A i \in At(d) : Near(o, d[i], "offer") => o.impolite /\ o.sig = "local"
        BY <1>1, <1>5, <2>2, <3>2, Elder DEF Near
      <4>2. \A i \in At(d) : Near(o, d[i], "offer") =>
               /\ \A k \in At(o.chain) : o.chain[k].op # "setAnswered"
               /\ \A k \in At(d) : Near(o, d[k], "answer") => i < k
        BY <1>1, <1>5, <3>2, <4>1 DEF Exchange, OneOffer, Near
      <4> QED
        BY <1>1, <2>1, <2>3, <4>1, <4>2 DEF Exchange, OneOffer
    <3> QED
      BY <3>1, <3>2
  <2>9. Strangers(o, d2)
    <3>1. o.peer # s.id => \A i \in At(d) : ~(d[i].type = "offer" /\ d[i].from = s.id)
      BY <1>1, <1>5 DEF Exchange, Strangers
    <3> QED
      BY <1>1, <1>7, <2>1, <3>1 DEF Exchange, Strangers
  <2>10. Mutual(o, d2, t)
    BY <1>1, <1>7, <2>1, <2>2 DEF Exchange, Mutual
  <2>11. Offered(o, d2, t, c)
    <3>1. Awaiting(t, c, m.desc.offer)
      BY <1>7, OffersNear
    <3> QED
      BY <1>1, <1>5, <2>1, <3>1 DEF Offered
  <2> QED
    BY <1>4, <2>4, <2>5, <2>6, <2>7, <2>8, <2>9, <2>10, <2>11 DEF Exchange
<1>8. /\ d \in Seq(Messages) /\ s.chain[1].desc \in Descs /\ s.id \in Ids \cup {NoPeer}
      /\ Told(d2, d, o, s.peer, Message("offer", s.id, FALSE, s.chain[1].desc))
  BY <1>1, <1>2, Ties DEF PageRecord, Ops, Offers
<1> DEFINE x == Message("offer", s.id, FALSE, s.chain[1].desc)
<1>9. x \in Messages /\ x.type = "offer" /\ x.from = s.id /\ x.desc = s.chain[1].desc
  BY <1>8 DEF Message, Messages
<1>10. Told(d2, d, o, s.peer, x)
  BY <1>8
<1> HIDE DEF x
<1>11. d2 = d \/ (o.id = s.peer /\ Extended(d2, d, x))
  BY <1>8, <1>9, <1>10, ToldExtends
<1> QED
  BY <1>6, <1>7, <1>9, <1>11

LEMMA ProceedsNear ==
    ASSUME NEW s, NEW c, NEW o, NEW d, NEW n, Pair(s, c, o, d, n), NEW t, NEW d2,
           SameView(t, s), Proceeds(t, s, d2, d)
    PROVE  Exchange(t, c, o, d2)
<1>1. /\ Exchange(s, c, o, d) /\ t.peer = s.peer /\ t.id = s.id /\ (t.impolite <=> s.impolite)
      /\ d2 = d /\ t.sig = "remote" /\ t.offers = s.offers /\ Upright(s)
  BY OtherSide DEF SameView, Proceeds
<1> DEFINE h == s.chain[1]
<1>2. 1 \in At(s.chain) /\ Answers(h) /\ (h.op = "setRemote" \/ s.sig = "remote")
  BY DEF Proceeds
<1>3. PICK x \in Ops : /\ Advanced(x) /\ x.to = h.to /\ x.desc.offer = h.desc.offer
                       /\ Replaces(t.chain, s.chain, x)
  BY DEF Proceeds
<1>4. /\ \A i \in At(t.chain) :
            \/ i = Len(s.chain) /\ t.chain[i] = x
            \/ i + 1 \in At(s.chain) /\ i + 1 # 1 /\ t.chain[i] = s.chain[i + 1]
  BY <1>3 DEF Replaces
<1>5. /\ h.to = s.peer
      /\ s.peer = o.id => o.peer = s.id /\ Awaiting(o, d, h.desc.offer)
  BY <1>2, Ties
<1>6. /\ \A i \in At(s.chain) : Answers(s.chain[i]) => i = 1
      /\ \A j \in At(c) : ~Near(s, c[j], "offer")
  BY <1>1, <1>2 DEF Exchange, Answering
<1>7. /\ Answers(x) /\ x.op \notin {"setRemote", "setAnswered", "setOffer"}
      /\ \A i \in At(t.chain) : Answers(t.chain[i]) => i = Len(s.chain) /\ t.chain[i] = x
  BY <1>3, <1>4, <1>6 DEF Advanced, Answers
\* An answer to the page's own offer would have been applied first.
<1>8. NoAnswer(s, c)
  <2>1. CASE s.sig = "remote"
    BY <1>1, <2>1 DEF Exchange, Answered, NoAnswer
  <2>2. CASE s.sig # "remote" /\ h.op = "setRemote"
    <3>1. CASE s.impolite
      <4>1. s.sig # "local"
        BY <1>1, <1>2, <2>2, <3>1 DEF Upright, NoRemote
      <4> QED
        BY <1>1, <4>1 DEF Exchange, Answered, NoAnswer
    <3>2. CASE ~s.impolite
      <4>1. \A i \in At(s.chain) : s.chain[i].op = "setAnswered" => i < 1
        BY <1>1, <1>2, <2>2, <3>2 DEF Exchange, AnswerFirst
      <4>2. \A i \in At(s.chain) : ~(i < 1)
        BY DEF At
      <4>3. \A i \in At(c) : ~Near(s, c[i], "answer")
        BY <1>1, <1>2, <2>2, <3>2 DEF Exchange, AnswerFirst
      <4> QED
        BY <4>1, <4>2, <4>3 DEF NoAnswer
    <3> QED
      BY <3>1, <3>2
  <2> QED
    BY <1>2, <2>1, <2>2
<1> HIDE DEF h
<1>9. NoAnswer(t, c)
  BY <1>1, <1>4, <1>7, <1>8 DEF NoAnswer, Near
<1>10. Answering(t, c)
  BY <1>1, <1>6, <1>7 DEF Answering, Near
<1>11. Answered(t, c) /\ AnswerFirst(t, c)
  BY <1>9 DEF NoAnswer, Answered, AnswerFirst
<1>12. OneOffer(t, c)
  BY <1>1, <1>6 DEF OneOffer, Near
<1>13. Described(t, c)
  BY <1>1, <1>4, <1>7 DEF Exchange, Described
<1>14. Strangers(t, c)
  BY <1>1 DEF Exchange, Strangers
<1>15. Mutual(t, c, o)
  BY <1>1, <1>3, <1>4, <1>5 DEF Exchange, Mutual
<1>16. Owed(t, o, d)
  BY <1>1, <1>3, <1>5, <1>7 DEF Owed
<1>17. Offered(t, c, o, d)
  <2>1. SUFFICES ASSUME NEW i \in At(c), c[i].type = "offer", c[i].from = o.id
                 PROVE  Awaiting(o, d, c[i].desc.offer)
    BY DEF Offered
  <2>2. ~(o.id < s.id /\ s.sig = "local")
    BY <1>6, <2>1, TakenBack DEF Near
  <2> QED
    BY <1>1, <2>1, <2>2 DEF Exchange, Offered
<1> QED
  BY <1>1, <1>10, <1>11, <1>12, <1>13, <1>14, <1>15, <1>16, <1>17 DEF Exchange

LEMMA ProceedsFar ==
    ASSUME NEW s, NEW c, NEW o, NEW d, NEW n, Pair(s, c, o, d, n), NEW t, NEW d2,
           SameView(t, s), Proceeds(t, s, d2, d)
    PROVE  Exchange(o, d2, t, c)
<1>1. /\ Exchange(s, c, o, d) /\ Exchange(o, d, s, c) /\ t.peer = s.peer /\ t.id = s.id
      /\ d2 = d /\ Pair(o, d, s, c, n) /\ Upright(s)
  BY OtherSide DEF SameView, Proceeds
<1> DEFINE h == s.chain[1]
<1>2. 1 \in At(s.chain) /\ Answers(h) /\ (h.op = "setRemote" \/ s.sig = "remote")
  BY DEF Proceeds
<1>3. \E j \in At(t.chain) : Advanced(t.chain[j])
  BY DEF Proceeds, Replaces
<1>4. h.to = s.peer /\ s.id # NoPeer
  BY <1>2, Ties
<1>5. Owed(o, t, c)
  <2>1. SUFFICES ASSUME NEW j \in At(o.chain), o.chain[j].to = s.id, Answers(o.chain[j])
                 PROVE  FALSE
    BY <1>1 DEF Owed
  <2>2. s.peer = o.id /\ o.peer = s.id
    BY <1>1, <2>1, Ties
  <2> QED
    BY <1>2, <2>1, <2>2, NoClash
<1>6. Offered(o, d, t, c)
  <2>1. SUFFICES ASSUME NEW i \in At(d), d[i].type = "offer", d[i].from = s.id
                 PROVE  s.id < o.id /\ o.sig = "local"
    BY <1>1, <1>3 DEF Offered
  <2>2. CASE Awaiting(s, c, d[i].desc.offer)
    <3>1. s.sig = "local" /\ ~s.impolite
      BY <1>1, <1>2, <2>2 DEF Awaiting, Upright, NoRemote
    <3>2. s.peer = o.id /\ o.id # NoPeer
      BY <1>1, <2>1, Ties, SaidTypes
    <3>3. o.peer = s.id /\ Awaiting(o, d, h.desc.offer)
      BY <1>2, <3>2, Ties
    <3>4. s.id < o.id
      BY <1>4, <3>1, <3>2, <3>3, Elder, Ties
    <3> QED
      BY <3>3, <3>4 DEF Awaiting
  <2> QED
    BY <1>1, <2>1, <2>2 DEF Exchange, Offered
<1> QED
  BY <1>1, <1>5, <1>6, SameSide DEF Exchange

LEMMA RepliesNear ==
    ASSUME NEW s, NEW c, NEW o, NEW d, NEW n, Pair(s, c, o, d, n), NEW t, NEW d2,
           SameView(t, s), Replies(t, s, o, d2, d)
    PROVE  Exchange(t, c, o, d2)
<1>1. /\ Exchange(s, c, o, d) /\ t.peer = s.peer /\ t.id = s.id /\ (t.impolite <=> s.impolite)
  BY OtherSide DEF SameView
<1>2. /\ 1 \in At(s.chain) /\ s.chain[1].op = "setAnswer" /\ s.sig = "remote"
      /\ \A i \in At(t.chain) :
            Fresh(t.chain[i]) \/ (i + 1 \in At(s.chain) /\ i + 1 # 1 /\ t.chain[i] = s.chain[i + 1])
  BY DEF Replies, First, Keeps, At
<1>3. Answers(s.chain[1])
  BY <1>2 DEF Answers
<1>4. /\ \A i \in At(s.chain) : Answers(s.chain[i]) => i = 1
      /\ \A j \in At(c) : ~Near(s, c[j], "offer")
      /\ NoAnswer(s, c)
  BY <1>1, <1>2, <1>3 DEF Exchange, Answering, Answered, NoAnswer
<1>5. NoAnswer(t, c) /\ \A i \in At(t.chain) : ~Answers(t.chain[i])
  BY <1>1, <1>2, <1>4 DEF NoAnswer, Near, Fresh, Plain
<1>6. Answering(t, c) /\ Owed(t, o, d2)
  BY <1>5 DEF Answering, Advanced, Owed
<1>7. Answered(t, c) /\ AnswerFirst(t, c)
  BY <1>5 DEF NoAnswer, Answered, AnswerFirst
<1>8. OneOffer(t, c)
  BY <1>1, <1>4 DEF OneOffer, Near
<1>9. Offered(t, c, o, d2)
  <2>1. SUFFICES ASSUME NEW i \in At(c), c[i].type = "offer", c[i].from = o.id
                 PROVE  Awaiting(o, d2, c[i].desc.offer)
    BY DEF Offered
  <2>2. o.id # s.peer
    BY <1>4, <2>1 DEF Near
  <2>3. s.chain[1].to = s.peer
    BY <1>2, Ties
  <2>4. d2 = d
    BY <2>2, <2>3 DEF Replies, Told
  <2> QED
    BY <1>1, <1>2, <2>1, <2>4 DEF Exchange, Offered
<1>10. Described(t, c) /\ Strangers(t, c) /\ Mutual(t, c, o)
  BY KeptSide DEF Replies
<1> QED
  BY <1>6, <1>7, <1>8, <1>9, <1>10 DEF Exchange

LEMMA RepliesFar ==
    ASSUME NEW s, NEW c, NEW o, NEW d, NEW n, Pair(s, c, o, d, n), NEW t, NEW d2,
           SameView(t, s), Replies(t, s, o, d2, d)
    PROVE  Exchange(o, d2, t, c)
<1>1. /\ Exchange(s, c, o, d) /\ Exchange(o, d, s, c) /\ t.peer = s.peer /\ t.id = s.id
      /\ Pair(o, d, s, c, n) /\ s \in PageRecord /\ d \in Seq(Messages)
  BY OtherSide DEF SameView
<1> DEFINE h == s.chain[1]
<1>2. 1 \in At(s.chain) /\ h.op = "setAnswer" /\ s.sig = "remote" /\ \A m : ~Awaiting(s, c, m)
  BY DEF Replies, First, Awaiting
<1>3. Answers(h) /\ h.to = s.peer /\ s.id # NoPeer /\ s.peer # NoPeer
  BY <1>2, Ties DEF Answers
<1>4. Owed(o, t, c)
  BY <1>1, <1>2, Ties DEF Owed
<1>5. \A i \in At(d) : d[i].type = "offer" /\ d[i].from = s.id => s.id < o.id /\ o.sig = "local"
  BY <1>1, <1>2 DEF Exchange, Offered
<1> DEFINE x == Message("answer", s.id, FALSE, h.desc)
<1>6. h.desc \in Descs /\ s.id \in Ids \cup {NoPeer}
  BY <1>1, <1>2, Ties DEF PageRecord, Ops
<1> HIDE DEF h
<1>7. x \in Messages /\ x.type = "answer" /\ x.from = s.id /\ x.desc = h.desc
  BY <1>6 DEF Message, Messages
<1>8. Told(d2, d, o, s.peer, x)
  BY <1>3 DEF Replies, h
<1> HIDE DEF x
<1>9. d2 = d \/ (o.id = s.peer /\ Extended(d2, d, x))
  BY <1>1, <1>7, <1>8, ToldExtends
<1>10. CASE o.id = s.peer /\ Extended(d2, d, x)
  <2>1. /\ \A i \in At(d) : i \in Nat /\ i <= Len(d) /\ i < Len(d) + 1 /\ d2[i] = d[i] /\ i \in At(d2)
        /\ \A i \in At(d2) : (i \in At(d) /\ i < Len(d) + 1 /\ d2[i] = d[i])
                                \/ (i = Len(d) + 1 /\ d2[i] = x)
        /\ Len(d) \in Nat /\ Len(d) + 1 \in At(d2) /\ d2[Len(d) + 1] = x
    BY <1>10 DEF Extended
  <2>2. o.peer = s.id /\ Awaiting(o, d, h.desc.offer) /\ s.peer = o.id
    BY <1>2, <1>3, <1>10, Ties DEF h
  <2>3. /\ o.sig = "local" /\ o.offers = h.desc.offer
        /\ \A i \in At(o.chain) : o.chain[i].op # "setAnswered"
        /\ \A i \in At(d) : ~Near(o, d[i], "answer")
    BY <2>2 DEF Awaiting, NoAnswer
  <2>4. Near(o, x, "answer") /\ ~Near(o, x, "offer") /\ x.type \notin Presence /\ x.type # "offer"
    BY <1>7, <2>2 DEF Near, Presence
  <2>5. Described(o, d2) /\ Answering(o, d2)
    BY <1>1, <2>1, <2>4 DEF Exchange, Described, Answering
  <2>6. Answered(o, d2)
    BY <1>7, <2>1, <2>3 DEF Answered
  <2>7. ~o.impolite => \A i \in At(d) : ~Near(o, d[i], "offer")
    BY <1>3, <1>5, <2>2, Elder DEF Near
  <2>8. ~o.impolite => \A j \in At(o.chain) : o.chain[j].op # "setRemote"
    <3>1. \A j \in At(o.chain) : ~Answers(o.chain[j])
      BY <1>1, <1>2, <2>2, Ties
    <3> QED
      BY <3>1 DEF Answers
  <2>9. AnswerFirst(o, d2)
    BY <2>1, <2>3, <2>4, <2>7, <2>8 DEF AnswerFirst
  <2>10. OneOffer(o, d2)
    BY <1>1, <2>1, <2>3, <2>4 DEF Exchange, OneOffer
  <2>11. Strangers(o, d2)
    BY <1>1, <1>7, <2>1, <2>2, <2>4 DEF Exchange, Strangers
  <2>12. Mutual(o, d2, t)
    BY <1>1, <1>7, <2>1, <2>2 DEF Exchange, Mutual
  <2>13. Offered(o, d2, t, c)
    BY <1>1, <1>5, <1>7, <2>1, <2>4 DEF Offered
  <2> QED
    BY <1>4, <2>5, <2>6, <2>9, <2>10, <2>11, <2>12, <2>13 DEF Exchange
<1>11. CASE d2 = d /\ o.id # s.peer
  <2>1. \A i \in At(d) : ~(d[i].type = "offer" /\ d[i].from = s.id)
    BY <1>1, <1>11, Ties, SaidTypes
  <2>2. Offered(o, d, t, c)
    BY <1>1, <2>1 DEF Offered
  <2> QED
    BY <1>1, <1>4, <1>11, <2>2, SameSide DEF Exchange
<1>12. d2 = d => o.id # s.peer
  <2>1. Append(d, x) # d
    BY <1>1, <1>7, Appended
  <2> QED
    BY <1>8, <2>1 DEF Told
<1> QED
  BY <1>9, <1>10, <1>11, <1>12

\* The same offers are answered, the same answers expected.
LEMMA IdlesKeep ==
    ASSUME NEW s, NEW c, NEW o, NEW d, NEW n, Pair(s, c, o, d, n), NEW t, NEW d2,
           Idles(t, s, o, d2, d)
    PROVE  \E k \in {0, 1} :
              /\ Keeps(t.chain, s.chain, k)
              /\ \A i \in At(s.chain) : ~Plain(s.chain[i]) =>
                    \E j \in At(t.chain) : t.chain[j] = s.chain[i]
<1>1. CASE Keeps(t.chain, s.chain, 0)
  BY <1>1 DEF Keeps
<1>2. CASE Plain(s.chain[1]) /\ Keeps(t.chain, s.chain, 1)
  BY <1>2 DEF Keeps
<1> QED
  BY <1>1, <1>2 DEF Idles

LEMMA IdlesNear ==
    ASSUME NEW s, NEW c, NEW o, NEW d, NEW n, Pair(s, c, o, d, n), NEW t, NEW d2,
           SameView(t, s), Idles(t, s, o, d2, d)
    PROVE  /\ Exchange(t, c, o, d2)
           /\ \A m : Awaiting(s, c, m) => Awaiting(t, c, m)
<1>1. /\ Exchange(s, c, o, d) /\ t.peer = s.peer /\ t.id = s.id /\ (t.impolite <=> s.impolite)
      /\ s \in PageRecord /\ d \in Seq(Messages) /\ t.sig = s.sig /\ t.offers = s.offers
  BY OtherSide DEF SameView, Idles
<1>2. PICK k \in {0, 1} : Keeps(t.chain, s.chain, k)
  BY IdlesKeep
<1>3. \A i \in At(t.chain) :
         Fresh(t.chain[i]) \/ (i + k \in At(s.chain) /\ t.chain[i] = s.chain[i + k])
  BY <1>2 DEF Keeps
<1>4. ASSUME NEW i \in At(t.chain), NEW j \in At(t.chain)
      PROVE  (i + k = j + k => i = j) /\ (i + k < j + k => i < j)
  BY DEF At
<1>5. \A m : Awaiting(s, c, m) => Awaiting(t, c, m)
  BY <1>1, <1>3 DEF Awaiting, NoAnswer, Near, Fresh, Plain
<1>6. Answering(t, c)
  <2>1. \A i \in At(t.chain) : Advanced(t.chain[i]) => t.sig = "remote"
    BY <1>1, <1>3 DEF Exchange, Answering, Fresh, Plain, Advanced
  <2>2. \A i, j \in At(t.chain) : Answers(t.chain[i]) /\ Answers(t.chain[j]) => i = j
    BY <1>1, <1>3, <1>4 DEF Exchange, Answering, Fresh, Plain
  <2>3. \A i \in At(t.chain), j \in At(c) : Answers(t.chain[i]) => ~Near(t, c[j], "offer")
    BY <1>1, <1>3 DEF Exchange, Answering, Fresh, Plain, Near
  <2> QED
    BY <2>1, <2>2, <2>3 DEF Answering
<1>7. Answered(t, c)
  <2>1. ASSUME NEW i \in At(t.chain), t.chain[i].op = "setAnswered"
        PROVE  /\ t.sig = "local" /\ t.chain[i].desc.offer = t.offers
               /\ \A j \in At(t.chain) : t.chain[j].op = "setAnswered" => j = i
               /\ \A j \in At(c) : ~Near(t, c[j], "answer")
    BY <1>1, <1>3, <1>4, <2>1 DEF Exchange, Answered, Fresh, Plain, Near
  <2>2. ASSUME NEW i \in At(c), Near(t, c[i], "answer")
        PROVE  /\ t.sig = "local" /\ c[i].desc.offer = t.offers
               /\ \A j \in At(c) : Near(t, c[j], "answer") => j = i
    BY <1>1, <2>2 DEF Exchange, Answered, Near
  <2> QED
    BY <2>1, <2>2 DEF Answered
<1>8. AnswerFirst(t, c)
  <2>1. SUFFICES ASSUME ~s.impolite
                 PROVE  /\ \A i, j \in At(t.chain) :
                              t.chain[i].op = "setAnswered" /\ t.chain[j].op = "setRemote" => i < j
                        /\ \A i \in At(c) : Near(t, c[i], "answer") =>
                              /\ \A j \in At(t.chain) : t.chain[j].op # "setRemote"
                              /\ \A j \in At(c) : Near(t, c[j], "offer") => i < j
    BY <1>1 DEF AnswerFirst
  <2>2. \A i \in At(t.chain) : t.chain[i].op \in {"setAnswered", "setRemote"} =>
           i + k \in At(s.chain) /\ t.chain[i] = s.chain[i + k]
    BY <1>3 DEF Fresh, Plain, Answers
  <2>3. \A i, j \in At(t.chain) :
           t.chain[i].op = "setAnswered" /\ t.chain[j].op = "setRemote" => i < j
    BY <1>1, <1>4, <2>1, <2>2 DEF Exchange, AnswerFirst
  <2>4. \A i \in At(c) : Near(t, c[i], "answer") =>
           /\ \A j \in At(t.chain) : t.chain[j].op # "setRemote"
           /\ \A j \in At(c) : Near(t, c[j], "offer") => i < j
    BY <1>1, <2>1, <2>2 DEF Exchange, AnswerFirst, Near
  <2> QED
    BY <2>3, <2>4
<1>9. OneOffer(t, c)
  <2>1. \A i \in At(t.chain) : t.chain[i].op = "setAnswered" =>
           i + k \in At(s.chain) /\ t.chain[i] = s.chain[i + k]
    BY <1>3 DEF Fresh, Plain
  <2> QED
    BY <1>1, <2>1 DEF Exchange, OneOffer, Near
<1> DEFINE x == Message("ice", s.id, FALSE, NoDesc)
<1>10. x \in Messages /\ x.type = "ice"
  BY <1>1, NoDescType DEF Message, Messages, PageRecord
<1>11. d2 = d \/ Told(d2, d, o, s.peer, x)
  BY DEF Idles
<1> HIDE DEF x
<1>12. d2 = d \/ Extended(d2, d, x)
  BY <1>1, <1>10, <1>11, ToldExtends
<1>13. \A m : Awaiting(o, d, m) => Awaiting(o, d2, m)
  BY <1>10, <1>12 DEF Awaiting, NoAnswer, Near, Extended
<1>14. Owed(t, o, d2)
  BY <1>1, <1>3, <1>13 DEF Exchange, Owed, Fresh, Plain
<1>15. Offered(t, c, o, d2)
  BY <1>1, <1>13 DEF Exchange, Offered
<1>16. Described(t, c) /\ Strangers(t, c) /\ Mutual(t, c, o)
  BY <1>2, KeptSide
<1> QED
  BY <1>5, <1>6, <1>7, <1>8, <1>9, <1>14, <1>15, <1>16 DEF Exchange

LEMMA IdlesFar ==
    ASSUME NEW s, NEW c, NEW o, NEW d, NEW n, Pair(s, c, o, d, n), NEW t, NEW d2,
           SameView(t, s), Idles(t, s, o, d2, d)
    PROVE  Exchange(o, d2, t, c)
<1>1. /\ Exchange(s, c, o, d) /\ Exchange(o, d, s, c) /\ t.peer = s.peer /\ t.id = s.id
      /\ Pair(o, d, s, c, n) /\ s \in PageRecord /\ d \in Seq(Messages)
  BY OtherSide DEF SameView
<1>2. \A m : Awaiting(s, c, m) => Awaiting(t, c, m)
  BY IdlesNear
<1>3. Owed(o, t, c)
  BY <1>1, <1>2 DEF Exchange, Owed
<1>4. (\E j \in At(s.chain) : Advanced(s.chain[j])) => \E j \in At(t.chain) : Advanced(t.chain[j])
  <2>1. \A i \in At(s.chain) : ~Plain(s.chain[i]) => \E j \in At(t.chain) : t.chain[j] = s.chain[i]
    BY IdlesKeep
  <2>2. ASSUME NEW i \in At(s.chain), Advanced(s.chain[i])
        PROVE  \E j \in At(t.chain) : Advanced(t.chain[j])
    <3>1. ~Plain(s.chain[i])
      BY <2>2 DEF Advanced, Plain
    <3>2. PICK j \in At(t.chain) : t.chain[j] = s.chain[i]
      BY <2>1, <3>1
    <3> QED
      BY <2>2, <3>2
  <2> QED
    BY <2>2
<1>5. CASE d2 = d
  <2>1. Offered(o, d, t, c)
    BY <1>1, <1>2, <1>4 DEF Exchange, Offered
  <2> QED
    BY <1>1, <1>3, <1>5, <2>1, SameSide DEF Exchange
<1>6. ASSUME NEW x \in Messages, x.type = "ice", x.from = s.id, Extended(d2, d, x), o.id = s.peer
      PROVE  Exchange(o, d2, t, c)
  <2>1. /\ \A i \in At(d) : d2[i] = d[i] /\ i \in At(d2)
        /\ \A i \in At(d2) : (i \in At(d) /\ d2[i] = d[i]) \/ d2[i] = x
    BY <1>6 DEF Extended
  <2>2. \A i \in At(d2) : d2[i].type # "ice" => i \in At(d) /\ d2[i] = d[i]
    BY <1>6, <2>1
  <2>3. /\ \A i \in At(d2) : Near(o, d2[i], "offer") => i \in At(d) /\ d2[i] = d[i]
        /\ \A i \in At(d2) : Near(o, d2[i], "answer") => i \in At(d) /\ d2[i] = d[i]
    BY <2>2 DEF Near
  <2>4. Described(o, d2) /\ Answering(o, d2)
    BY <1>1, <2>2, <2>3 DEF Exchange, Described, Answering
  <2>5. Answered(o, d2)
    BY <1>1, <2>3 DEF Exchange, Answered
  <2>6. AnswerFirst(o, d2)
    BY <1>1, <2>3 DEF Exchange, AnswerFirst
  <2>7. OneOffer(o, d2)
    BY <1>1, <2>3 DEF Exchange, OneOffer
  <2>8. Strangers(o, d2)
    BY <1>1, <1>6, <2>1, <2>2 DEF Exchange, Strangers
  <2>9. Mutual(o, d2, t)
    BY <1>1, <1>6, <2>1 DEF Exchange, Mutual
  <2>10. Offered(o, d2, t, c)
    BY <1>1, <1>2, <1>4, <2>1, <2>2 DEF Exchange, Offered
  <2> QED
    BY <1>3, <2>4, <2>5, <2>6, <2>7, <2>8, <2>9, <2>10 DEF Exchange
<1> DEFINE x == Message("ice", s.id, FALSE, NoDesc)
<1>7. x \in Messages /\ x.type = "ice" /\ x.from = s.id
  BY <1>1, NoDescType DEF Message, Messages, PageRecord
<1>8. d2 = d \/ Told(d2, d, o, s.peer, x)
  BY DEF Idles
<1> HIDE DEF x
<1>9. d2 = d \/ (o.id = s.peer /\ Extended(d2, d, x))
  BY <1>1, <1>7, <1>8, ToldExtends
<1> QED
  BY <1>5, <1>6, <1>7, <1>9

\* Work keeps the pages' exchange in order.
LEMMA WorkedExchange ==
    ASSUME NEW s, NEW c, NEW o, NEW d, NEW n, Pair(s, c, o, d, n), NEW t \in PageRecord, NEW d2,
           Worked(t, s, o, d2, d)
    PROVE  Exchange(t, c, o, d2) /\ Exchange(o, d2, t, c)
<1>1. s \in PageRecord /\ Described(s, c) /\ Answering(s, c) /\ Answered(s, c) /\ Alone(s)
  BY OtherSide DEF Exchange, Acquainted
<1>2. Acted(t, s, o, d2, d)
  BY <1>1, ActsOfWork
<1>3. SameView(t, s)
  BY <1>2 DEF Acted
<1>4. CASE Idles(t, s, o, d2, d)
  BY <1>3, <1>4, IdlesNear, IdlesFar
<1>5. CASE Offers(t, s, o, d2, d)
  BY <1>3, <1>5, OffersNear, OffersFar
<1>6. CASE Proceeds(t, s, d2, d)
  BY <1>3, <1>6, ProceedsNear, ProceedsFar
<1>7. CASE Replies(t, s, o, d2, d)
  BY <1>3, <1>7, RepliesNear, RepliesFar
<1>8. CASE Settles(t, s, d2, d)
  BY <1>3, <1>8, SettlesNear, SettlesFar
<1> QED
  BY <1>2, <1>4, <1>5, <1>6, <1>7, <1>8 DEF Acted

-------------------------------------------------------------------------------
(* What a message that is read does to offers and answers: e is c without  *)
(* that message.                                                           *)

\* The messages in c and in e, and which of them are of the page s talks to.
Later(t, e, s, c) ==
    /\ \A i \in At(e) : /\ i \in Nat \ {0} /\ i + 1 \in At(c) /\ e[i] = c[i + 1]
                        /\ Near(t, e[i], "offer") <=> Near(s, c[i + 1], "offer")
                        /\ Near(t, e[i], "answer") <=> Near(s, c[i + 1], "answer")
    /\ \A i \in At(c) : i \in Nat \ {0} /\ (i # 1 => i - 1 \in At(e) /\ e[i - 1] = c[i])
    /\ 1 \in At(c)

LEMMA ShiftedNear ==
    ASSUME NEW s, NEW t, t.peer = s.peer, NEW e, NEW c, Shifted(e, c)
    PROVE  Later(t, e, s, c)
<1>1. \A i \in At(e) : i \in Nat \ {0} /\ i + 1 \in At(c) /\ e[i] = c[i + 1]
  BY DEF Shifted
<1>2. \A j \in At(c) : j \in Nat \ {0}
  BY DEF At
<1>3. \A i \in At(e) : /\ Near(t, e[i], "offer") <=> Near(s, c[i + 1], "offer")
                      /\ Near(t, e[i], "answer") <=> Near(s, c[i + 1], "answer")
  BY <1>1 DEF Near
<1>4. 1 \in At(c) /\ \A i \in At(c) : i # 1 => i - 1 \in At(e) /\ e[i - 1] = c[i]
  BY DEF Shifted
<1> QED
  BY <1>1, <1>2, <1>3, <1>4 DEF Later, Near

\* The message is dropped, or is a candidate.
Drops(t, s) ==
    /\ SameView(t, s) /\ t.sig = s.sig /\ t.offers = s.offers /\ t.chain = s.chain
    /\ (t.making <=> s.making)
    /\ t.dir = s.dir /\ (t.needs <=> s.needs) /\ t.heard = s.heard

LEMMA DroppedNear ==
    ASSUME NEW s, NEW c, NEW o, NEW d, NEW n, Pair(s, c, o, d, n), NEW t, NEW e, Shifted(e, c),
           Drops(t, s)
    PROVE  Exchange(t, e, o, d) /\ \A m : Awaiting(s, c, m) => Awaiting(t, e, m)
<1>1. Exchange(s, c, o, d) /\ t.peer = s.peer /\ t.id = s.id /\ (t.impolite <=> s.impolite)
      /\ t.sig = s.sig /\ t.offers = s.offers /\ t.chain = s.chain
  BY OtherSide DEF SameView, Drops
<1>2. Later(t, e, s, c)
  BY <1>1, ShiftedNear
<1>3. Described(t, e) /\ Answering(t, e)
  BY <1>1, <1>2 DEF Exchange, Described, Answering, Later
<1>4. Answered(t, e)
  BY <1>1, <1>2 DEF Exchange, Answered, Later
<1>5. AnswerFirst(t, e)
  BY <1>1, <1>2 DEF Exchange, AnswerFirst, Later
<1>6. OneOffer(t, e)
  BY <1>1, <1>2 DEF Exchange, OneOffer, Later
<1>7. Strangers(t, e)
  BY <1>1, <1>2 DEF Exchange, Strangers, Later
<1>8. Mutual(t, e, o)
  BY <1>1, <1>2 DEF Exchange, Mutual, Later
<1>9. Owed(t, o, d)
  BY <1>1 DEF Exchange, Owed
<1>10. Offered(t, e, o, d)
  BY <1>1, <1>2 DEF Exchange, Offered, Later
<1>11. \A m : Awaiting(s, c, m) => Awaiting(t, e, m)
  BY <1>1, <1>2 DEF Awaiting, NoAnswer, Later
<1> QED
  BY <1>3, <1>4, <1>5, <1>6, <1>7, <1>8, <1>9, <1>10, <1>11 DEF Exchange

LEMMA DroppedFar ==
    ASSUME NEW s, NEW c, NEW o, NEW d, NEW n, Pair(s, c, o, d, n), NEW t, NEW e, Shifted(e, c),
           Drops(t, s)
    PROVE  Exchange(o, d, t, e)
<1>1. Exchange(o, d, s, c) /\ t.id = s.id /\ SameView(t, s) /\ t.chain = s.chain
  BY OtherSide DEF SameView, Drops
<1>2. \A m : Awaiting(s, c, m) => Awaiting(t, e, m)
  BY DroppedNear
<1>3. Owed(o, t, e)
  BY <1>1, <1>2 DEF Exchange, Owed, Later
<1>4. Offered(o, d, t, e)
  BY <1>1, <1>2 DEF Exchange, Offered, Later
<1> QED
  BY <1>1, <1>3, <1>4, SameSide DEF Exchange

\* An offer is accepted.
Accepts(t, s, m) ==
    /\ m.type = "offer" /\ s.peer = m.from /\ SameView(t, s)
    /\ t.sig = s.sig /\ t.offers = s.offers /\ (s.impolite => s.sig = "stable")
    /\ (t.making <=> s.making) /\ t.dir = s.dir /\ t.heard = s.heard
    /\ t.needs <=> s.needs \/ Busy(s)
    /\ \E x \in Ops : /\ x.op = "setRemote" /\ x.to = s.peer /\ x.desc = m.desc
                      /\ Extended(t.chain, s.chain, x)

LEMMA AcceptsNear ==
    ASSUME NEW s, NEW c, NEW o, NEW d, NEW n, Pair(s, c, o, d, n), NEW t, NEW e, Shifted(e, c),
           Accepts(t, s, c[1])
    PROVE  Exchange(t, e, o, d)
<1>1. /\ Exchange(s, c, o, d) /\ t.peer = s.peer /\ t.id = s.id /\ (t.impolite <=> s.impolite)
      /\ t.sig = s.sig /\ t.offers = s.offers
  BY OtherSide DEF SameView, Accepts
<1>2. Later(t, e, s, c)
  BY <1>1, ShiftedNear
<1> DEFINE h == c[1]
<1>3. /\ h.type = "offer" /\ h.from = s.peer /\ Near(s, h, "offer") /\ h.from # NoPeer
      /\ (s.impolite => s.sig = "stable") /\ s.id # NoPeer
      /\ h.from = o.id => o.peer = s.id
  BY <1>2, Ties, SaidTypes DEF Accepts, Near, Later
<1>4. PICK x \in Ops : /\ x.op = "setRemote" /\ x.to = s.peer /\ x.desc = h.desc
                       /\ Extended(t.chain, s.chain, x)
  BY DEF Accepts
<1>5. /\ \A i \in At(t.chain) : \/ i \in At(s.chain) /\ i < Len(s.chain) + 1 /\ t.chain[i] = s.chain[i]
                                \/ i = Len(s.chain) + 1 /\ t.chain[i] = x
  BY <1>4 DEF Extended
<1>6. Answers(x) /\ ~Advanced(x) /\ x.op = "setRemote"
  BY <1>4 DEF Answers, Advanced
<1>7. \A i \in At(s.chain) : ~Answers(s.chain[i])
  BY <1>1, <1>2, <1>3 DEF Exchange, Answering, Later
\* There is no second offer to read.
<1>8. \A i \in At(e) : ~Near(t, e[i], "offer")
  <2>1. CASE s.impolite
    BY <1>1, <1>2, <1>3, <2>1 DEF Exchange, OneOffer, Later
  <2>2. CASE ~s.impolite
    BY <1>1, <1>2, <1>3, <2>2 DEF Exchange, OneOffer, Later
  <2> QED
    BY <2>1, <2>2
\* An answer that a polite page is to read would have come first.
<1>9. ~s.impolite => \A i \in At(e) : ~Near(t, e[i], "answer")
  <2>1. SUFFICES ASSUME ~s.impolite, NEW i \in At(e), Near(t, e[i], "answer")
                 PROVE  FALSE
    OBVIOUS
  <2>2. Near(s, c[i + 1], "answer") /\ i + 1 \in At(c) /\ 1 < i + 1
    BY <1>2, <2>1 DEF Later
  <2>3. i + 1 < 1
    BY <1>1, <1>2, <1>3, <2>1, <2>2 DEF Exchange, AnswerFirst, Later
  <2>4. i \in Nat
    BY <2>1 DEF At
  <2> QED
    BY <2>2, <2>3, <2>4
<1> HIDE DEF h
<1>10. Described(t, e)
  <2>1. h.desc # NoDesc
    BY <1>1, <1>2, <1>3 DEF Exchange, Described, h, Later
  <2> QED
    BY <1>1, <1>2, <1>4, <1>5, <2>1 DEF Exchange, Described, Later
<1>11. Answering(t, e)
  BY <1>1, <1>5, <1>6, <1>7, <1>8 DEF Answering, Advanced
<1>12. Answered(t, e)
  <2>1. ASSUME NEW i \in At(t.chain), t.chain[i].op = "setAnswered"
        PROVE  /\ t.sig = "local" /\ t.chain[i].desc.offer = t.offers
               /\ \A j \in At(t.chain) : t.chain[j].op = "setAnswered" => j = i
               /\ \A j \in At(e) : ~Near(t, e[j], "answer")
    BY <1>1, <1>2, <1>5, <1>6, <2>1 DEF Exchange, Answered, Later
  <2>2. ASSUME NEW i \in At(e), Near(t, e[i], "answer")
        PROVE  /\ t.sig = "local" /\ e[i].desc.offer = t.offers
               /\ \A j \in At(e) : Near(t, e[j], "answer") => j = i
    BY <1>1, <1>2, <2>2 DEF Exchange, Answered, Later
  <2> QED
    BY <2>1, <2>2 DEF Answered
<1>13. AnswerFirst(t, e)
  <2>1. ~s.impolite => \A i, j \in At(t.chain) :
           t.chain[i].op = "setAnswered" /\ t.chain[j].op = "setRemote" => i < j
    BY <1>1, <1>5, <1>6 DEF Exchange, AnswerFirst
  <2> QED
    BY <1>1, <1>9, <2>1 DEF AnswerFirst
<1>14. OneOffer(t, e)
  BY <1>1, <1>8 DEF OneOffer
<1>15. Strangers(t, e)
  BY <1>1, <1>2 DEF Exchange, Strangers, Later
<1>16. Mutual(t, e, o)
  BY <1>1, <1>2, <1>3, <1>4, <1>5 DEF Exchange, Mutual, Later
<1>17. Owed(t, o, d)
  <2>1. ASSUME h.from = o.id
        PROVE  Awaiting(o, d, h.desc.offer)
    <3>1. ~(o.id < s.id /\ s.sig = "local")
      BY <1>2, <1>3, <2>1, TakenBack DEF h, Later
    <3> QED
      BY <1>1, <1>2, <1>3, <2>1, <3>1 DEF Exchange, Offered, h, Later
  <2> QED
    BY <1>1, <1>3, <1>4, <1>5, <1>7, <2>1 DEF Owed
<1>18. Offered(t, e, o, d)
  BY <1>1, <1>2 DEF Exchange, Offered, Later
<1> QED
  BY <1>10, <1>11, <1>12, <1>13, <1>14, <1>15, <1>16, <1>17, <1>18 DEF Exchange

LEMMA AcceptsFar ==
    ASSUME NEW s, NEW c, NEW o, NEW d, NEW n, Pair(s, c, o, d, n), NEW t, NEW e, Shifted(e, c),
           Accepts(t, s, c[1])
    PROVE  Exchange(o, d, t, e)
<1>1. Exchange(o, d, s, c) /\ t.id = s.id /\ t.peer = s.peer /\ SameView(t, s)
      /\ t.sig = s.sig /\ t.offers = s.offers
  BY OtherSide DEF SameView, Accepts
<1>2. Later(t, e, s, c)
  BY <1>1, ShiftedNear
<1>3. PICK x \in Ops : x.op = "setRemote" /\ Extended(t.chain, s.chain, x)
  BY DEF Accepts
<1>4. /\ \A i \in At(t.chain) : (i \in At(s.chain) /\ t.chain[i] = s.chain[i]) \/ t.chain[i] = x
      /\ \A i \in At(s.chain) : i \in At(t.chain) /\ t.chain[i] = s.chain[i]
  BY <1>3 DEF Extended
<1>5. \A m : Awaiting(s, c, m) => Awaiting(t, e, m)
  BY <1>1, <1>2, <1>3, <1>4 DEF Awaiting, NoAnswer, Later
<1>6. Owed(o, t, e)
  BY <1>1, <1>5 DEF Exchange, Owed
<1>7. Offered(o, d, t, e)
  BY <1>1, <1>4, <1>5 DEF Exchange, Offered
<1> QED
  BY <1>1, <1>6, <1>7, SameSide DEF Exchange

\* An answer is to be applied.
Hears(t, s, m) ==
    /\ m.type = "answer" /\ s.peer = m.from /\ SameView(t, s)
    /\ t.sig = s.sig /\ t.offers = s.offers /\ (t.making <=> s.making) /\ SameMedia(t, s)
    /\ \E x \in Ops : /\ x.op = "setAnswered" /\ x.to = s.peer /\ x.desc = m.desc
                      /\ Extended(t.chain, s.chain, x)

LEMMA HearsNear ==
    ASSUME NEW s, NEW c, NEW o, NEW d, NEW n, Pair(s, c, o, d, n), NEW t, NEW e, Shifted(e, c),
           Hears(t, s, c[1])
    PROVE  Exchange(t, e, o, d)
<1>1. /\ Exchange(s, c, o, d) /\ t.peer = s.peer /\ t.id = s.id /\ (t.impolite <=> s.impolite)
      /\ t.sig = s.sig /\ t.offers = s.offers
  BY OtherSide DEF SameView, Hears
<1>2. Later(t, e, s, c)
  BY <1>1, ShiftedNear
<1> DEFINE h == c[1]
<1>3. 1 \in At(c) /\ Near(s, h, "answer") /\ h.from = s.peer /\ (h.from = o.id => o.peer = s.id)
  BY <1>2, Ties, SaidTypes DEF Hears, Near, Later
<1>4. PICK x \in Ops : /\ x.op = "setAnswered" /\ x.to = s.peer /\ x.desc = h.desc
                       /\ Extended(t.chain, s.chain, x)
  BY DEF Hears
<1>5. /\ \A i \in At(t.chain) : \/ i \in At(s.chain) /\ i < Len(s.chain) + 1 /\ t.chain[i] = s.chain[i]
                                \/ i = Len(s.chain) + 1 /\ t.chain[i] = x
  BY <1>4 DEF Extended
<1>6. ~Answers(x) /\ ~Advanced(x) /\ x.op = "setAnswered"
  BY <1>4 DEF Answers, Advanced
<1>7. /\ s.sig = "local" /\ h.desc.offer = s.offers
      /\ \A j \in At(c) : Near(s, c[j], "answer") => j = 1
      /\ \A i \in At(s.chain) : s.chain[i].op # "setAnswered"
  BY <1>1, <1>3 DEF Exchange, Answered
<1> HIDE DEF h
<1>8. \A i \in At(e) : ~Near(t, e[i], "answer")
  BY <1>2, <1>7 DEF Later
<1>9. Described(t, e)
  BY <1>1, <1>2, <1>5, <1>6 DEF Exchange, Described, Later
<1>10. Answering(t, e)
  <2>1. \A i \in At(t.chain) : Answers(t.chain[i]) => i \in At(s.chain) /\ t.chain[i] = s.chain[i]
    BY <1>5, <1>6
  <2>2. \A i \in At(t.chain) : Advanced(t.chain[i]) => t.sig = "remote"
    BY <1>1, <2>1 DEF Exchange, Answering, Advanced
  <2> QED
    BY <1>1, <1>2, <2>1, <2>2 DEF Exchange, Answering, Later
<1>11. Answered(t, e)
  BY <1>1, <1>4, <1>5, <1>7, <1>8 DEF Answered
<1>12. AnswerFirst(t, e)
  <2>1. ~s.impolite => \A i \in At(t.chain) : t.chain[i].op # "setRemote"
    BY <1>1, <1>3, <1>5, <1>6 DEF Exchange, AnswerFirst, h
  <2> QED
    BY <1>1, <1>8, <2>1 DEF AnswerFirst
<1>13. OneOffer(t, e)
  <2>1. CASE ~s.impolite
    BY <1>1, <1>2, <2>1 DEF Exchange, OneOffer, Later
  <2>2. CASE s.impolite
    <3>1. SUFFICES ASSUME NEW i \in At(e), NEW j \in At(e), i < j, Near(t, e[i], "offer"),
                          Near(t, e[j], "offer") \/ Near(t, e[j], "answer")
                   PROVE  FALSE
      BY <1>1, <2>2 DEF OneOffer
    <3>2. /\ i + 1 \in At(c) /\ j + 1 \in At(c) /\ i + 1 < j + 1 /\ i \in Nat
          /\ Near(s, c[i + 1], "offer")
          /\ Near(s, c[j + 1], "offer") \/ Near(s, c[j + 1], "answer")
      BY <1>2, <3>1 DEF Later
    <3>3. i + 1 < 1
      BY <1>1, <1>3, <2>2, <3>2 DEF Exchange, OneOffer, h
    <3> QED
      BY <3>2, <3>3
  <2> QED
    BY <2>1, <2>2
<1>14. Strangers(t, e)
  BY <1>1, <1>2 DEF Exchange, Strangers, Later
<1>15. Mutual(t, e, o)
  BY <1>1, <1>2, <1>3, <1>4, <1>5 DEF Exchange, Mutual, Later
<1>16. Owed(t, o, d)
  BY <1>1, <1>5, <1>6 DEF Exchange, Owed
<1>17. Offered(t, e, o, d)
  BY <1>1, <1>2 DEF Exchange, Offered, Later
<1> QED
  BY <1>9, <1>10, <1>11, <1>12, <1>13, <1>14, <1>15, <1>16, <1>17 DEF Exchange

LEMMA HearsFar ==
    ASSUME NEW s, NEW c, NEW o, NEW d, NEW n, Pair(s, c, o, d, n), NEW t, NEW e, Shifted(e, c),
           Hears(t, s, c[1])
    PROVE  Exchange(o, d, t, e)
<1>1. Exchange(o, d, s, c) /\ t.id = s.id /\ SameView(t, s) /\ Pair(o, d, s, c, n)
  BY OtherSide DEF SameView, Hears
<1>2. 1 \in At(c) /\ Near(s, c[1], "answer")
  BY DEF Hears, Near, Shifted
<1>3. \A m : ~Awaiting(s, c, m)
  BY <1>2 DEF Awaiting, NoAnswer
<1>4. \A i \in At(s.chain) : i \in At(t.chain) /\ t.chain[i] = s.chain[i]
  BY DEF Hears, Extended
<1>5. Owed(o, t, e)
  BY <1>1, <1>3 DEF Exchange, Owed
<1>6. Offered(o, d, t, e)
  BY <1>1, <1>3, <1>4 DEF Exchange, Offered
<1> QED
  BY <1>1, <1>5, <1>6, SameSide DEF Exchange

\* A page that talks to nobody reads whom it is to talk to.
Meets(t, s, m) ==
    /\ m.type \in {"welcome", "joined"} /\ s.peer = NoPeer
    /\ t.id = s.id /\ t.peer = m.from /\ t.sig = "stable" /\ SameMedia(t, s)
    /\ m.type = "welcome" /\ m.from # NoPeer => t.making
    /\ \A i \in At(t.chain) : t.chain[i].op = "createOffer"

LEMMA MeetsBoth ==
    ASSUME NEW s, NEW c, NEW o, NEW d, NEW n, Pair(s, c, o, d, n), NEW t, NEW e, Shifted(e, c),
           Meets(t, s, c[1])
    PROVE  Exchange(t, e, o, d) /\ Exchange(o, d, t, e)
<1>1. /\ Exchange(s, c, o, d) /\ Exchange(o, d, s, c) /\ t.id = s.id
      /\ Acquainted(s, c, o, n) /\ Acquainted(o, d, s, n) /\ Pair(o, d, s, c, n)
  BY OtherSide DEF Meets
<1>2. /\ s.peer = NoPeer /\ s.sig = "stable" /\ At(s.chain) = {} /\ s.id # NoPeer
      /\ \A m : ~Awaiting(s, c, m)
  <2>1. s.peer = NoPeer /\ s.sig = "stable" /\ s.chain = <<>>
    BY <1>1 DEF Meets, Acquainted, Alone
  <2>2. 1 \in At(c)
    BY DEF Shifted
  <2>3. s.id # NoPeer
    BY <2>2, Ties
  <2> QED
    BY <2>1, <2>3, EmptySeq DEF At, Awaiting
<1>3. /\ \A i \in At(t.chain) : ~Answers(t.chain[i]) /\ ~Advanced(t.chain[i])
      /\ \A i \in At(t.chain) : t.chain[i].op \notin {"setAnswered", "setOffer", "setRemote"}
  BY DEF Meets, Answers, Advanced
\* Whoever has written is a stranger to s.
<1>4. /\ \A i \in At(e) : i \in Nat /\ i + 1 \in At(c) /\ e[i] = c[i + 1]
      /\ \A i \in At(c) : c[i].type \notin Presence => c[i].from # s.peer
      /\ \A i \in At(c) : c[i].type # "answer"
  <2>1. \A i \in At(e) : i \in Nat /\ i + 1 \in At(c) /\ e[i] = c[i + 1]
    BY DEF Shifted
  <2>2. \A i \in At(c) : c[i].type \notin Presence => c[i].from # s.peer
    BY <1>2, Ties
  <2>3. \A i \in At(c) : c[i].type # "answer"
    BY <1>1, <2>2, SaidTypes DEF Exchange, Strangers
  <2> QED
    BY <2>1, <2>2, <2>3
<1>5. \A i, j \in At(e) : e[i].type = "offer" /\ e[j].type = "offer" /\ e[i].from = e[j].from => i = j
  <2>1. \A i, j \in At(c) : c[i].type = "offer" /\ c[j].type = "offer" /\ c[i].from = c[j].from => i = j
    BY <1>1, <1>4, SaidTypes DEF Exchange, Strangers
  <2> QED
    BY <1>4, <2>1
<1>6. \A i \in At(e) : e[i].type # "answer"
  BY <1>4
<1>7. Described(t, e) /\ Answering(t, e) /\ Answered(t, e) /\ AnswerFirst(t, e)
  BY <1>1, <1>3, <1>4, <1>6 DEF Exchange, Described, Answering, Answered, AnswerFirst, Near
<1>8. OneOffer(t, e)
  <2>1. \A i, j \in At(e) : Near(t, e[i], "offer") /\ Near(t, e[j], "offer") => i = j
    BY <1>5 DEF Near
  <2>2. \A i, j \in At(e) : i < j /\ Near(t, e[i], "offer") => ~Near(t, e[j], "offer") /\ ~Near(t, e[j], "answer")
    <3>1. \A i \in At(e) : i \in Nat
      BY <1>4
    <3> QED
      BY <1>6, <2>1, <3>1 DEF Near
  <2> QED
    BY <2>1, <2>2 DEF OneOffer
<1>9. Strangers(t, e)
  BY <1>5, <1>6 DEF Strangers
<1>10. Mutual(t, e, o) /\ Owed(t, o, d)
  BY <1>1, <1>3, <1>4 DEF Exchange, Mutual, Owed
<1>11. Offered(t, e, o, d)
  BY <1>1, <1>2, <1>4 DEF Exchange, Offered
\* Nobody who talks to s has heard of s.
<1>12. /\ \A i \in At(o.chain) : o.chain[i].to = s.id => ~Answers(o.chain[i]) /\ o.chain[i].op # "setAnswered"
       /\ \A i \in At(d) : d[i].type \notin Presence => d[i].from # s.id
  <2>1. o.id = NoPeer => At(o.chain) = {} /\ At(d) = {}
    BY <1>1, Ties
  <2> QED
    BY <1>1, <1>2, <2>1, Ties
<1>13. Mutual(o, d, t) /\ Owed(o, t, e) /\ Offered(o, d, t, e)
  BY <1>1, <1>12, SaidTypes DEF Mutual, Owed, Offered
<1> QED
  BY <1>1, <1>7, <1>8, <1>9, <1>10, <1>11, <1>13 DEF Exchange

\* The page s talks to has left; nothing that it has written follows.
Parts(t, s, m) ==
    /\ m.type = "left" /\ s.peer = m.from /\ t.id = s.id /\ t.peer = NoPeer
    /\ t.sig = "stable" /\ t.chain = <<>>

LEMMA PartsBoth ==
    ASSUME NEW s, NEW c, NEW o, NEW d, NEW n, Pair(s, c, o, d, n), NEW t, NEW e, Shifted(e, c),
           Parts(t, s, c[1])
    PROVE  Exchange(t, e, o, d) /\ Exchange(o, d, t, e)
<1>1. /\ Exchange(s, c, o, d) /\ Exchange(o, d, s, c) /\ t.id = s.id /\ t.peer = NoPeer
      /\ t.sig = "stable" /\ Acquainted(s, c, o, n) /\ Acquainted(o, d, s, n)
      /\ Pair(o, d, s, c, n) /\ s \in PageRecord
  BY OtherSide DEF Parts
<1>2. At(t.chain) = {}
  BY EmptySeq DEF Parts, At
<1>3. /\ 1 \in At(c) /\ c[1].type = "left" /\ c[1].from = s.peer /\ s.id # NoPeer
      /\ s.peer # o.id /\ s.peer # NoPeer /\ s.peer \in Nat
  <2>1. 1 \in At(c) /\ c[1].type = "left" /\ c[1].from = s.peer
    BY DEF Parts, Shifted
  <2>2. s.id # NoPeer /\ s.peer \in Nat
    BY <2>1, Ties
  <2>3. s.peer # o.id
    BY <1>1, <2>1, <2>2 DEF Acquainted, UpToDate
  <2>4. s.peer # NoPeer
    BY <1>1, <2>1 DEF Acquainted, Introduced
  <2> QED
    BY <2>1, <2>2, <2>3, <2>4
<1>4. \A i \in At(e) : i \in Nat \ {0} /\ i + 1 \in At(c) /\ e[i] = c[i + 1]
  BY DEF Shifted
<1>5. \A i \in At(e) : e[i].type \notin Presence => e[i].from # s.peer /\ e[i].from # NoPeer
  <2>1. SUFFICES ASSUME NEW j \in At(c), j > 1, c[j].type \notin Presence, c[j].from = s.peer
                 PROVE  FALSE
    BY <1>4, Ties
  <2>2. Believes(s.peer, c, j - 1, s.peer)
    BY <1>1, <2>1 DEF Acquainted, Introduced, Presence
  <2>3. j \in Nat /\ 1 \in 1 .. j - 1 /\ \A k \in 1 .. j - 1 : k \in At(c)
    BY <1>3, <2>1 DEF At
  <2>4. c[1].type \in Presence
    BY <1>3 DEF Presence
  <2>5. PICK k \in 1 .. j - 1 : c[k].type \in Presence /\ Named(c[k]) = s.peer
    BY <2>2, <2>3, <2>4 DEF Believes
  <2>6. Arrives(c[k]) /\ c[k].from = s.peer
    BY <1>3, <2>5 DEF Arrives, Named, Presence
  <2>7. s.peer < c[k].from
    BY <1>1, <2>3, <2>6 DEF Acquainted, InOrder
  <2> QED
    BY <1>3, <2>6, <2>7
<1>6. \A i \in At(e) : ~Near(t, e[i], "offer") /\ ~Near(t, e[i], "answer")
  BY <1>1, <1>5, SaidTypes DEF Near
<1>7. Described(t, e) /\ Answering(t, e) /\ Answered(t, e) /\ AnswerFirst(t, e) /\ OneOffer(t, e)
  <2>1. Described(t, e)
    BY <1>1, <1>2, <1>4 DEF Exchange, Described
  <2> QED
    BY <1>2, <1>6, <2>1 DEF Answering, Answered, AnswerFirst, OneOffer
<1>8. Strangers(t, e)
  <2>1. \A i \in At(c) : c[i].from # s.peer => c[i].type # "answer"
    BY <1>1 DEF Exchange, Strangers
  <2>2. \A i, j \in At(c) : c[i].from # s.peer /\ c[i].type = "offer" /\ c[j].type = "offer"
                               /\ c[i].from = c[j].from => i = j
    BY <1>1 DEF Exchange, Strangers
  <2>3. \A i \in At(e) : e[i].type \in {"offer", "answer"} => e[i].from # s.peer
    BY <1>5 DEF Presence
  <2> QED
    BY <1>4, <2>1, <2>2, <2>3 DEF Strangers
<1>9. Mutual(t, e, o) /\ Owed(t, o, d)
  BY <1>1, <1>2, <1>4 DEF Exchange, Mutual, Owed
<1>10. Offered(t, e, o, d)
  <2>1. SUFFICES ASSUME NEW i \in At(c), c[i].type = "offer", c[i].from = o.id
                 PROVE  Awaiting(o, d, c[i].desc.offer)
    BY <1>4 DEF Offered
  <2>2. ~(o.id < s.id /\ s.sig = "local")
    BY <1>3, <2>1, TakenBack
  <2> QED
    BY <1>1, <2>1, <2>2 DEF Exchange, Offered
\* Nobody talks to s.
<1>11. /\ \A i \in At(o.chain) : o.chain[i].to = s.id => ~Answers(o.chain[i]) /\ o.chain[i].op # "setAnswered"
       /\ \A i \in At(d) : d[i].type \notin Presence => d[i].from # s.id
  BY <1>1, <1>3, Ties
<1>12. Mutual(o, d, t) /\ Owed(o, t, e) /\ Offered(o, d, t, e)
  BY <1>1, <1>11, SaidTypes DEF Mutual, Owed, Offered
<1> QED
  BY <1>1, <1>7, <1>8, <1>9, <1>10, <1>12 DEF Exchange

\* What becomes of a message that is read.
LEMMA ReadKinds ==
    ASSUME NEW s, NEW c, NEW o, NEW d, NEW n, Pair(s, c, o, d, n), NEW t \in PageRecord, NEW e,
           Shifted(e, c), Read(t, s, c[1])
    PROVE  \/ Meets(t, s, c[1]) \/ Parts(t, s, c[1]) \/ Drops(t, s)
           \/ Accepts(t, s, c[1]) \/ Hears(t, s, c[1])
<1> DEFINE m == c[1]
<1>1. /\ s \in PageRecord /\ m \in Messages /\ t.id = s.id
  <2>1. 1 \in At(c)
    BY DEF Shifted
  <2> QED
    BY <2>1, OtherSide, Ties DEF Read
<1>2. s.chain \in Seq(Ops) /\ m.desc \in Descs /\ (s.peer # NoPeer => s.peer \in Ids)
  BY <1>1 DEF PageRecord, Messages
<1>3. CASE ReadWelcome(t, s, m) \/ ReadJoined(t, s, m)
  <2>1. /\ m.type \in {"welcome", "joined"} /\ t.peer = m.from /\ t.sig = "stable"
        /\ \A i \in At(t.chain) : t.chain[i].op = "createOffer"
    <3>1. CASE Reset(t)
      <4>1. At(t.chain) = {}
        BY <3>1, EmptySeq DEF Reset, At
      <4> QED
        BY <1>3, <3>1, <4>1 DEF ReadWelcome, ReadJoined, Reset
    <3>2. CASE /\ ReadWelcome(t, s, m) /\ m.second /\ t.sig = "stable"
               /\ t.chain = Append(<<>>, Op("createOffer", m.from, NoDesc))
      <4>1. m.from \in Ids
        BY <1>1, <3>2 DEF ReadWelcome, Messages
      <4> DEFINE x == Op("createOffer", m.from, NoDesc)
      <4>2. x \in Ops /\ x.op = "createOffer"
        BY <4>1, OpType, NoDescType
      <4> HIDE DEF x
      <4>3. Extended(t.chain, <<>>, x)
        BY <3>2, <4>2, EmptySeq, AppendExtends DEF x
      <4>4. At(<<>>) = {}
        BY EmptySeq DEF At
      <4>5. \A i \in At(t.chain) : t.chain[i] = x
        BY <4>3, <4>4 DEF Extended
      <4> QED
        BY <3>2, <4>2, <4>5 DEF ReadWelcome
    <3> QED
      BY <1>3, <3>1, <3>2 DEF ReadWelcome, ReadJoined
  <2>2. s.peer = NoPeer
    <3>1. Alone(s) /\ Welcomed(s, c) /\ 1 \in At(c)
      BY OtherSide DEF Acquainted, Shifted
    <3> QED
      BY <1>3, <3>1 DEF ReadWelcome, ReadJoined, Welcomed, Alone
  <2>3. Meets(t, s, c[1])
    <3>1. SameMedia(t, s) /\ (m.type = "welcome" /\ m.from # NoPeer => t.making)
      BY <1>3, SaidTypes DEF ReadWelcome, ReadJoined
    <3> QED
      BY <1>1, <2>1, <2>2, <3>1 DEF Meets
  <2> QED
    BY <2>3
<1>4. CASE ReadLeft(t, s, m)
  <2>1. Parts(t, s, c[1])
    BY <1>1, <1>4 DEF ReadLeft, Reset, Parts
  <2> QED
    BY <2>1
<1>5. CASE /\ t.chain = s.chain
           /\ (ReadOffer(t, s, m) /\ SameMedia(t, s)) \/ ReadIce(t, s, m)
  <2>1. Drops(t, s)
    BY <1>5 DEF ReadOffer, ReadIce, Continues, SameMedia, Drops
  <2> QED
    BY <2>1
<1>6. CASE /\ ReadOffer(t, s, m) /\ t.chain = Append(s.chain, Op("setRemote", s.peer, m.desc))
           /\ (s.impolite => s.sig = "stable") /\ t.dir = s.dir /\ t.heard = s.heard
           /\ t.needs <=> s.needs \/ Busy(s)
  <2> DEFINE x == Op("setRemote", s.peer, m.desc)
  <2>1. s.peer \in Ids /\ m.type = "offer" /\ s.peer = m.from /\ Continues(t, s)
    BY <1>2, <1>6 DEF ReadOffer
  <2>2. x \in Ops /\ x.op = "setRemote" /\ x.to = s.peer /\ x.desc = m.desc
    BY <1>2, <2>1, OpType
  <2> HIDE DEF x, m
  <2>3. Extended(t.chain, s.chain, x)
    BY <1>2, <1>6, <2>2, AppendExtends DEF x
  <2>4. Accepts(t, s, m)
    BY <1>6, <2>1, <2>2, <2>3 DEF Accepts, Continues
  <2> QED
    BY <2>4 DEF m
<1>7. CASE ReadAnswer(t, s, m)
  <2> DEFINE x == Op("setAnswered", s.peer, m.desc)
  <2>1. s.peer \in Ids /\ m.type = "answer" /\ s.peer = m.from /\ Continues(t, s)
    BY <1>2, <1>7 DEF ReadAnswer
  <2>2. x \in Ops /\ x.op = "setAnswered" /\ x.to = s.peer /\ x.desc = m.desc
    BY <1>2, <2>1, OpType
  <2> HIDE DEF x, m
  <2>3. t.chain = Append(s.chain, x)
    BY <1>7 DEF ReadAnswer, x
  <2>4. Extended(t.chain, s.chain, x)
    BY <1>2, <2>2, <2>3, AppendExtends
  <2>5. SameMedia(t, s)
    BY <1>7 DEF ReadAnswer
  <2>6. Hears(t, s, m)
    BY <2>1, <2>2, <2>4, <2>5 DEF Hears, Continues
  <2> QED
    BY <2>6 DEF m
<1>8. ReadOffer(t, s, m) =>
         \/ t.chain = s.chain /\ SameMedia(t, s)
         \/ /\ t.chain = Append(s.chain, Op("setRemote", s.peer, m.desc))
            /\ (s.impolite => s.sig = "stable") /\ t.dir = s.dir /\ t.heard = s.heard
            /\ t.needs <=> s.needs \/ Busy(s)
  BY DEF ReadOffer
<1>9. ReadIce(t, s, m) => t.chain = s.chain
  BY DEF ReadIce
<1> QED
  BY <1>3, <1>4, <1>5, <1>6, <1>7, <1>8, <1>9 DEF Read

\* What becomes of a message that is read.
LEMMA ReadExchange ==
    ASSUME NEW s, NEW c, NEW o, NEW d, NEW n, Pair(s, c, o, d, n), NEW t \in PageRecord, NEW e,
           Shifted(e, c), Read(t, s, c[1])
    PROVE  Exchange(t, e, o, d) /\ Exchange(o, d, t, e)
BY ReadKinds, MeetsBoth, PartsBoth, DroppedNear, DroppedFar, AcceptsNear, AcceptsFar, HearsNear,
   HearsFar

-------------------------------------------------------------------------------
(* Another page, or none, at the seat of s.                                *)

LEMMA ReplacedExchange ==
    ASSUME NEW s, NEW c, NEW o, NEW d, NEW n, Pair(s, c, o, d, n), NEW t, NEW e, NEW d2,
           t.chain = <<>>, t.sig = "stable", \A i \in At(e) : e[i].type \in Presence,
           o.peer # t.id \/ t.id = NoPeer,
           \A i \in At(d) : d[i].type \notin Presence => d[i].from # t.id,
           d2 = d \/ \E m \in Messages : m.type \in Presence /\ Extended(d2, d, m)
    PROVE  Exchange(t, e, o, d2) /\ Exchange(o, d2, t, e)
<1>1. Exchange(o, d, s, c) /\ Pair(o, d, s, c, n)
  BY OtherSide
<1>2. At(t.chain) = {} /\ \A i \in At(e) : e[i].type \notin {"offer", "answer", "ice"}
  BY EmptySeq DEF At, Presence
<1>3. Exchange(t, e, o, d2)
  <2>1. Described(t, e) /\ Answering(t, e) /\ Answered(t, e) /\ AnswerFirst(t, e) /\ OneOffer(t, e)
    BY <1>2 DEF Described, Answering, Answered, AnswerFirst, OneOffer, Near
  <2>2. Strangers(t, e) /\ Mutual(t, e, o) /\ Owed(t, o, d2) /\ Offered(t, e, o, d2)
    BY <1>2 DEF Strangers, Mutual, Owed, Offered
  <2> QED
    BY <2>1, <2>2 DEF Exchange
<1>4. /\ \A i \in At(d) : i \in At(d2) /\ d2[i] = d[i]
      /\ \A i \in At(d2) : d2[i].type \notin Presence => i \in At(d) /\ d2[i] = d[i]
  BY DEF Extended
<1>5. \A i \in At(d2) : d2[i].type \in {"offer", "answer", "ice"} => i \in At(d) /\ d2[i] = d[i]
  BY <1>4 DEF Presence
<1>6. /\ \A i \in At(d2) : Near(o, d2[i], "offer") => i \in At(d) /\ d2[i] = d[i]
      /\ \A i \in At(d2) : Near(o, d2[i], "answer") => i \in At(d) /\ d2[i] = d[i]
  BY <1>5 DEF Near
<1>7. Described(o, d2) /\ Answering(o, d2)
  BY <1>1, <1>5, <1>6 DEF Exchange, Described, Answering
<1>8. Answered(o, d2)
  BY <1>1, <1>6 DEF Exchange, Answered
<1>9. AnswerFirst(o, d2)
  BY <1>1, <1>6 DEF Exchange, AnswerFirst
<1>10. OneOffer(o, d2)
  BY <1>1, <1>6 DEF Exchange, OneOffer
<1>11. Strangers(o, d2)
  BY <1>1, <1>5 DEF Exchange, Strangers
<1>12. \A i \in At(o.chain) : o.chain[i].to # t.id
  BY <1>1, Ties
<1>13. Mutual(o, d2, t) /\ Owed(o, t, e)
  BY <1>4, <1>12 DEF Mutual, Owed
<1>14. Offered(o, d2, t, e)
  BY <1>5 DEF Offered, Presence
<1> QED
  BY <1>3, <1>7, <1>8, <1>9, <1>10, <1>11, <1>13, <1>14 DEF Exchange

-------------------------------------------------------------------------------
(* The inductive invariant.                                                *)

AnswersInv == Standing /\ Exchanges

LEMMA PairOfSeats ==
    ASSUME AnswersInv, NEW p \in Pages
    PROVE  Pair(page[p], chan[p], page[Other(p)], chan[Other(p)], joins)
<1>1. TypeOK /\ Acquaintance /\ Roles /\ Steadfast /\ Exchanges
  BY DEF AnswersInv, Standing
<1>2. /\ Other(p) \in Pages /\ Other(Other(p)) = p
      /\ page[p] \in PageRecord /\ page[Other(p)] \in PageRecord
      /\ chan[p] \in Seq(Messages) /\ chan[Other(p)] \in Seq(Messages) /\ joins \in Nat
      /\ Acquainted(page[p], chan[p], page[Other(p)], joins)
      /\ Acquainted(page[Other(p)], chan[Other(p)], page[p], joins)
  BY <1>1, SeatTypes
<1>3. /\ Ranked(page[p], chan[p], page[Other(p)], chan[Other(p)])
      /\ Ranked(page[Other(p)], chan[Other(p)], page[p], chan[p])
  BY <1>1, <1>2 DEF Roles
<1>4. Upright(page[p]) /\ Upright(page[Other(p)])
  BY <1>1, <1>2 DEF Steadfast
<1>5. /\ Exchange(page[p], chan[p], page[Other(p)], chan[Other(p)])
      /\ Exchange(page[Other(p)], chan[Other(p)], page[p], chan[p])
  BY <1>1, <1>2 DEF Exchanges
<1> QED
  BY <1>2, <1>3, <1>4, <1>5 DEF Pair, Side

LEMMA BothExchange ==
    ASSUME NEW p \in Pages,
           Exchange(page'[p], chan'[p], page'[Other(p)], chan'[Other(p)]),
           Exchange(page'[Other(p)], chan'[Other(p)], page'[p], chan'[p])
    PROVE  Exchanges'
<1>1. /\ Other(Other(p)) = p /\ \A r \in Pages : r = p \/ r = Other(p)
  BY TwoSeats
<1>2. \A r \in Pages : Exchange(page'[r], chan'[r], page'[Other(r)], chan'[Other(r)])
  BY <1>1
<1> QED
  BY <1>2 DEF Exchanges

LEMMA WorkExchanges ==
    ASSUME AnswersInv, NEW p \in Pages, WorksAt(p)
    PROVE  Exchanges'
<1> DEFINE s == page[p]
           o == page[Other(p)]
           c == chan[p]
           d == chan[Other(p)]
           t == page'[p]
           d2 == chan'[Other(p)]
<1>1. Pair(s, c, o, d, joins)
  BY PairOfSeats
<1>2. /\ t \in PageRecord /\ Worked(t, s, o, d2, d)
      /\ page'[Other(p)] = o /\ chan'[p] = c
  BY DEF WorksAt
<1> HIDE DEF s, o, c, d, t, d2
<1>3. Exchange(t, c, o, d2) /\ Exchange(o, d2, t, c)
  BY <1>1, <1>2, WorkedExchange
<1> QED
  BY <1>2, <1>3, BothExchange DEF t, d2

LEMMA ReadExchanges ==
    ASSUME AnswersInv, NEW p \in Pages, ReadsAt(p)
    PROVE  Exchanges'
<1> DEFINE s == page[p]
           o == page[Other(p)]
           c == chan[p]
           d == chan[Other(p)]
           t == page'[p]
           e == chan'[p]
<1>1. Pair(s, c, o, d, joins)
  BY PairOfSeats
<1>2. /\ t \in PageRecord /\ Read(t, s, c[1]) /\ e = Tail(c) /\ c # <<>>
      /\ page'[Other(p)] = o /\ chan'[Other(p)] = d
  BY DEF ReadsAt
<1> HIDE DEF s, o, c, d, t, e
<1>3. Shifted(e, c)
  BY <1>1, <1>2, OtherSide, TailShifts
<1>4. Exchange(t, e, o, d) /\ Exchange(o, d, t, e)
  BY <1>1, <1>2, <1>3, ReadExchange
<1> QED
  BY <1>2, <1>4, BothExchange DEF t, e

\* Another page, or none, takes the seat; the other page is told of it.
SeatChanges(p) ==
    LET q == Other(p) IN
    /\ page'[q] = page[q]
    /\ page'[p].chain = <<>> /\ page'[p].sig = "stable" /\ page'[p].peer = NoPeer
    /\ ~page'[p].needs /\ page'[p].held = 0
    /\ \A i \in At(chan'[p]) : chan'[p][i].type \in Presence
    /\ page[q].peer # page'[p].id \/ page'[p].id = NoPeer
    /\ \A i \in At(chan[q]) : chan[q][i].type \notin Presence => chan[q][i].from # page'[p].id
    /\ \/ chan'[q] = chan[q]
       \/ \E m \in Messages : m.type \in Presence /\ Extended(chan'[q], chan[q], m)

LEMMA ArriveChanges ==
    ASSUME AnswersInv, NEW p \in Pages, ArrivesAt(p)
    PROVE  SeatChanges(p)
<1> DEFINE s == page[p]
           o == page[Other(p)]
           c == chan[p]
           d == chan[Other(p)]
           n == joins
           t == page'[p]
           e == chan'[p]
           d2 == chan'[Other(p)]
           m == Message("joined", n + 1, o.id # NoPeer, NoDesc)
           x == FirstMessage(o)
<1>1. Pair(s, c, o, d, n)
  BY PairOfSeats
<1>2. /\ joins' = n + 1 /\ n + 1 \in 0 .. MaxJoins /\ t = Loaded(n + 1)
      /\ page'[Other(p)] = o /\ e = Append(<<>>, x) /\ x \in Messages
      /\ Announced(d2, d, o, m)
  BY DEF ArrivesAt
<1>3. n \in Nat /\ d \in Seq(Messages) /\ Acquainted(o, d, s, n)
  BY <1>1, OtherSide DEF Pair
<1>4. n + 1 \in Ids
  BY <1>2, <1>3, MaxJoinsAssumption DEF Ids
<1>5. /\ t.id = n + 1 /\ t.chain = <<>> /\ t.sig = "stable" /\ t.peer = NoPeer
      /\ ~t.needs /\ t.held = 0
  BY <1>2, <1>4, LoadedEffect
<1>6. \A i \in At(e) : e[i].type \in Presence
  <2>1. x.type = "welcome"
    BY DEF FirstMessage, Message
  <2> HIDE DEF x, e
  <2>2. <<>> \in Seq(Messages) /\ At(<<>>) = {}
    BY EmptySeq DEF At
  <2>3. Extended(e, <<>>, x)
    BY <1>2, <2>2, AppendExtends
  <2> QED
    BY <2>1, <2>2, <2>3, SaidTypes DEF Extended
<1>7. m \in Messages /\ m.type \in Presence
  <2>1. (o.id # NoPeer) \in BOOLEAN
    OBVIOUS
  <2> DEFINE b == o.id # NoPeer
  <2> HIDE DEF b, n, o
  <2>2. b \in BOOLEAN
    BY <2>1 DEF b
  <2>3. LET y == Message("joined", n + 1, b, NoDesc) IN y \in Messages /\ y.type = "joined"
    BY <1>4, <2>2, NoDescType DEF Message, Messages
  <2> QED
    BY <2>3, SaidTypes DEF b
<1> HIDE DEF s, o, c, d, n, t, e, d2, m, x
<1>8. o.peer # t.id /\ \A i \in At(d) : d[i].from # t.id
  <2>1. o.peer <= n /\ \A i \in At(d) : d[i].from <= n
    BY <1>3 DEF Acquainted, InOrder
  <2> QED
    BY <1>3, <1>5, <2>1
<1>9. d2 = d \/ \E y \in Messages : y.type \in Presence /\ Extended(d2, d, y)
  BY <1>2, <1>3, <1>7, AppendExtends DEF Announced
<1> QED
  BY <1>2, <1>5, <1>6, <1>8, <1>9 DEF SeatChanges, t, e, o, d, d2

LEMMA DepartChanges ==
    ASSUME AnswersInv, NEW p \in Pages, DepartsFrom(p)
    PROVE  SeatChanges(p)
<1> DEFINE s == page[p]
           o == page[Other(p)]
           c == chan[p]
           d == chan[Other(p)]
           t == page'[p]
           e == chan'[p]
           d2 == chan'[Other(p)]
           m == Message("left", s.id, FALSE, NoDesc)
<1>1. Pair(s, c, o, d, joins)
  BY PairOfSeats
<1>2. /\ t = Loaded(NoPeer) /\ page'[Other(p)] = o /\ e = <<>> /\ Announced(d2, d, o, m)
  BY DEF DepartsFrom
<1>3. s \in PageRecord /\ d \in Seq(Messages) /\ Pair(o, d, s, c, joins)
  BY <1>1, OtherSide
<1>4. /\ t.id = NoPeer /\ t.chain = <<>> /\ t.sig = "stable" /\ t.peer = NoPeer
      /\ ~t.needs /\ t.held = 0
  BY <1>2, LoadedEffect
<1>5. \A i \in At(e) : e[i].type \in Presence
  BY <1>2, EmptySeq DEF At
<1>6. m \in Messages /\ m.type \in Presence
  <2> DEFINE id == s.id
  <2>1. id \in Ids \cup {NoPeer}
    BY <1>3 DEF PageRecord
  <2> HIDE DEF id
  <2>2. LET y == Message("left", id, FALSE, NoDesc) IN y \in Messages /\ y.type = "left"
    BY <2>1, NoDescType DEF Message, Messages
  <2> QED
    BY <2>2, SaidTypes DEF id
<1> HIDE DEF s, o, c, d, t, e, d2, m
<1>7. \A i \in At(d) : d[i].type \notin Presence => d[i].from # t.id
  BY <1>3, <1>4, Ties
<1>8. d2 = d \/ \E y \in Messages : y.type \in Presence /\ Extended(d2, d, y)
  BY <1>2, <1>3, <1>6, AppendExtends DEF Announced
<1> QED
  BY <1>2, <1>4, <1>5, <1>7, <1>8 DEF SeatChanges, t, e, o, d, d2

LEMMA ChangedExchanges ==
    ASSUME AnswersInv, NEW p \in Pages, SeatChanges(p)
    PROVE  Exchanges'
<1> DEFINE s == page[p]
           o == page[Other(p)]
           c == chan[p]
           d == chan[Other(p)]
           t == page'[p]
           e == chan'[p]
           d2 == chan'[Other(p)]
<1>1. Pair(s, c, o, d, joins)
  BY PairOfSeats
<1>2. /\ page'[Other(p)] = o /\ t.chain = <<>> /\ t.sig = "stable" /\ t.peer = NoPeer
      /\ ~t.needs /\ t.held = 0
      /\ \A i \in At(e) : e[i].type \in Presence
      /\ o.peer # t.id \/ t.id = NoPeer
      /\ \A i \in At(d) : d[i].type \notin Presence => d[i].from # t.id
      /\ d2 = d \/ \E m \in Messages : m.type \in Presence /\ Extended(d2, d, m)
  BY DEF SeatChanges
<1> HIDE DEF s, o, c, d, t, e, d2
<1>3. Exchange(t, e, o, d2) /\ Exchange(o, d2, t, e)
  BY <1>1, <1>2, ReplacedExchange
<1> QED
  BY <1>2, <1>3, BothExchange DEF t, e, d2

LEMMA AnswersInit == Init => AnswersInv
<1> SUFFICES ASSUME Init, NEW p \in Pages
             PROVE  Exchange(page[p], chan[p], page[Other(p)], chan[Other(p)])
  BY StandingInit DEF AnswersInv, Exchanges
<1> DEFINE s == page[p]
           c == chan[p]
<1>1. s = Loaded(NoPeer) /\ c = <<>>
  BY DEF Init
<1>2. s.chain = <<>>
  BY <1>1, LoadedEffect
<1>3. At(s.chain) = {} /\ At(c) = {}
  BY <1>1, <1>2, EmptySeq DEF At
<1> HIDE DEF s, c
<1> DEFINE o == page[Other(p)]
           d == chan[Other(p)]
<1> HIDE DEF o, d
<1>4. Exchange(s, c, o, d)
  BY <1>3 DEF Exchange, Described, Answering, Answered, AnswerFirst, OneOffer, Strangers,
              Mutual, Owed, Offered
<1> QED
  BY <1>4 DEF s, c, o, d

LEMMA AnswersStep == AnswersInv /\ [Next]_vars => AnswersInv'
<1> SUFFICES ASSUME AnswersInv, [Next]_vars
             PROVE  Exchanges'
  BY StandingStep DEF AnswersInv
<1>1. CASE UNCHANGED vars
  BY <1>1 DEF vars, AnswersInv, Exchanges
<1>2. CASE Next
  <2>1. TypeOK /\ Acquaintance
    BY DEF AnswersInv, Standing
  <2>2. PICK p \in Pages : WorksAt(p) \/ ReadsAt(p) \/ ArrivesAt(p) \/ DepartsFrom(p)
    BY <1>2, <2>1, StepKinds
  <2> QED
    BY <2>2, WorkExchanges, ReadExchanges, ArriveChanges, DepartChanges, ChangedExchanges
<1> QED
  BY <1>1, <1>2

\* At any time: which offers and answers are under way between the pages.
THEOREM AnswersInvHolds == Spec => []AnswersInv
BY AnswersInit, AnswersStep, PTL DEF Spec

\* An answer is applied to the offer it answers, whatever offers collided, were
\* rolled back or dropped before, and whoever left and came back (handleSignal,
\* cases offer and answer).
THEOREM AnswersMeetTheirOffers == Spec => []AnswersMatch
<1>1. AnswersInv => AnswersMatch
  <2> SUFFICES ASSUME AnswersInv, NEW p \in Pages, Current(p, "setAnswered")
               PROVE  page[p].sig = "local" /\ Desc(p).offer = page[p].offers
    BY DEF AnswersMatch
  <2>1. Answered(page[p], chan[p]) /\ page[p] \in PageRecord
    BY PairOfSeats DEF Pair, Side, Exchange
  <2>2. page[p].chain \in Seq(Ops) /\ page[p].chain # <<>>
    BY <2>1 DEF PageRecord, Current
  <2>3. Head(page[p].chain) = page[p].chain[1] /\ 1 \in At(page[p].chain)
    BY <2>2, Tailed
  <2> QED
    BY <2>1, <2>3 DEF Current, Desc, Answered
<1> QED
  BY <1>1, AnswersInvHolds, PTL

-------------------------------------------------------------------------------
(* Layer five: directions.  The other page has heard the direction that a  *)
(* page has, or one of the two is about to say more.                       *)

\* The page has the direction that it told, or is going to tell another one.
Stands(s, dir) == dir = s.dir \/ s.needs

\* An offer is queued only while there is something to wait for.
Queued(s) == s.needs => Busy(s)

\* Candidates that are held wait for a description, or are about to be added.
Collected(s) ==
    s.held > 0 => s.heard = NoDesc \/ \E i \in At(s.chain) : s.chain[i].op = "addHeld"

\* What is about to be told is the page's direction.
Tells(x) == x.op \in {"setOffer", "setAnswer"}
Prepared(s) == \A i \in At(s.chain) : Tells(s.chain[i]) => Stands(s, s.chain[i].desc.dir)

Ready(s) == Queued(s) /\ Collected(s) /\ Prepared(s)

\* Behind the first operation of c, if k is one, the chain e has nothing new to
\* tell, and what is held is still to be added.
Inherits(e, c, k) ==
    /\ \A i \in At(e) : Tells(e[i]) => \E j \in At(c) : (k = 1 => j # 1) /\ e[i] = c[j]
    /\ \A j \in At(c) : c[j].op = "addHeld" =>
          (k = 1 /\ j = 1) \/ \E i \in At(e) : e[i].op = "addHeld"

LEMMA InheritsAll ==
    ASSUME NEW c
    PROVE  Inherits(c, c, 0)
BY DEF Inherits

LEMMA InheritsRest ==
    ASSUME NEW e, NEW c, Shifted(e, c)
    PROVE  Inherits(e, c, 1)
BY DEF Inherits, Shifted

LEMMA InheritsMore ==
    ASSUME NEW e, NEW c, NEW k \in {0, 1}, NEW w, NEW x, Inherits(e, c, k), Extended(w, e, x),
           ~Tells(x)
    PROVE  Inherits(w, c, k)
<1>1. \A i \in At(w) : Tells(w[i]) => i \in At(e) /\ w[i] = e[i]
  BY DEF Extended
<1>2. \A i \in At(e) : i \in At(w) /\ w[i] = e[i]
  BY DEF Extended
<1> QED
  BY <1>1, <1>2 DEF Inherits

LEMMA AskedInherits ==
    ASSUME NEW s \in PageRecord, NEW rest \in Seq(Ops), NEW w, NEW making,
           Asked(w, making, s, rest), NEW c, NEW k \in {0, 1}, Inherits(rest, c, k)
    PROVE  Inherits(w, c, k)
<1>1. CASE w = rest
  BY <1>1
<1>2. CASE s.peer # NoPeer /\ w = Append(rest, Op("createOffer", s.peer, NoDesc))
  <2> DEFINE x == Op("createOffer", s.peer, NoDesc)
  <2>1. s.peer \in Ids
    BY <1>2 DEF PageRecord
  <2>2. x \in Ops /\ x.op = "createOffer"
    BY <2>1, OpType, NoDescType
  <2> HIDE DEF x
  <2>3. w = Append(rest, x)
    BY <1>2 DEF x
  <2>4. Extended(w, rest, x)
    BY <2>2, <2>3, AppendExtends
  <2> QED
    BY <2>2, <2>4, InheritsMore DEF Tells
<1> QED
  BY <1>1, <1>2 DEF Asked

\* The page goes on holding what it holds.
LEMMA CollectedKept ==
    ASSUME NEW s, NEW t, Collected(s), t.held = s.held, t.heard = s.heard, NEW k \in {0, 1},
           Inherits(t.chain, s.chain, k), k = 1 => s.chain[1].op # "addHeld"
    PROVE  Collected(t)
BY DEF Collected, Inherits

\* The page goes on telling what it tells.
LEMMA PreparedKept ==
    ASSUME NEW s, NEW t, Prepared(s), t.dir = s.dir, s.needs => t.needs, NEW k \in {0, 1},
           Inherits(t.chain, s.chain, k)
    PROVE  Prepared(t)
BY DEF Prepared, Inherits, Stands

\* Nothing is told by a page that has begun neither an offer nor an answer.
LEMMA Silent ==
    ASSUME NEW s, NEW c, Upright(s), Answering(s, c), ~s.making, s.sig # "remote"
    PROVE  \A i \in At(s.chain) : ~Tells(s.chain[i])
BY DEF Upright, Making, Offering, Answering, Advanced, Answers, Tells

\* A page's work on what it is to tell.
LEMMA WorkedReady ==
    ASSUME NEW s \in PageRecord, NEW t \in PageRecord, NEW o, NEW c, NEW d, NEW d2,
           Worked(t, s, o, d2, d), Alone(s), Upright(s), Answering(s, c), Answered(s, c), Ready(s)
    PROVE  Ready(t)
<1> DEFINE ch == s.chain
           h == s.chain[1]
           rest == Tail(s.chain)
<1>1. Queued(s) /\ Collected(s) /\ Prepared(s) /\ ch \in Seq(Ops)
  BY DEF Ready, PageRecord
<1>2. ASSUME NEW op, Took(s, op)
      PROVE  /\ rest \in Seq(Ops) /\ Inherits(rest, ch, 1) /\ 1 \in At(ch)
             /\ h \in Ops /\ h.op = op /\ h.to \in Ids /\ h.desc \in Descs /\ s.pc /\ s.peer # NoPeer
  <2>1. /\ Tail(s.chain) \in Seq(Ops) /\ Shifted(Tail(s.chain), s.chain)
        /\ s.chain[1] \in Ops /\ s.chain[1].op = op
        /\ s.chain[1].to \in Ids /\ s.chain[1].desc \in Descs /\ s.chain \in Seq(Ops)
    BY <1>2, TookRest
  <2>2. s.pc /\ s.peer # NoPeer
    BY <1>2 DEF Took, Alone
  <2> QED
    BY <2>1, <2>2, InheritsRest DEF Shifted
<1> HIDE DEF ch, h, rest
<1>3. CASE d2 = d /\ CreatedOffer(t, s)
  <2>1. Took(s, "createOffer") /\ t.sig = s.sig
    BY <1>3 DEF CreatedOffer
  <2>2. /\ rest \in Seq(Ops) /\ Inherits(rest, ch, 1) /\ 1 \in At(ch)
        /\ h \in Ops /\ h.op = "createOffer" /\ h.to \in Ids /\ h.desc \in Descs
    BY <1>2, <2>1
  <2>3. CASE t.chain = rest /\ s.sig # "stable" /\ Postpones(t, s)
    <3>1. Queued(t)
      BY <2>1, <2>3 DEF Queued, Busy
    <3>2. Collected(t)
      BY <1>1, <2>2, <2>3, CollectedKept DEF Postpones, ch, h
    <3>3. Prepared(t)
      BY <1>1, <2>2, <2>3, PreparedKept DEF Postpones, ch
    <3> QED
      BY <3>1, <3>2, <3>3 DEF Ready
  <2>4. CASE /\ (t.making <=> s.making) /\ SameMedia(t, s)
             /\ t.chain = Append(rest, Op("setOffer", h.to, [dir |-> s.dir, offer |-> s.offers + 1]))
    <3> DEFINE desc == [dir |-> s.dir, offer |-> s.offers + 1]
    <3>1. desc \in Descs /\ desc.dir = s.dir
      <4>1. s.dir \in Directions /\ s.offers \in Nat /\ s.offers + 1 \in Nat
        BY DEF PageRecord
      <4> QED
        BY <4>1 DEF Descs
    <3> HIDE DEF desc
    <3> DEFINE x == Op("setOffer", h.to, desc)
    <3>2. x \in Ops /\ x.op = "setOffer" /\ x.desc = desc
      BY <2>2, <3>1, OpType
    <3> HIDE DEF x
    <3>3. t.chain = Append(rest, x)
      BY <2>4 DEF x, desc
    <3>4. Extended(t.chain, rest, x)
      BY <2>2, <3>2, <3>3, AppendExtends
    <3>5. /\ \A i \in At(t.chain) : (i \in At(rest) /\ t.chain[i] = rest[i]) \/ t.chain[i] = x
          /\ \A i \in At(rest) : i \in At(t.chain) /\ t.chain[i] = rest[i]
      BY <3>4 DEF Extended
    <3>6. Queued(t)
      BY <1>1, <2>1, <2>4 DEF Queued, Busy, SameMedia
    <3>7. Collected(t)
      BY <1>1, <2>2, <2>4, <3>5 DEF Collected, Inherits, SameMedia, ch, h
    <3>8. Prepared(t)
      <4>1. t.dir = s.dir /\ (t.needs <=> s.needs)
        BY <2>4 DEF SameMedia
      <4>2. \A i \in At(rest) : Tells(rest[i]) => Stands(t, rest[i].desc.dir)
        BY <1>1, <2>2, <4>1 DEF Prepared, Inherits, Stands, ch
      <4>3. Stands(t, x.desc.dir)
        BY <3>1, <3>2, <4>1 DEF Stands
      <4> QED
        BY <3>5, <4>2, <4>3 DEF Prepared
    <3> QED
      BY <3>6, <3>7, <3>8 DEF Ready
  <2> QED
    BY <1>3, <2>3, <2>4 DEF CreatedOffer, h, rest
<1>4. CASE AppliedOffer(t, s, o, d2, d)
  <2>1. Took(s, "setOffer") /\ t.chain = rest /\ SameMedia(t, s) /\ t.sig # "stable"
    BY <1>4 DEF AppliedOffer, rest
  <2>2. Inherits(rest, ch, 1) /\ h.op = "setOffer"
    BY <1>2, <2>1
  <2>3. Queued(t)
    BY <2>1 DEF Queued, Busy
  <2>4. Collected(t)
    BY <1>1, <2>1, <2>2, CollectedKept DEF SameMedia, ch, h
  <2>5. Prepared(t)
    BY <1>1, <2>1, <2>2, PreparedKept DEF SameMedia, ch
  <2> QED
    BY <2>3, <2>4, <2>5 DEF Ready
<1>5. CASE d2 = d /\ HeardOffer(t, s)
  <2>1. /\ Took(s, "setRemote") /\ t.sig = "remote" /\ t.dir = s.dir /\ (t.needs <=> s.needs)
        /\ t.held = s.held
    BY <1>5 DEF HeardOffer
  <2>2. /\ rest \in Seq(Ops) /\ Inherits(rest, ch, 1)
        /\ h.op = "setRemote" /\ h.to \in Ids /\ h.desc \in Descs
    BY <1>2, <2>1
  <2>3. PICK op \in {"addHeld", "createAnswer"} :
           /\ s.held > 0 => op = "addHeld"
           /\ t.chain = Append(rest, Op(op, h.to, h.desc))
    BY <1>5 DEF HeardOffer, h, rest
  <2> DEFINE x == Op(op, h.to, h.desc)
  <2>4. x \in Ops /\ x.op = op
    BY <2>2, OpType
  <2> HIDE DEF x
  <2>5. Extended(t.chain, rest, x)
    BY <2>2, <2>3, <2>4, AppendExtends DEF x
  <2>6. Inherits(t.chain, ch, 1)
    BY <2>2, <2>4, <2>5, InheritsMore DEF Tells
  <2>7. Queued(t)
    BY <2>1 DEF Queued, Busy
  <2>8. Collected(t)
    BY <2>1, <2>3, <2>4, <2>5 DEF Collected, Extended
  <2>9. Prepared(t)
    BY <1>1, <2>1, <2>6, PreparedKept DEF ch
  <2> QED
    BY <2>7, <2>8, <2>9 DEF Ready
<1>6. CASE d2 = d /\ HeardAnswer(t, s)
  <2>1. Took(s, "setAnswered")
    BY <1>6 DEF HeardAnswer
  <2>2. /\ rest \in Seq(Ops) /\ Inherits(rest, ch, 1) /\ 1 \in At(ch)
        /\ h.op = "setAnswered" /\ h.to \in Ids /\ s.pc /\ s.peer # NoPeer
    BY <1>2, <2>1
  <2>3. s.sig = "local" /\ ~s.making
    BY <2>2 DEF Answered, Upright, ch, h
  <2>4. t.sig = "stable" /\ t.held = s.held /\ t.dir = s.dir /\ Replayed(t, s)
    BY <1>6, <2>3 DEF HeardAnswer
  <2>5. PICK w \in Seq(Ops) : /\ Asked(w, t.making, s, rest)
                              /\ \/ t.chain = w /\ s.held = 0
                                 \/ t.chain = Append(w, Op("addHeld", h.to, NoDesc))
    BY <1>6, <2>3 DEF HeardAnswer, h, rest
  <2>6. Inherits(w, ch, 1)
    BY <2>2, <2>5, AskedInherits
  <2> DEFINE x == Op("addHeld", h.to, NoDesc)
  <2>7. x \in Ops /\ x.op = "addHeld"
    BY <2>2, OpType, NoDescType
  <2> HIDE DEF x
  <2>8. t.chain = Append(w, x) => Extended(t.chain, w, x)
    BY <2>7, AppendExtends
  <2>9. Inherits(t.chain, ch, 1) /\ (s.held = 0 \/ \E i \in At(t.chain) : t.chain[i].op = "addHeld")
    <3>1. CASE t.chain = w /\ s.held = 0
      BY <2>6, <3>1
    <3>2. CASE t.chain = Append(w, x)
      BY <2>6, <2>7, <2>8, <3>2, InheritsMore DEF Tells, Extended
    <3> QED
      BY <2>5, <3>1, <3>2 DEF x
  <2>10. Queued(t)
    BY <2>4 DEF Queued, Busy, Replayed
  <2>11. Collected(t)
    BY <2>4, <2>9 DEF Collected
  <2>12. Prepared(t)
    <3>1. \A i \in At(ch) : ~Tells(ch[i])
      BY <2>3, Silent DEF ch
    <3> QED
      BY <2>9, <3>1 DEF Prepared, Inherits
  <2> QED
    BY <2>10, <2>11, <2>12 DEF Ready
<1>7. CASE d2 = d /\ AddedHeld(t, s)
  <2>1. /\ Took(s, "addHeld") /\ t.sig = s.sig /\ (t.making <=> s.making) /\ t.dir = s.dir
        /\ (t.needs <=> s.needs) /\ t.held = 0
    BY <1>7 DEF AddedHeld
  <2>2. /\ rest \in Seq(Ops) /\ Inherits(rest, ch, 1) /\ h.to \in Ids /\ h.desc \in Descs
    BY <1>2, <2>1
  <2> DEFINE x == Op("createAnswer", h.to, h.desc)
  <2>3. x \in Ops /\ x.op = "createAnswer"
    BY <2>2, OpType
  <2> HIDE DEF x
  <2>4. t.chain = rest \/ t.chain = Append(rest, x)
    BY <1>7 DEF AddedHeld, rest, h, x
  <2>5. t.chain = Append(rest, x) => Extended(t.chain, rest, x)
    BY <2>2, <2>3, AppendExtends
  <2>6. Inherits(t.chain, ch, 1)
    BY <2>2, <2>3, <2>4, <2>5, InheritsMore DEF Tells
  <2>7. Queued(t)
    BY <1>1, <2>1 DEF Queued, Busy
  <2>8. Collected(t)
    BY <2>1 DEF Collected
  <2>9. Prepared(t)
    BY <1>1, <2>1, <2>6, PreparedKept DEF ch
  <2> QED
    BY <2>7, <2>8, <2>9 DEF Ready
<1>8. CASE d2 = d /\ CreatedAnswer(t, s)
  <2>1. Took(s, "createAnswer") /\ t.sig = s.sig /\ (t.making <=> s.making) /\ SameMedia(t, s)
    BY <1>8 DEF CreatedAnswer
  <2>2. /\ rest \in Seq(Ops) /\ Inherits(rest, ch, 1) /\ 1 \in At(ch)
        /\ h \in Ops /\ h.op = "createAnswer" /\ h.to \in Ids /\ h.desc \in Descs
    BY <1>2, <2>1
  <2>3. s.sig = "remote"
    BY <2>2 DEF Answering, Advanced, Answers, ch, h
  <2> DEFINE answer == [h.desc EXCEPT !.dir = s.dir]
  <2>4. answer \in Descs /\ answer.dir = s.dir
    BY <2>2 DEF Descs, PageRecord
  <2>5. t.chain = Append(rest, Op("setAnswer", h.to, answer))
    BY <1>8, <2>3 DEF CreatedAnswer, h, rest
  <2> HIDE DEF answer
  <2> DEFINE x == Op("setAnswer", h.to, answer)
  <2>6. x \in Ops /\ x.op = "setAnswer" /\ x.desc = answer
    BY <2>2, <2>4, OpType
  <2> HIDE DEF x
  <2>7. Extended(t.chain, rest, x)
    BY <2>2, <2>5, <2>6, AppendExtends DEF x
  <2>8. /\ \A i \in At(t.chain) : (i \in At(rest) /\ t.chain[i] = rest[i]) \/ t.chain[i] = x
        /\ \A i \in At(rest) : i \in At(t.chain) /\ t.chain[i] = rest[i]
    BY <2>7 DEF Extended
  <2>9. Queued(t)
    BY <1>1, <2>1 DEF Queued, Busy, SameMedia
  <2>10. Collected(t)
    BY <1>1, <2>1, <2>2, <2>8 DEF Collected, Inherits, SameMedia, ch, h
  <2>11. Prepared(t)
    BY <1>1, <2>1, <2>2, <2>4, <2>6, <2>8 DEF Prepared, Inherits, Stands, SameMedia, ch
  <2> QED
    BY <2>9, <2>10, <2>11 DEF Ready
<1>9. CASE AppliedAnswer(t, s, o, d2, d)
  <2>1. Took(s, "setAnswer")
    BY <1>9 DEF AppliedAnswer
  <2>2. /\ rest \in Seq(Ops) /\ Inherits(rest, ch, 1) /\ 1 \in At(ch) /\ h.op = "setAnswer"
        /\ s.pc /\ s.peer # NoPeer
    BY <1>2, <2>1
  <2>3. s.sig = "remote" /\ Answers(h)
    BY <2>2 DEF Answering, Advanced, Answers, ch, h
  <2>4. /\ Asked(t.chain, t.making, s, rest) /\ t.dir = s.dir /\ t.heard = s.heard /\ t.held = s.held
        /\ Replayed(t, s)
    BY <1>9, <2>3 DEF AppliedAnswer, rest
  <2>5. Inherits(t.chain, ch, 1)
    BY <2>2, <2>4, AskedInherits
  <2>6. Queued(t)
    BY <2>4 DEF Queued, Busy, Replayed
  <2>7. Collected(t)
    BY <1>1, <2>2, <2>4, <2>5, CollectedKept DEF ch, h
  <2>8. \A i \in At(ch) : Tells(ch[i]) /\ i # 1 => s.making
    <3>1. \A i \in At(ch) : i # 1 => ~Answers(ch[i])
      BY <2>2, <2>3 DEF Answering, ch, h
    <3> QED
      BY <3>1 DEF Upright, Making, Offering, Tells, Answers, ch
  <2>9. Prepared(t)
    BY <1>1, <2>2, <2>4, <2>5, <2>8 DEF Prepared, Inherits, Stands, Replayed, ch
  <2> QED
    BY <2>6, <2>7, <2>9 DEF Ready
<1>10. CASE FoundCandidate(t, s, o, d2, d)
  <2>1. t.sig = s.sig /\ (t.making <=> s.making) /\ SameMedia(t, s) /\ t.chain = s.chain
    BY <1>10 DEF FoundCandidate
  <2> QED
    BY <1>1, <2>1 DEF Ready, Queued, Busy, Collected, Prepared, Stands, SameMedia
<1>11. CASE d2 = d /\ Toggled(t, s)
  <2>1. t.sig = s.sig /\ Asked(t.chain, t.making, s, ch) /\ Turned(t, s)
    BY <1>11 DEF Toggled, ch
  <2>2. Inherits(t.chain, ch, 0)
    <3>1. Inherits(ch, ch, 0)
      BY InheritsAll
    <3> QED
      BY <1>1, <2>1, <3>1, AskedInherits
  <2>3. Queued(t)
    BY <1>1, <2>1 DEF Queued, Busy, Turned
  <2>4. Collected(t)
    BY <1>1, <2>1, <2>2, CollectedKept DEF Turned, ch
  <2>5. Prepared(t)
    <3>1. CASE ~s.pc \/ s.peer = NoPeer
      <4>1. ch = <<>>
        BY <3>1 DEF Alone, ch
      <4>2. At(ch) = {}
        BY <4>1, EmptySeq DEF At
      <4> QED
        BY <2>2, <4>2 DEF Prepared, Inherits
    <3>2. CASE t.needs
      BY <3>2 DEF Prepared, Stands
    <3>3. CASE ~Busy(s)
      <4>1. \A i \in At(ch) : ~Tells(ch[i])
        BY <3>3, Silent DEF Busy, ch
      <4> QED
        BY <2>2, <4>1 DEF Prepared, Inherits
    <3> QED
      BY <2>1, <3>1, <3>2, <3>3 DEF Turned
  <2> QED
    BY <2>3, <2>4, <2>5 DEF Ready
<1> QED
  BY <1>3, <1>4, <1>5, <1>6, <1>7, <1>8, <1>9, <1>10, <1>11 DEF Worked

\* A page that has just been loaded, or been left.
LEMMA EmptyReady ==
    ASSUME NEW t, t.chain = <<>>, ~t.needs, t.held = 0
    PROVE  Ready(t)
<1>1. At(t.chain) = {}
  BY EmptySeq DEF At
<1> QED
  BY <1>1 DEF Ready, Queued, Collected, Prepared

\* Reading leaves a page ready.
LEMMA ReadReady ==
    ASSUME NEW s \in PageRecord, NEW t, NEW m \in Messages, Read(t, s, m), Alone(s), Ready(s)
    PROVE  Ready(t)
<1>1. Queued(s) /\ Collected(s) /\ Prepared(s)
  BY DEF Ready
<1>2. s.chain \in Seq(Ops) /\ m.desc \in Descs /\ (s.peer # NoPeer => s.peer \in Ids)
  BY DEF PageRecord, Messages
<1>3. Inherits(s.chain, s.chain, 0)
  BY InheritsAll
<1>4. CASE ReadWelcome(t, s, m) \/ ReadJoined(t, s, m)
  <2>1. s.chain = <<>> /\ s.sig = "stable" /\ ~s.making /\ SameMedia(t, s)
    BY <1>4 DEF ReadWelcome, ReadJoined, Reset, Alone
  <2>2. At(s.chain) = {}
    BY <2>1, EmptySeq DEF At
  <2>3. Queued(t)
    BY <1>1, <2>1 DEF Queued, Busy, SameMedia
  <2>4. Collected(t)
    BY <1>1, <2>1, <2>2 DEF Collected, SameMedia
  <2>5. Prepared(t)
    <3>1. CASE Reset(t)
      <4>1. At(t.chain) = {}
        BY <3>1, EmptySeq DEF Reset, At
      <4> QED
        BY <4>1 DEF Prepared
    <3>2. CASE /\ ReadWelcome(t, s, m) /\ m.second
               /\ t.chain = Append(<<>>, Op("createOffer", m.from, NoDesc))
      <4>1. m.from \in Ids
        BY <3>2 DEF ReadWelcome, Messages
      <4> DEFINE x == Op("createOffer", m.from, NoDesc)
      <4>2. x \in Ops /\ x.op = "createOffer"
        BY <4>1, OpType, NoDescType
      <4> HIDE DEF x
      <4>3. Extended(t.chain, <<>>, x)
        BY <3>2, <4>2, EmptySeq, AppendExtends DEF x
      <4>4. At(<<>>) = {}
        BY EmptySeq DEF At
      <4> QED
        BY <4>2, <4>3, <4>4 DEF Extended, Prepared, Tells
    <3> QED
      BY <1>4, <3>1, <3>2 DEF ReadWelcome, ReadJoined
  <2> QED
    BY <2>3, <2>4, <2>5 DEF Ready
<1>5. CASE ReadLeft(t, s, m)
  BY <1>5, EmptyReady DEF ReadLeft, Reset
<1>6. ASSUME Continues(t, s), t.dir = s.dir, t.heard = s.heard, t.held = s.held \/ s.heard = NoDesc,
             s.needs => t.needs, t.needs => s.needs \/ Busy(s), Inherits(t.chain, s.chain, 0)
      PROVE  Ready(t)
  <2>1. Queued(t)
    BY <1>1, <1>6 DEF Queued, Busy, Continues
  <2>2. Collected(t)
    BY <1>1, <1>6 DEF Collected, Inherits
  <2>3. Prepared(t)
    BY <1>1, <1>6, PreparedKept
  <2> QED
    BY <2>1, <2>2, <2>3 DEF Ready
<1>7. ASSUME NEW op \in {"setRemote", "setAnswered"}, s.peer # NoPeer,
             t.chain = Append(s.chain, Op(op, s.peer, m.desc))
      PROVE  Inherits(t.chain, s.chain, 0)
  <2> DEFINE x == Op(op, s.peer, m.desc)
  <2>1. x \in Ops /\ x.op = op
    BY <1>2, <1>7, OpType
  <2> HIDE DEF x
  <2>2. t.chain = Append(s.chain, x)
    BY <1>7 DEF x
  <2>3. Extended(t.chain, s.chain, x)
    BY <1>2, <2>1, <2>2, AppendExtends
  <2>4. ~Tells(x)
    BY <1>7, <2>1 DEF Tells
  <2> QED
    BY <1>3, <2>3, <2>4, InheritsMore
<1>8. CASE ReadOffer(t, s, m)
  <2>1. CASE t.chain = s.chain /\ SameMedia(t, s)
    BY <1>3, <1>6, <1>8, <2>1 DEF ReadOffer, SameMedia
  <2>2. CASE /\ t.dir = s.dir /\ t.heard = s.heard /\ t.held = s.held
             /\ t.needs <=> s.needs \/ Busy(s)
             /\ t.chain = Append(s.chain, Op("setRemote", s.peer, m.desc))
    BY <1>6, <1>7, <1>8, <2>2 DEF ReadOffer
  <2> QED
    BY <1>8, <2>1, <2>2 DEF ReadOffer
<1>9. CASE ReadAnswer(t, s, m)
  BY <1>6, <1>7, <1>9 DEF ReadAnswer, SameMedia
<1>10. CASE ReadIce(t, s, m)
  BY <1>3, <1>6, <1>10 DEF ReadIce
<1> QED
  BY <1>4, <1>5, <1>8, <1>9, <1>10 DEF Read

-------------------------------------------------------------------------------
(* What the one page has told and the other one has heard.                 *)

\* An offer that is on its way and has not been followed by an answer.
Open(s, d, i) ==
    /\ d[i].type = "offer" /\ d[i].from = s.id
    /\ ~\E j \in At(d) : i < j /\ d[j].type = "answer" /\ d[j].from = s.id

Pending(s, d) == s.sig = "local" => \A i \in At(d) : Open(s, d, i) => Stands(s, d[i].desc.dir)

\* The other page answers an offer.
Heeded(s, o) ==
    \A i \in At(o.chain) : o.chain[i].to = s.id =>
        /\ o.chain[i].op = "setRemote" => Stands(s, o.chain[i].desc.dir)
        /\ Advanced(o.chain[i]) => Stands(s, o.heard.dir)

\* An answer of o is on its way or waits to be applied.
Replied(s, c, o) ==
    \/ \E i \in At(s.chain) : s.chain[i].op = "setAnswered" /\ s.chain[i].to = o.id
    \/ \E i \in At(c) : c[i].type = "answer" /\ c[i].from = o.id

\* Who has answered has heard the direction of the page that asked, and the
\* answer says the direction of the page that answered.
Agreed(s, c, o) == Replied(s, c, o) => Stands(s, o.heard.dir)
Says(o, desc) == desc.dir = o.dir \/ Busy(o)
Replying(s, c, o) ==
    /\ \A i \in At(s.chain) : s.chain[i].op = "setAnswered" /\ s.chain[i].to = o.id =>
          Says(o, s.chain[i].desc)
    /\ \A i \in At(c) : c[i].type = "answer" /\ c[i].from = o.id => Says(o, c[i].desc)

\* The pages do not answer each other at the same time.
OneWay(s, c, o, d) == ~(Replied(s, c, o) /\ Replied(o, d, s))

Settled(s, o) ==
    s.id # NoPeer /\ o.id # NoPeer /\ s.peer = o.id /\ o.peer = s.id =>
        Busy(s) \/ Busy(o) \/ o.heard.dir = s.dir

\* The younger page starts by making an offer.
Awaited(s, o) ==
    s.id # NoPeer /\ o.peer = s.id /\ s.peer # o.id /\ s.id < o.id => Busy(o)

Direct(s, c, o, d) ==
    /\ Pending(s, d) /\ Heeded(s, o) /\ Agreed(s, c, o) /\ Replying(s, c, o)
    /\ OneWay(s, c, o, d) /\ Settled(s, o) /\ Awaited(s, o)

Couple(s, c, o, d, n) ==
    /\ Pair(s, c, o, d, n) /\ Ready(s) /\ Ready(o) /\ Direct(s, c, o, d) /\ Direct(o, d, s, c)

LEMMA CoupleParts ==
    ASSUME NEW s, NEW c, NEW o, NEW d, NEW n, Couple(s, c, o, d, n)
    PROVE  /\ Pair(s, c, o, d, n) /\ Pair(o, d, s, c, n) /\ Ready(s) /\ Ready(o)
           /\ Pending(s, d) /\ Heeded(s, o) /\ Agreed(s, c, o) /\ Replying(s, c, o)
           /\ Settled(s, o) /\ Awaited(s, o)
           /\ Pending(o, c) /\ Heeded(o, s) /\ Agreed(o, d, s) /\ Replying(o, d, s)
           /\ Settled(o, s) /\ Awaited(o, s)
           /\ OneWay(s, c, o, d) /\ OneWay(o, d, s, c)
BY OtherSide DEF Couple, Direct

\* Who is answered waits for it, and the two talk to each other.
LEMMA RepliedWaits ==
    ASSUME NEW s, NEW c, NEW o, NEW d, NEW n, Pair(s, c, o, d, n), Replied(s, c, o)
    PROVE  /\ s.sig = "local" /\ s.peer = o.id /\ o.peer = s.id
           /\ s.id # NoPeer /\ o.id # NoPeer /\ \A k : ~Awaiting(s, c, k)
<1>1. Exchange(s, c, o, d)
  BY OtherSide
<1>2. CASE \E i \in At(s.chain) : s.chain[i].op = "setAnswered" /\ s.chain[i].to = o.id
  <2>1. PICK i \in At(s.chain) : s.chain[i].op = "setAnswered" /\ s.chain[i].to = o.id
    BY <1>2
  <2>2. s.peer = o.id /\ o.peer = s.id /\ s.peer # NoPeer /\ s.id # NoPeer
    BY <2>1, Ties
  <2>3. s.sig = "local"
    BY <1>1, <2>1 DEF Exchange, Answered
  <2> QED
    BY <2>1, <2>2, <2>3 DEF Awaiting, NoAnswer
<1>3. CASE \E i \in At(c) : c[i].type = "answer" /\ c[i].from = o.id
  <2>1. PICK i \in At(c) : c[i].type = "answer" /\ c[i].from = o.id
    BY <1>3
  <2>2. c[i].from # NoPeer /\ o.peer = s.id /\ s.id # NoPeer
    BY <2>1, Ties, SaidTypes
  <2>3. Near(s, c[i], "answer")
    BY <1>1, <2>1 DEF Exchange, Strangers, Near
  <2>4. s.sig = "local"
    BY <1>1, <2>3 DEF Exchange, Answered
  <2> QED
    BY <2>1, <2>2, <2>3, <2>4 DEF Near, Awaiting, NoAnswer
<1> QED
  BY <1>2, <1>3 DEF Replied

\* A page that does not wait for an answer has none coming, nor an offer.
LEMMA Unconcerned ==
    ASSUME NEW t, NEW e, NEW o, NEW d, Exchange(t, e, o, d), Exchange(o, d, t, e),
           t.sig # "local"
    PROVE  /\ Pending(t, d) /\ Heeded(t, o) /\ Agreed(t, e, o) /\ Replying(t, e, o)
           /\ OneWay(t, e, o, d) /\ OneWay(o, d, t, e)
<1>1. /\ \A i \in At(t.chain) : t.chain[i].op # "setAnswered"
      /\ \A i \in At(e) : ~Near(t, e[i], "answer")
  BY DEF Exchange, Answered
<1>2. \A i \in At(e) : e[i].type # "answer"
  BY <1>1 DEF Exchange, Strangers, Near
<1>3. Agreed(t, e, o) /\ Replying(t, e, o) /\ OneWay(t, e, o, d) /\ OneWay(o, d, t, e)
  BY <1>1, <1>2 DEF Agreed, Replying, OneWay, Replied
<1>4. Heeded(t, o)
  <2>1. \A i \in At(o.chain) : ~(o.chain[i].to = t.id /\ Answers(o.chain[i]))
    BY DEF Exchange, Owed, Awaiting
  <2> QED
    BY <2>1 DEF Heeded, Advanced, Answers
<1>5. Pending(t, d)
  BY DEF Pending
<1> QED
  BY <1>3, <1>4, <1>5

LEMMA NotReplied ==
    ASSUME NEW s, NEW c, NEW o, ~Replied(s, c, o)
    PROVE  Agreed(s, c, o) /\ Replying(s, c, o)
BY DEF Agreed, Replying, Replied

\* The other page reads a message.
LEMMA ShiftedPending ==
    ASSUME NEW o, NEW e, NEW c, Shifted(e, c), Pending(o, c)
    PROVE  Pending(o, e)
<1>1. /\ \A i \in At(e) : i \in Nat /\ i + 1 \in At(c) /\ e[i] = c[i + 1]
      /\ \A i \in At(c) : i \in Nat /\ (i # 1 => i - 1 \in At(e) /\ e[i - 1] = c[i])
  BY DEF Shifted, At
<1>2. ASSUME NEW i \in At(e), Open(o, e, i)
      PROVE  i + 1 \in At(c) /\ e[i] = c[i + 1] /\ Open(o, c, i + 1)
  <2>1. i + 1 \in At(c) /\ e[i] = c[i + 1] /\ i \in Nat
    BY <1>1
  <2>2. ASSUME NEW j \in At(c), i + 1 < j, c[j].type = "answer", c[j].from = o.id
        PROVE  FALSE
    <3>1. j \in Nat /\ j # 1 /\ i < j - 1
      BY <1>1, <2>1, <2>2
    <3>2. j - 1 \in At(e) /\ e[j - 1] = c[j]
      BY <1>1, <3>1
    <3> QED
      BY <1>2, <2>2, <3>1, <3>2 DEF Open
  <2> QED
    BY <1>2, <2>1, <2>2 DEF Open
<1> QED
  BY <1>2 DEF Pending

LEMMA SettlesDirect ==
    ASSUME NEW s, NEW c, NEW o, NEW d, NEW n, Couple(s, c, o, d, n), NEW t, NEW d2,
           SameView(t, s), Settles(t, s, d2, d)
    PROVE  Direct(t, c, o, d2) /\ Direct(o, d2, t, c)
<1>1. /\ Pair(s, c, o, d, n) /\ Pair(o, d, s, c, n) /\ Ready(s)
      /\ Agreed(s, c, o) /\ Replying(s, c, o) /\ Awaited(s, o)
      /\ Pending(o, c) /\ Heeded(o, s) /\ OneWay(s, c, o, d)
  BY CoupleParts
<1>2. Exchange(t, c, o, d2) /\ Exchange(o, d2, t, c) /\ Exchange(s, c, o, d) /\ Alone(s)
  BY <1>1, SettlesNear, SettlesFar, OtherSide DEF Acquainted
<1>3. /\ t.id = s.id /\ t.peer = s.peer /\ t.sig = "stable" /\ s.sig = "local" /\ d2 = d
      /\ t.dir = s.dir /\ t.heard = s.chain[1].desc /\ Replayed(t, s)
      /\ 1 \in At(s.chain) /\ s.chain[1].op = "setAnswered"
  BY DEF SameView, Settles, First
<1>4. s.chain[1].to = s.peer /\ (s.peer = o.id => o.peer = s.id) /\ s.peer # NoPeer /\ s.pc
  BY <1>1, <1>2, <1>3, Ties DEF Alone
<1>5. /\ Pending(t, d2) /\ Heeded(t, o) /\ Agreed(t, c, o) /\ Replying(t, c, o)
      /\ OneWay(t, c, o, d2) /\ OneWay(o, d2, t, c)
  BY <1>2, <1>3, Unconcerned
<1>6. s.needs => Busy(t)
  BY <1>3, <1>4 DEF Replayed, Busy
<1>7. s.peer = o.id => Stands(s, o.heard.dir) /\ Says(o, t.heard)
  BY <1>1, <1>3, <1>4 DEF Agreed, Replied, Replying
<1>8. Settled(t, o) /\ Settled(o, t)
  BY <1>3, <1>6, <1>7 DEF Settled, Stands, Says
<1>9. Awaited(t, o) /\ Awaited(o, t)
  BY <1>1, <1>3, <1>4 DEF Awaited
<1>10. ~Replied(o, d2, t)
  <2>1. SUFFICES ASSUME Replied(o, d, s)
                 PROVE  FALSE
    BY <1>3 DEF Replied
  <2>2. s.peer = o.id
    BY <1>1, <2>1, RepliedWaits
  <2>3. Replied(s, c, o)
    BY <1>3, <1>4, <2>2 DEF Replied
  <2> QED
    BY <1>1, <2>1, <2>3 DEF OneWay
<1>11. Heeded(o, t)
  <2>1. \A i \in At(t.chain) : Answers(t.chain[i]) => i + 1 \in At(s.chain) /\ t.chain[i] = s.chain[i + 1]
    BY DEF Settles, Keeps, Fresh, Plain
  <2>2. \A i \in At(s.chain) : ~Advanced(s.chain[i])
    BY <1>2, <1>3 DEF Exchange, Answering
  <2> QED
    BY <1>1, <1>3, <2>1, <2>2 DEF Heeded, Advanced, Answers
<1> QED
  BY <1>1, <1>5, <1>8, <1>9, <1>10, <1>11, NotReplied DEF Direct

LEMMA OffersDirect ==
    ASSUME NEW s, NEW c, NEW o, NEW d, NEW n, Couple(s, c, o, d, n), NEW t, NEW d2,
           SameView(t, s), Offers(t, s, o, d2, d)
    PROVE  Direct(t, c, o, d2) /\ Direct(o, d2, t, c)
<1>1. /\ Pair(s, c, o, d, n) /\ Pair(o, d, s, c, n) /\ Ready(s) /\ Awaited(s, o)
      /\ Pending(o, c) /\ Heeded(o, s) /\ Agreed(o, d, s) /\ Replying(o, d, s)
  BY CoupleParts
<1>2. /\ Exchange(s, c, o, d) /\ Exchange(o, d, s, c)
      /\ s \in PageRecord /\ d \in Seq(Messages)
  BY <1>1, OtherSide
<1>3. /\ t.id = s.id /\ t.peer = s.peer /\ t.sig = "local" /\ s.sig = "stable" /\ SameMedia(t, s)
      /\ 1 \in At(s.chain) /\ s.chain[1].op = "setOffer" /\ Busy(t)
      /\ \A i \in At(t.chain) : ~Plain(t.chain[i]) => i + 1 \in At(s.chain) /\ t.chain[i] = s.chain[i + 1]
  BY DEF SameView, Offers, First, Busy, Keeps, Fresh
<1> DEFINE x == Message("offer", s.id, FALSE, s.chain[1].desc)
<1>4. s.chain[1].desc \in Descs /\ s.id \in Ids \cup {NoPeer}
  BY <1>1, <1>2, <1>3, Ties DEF PageRecord, Ops
<1>5. x \in Messages /\ x.type = "offer" /\ x.from = s.id /\ x.desc = s.chain[1].desc
  BY <1>4 DEF Message, Messages
<1>6. Told(d2, d, o, s.peer, x)
  BY DEF Offers
<1> HIDE DEF x
<1>7. d2 = d \/ Extended(d2, d, x)
  BY <1>2, <1>5, <1>6, ToldExtends
<1>8. /\ \A i \in At(d2) : (i \in At(d) /\ d2[i] = d[i]) \/ d2[i] = x
      /\ \A i \in At(d) : i \in At(d2) /\ d2[i] = d[i]
  BY <1>7 DEF Extended
<1>9. ~Replied(t, c, o)
  <2>1. ~Replied(s, c, o)
    BY <1>1, <1>3, RepliedWaits
  <2> QED
    BY <1>3, <2>1 DEF Replied, Plain
<1>10. Heeded(t, o)
  <2>1. \A i \in At(o.chain) : ~(o.chain[i].to = s.id /\ Answers(o.chain[i]))
    BY <1>2, <1>3 DEF Exchange, Owed, Awaiting
  <2> QED
    BY <1>3, <2>1 DEF Heeded, Advanced, Answers
<1>11. Pending(t, d2)
  <2>1. \A i \in At(s.chain) : ~Advanced(s.chain[i])
    BY <1>2, <1>3 DEF Exchange, Answering
  <2>2. \A i \in At(d) : d[i].type = "offer" /\ d[i].from = s.id =>
           \E j \in At(d) : i < j /\ d[j].type = "answer" /\ d[j].from = s.id
    BY <1>2, <1>3, <2>1 DEF Exchange, Offered, Awaiting
  <2>3. \A i \in At(d) : ~Open(t, d2, i)
    BY <1>3, <1>8, <2>2 DEF Open
  <2>4. Stands(t, x.desc.dir)
    <3>1. Stands(s, s.chain[1].desc.dir)
      BY <1>1, <1>3 DEF Ready, Prepared, Tells
    <3> QED
      BY <1>3, <1>5, <3>1 DEF Stands, SameMedia
  <2> QED
    BY <1>8, <2>3, <2>4 DEF Pending
<1>12. Settled(t, o) /\ Settled(o, t) /\ Awaited(t, o) /\ Awaited(o, t)
  BY <1>1, <1>3 DEF Settled, Awaited
<1>13. Heeded(o, t)
  BY <1>1, <1>3 DEF Heeded, Advanced, Answers, Plain, SameMedia
<1>14. Agreed(o, d2, t)
  BY <1>1, <1>3, <1>5, <1>8 DEF Agreed, Replied, SameMedia
<1>15. Replying(o, d2, t)
  BY <1>1, <1>3, <1>5, <1>8 DEF Replying, Says
<1>16. OneWay(t, c, o, d2) /\ OneWay(o, d2, t, c)
  BY <1>9 DEF OneWay
<1> QED
  BY <1>1, <1>9, <1>10, <1>11, <1>12, <1>13, <1>14, <1>15, <1>16, NotReplied DEF Direct

LEMMA ProceedsDirect ==
    ASSUME NEW s, NEW c, NEW o, NEW d, NEW n, Couple(s, c, o, d, n), NEW t, NEW d2,
           SameView(t, s), Proceeds(t, s, d2, d)
    PROVE  Direct(t, c, o, d2) /\ Direct(o, d2, t, c)
<1>1. /\ Pair(s, c, o, d, n) /\ Pair(o, d, s, c, n) /\ Awaited(s, o)
      /\ Pending(o, c) /\ Heeded(o, s)
  BY CoupleParts
<1>2. Exchange(t, c, o, d2) /\ Exchange(o, d2, t, c) /\ Exchange(s, c, o, d)
  BY <1>1, ProceedsNear, ProceedsFar, OtherSide
<1> DEFINE h == s.chain[1]
<1>3. /\ t.id = s.id /\ t.peer = s.peer /\ t.sig = "remote" /\ d2 = d
      /\ 1 \in At(s.chain) /\ Answers(h) /\ Busy(t)
      /\ t.heard = IF h.op = "setRemote" THEN h.desc ELSE s.heard
  BY DEF SameView, Proceeds, Busy
<1>4. PICK x \in Ops : /\ Advanced(x) /\ x.to = h.to /\ Replaces(t.chain, s.chain, x)
  BY DEF Proceeds
<1>5. h.to = s.peer /\ (s.peer = o.id => Awaiting(o, d, h.desc.offer))
  BY <1>1, <1>3, Ties
<1>6. \A i \in At(s.chain) : Answers(s.chain[i]) => i = 1
  BY <1>2, <1>3 DEF Exchange, Answering
<1>7. /\ Pending(t, d2) /\ Heeded(t, o) /\ Agreed(t, c, o) /\ Replying(t, c, o)
      /\ OneWay(t, c, o, d2) /\ OneWay(o, d2, t, c)
  BY <1>2, <1>3, Unconcerned
<1>8. Settled(t, o) /\ Settled(o, t) /\ Awaited(t, o) /\ Awaited(o, t)
  BY <1>1, <1>3 DEF Settled, Awaited
<1>9. ~Replied(o, d2, t)
  <2>1. SUFFICES ASSUME Replied(o, d, s)
                 PROVE  FALSE
    BY <1>3 DEF Replied
  <2> QED
    BY <1>1, <1>5, <2>1, RepliedWaits
<1>10. Heeded(o, t)
  <2>1. h.to = o.id => Stands(o, t.heard.dir)
    BY <1>1, <1>3 DEF Heeded, Advanced
  <2>2. \A i \in At(t.chain) : Answers(t.chain[i]) => t.chain[i] = x
    BY <1>4, <1>6 DEF Replaces
  <2>3. x.op # "setRemote"
    BY <1>4 DEF Advanced
  <2> HIDE DEF h
  <2> QED
    BY <1>3, <1>4, <2>1, <2>2, <2>3 DEF Heeded, Advanced, Answers
<1> QED
  BY <1>1, <1>7, <1>8, <1>9, <1>10, NotReplied DEF Direct

LEMMA RepliesDirect ==
    ASSUME NEW s, NEW c, NEW o, NEW d, NEW n, Couple(s, c, o, d, n), NEW t, NEW d2,
           SameView(t, s), Replies(t, s, o, d2, d)
    PROVE  Direct(t, c, o, d2) /\ Direct(o, d2, t, c)
<1>1. /\ Pair(s, c, o, d, n) /\ Pair(o, d, s, c, n) /\ Ready(s)
      /\ Pending(o, c) /\ Heeded(o, s)
  BY CoupleParts
<1>2. /\ Exchange(t, c, o, d2) /\ Exchange(o, d2, t, c) /\ Exchange(s, c, o, d) /\ Alone(s)
      /\ s \in PageRecord /\ d \in Seq(Messages)
  BY <1>1, RepliesNear, RepliesFar, OtherSide DEF Acquainted
<1> DEFINE h == s.chain[1]
<1>3. /\ t.id = s.id /\ t.peer = s.peer /\ t.sig = "stable"
      /\ t.dir = s.dir /\ t.heard = s.heard /\ Replayed(t, s)
      /\ 1 \in At(s.chain) /\ h.op = "setAnswer"
      /\ \A i \in At(t.chain) : Answers(t.chain[i]) =>
            i + 1 \in At(s.chain) /\ i + 1 # 1 /\ t.chain[i] = s.chain[i + 1]
  BY DEF SameView, Replies, First, Keeps, Fresh, Plain, At
<1>4. Answers(h) /\ Advanced(h)
  BY <1>3 DEF Answers, Advanced
<1>5. /\ h.to = s.peer /\ s.peer # NoPeer /\ s.pc /\ h \in Ops
      /\ s.peer = o.id => o.peer = s.id /\ Awaiting(o, d, h.desc.offer)
  BY <1>1, <1>2, <1>3, <1>4, Ties DEF Alone
<1>6. s.peer = o.id => Busy(o) /\ ~Replied(o, d, s)
  BY <1>1, <1>5, RepliedWaits DEF Awaiting, Busy
<1>7. /\ Pending(t, d2) /\ Heeded(t, o) /\ Agreed(t, c, o) /\ Replying(t, c, o)
      /\ OneWay(t, c, o, d2) /\ OneWay(o, d2, t, c)
  BY <1>2, <1>3, Unconcerned
<1>8. Settled(t, o) /\ Settled(o, t) /\ Awaited(t, o) /\ Awaited(o, t)
  <2>1. Settled(t, o) /\ Settled(o, t)
    BY <1>3, <1>6 DEF Settled
  <2>2. Awaited(t, o)
    BY <1>1, <1>3, CoupleParts DEF Awaited
  <2>3. Awaited(o, t)
    BY <1>3, <1>5 DEF Awaited
  <2> QED
    BY <2>1, <2>2, <2>3
<1>9. Heeded(o, t)
  <2>1. \A i \in At(s.chain) : Answers(s.chain[i]) => i = 1
    BY <1>2, <1>3, <1>4 DEF Exchange, Answering
  <2>2. \A i \in At(t.chain) : ~Answers(t.chain[i])
    BY <1>3, <2>1
  <2> QED
    BY <2>2 DEF Heeded, Advanced, Answers
<1>10. CASE s.peer # o.id
  <2>1. ~Replied(o, d, s)
    BY <1>1, <1>10, RepliedWaits
  <2>2. d2 = d
    BY <1>5, <1>10 DEF Replies, Told
  <2>3. ~Replied(o, d2, t)
    BY <1>3, <2>1, <2>2 DEF Replied
  <2> QED
    BY <1>1, <1>7, <1>8, <1>9, <2>3, NotReplied DEF Direct
<1>11. CASE s.peer = o.id
  <2>1. Stands(o, t.heard.dir)
    BY <1>1, <1>3, <1>4, <1>5, <1>11 DEF Heeded
  <2>2. Says(t, h.desc)
    <3>1. Stands(s, h.desc.dir)
      BY <1>1, <1>3 DEF Ready, Prepared, Tells
    <3> QED
      BY <1>3, <1>5, <3>1 DEF Stands, Says, Replayed, Busy
  <2> DEFINE x == Message("answer", s.id, FALSE, h.desc)
  <2>3. h.desc \in Descs /\ s.id \in Ids \cup {NoPeer}
    BY <1>2, <1>5 DEF PageRecord, Ops
  <2>4. Told(d2, d, o, s.peer, Message("answer", s.id, FALSE, s.chain[1].desc))
    BY <1>5 DEF Replies
  <2> HIDE DEF h
  <2>5. x \in Messages /\ x.desc = h.desc
    BY <2>3 DEF Message, Messages
  <2>6. Told(d2, d, o, s.peer, x)
    BY <2>4 DEF h
  <2> HIDE DEF x
  <2>7. d2 = d \/ Extended(d2, d, x)
    BY <1>2, <2>5, <2>6, ToldExtends
  <2>8. \A i \in At(d2) : (i \in At(d) /\ d2[i] = d[i]) \/ d2[i] = x
    BY <2>7 DEF Extended
  <2>9. Replying(o, d2, t)
    BY <1>3, <1>6, <1>11, <2>2, <2>5, <2>8 DEF Replying, Replied
  <2>10. Agreed(o, d2, t)
    BY <2>1 DEF Agreed
  <2> QED
    BY <1>1, <1>7, <1>8, <1>9, <2>9, <2>10 DEF Direct
<1> QED
  BY <1>10, <1>11

LEMMA IdlesDirect ==
    ASSUME NEW s, NEW c, NEW o, NEW d, NEW n, Couple(s, c, o, d, n), NEW t, NEW d2,
           SameView(t, s), Idles(t, s, o, d2, d)
    PROVE  Direct(t, c, o, d2) /\ Direct(o, d2, t, c)
<1>1. /\ Pair(s, c, o, d, n) /\ Pair(o, d, s, c, n)
      /\ Pending(s, d) /\ Heeded(s, o) /\ Agreed(s, c, o) /\ Replying(s, c, o)
      /\ Settled(s, o) /\ Awaited(s, o)
      /\ Pending(o, c) /\ Heeded(o, s) /\ Agreed(o, d, s) /\ Replying(o, d, s)
      /\ Settled(o, s) /\ Awaited(o, s)
      /\ OneWay(s, c, o, d) /\ OneWay(o, d, s, c)
  BY CoupleParts
<1>2. /\ Exchange(t, c, o, d2) /\ Exchange(o, d2, t, c) /\ Alone(s)
      /\ s \in PageRecord /\ d \in Seq(Messages)
  BY <1>1, IdlesNear, IdlesFar, OtherSide DEF Acquainted
<1>3. /\ t.id = s.id /\ t.peer = s.peer /\ t.sig = s.sig /\ t.heard = s.heard
      /\ (s.needs => t.needs) /\ (Busy(s) => Busy(t))
      /\ t.dir = s.dir \/ s.peer = NoPeer \/ (Busy(t) /\ (s.sig = "stable" \/ t.needs))
  BY DEF SameView, Idles, Turns
<1>4. \A i \in At(t.chain) : ~Plain(t.chain[i]) => \E j \in At(s.chain) : t.chain[i] = s.chain[j]
  <2>1. PICK k \in {0, 1} : Keeps(t.chain, s.chain, k)
    BY <1>1, IdlesKeep
  <2> QED
    BY <2>1 DEF Keeps, Fresh
<1> DEFINE x == Message("ice", s.id, FALSE, NoDesc)
<1>5. x \in Messages /\ x.type = "ice"
  BY <1>2, NoDescType DEF Message, Messages, PageRecord
<1>6. d2 = d \/ Told(d2, d, o, s.peer, x)
  BY DEF Idles
<1> HIDE DEF x
<1>7. d2 = d \/ Extended(d2, d, x)
  BY <1>2, <1>5, <1>6, ToldExtends
<1>8. /\ \A i \in At(d2) : (i \in At(d) /\ d2[i] = d[i]) \/ d2[i] = x
      /\ \A i \in At(d) : i \in At(d2) /\ d2[i] = d[i]
  BY <1>7 DEF Extended
<1>9. s.sig = "local" => \A dir : Stands(s, dir) => Stands(t, dir)
  BY <1>2, <1>3 DEF Stands, Alone
<1>10. Replied(t, c, o) => Replied(s, c, o) /\ s.sig = "local"
  <2>1. Replied(t, c, o) => Replied(s, c, o)
    BY <1>4 DEF Replied, Plain
  <2> QED
    BY <1>1, <2>1, RepliedWaits
<1>11. Replied(o, d2, t) => Replied(o, d, s) /\ s.peer # NoPeer
  <2>1. Replied(o, d2, t) => Replied(o, d, s)
    BY <1>3, <1>5, <1>8 DEF Replied
  <2> QED
    BY <1>1, <2>1, RepliedWaits
<1>12. Pending(t, d2)
  <2>1. ASSUME NEW i \in At(d2), Open(t, d2, i)
        PROVE  i \in At(d) /\ d2[i] = d[i] /\ Open(s, d, i)
    BY <1>3, <1>5, <1>8, <2>1 DEF Open
  <2> QED
    BY <1>1, <1>3, <1>9, <2>1 DEF Pending
<1>13. Heeded(t, o)
  <2>1. CASE s.sig = "local"
    BY <1>1, <1>3, <1>9, <2>1 DEF Heeded
  <2>2. CASE s.sig # "local"
    BY <1>2, <1>3, <2>2, Unconcerned
  <2> QED
    BY <2>1, <2>2
<1>14. Agreed(t, c, o)
  BY <1>1, <1>9, <1>10 DEF Agreed
<1>15. Replying(t, c, o)
  BY <1>1, <1>4 DEF Replying, Plain
<1>16. OneWay(t, c, o, d2) /\ OneWay(o, d2, t, c)
  BY <1>1, <1>10, <1>11 DEF OneWay
<1>17. Settled(t, o) /\ Settled(o, t)
  BY <1>1, <1>3 DEF Settled
<1>18. Awaited(t, o) /\ Awaited(o, t)
  BY <1>1, <1>3 DEF Awaited
<1>19. Heeded(o, t)
  BY <1>1, <1>3, <1>4 DEF Heeded, Advanced, Answers, Plain
<1>20. Agreed(o, d2, t)
  BY <1>1, <1>3, <1>11 DEF Agreed
<1>21. Replying(o, d2, t)
  <2>1. \A desc : Replied(o, d2, t) /\ Says(s, desc) => Says(t, desc)
    BY <1>3, <1>11 DEF Says
  <2>2. /\ \A i \in At(o.chain) : o.chain[i].op = "setAnswered" /\ o.chain[i].to = s.id =>
              Replied(o, d2, t) /\ Says(s, o.chain[i].desc)
        /\ \A i \in At(d2) : d2[i].type = "answer" /\ d2[i].from = s.id =>
              Replied(o, d2, t) /\ Says(s, d2[i].desc)
    BY <1>1, <1>3, <1>5, <1>8 DEF Replying, Replied
  <2> QED
    BY <1>3, <2>1, <2>2 DEF Replying
<1> QED
  BY <1>1, <1>12, <1>13, <1>14, <1>15, <1>16, <1>17, <1>18, <1>19, <1>20, <1>21 DEF Direct

\* Work keeps the pages' agreement.
LEMMA WorkedDirect ==
    ASSUME NEW s, NEW c, NEW o, NEW d, NEW n, Couple(s, c, o, d, n), NEW t \in PageRecord, NEW d2,
           Worked(t, s, o, d2, d)
    PROVE  Ready(t) /\ Direct(t, c, o, d2) /\ Direct(o, d2, t, c)
<1>1. Pair(s, c, o, d, n) /\ Ready(s)
  BY CoupleParts
<1>2. /\ s \in PageRecord /\ Described(s, c) /\ Answering(s, c) /\ Answered(s, c) /\ Alone(s)
      /\ Upright(s)
  BY <1>1, OtherSide DEF Exchange, Acquainted
<1>3. Ready(t)
  BY <1>1, <1>2, WorkedReady
<1>4. Acted(t, s, o, d2, d)
  BY <1>2, ActsOfWork
<1>5. SameView(t, s)
  BY <1>4 DEF Acted
<1>6. CASE Idles(t, s, o, d2, d)
  BY <1>3, <1>5, <1>6, IdlesDirect
<1>7. CASE Offers(t, s, o, d2, d)
  BY <1>3, <1>5, <1>7, OffersDirect
<1>8. CASE Proceeds(t, s, d2, d)
  BY <1>3, <1>5, <1>8, ProceedsDirect
<1>9. CASE Replies(t, s, o, d2, d)
  BY <1>3, <1>5, <1>9, RepliesDirect
<1>10. CASE Settles(t, s, d2, d)
  BY <1>3, <1>5, <1>10, SettlesDirect
<1> QED
  BY <1>4, <1>6, <1>7, <1>8, <1>9, <1>10 DEF Acted

\* The page goes on; an answer that it has read is to be applied, or an offer
\* that stands.
Moves(t, s, m, o) ==
    /\ SameView(t, s) /\ t.sig = s.sig /\ t.dir = s.dir /\ t.heard = s.heard
    /\ (Busy(t) <=> Busy(s)) /\ (s.needs => t.needs)
    /\ \A i \in At(t.chain) :
          \/ \E j \in At(s.chain) : t.chain[i] = s.chain[j]
          \/ /\ t.chain[i].op = "setAnswered"
             /\ m.type = "answer" /\ m.from = t.chain[i].to /\ m.desc = t.chain[i].desc
          \/ t.chain[i].op = "setRemote" /\ (t.chain[i].to = o.id => Stands(o, t.chain[i].desc.dir))

LEMMA MovesDirect ==
    ASSUME NEW s, NEW c, NEW o, NEW d, NEW n, Couple(s, c, o, d, n), NEW t, NEW e,
           Shifted(e, c), Moves(t, s, c[1], o)
    PROVE  Direct(t, e, o, d) /\ Direct(o, d, t, e)
<1>1. /\ Pending(s, d) /\ Heeded(s, o) /\ Agreed(s, c, o) /\ Replying(s, c, o)
      /\ Settled(s, o) /\ Awaited(s, o)
      /\ Pending(o, c) /\ Heeded(o, s) /\ Agreed(o, d, s) /\ Replying(o, d, s)
      /\ Settled(o, s) /\ Awaited(o, s)
      /\ OneWay(s, c, o, d) /\ OneWay(o, d, s, c)
  BY CoupleParts
<1>2. /\ t.id = s.id /\ t.peer = s.peer /\ t.sig = s.sig /\ t.dir = s.dir /\ t.heard = s.heard
      /\ (Busy(t) <=> Busy(s)) /\ (s.needs => t.needs)
  BY DEF SameView, Moves
<1>3. \A dir : Stands(s, dir) => Stands(t, dir)
  BY <1>2 DEF Stands
<1>4. /\ \A i \in At(e) : i + 1 \in At(c) /\ e[i] = c[i + 1]
      /\ 1 \in At(c)
  BY DEF Shifted
<1>5. \A i \in At(t.chain) : t.chain[i].op = "setAnswered" /\ t.chain[i].to = o.id =>
         \/ \E j \in At(s.chain) : t.chain[i] = s.chain[j]
         \/ c[1].type = "answer" /\ c[1].from = o.id /\ c[1].desc = t.chain[i].desc
  BY DEF Moves
<1>6. Replied(t, e, o) => Replied(s, c, o)
  <2>1. ASSUME NEW i \in At(t.chain), t.chain[i].op = "setAnswered", t.chain[i].to = o.id
        PROVE  Replied(s, c, o)
    BY <1>4, <1>5, <2>1 DEF Replied
  <2>2. ASSUME NEW i \in At(e), e[i].type = "answer", e[i].from = o.id
        PROVE  Replied(s, c, o)
    BY <1>4, <2>2 DEF Replied
  <2> QED
    BY <2>1, <2>2 DEF Replied
<1>7. Replied(o, d, t) <=> Replied(o, d, s)
  BY <1>2 DEF Replied
<1>8. Pending(t, d)
  BY <1>1, <1>2, <1>3 DEF Pending, Open
<1>9. Heeded(t, o)
  BY <1>1, <1>2, <1>3 DEF Heeded
<1>10. Agreed(t, e, o)
  BY <1>1, <1>3, <1>6 DEF Agreed
<1>11. Replying(t, e, o)
  <2>1. \A i \in At(e) : e[i].type = "answer" /\ e[i].from = o.id => Says(o, e[i].desc)
    BY <1>1, <1>4 DEF Replying
  <2>2. ASSUME NEW i \in At(t.chain), t.chain[i].op = "setAnswered", t.chain[i].to = o.id
        PROVE  Says(o, t.chain[i].desc)
    BY <1>1, <1>4, <1>5, <2>2 DEF Replying
  <2> QED
    BY <2>1, <2>2 DEF Replying
<1>12. OneWay(t, e, o, d) /\ OneWay(o, d, t, e)
  BY <1>1, <1>6, <1>7 DEF OneWay
<1>13. Settled(t, o) /\ Settled(o, t)
  BY <1>1, <1>2 DEF Settled
<1>14. Awaited(t, o) /\ Awaited(o, t)
  BY <1>1, <1>2 DEF Awaited
<1>15. Pending(o, e)
  BY <1>1, ShiftedPending
<1>16. Heeded(o, t)
  BY <1>1, <1>2 DEF Heeded, Moves, Advanced, Answers
<1>17. Agreed(o, d, t)
  BY <1>1, <1>2, <1>7 DEF Agreed
<1>18. Replying(o, d, t)
  BY <1>1, <1>2 DEF Replying, Says
<1> QED
  BY <1>8, <1>9, <1>10, <1>11, <1>12, <1>13, <1>14, <1>15, <1>16, <1>17, <1>18 DEF Direct

\* An offer that is accepted stands.
LEMMA AcceptsMoves ==
    ASSUME NEW s, NEW c, NEW o, NEW d, NEW n, Couple(s, c, o, d, n), NEW t, NEW e,
           Shifted(e, c), Accepts(t, s, c[1])
    PROVE  Moves(t, s, c[1], o)
<1>1. Pair(s, c, o, d, n) /\ Pending(o, c)
  BY CoupleParts
<1>2. Exchange(s, c, o, d) /\ Exchange(t, e, o, d)
  BY <1>1, OtherSide, AcceptsNear
<1> DEFINE h == c[1]
<1>3. /\ SameView(t, s) /\ t.sig = s.sig /\ t.dir = s.dir /\ t.heard = s.heard
      /\ (Busy(t) <=> Busy(s)) /\ (s.needs => t.needs) /\ (s.impolite => s.sig = "stable")
      /\ h.type = "offer" /\ h.from = s.peer /\ 1 \in At(c) /\ Near(s, h, "offer")
  BY DEF Accepts, Busy, Shifted, Near
<1>4. PICK x \in Ops : /\ x.op = "setRemote" /\ x.to = s.peer /\ x.desc = h.desc
                       /\ Extended(t.chain, s.chain, x)
  BY DEF Accepts
<1>5. /\ \A i \in At(t.chain) : (i \in At(s.chain) /\ t.chain[i] = s.chain[i]) \/ t.chain[i] = x
      /\ \E i \in At(t.chain) : t.chain[i] = x
  BY <1>4 DEF Extended
<1> HIDE DEF h
<1>6. s.peer = o.id => Stands(o, h.desc.dir)
  <2>1. SUFFICES ASSUME s.peer = o.id
                 PROVE  Stands(o, h.desc.dir)
    OBVIOUS
  <2>2. o.sig = "local"
    BY <1>2, <1>4, <1>5, <2>1 DEF Exchange, Owed, Awaiting, Answers
  <2>3. ASSUME NEW j \in At(c), 1 < j, c[j].type = "answer", c[j].from = o.id
        PROVE  FALSE
    <3>1. Near(s, c[j], "answer")
      BY <2>1, <2>3 DEF Near
    <3>2. s.sig = "local"
      BY <1>2, <3>1 DEF Exchange, Answered
    <3>3. j < 1
      BY <1>2, <1>3, <3>1, <3>2 DEF Exchange, AnswerFirst, h
    <3>4. j \in Nat
      BY DEF At
    <3> QED
      BY <2>3, <3>3, <3>4
  <2>4. Open(o, c, 1)
    BY <1>3, <2>1, <2>3 DEF Open, h
  <2> QED
    BY <1>1, <1>3, <2>2, <2>4 DEF Pending, h
<1> QED
  BY <1>3, <1>4, <1>5, <1>6 DEF Moves

LEMMA HearsMoves ==
    ASSUME NEW s, NEW o, NEW t, NEW m, Hears(t, s, m)
    PROVE  Moves(t, s, m, o)
<1>1. PICK x \in Ops : /\ x.op = "setAnswered" /\ x.to = s.peer /\ x.desc = m.desc
                       /\ Extended(t.chain, s.chain, x)
  BY DEF Hears
<1>2. \A i \in At(t.chain) : (i \in At(s.chain) /\ t.chain[i] = s.chain[i]) \/ t.chain[i] = x
  BY <1>1 DEF Extended
<1>3. /\ SameView(t, s) /\ t.sig = s.sig /\ t.dir = s.dir /\ t.heard = s.heard
      /\ (Busy(t) <=> Busy(s)) /\ (s.needs => t.needs)
      /\ m.type = "answer" /\ m.from = s.peer
  BY DEF Hears, Busy, SameMedia
<1> QED
  BY <1>1, <1>2, <1>3 DEF Moves

LEMMA DropsMoves ==
    ASSUME NEW s, NEW o, NEW t, NEW m, Drops(t, s)
    PROVE  Moves(t, s, m, o)
BY DEF Drops, Moves, Busy

LEMMA MeetsDirect ==
    ASSUME NEW s, NEW c, NEW o, NEW d, NEW n, Couple(s, c, o, d, n), NEW t, NEW e,
           Shifted(e, c), Meets(t, s, c[1])
    PROVE  Direct(t, e, o, d) /\ Direct(o, d, t, e)
<1>1. Pair(s, c, o, d, n) /\ Pair(o, d, s, c, n) /\ Awaited(s, o) /\ Pending(o, c)
  BY CoupleParts
<1>2. /\ Exchange(t, e, o, d) /\ Exchange(o, d, t, e)
      /\ s.id \in Nat /\ o.id \in Nat /\ Younger(s, c, o)
  BY <1>1, MeetsBoth, OtherSide, Ties DEF Ranked
<1>3. /\ c[1].type \in {"welcome", "joined"} /\ s.peer = NoPeer /\ t.id = s.id
      /\ t.peer = c[1].from /\ t.sig = "stable" /\ 1 \in At(c)
      /\ c[1].type = "welcome" /\ c[1].from # NoPeer => t.making
      /\ \A i \in At(t.chain) : t.chain[i].op = "createOffer"
  BY DEF Meets, Shifted
<1>4. /\ Pending(t, d) /\ Heeded(t, o) /\ Agreed(t, e, o) /\ Replying(t, e, o)
      /\ OneWay(t, e, o, d) /\ OneWay(o, d, t, e)
  BY <1>2, <1>3, Unconcerned
\* The younger page makes an offer, the older one has been made one.
<1>5. t.peer = o.id /\ o.id # NoPeer => Busy(t) \/ s.id < o.id
  BY <1>2, <1>3 DEF Younger, Busy
<1>6. s.id # NoPeer /\ o.id # NoPeer /\ o.peer = s.id /\ s.id < o.id => Busy(o)
  BY <1>1, <1>3 DEF Awaited
<1>7. Settled(t, o) /\ Settled(o, t)
  BY <1>3, <1>5, <1>6 DEF Settled
<1>8. Awaited(t, o)
  BY <1>2, <1>3, <1>6 DEF Awaited, NoPeer
<1>9. Awaited(o, t)
  BY <1>2, <1>3, <1>5 DEF Awaited
<1>10. Pending(o, e)
  BY <1>1, ShiftedPending
<1>11. Heeded(o, t)
  BY <1>3 DEF Heeded, Advanced, Answers
<1>12. ~Replied(o, d, t)
  <2>1. SUFFICES ASSUME Replied(o, d, s)
                 PROVE  FALSE
    BY <1>3 DEF Replied
  <2> QED
    BY <1>1, <1>3, <2>1, RepliedWaits
<1> QED
  BY <1>4, <1>7, <1>8, <1>9, <1>10, <1>11, <1>12, NotReplied DEF Direct

LEMMA PartsDirect ==
    ASSUME NEW s, NEW c, NEW o, NEW d, NEW n, Couple(s, c, o, d, n), NEW t, NEW e,
           Shifted(e, c), Parts(t, s, c[1])
    PROVE  Direct(t, e, o, d) /\ Direct(o, d, t, e)
<1>1. Pair(s, c, o, d, n) /\ Pair(o, d, s, c, n) /\ Awaited(s, o) /\ Pending(o, c)
  BY CoupleParts
<1>2. /\ Exchange(t, e, o, d) /\ Exchange(o, d, t, e) /\ Acquainted(s, c, o, n)
  BY <1>1, PartsBoth, OtherSide
<1>3. /\ c[1].type = "left" /\ s.peer = c[1].from /\ t.id = s.id /\ t.peer = NoPeer
      /\ t.sig = "stable" /\ At(t.chain) = {} /\ 1 \in At(c)
  BY EmptySeq DEF Parts, At, Shifted
<1>4. s.peer # o.id
  <2>1. s.id # NoPeer
    BY <1>1, <1>3, Ties
  <2> QED
    BY <1>2, <1>3, <2>1 DEF Acquainted, UpToDate
<1>5. /\ Pending(t, d) /\ Heeded(t, o) /\ Agreed(t, e, o) /\ Replying(t, e, o)
      /\ OneWay(t, e, o, d) /\ OneWay(o, d, t, e)
  BY <1>2, <1>3, Unconcerned
<1>6. Settled(t, o) /\ Settled(o, t) /\ Awaited(t, o) /\ Awaited(o, t)
  BY <1>1, <1>3, <1>4 DEF Settled, Awaited
<1>7. Pending(o, e) /\ Heeded(o, t)
  BY <1>1, <1>3, ShiftedPending DEF Heeded
<1>8. ~Replied(o, d, t)
  <2>1. SUFFICES ASSUME Replied(o, d, s)
                 PROVE  FALSE
    BY <1>3 DEF Replied
  <2> QED
    BY <1>1, <1>4, <2>1, RepliedWaits
<1> QED
  BY <1>5, <1>6, <1>7, <1>8, NotReplied DEF Direct

\* Reading keeps the pages' agreement.
LEMMA ReadDirect ==
    ASSUME NEW s, NEW c, NEW o, NEW d, NEW n, Couple(s, c, o, d, n), NEW t \in PageRecord, NEW e,
           Shifted(e, c), Read(t, s, c[1])
    PROVE  Ready(t) /\ Direct(t, e, o, d) /\ Direct(o, d, t, e)
<1>1. Pair(s, c, o, d, n) /\ Ready(s)
  BY CoupleParts
<1>2. s \in PageRecord /\ Alone(s) /\ c[1] \in Messages
  BY <1>1, OtherSide, Ties DEF Acquainted, Shifted
<1>3. Ready(t)
  BY <1>1, <1>2, ReadReady
<1>4. Drops(t, s) \/ Accepts(t, s, c[1]) \/ Hears(t, s, c[1]) => Moves(t, s, c[1], o)
  BY DropsMoves, AcceptsMoves, HearsMoves
<1>5. Moves(t, s, c[1], o) => Direct(t, e, o, d) /\ Direct(o, d, t, e)
  BY MovesDirect
<1>6. Meets(t, s, c[1]) => Direct(t, e, o, d) /\ Direct(o, d, t, e)
  BY MeetsDirect
<1>7. Parts(t, s, c[1]) => Direct(t, e, o, d) /\ Direct(o, d, t, e)
  BY PartsDirect
<1>8. \/ Meets(t, s, c[1]) \/ Parts(t, s, c[1]) \/ Drops(t, s)
      \/ Accepts(t, s, c[1]) \/ Hears(t, s, c[1])
  BY <1>1, ReadKinds
<1> QED
  BY <1>3, <1>4, <1>5, <1>6, <1>7, <1>8

\* Another page, or none, at the seat of s.
LEMMA ReplacedDirect ==
    ASSUME NEW s, NEW c, NEW o, NEW d, NEW n, Couple(s, c, o, d, n), NEW t, NEW e, NEW d2,
           t.chain = <<>>, t.sig = "stable", t.peer = NoPeer, \A i \in At(e) : e[i].type \in Presence,
           o.peer # t.id \/ t.id = NoPeer,
           \A i \in At(d) : d[i].type \notin Presence => d[i].from # t.id,
           d2 = d \/ \E m \in Messages : m.type \in Presence /\ Extended(d2, d, m)
    PROVE  Direct(t, e, o, d2) /\ Direct(o, d2, t, e)
<1>1. Pair(s, c, o, d, n) /\ Pair(o, d, s, c, n)
  BY CoupleParts
<1>2. Exchange(t, e, o, d2) /\ Exchange(o, d2, t, e)
  BY <1>1, ReplacedExchange
<1>3. At(t.chain) = {}
  BY EmptySeq DEF At
<1>4. /\ Pending(t, d2) /\ Heeded(t, o) /\ Agreed(t, e, o) /\ Replying(t, e, o)
      /\ OneWay(t, e, o, d2) /\ OneWay(o, d2, t, e)
  BY <1>2, Unconcerned
<1>5. Settled(t, o) /\ Settled(o, t) /\ Awaited(t, o) /\ Awaited(o, t)
  BY DEF Settled, Awaited
<1>6. Pending(o, e)
  BY SaidTypes DEF Pending, Open
<1>7. Heeded(o, t)
  BY <1>3 DEF Heeded
<1>8. ~Replied(o, d2, t)
  <2>1. \A i \in At(o.chain) : o.chain[i].to # t.id
    BY <1>1, Ties
  <2>2. \A i \in At(d2) : d2[i].type \notin Presence => d2[i].from # t.id
    BY DEF Extended
  <2> QED
    BY <2>1, <2>2, SaidTypes DEF Replied
<1> QED
  BY <1>4, <1>5, <1>6, <1>7, <1>8, NotReplied DEF Direct

-------------------------------------------------------------------------------
(* The inductive invariant, with what the pages have told each other.      *)

Media ==
    \A p \in Pages :
        Ready(page[p]) /\ Direct(page[p], chan[p], page[Other(p)], chan[Other(p)])

MediaInv == AnswersInv /\ Media

LEMMA CoupleOfSeats ==
    ASSUME MediaInv, NEW p \in Pages
    PROVE  Couple(page[p], chan[p], page[Other(p)], chan[Other(p)], joins)
<1>1. Pair(page[p], chan[p], page[Other(p)], chan[Other(p)], joins)
  BY PairOfSeats DEF MediaInv
<1>2. Other(p) \in Pages /\ Other(Other(p)) = p
  BY TwoSeats
<1>3. /\ Ready(page[p]) /\ Direct(page[p], chan[p], page[Other(p)], chan[Other(p)])
      /\ Ready(page[Other(p)]) /\ Direct(page[Other(p)], chan[Other(p)], page[p], chan[p])
  BY <1>2 DEF MediaInv, Media
<1> QED
  BY <1>1, <1>3 DEF Couple

LEMMA BothDirect ==
    ASSUME NEW p \in Pages, Ready(page'[p]), Ready(page'[Other(p)]),
           Direct(page'[p], chan'[p], page'[Other(p)], chan'[Other(p)]),
           Direct(page'[Other(p)], chan'[Other(p)], page'[p], chan'[p])
    PROVE  Media'
<1>1. /\ Other(Other(p)) = p /\ \A r \in Pages : r = p \/ r = Other(p)
  BY TwoSeats
<1>2. \A r \in Pages :
         Ready(page'[r]) /\ Direct(page'[r], chan'[r], page'[Other(r)], chan'[Other(r)])
  BY <1>1
<1> QED
  BY <1>2 DEF Media

LEMMA WorkMedia ==
    ASSUME MediaInv, NEW p \in Pages, WorksAt(p)
    PROVE  Media'
<1> DEFINE s == page[p]
           o == page[Other(p)]
           c == chan[p]
           d == chan[Other(p)]
           t == page'[p]
           d2 == chan'[Other(p)]
<1>1. Couple(s, c, o, d, joins)
  BY CoupleOfSeats
<1>2. /\ t \in PageRecord /\ Worked(t, s, o, d2, d)
      /\ page'[Other(p)] = o /\ chan'[p] = c
  BY DEF WorksAt
<1> HIDE DEF s, o, c, d, t, d2
<1>3. Ready(t) /\ Ready(o) /\ Direct(t, c, o, d2) /\ Direct(o, d2, t, c)
  BY <1>1, <1>2, WorkedDirect, CoupleParts
<1> QED
  BY <1>2, <1>3, BothDirect DEF t, d2

LEMMA ReadMedia ==
    ASSUME MediaInv, NEW p \in Pages, ReadsAt(p)
    PROVE  Media'
<1> DEFINE s == page[p]
           o == page[Other(p)]
           c == chan[p]
           d == chan[Other(p)]
           t == page'[p]
           e == chan'[p]
<1>1. Couple(s, c, o, d, joins)
  BY CoupleOfSeats
<1>2. /\ t \in PageRecord /\ Read(t, s, c[1]) /\ e = Tail(c) /\ c # <<>>
      /\ page'[Other(p)] = o /\ chan'[Other(p)] = d
  BY DEF ReadsAt
<1> HIDE DEF s, o, c, d, t, e
<1>3. Shifted(e, c)
  BY <1>1, <1>2, CoupleParts, OtherSide, TailShifts
<1>4. Ready(t) /\ Ready(o) /\ Direct(t, e, o, d) /\ Direct(o, d, t, e)
  BY <1>1, <1>2, <1>3, ReadDirect, CoupleParts
<1> QED
  BY <1>2, <1>4, BothDirect DEF t, e

LEMMA ChangedMedia ==
    ASSUME MediaInv, NEW p \in Pages, SeatChanges(p)
    PROVE  Media'
<1> DEFINE s == page[p]
           o == page[Other(p)]
           c == chan[p]
           d == chan[Other(p)]
           t == page'[p]
           e == chan'[p]
           d2 == chan'[Other(p)]
<1>1. Couple(s, c, o, d, joins)
  BY CoupleOfSeats
<1>2. /\ page'[Other(p)] = o /\ t.chain = <<>> /\ t.sig = "stable" /\ t.peer = NoPeer
      /\ ~t.needs /\ t.held = 0
      /\ \A i \in At(e) : e[i].type \in Presence
      /\ o.peer # t.id \/ t.id = NoPeer
      /\ \A i \in At(d) : d[i].type \notin Presence => d[i].from # t.id
      /\ d2 = d \/ \E m \in Messages : m.type \in Presence /\ Extended(d2, d, m)
  BY DEF SeatChanges
<1> HIDE DEF s, o, c, d, t, e, d2
<1>3. Direct(t, e, o, d2) /\ Direct(o, d2, t, e)
  BY <1>1, <1>2, ReplacedDirect
<1>4. Ready(t) /\ Ready(o)
  BY <1>1, <1>2, EmptyReady, CoupleParts
<1> QED
  BY <1>2, <1>3, <1>4, BothDirect DEF t, e, d2

LEMMA MediaInit == Init => MediaInv
<1> SUFFICES ASSUME Init, NEW p \in Pages
             PROVE  /\ Ready(page[p])
                    /\ Direct(page[p], chan[p], page[Other(p)], chan[Other(p)])
  BY AnswersInit DEF MediaInv, Media
<1> DEFINE s == page[p]
           c == chan[p]
           o == page[Other(p)]
           d == chan[Other(p)]
<1>1. s = Loaded(NoPeer) /\ o = Loaded(NoPeer) /\ c = <<>> /\ d = <<>>
  BY TwoSeats DEF Init
<1>2. /\ s.chain = <<>> /\ s.sig = "stable" /\ s.id = NoPeer /\ ~s.needs /\ s.held = 0
      /\ o.chain = <<>> /\ o.id = NoPeer
  BY <1>1, LoadedEffect
<1>3. At(s.chain) = {} /\ At(o.chain) = {} /\ At(c) = {} /\ At(d) = {}
  BY <1>1, <1>2, EmptySeq DEF At
<1> HIDE DEF s, c, o, d
<1>4. Ready(s)
  BY <1>2, EmptyReady
<1>5. Direct(s, c, o, d)
  BY <1>2, <1>3 DEF Direct, Pending, Heeded, Agreed, Replying, OneWay, Replied, Settled, Awaited
<1> QED
  BY <1>4, <1>5 DEF s, c, o, d

LEMMA MediaStep == MediaInv /\ [Next]_vars => MediaInv'
<1> SUFFICES ASSUME MediaInv, [Next]_vars
             PROVE  Media'
  BY AnswersStep DEF MediaInv
<1>1. CASE UNCHANGED vars
  BY <1>1 DEF vars, MediaInv, Media
<1>2. CASE Next
  <2>1. TypeOK /\ Acquaintance
    BY DEF MediaInv, AnswersInv, Standing
  <2>2. PICK p \in Pages : WorksAt(p) \/ ReadsAt(p) \/ ArrivesAt(p) \/ DepartsFrom(p)
    BY <1>2, <2>1, StepKinds
  <2> QED
    BY <2>2, WorkMedia, ReadMedia, ArriveChanges, DepartChanges, ChangedMedia DEF MediaInv
<1> QED
  BY <1>1, <1>2

\* At any time: a direction that the other page has not heard is on its way to
\* it, or is still to be told.
THEOREM MediaInvHolds == Spec => []MediaInv
BY MediaInit, MediaStep, PTL DEF Spec

\* Once everything has arrived, each page has heard the direction the other one
\* has now: a share that starts or stops in the middle of an exchange, a
\* collision or a reload is not forgotten (renegotiate and the replay of
\* needsNegotiation), nor is a candidate held back.
THEOREM MediaSettles == Spec => []SettledMedia
<1>1. MediaInv => SettledMedia
  <2> SUFFICES ASSUME MediaInv, AtRest, \A q \in Pages : page[q].sig = "stable", NEW p \in Pages
               PROVE  /\ page[Other(p)].heard.dir = page[p].dir
                      /\ ~page[p].needs /\ ~page[p].making /\ page[p].held = 0
    BY DEF SettledMedia
  <2> DEFINE s == page[p]
             c == chan[p]
             o == page[Other(p)]
             d == chan[Other(p)]
  <2>1. Couple(s, c, o, d, joins) /\ Other(p) \in Pages /\ Other(Other(p)) = p
    BY CoupleOfSeats, TwoSeats
  <2>2. /\ s.sig = "stable" /\ o.sig = "stable" /\ s.chain = <<>> /\ o.chain = <<>>
        /\ s.id # NoPeer /\ o.id # NoPeer /\ s.peer = o.id /\ o.peer = s.id
    BY <2>1 DEF AtRest, Paired, Present
  <2> HIDE DEF s, c, o, d
  <2>3. /\ Ready(s) /\ Settled(s, o) /\ Settled(o, s) /\ Upright(s) /\ Upright(o)
        /\ s \in PageRecord /\ o \in PageRecord
    BY <2>1, CoupleParts, OtherSide
  <2>4. At(s.chain) = {} /\ At(o.chain) = {}
    BY <2>2, EmptySeq DEF At
  <2>5. ~Busy(s) /\ ~Busy(o)
    BY <2>2, <2>3, <2>4 DEF Busy, Upright, Making
  <2>6. o.heard.dir = s.dir /\ s.heard.dir = o.dir
    BY <2>2, <2>3, <2>5 DEF Settled
  <2>7. s.heard # NoDesc /\ s.held \in Nat
    BY <2>3, <2>6 DEF PageRecord, Directions, NoDesc
  <2>8. s.held = 0
    BY <2>3, <2>4, <2>7 DEF Ready, Collected
  <2>9. ~s.needs /\ ~s.making
    BY <2>3, <2>5 DEF Ready, Queued, Busy
  <2> QED
    BY <2>6, <2>8, <2>9 DEF s, o
<1> QED
  BY <1>1, MediaInvHolds, PTL

===============================================================================
