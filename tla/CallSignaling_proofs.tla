------------------------- MODULE CallSignaling_proofs -------------------------
(***************************************************************************)
(* What the pages of a call believe once nothing is under way, and in      *)
(* which order messages wait for them, for any number of rooms and         *)
(* connections and any buffer size.                                        *)
(***************************************************************************)
EXTENDS CallSignaling, Signaling_proofs

-------------------------------------------------------------------------------
(* A page and the messages on their way to it.  What matters is what the   *)
(* page will believe after it has read them all.                           *)

\* Messages that make a page impolite, and those that make it polite.
Promotes(m) == m.type = "welcome" /\ m.initiator
Demotes(m) == m.type = "joined" /\ m.initiator

\* Position 0 of a channel stands for what the page believes already.  After
\* all that makes it impolite comes a message that makes it polite.
EndsPolite(flag, c) ==
    \A i \in 0 .. Len(c) :
        (IF i = 0 THEN flag ELSE Promotes(c[i])) => \E j \in i + 1 .. Len(c) : Demotes(c[j])

\* The page has, or will get, a remote peer, and no departure takes it away.
EndsNamed(peer, c) ==
    \E i \in 0 .. Len(c) :
        /\ IF i = 0 THEN peer # NoPeer ELSE c[i].type = "joined"
        /\ \A j \in i + 1 .. Len(c) : c[j].type # "left"

\* What the page makes of its flag when it reads m.
Flag(flag, m) ==
    IF m.type = "welcome" THEN m.initiator ELSE flag /\ ~Demotes(m)

LEMMA ChannelAppend ==
    ASSUME NEW S, NEW c \in Seq(S), NEW m \in S
    PROVE  /\ Append(c, m) \in Seq(S) /\ Len(c) \in Nat
           /\ Len(Append(c, m)) = Len(c) + 1
           /\ DOMAIN c = 1 .. Len(c) /\ DOMAIN Append(c, m) = 1 .. Len(c) + 1
           /\ \A i \in 1 .. Len(c) : Append(c, m)[i] = c[i]
           /\ Append(c, m)[Len(c) + 1] = m
<1>1. /\ Append(c, m) \in Seq(S)
      /\ Len(Append(c, m)) = Len(c) + 1
      /\ \A i \in 1 .. Len(c) : Append(c, m)[i] = c[i]
      /\ Append(c, m)[Len(c) + 1] = m
  BY AppendProperties
<1>2. DOMAIN c = 1 .. Len(c) /\ Len(c) \in Nat
  BY LenProperties
<1>3. DOMAIN Append(c, m) = 1 .. Len(Append(c, m))
  BY <1>1, LenProperties
<1> QED
  BY <1>1, <1>2, <1>3

LEMMA ChannelTail ==
    ASSUME NEW S, NEW c \in Seq(S), c # <<>>
    PROVE  /\ Tail(c) \in Seq(S) /\ Len(c) \in Nat \ {0}
           /\ Head(c) = c[1] /\ c[1] \in S
           /\ Len(Tail(c)) = Len(c) - 1
           /\ DOMAIN c = 1 .. Len(c) /\ DOMAIN Tail(c) = 1 .. Len(c) - 1
           /\ \A i \in 1 .. Len(c) - 1 : Tail(c)[i] = c[i + 1]
<1>1. /\ Head(c) \in S /\ Tail(c) \in Seq(S)
      /\ Len(Tail(c)) = Len(c) - 1
      /\ \A i \in 1 .. Len(Tail(c)) : Tail(c)[i] = c[i + 1]
  BY HeadTailProperties
<1>2. DOMAIN c = 1 .. Len(c) /\ Len(c) \in Nat /\ Head(c) = c[1]
  BY LenProperties
<1>3. Len(c) # 0
  BY EmptySeq
<1>4. DOMAIN Tail(c) = 1 .. Len(Tail(c))
  BY <1>1, LenProperties
<1> QED
  BY <1>1, <1>2, <1>3, <1>4

\* A message that raises no flag spoils nothing when it is put last.
LEMMA PoliteAppend ==
    ASSUME NEW S, NEW c \in Seq(S), NEW m \in S, NEW flag, ~Promotes(m), EndsPolite(flag, c)
    PROVE  EndsPolite(flag, Append(c, m))
<1> DEFINE d == Append(c, m)
<1>1. /\ Len(c) \in Nat /\ Len(d) = Len(c) + 1
      /\ \A i \in 1 .. Len(c) : d[i] = c[i]
      /\ d[Len(c) + 1] = m
  BY ChannelAppend
<1> HIDE DEF d
<1>2. ASSUME NEW i \in 0 .. Len(d), IF i = 0 THEN flag ELSE Promotes(d[i])
      PROVE  \E j \in i + 1 .. Len(d) : Demotes(d[j])
  <2>1. i # Len(c) + 1
    BY <1>1, <1>2
  <2>2. i \in 0 .. Len(c) /\ (IF i = 0 THEN flag ELSE Promotes(c[i]))
    BY <1>1, <1>2, <2>1
  <2>3. PICK j \in i + 1 .. Len(c) : Demotes(c[j])
    BY <2>2 DEF EndsPolite
  <2>4. j \in i + 1 .. Len(d) /\ d[j] = c[j]
    BY <1>1, <2>2, <2>3
  <2> QED
    BY <2>3, <2>4
<1> QED
  BY <1>2 DEF EndsPolite, d

\* A message that lowers the flag settles it when it is put last.
LEMMA PoliteLast ==
    ASSUME NEW S, NEW c \in Seq(S), NEW m \in S, NEW flag, Demotes(m)
    PROVE  EndsPolite(flag, Append(c, m))
<1> DEFINE d == Append(c, m)
<1>1. /\ Len(c) \in Nat /\ Len(d) = Len(c) + 1
      /\ d[Len(c) + 1] = m
  BY ChannelAppend
<1>2. ~Promotes(m)
  BY DEF Promotes, Demotes
<1> HIDE DEF d
<1>3. ASSUME NEW i \in 0 .. Len(d), IF i = 0 THEN flag ELSE Promotes(d[i])
      PROVE  \E j \in i + 1 .. Len(d) : Demotes(d[j])
  <2>1. Len(c) + 1 \in i + 1 .. Len(d)
    BY <1>1, <1>2, <1>3
  <2> QED
    BY <1>1, <2>1
<1> QED
  BY <1>3 DEF EndsPolite, d

\* Reading a message changes nothing about how it ends.
LEMMA PoliteRead ==
    ASSUME NEW S, NEW c \in Seq(S), c # <<>>, NEW flag, EndsPolite(flag, c)
    PROVE  EndsPolite(Flag(flag, c[1]), Tail(c))
<1> DEFINE d == Tail(c)
<1>1. /\ Len(c) \in Nat \ {0} /\ Len(d) = Len(c) - 1
      /\ \A i \in 1 .. Len(c) - 1 : d[i] = c[i + 1]
  BY ChannelTail
<1> HIDE DEF d
<1>2. ASSUME NEW k \in 0 .. Len(c), NEW j \in k + 1 .. Len(c), j # 1, Demotes(c[j]),
             NEW i \in 0 .. Len(d), i = 0 \/ i + 1 <= k
      PROVE  \E l \in i + 1 .. Len(d) : Demotes(d[l])
  <2>1. j - 1 \in i + 1 .. Len(d) /\ j - 1 \in 1 .. Len(c) - 1 /\ j - 1 + 1 = j
    BY <1>1, <1>2
  <2>2. d[j - 1] = c[j]
    BY <1>1, <2>1
  <2> QED
    BY <1>2, <2>1, <2>2
<1>3. ASSUME NEW i \in 0 .. Len(d), i # 0, Promotes(d[i])
      PROVE  \E l \in i + 1 .. Len(d) : Demotes(d[l])
  <2>1. i + 1 \in 1 .. Len(c) /\ i + 1 # 0 /\ d[i] = c[i + 1]
    BY <1>1, <1>3
  <2>2. PICK j \in i + 1 + 1 .. Len(c) : Demotes(c[j])
    BY <1>3, <2>1 DEF EndsPolite
  <2>3. j # 1
    BY <2>1, <2>2
  <2> QED
    BY <1>2, <2>1, <2>2, <2>3
<1>4. ASSUME Flag(flag, c[1])
      PROVE  \E l \in 0 + 1 .. Len(d) : Demotes(d[l])
  <2>1. 0 \in 0 .. Len(c) /\ 1 \in 0 .. Len(c) /\ 0 \in 0 .. Len(d)
    BY <1>1
  <2>2. CASE c[1].type = "welcome"
    <3>1. Promotes(c[1])
      BY <1>4, <2>2 DEF Flag, Promotes
    <3>2. PICK j \in 1 + 1 .. Len(c) : Demotes(c[j])
      BY <2>1, <3>1 DEF EndsPolite
    <3>3. j # 1
      BY <3>2
    <3> QED
      BY <1>2, <2>1, <3>2, <3>3
  <2>3. CASE c[1].type # "welcome"
    <3>1. flag /\ ~Demotes(c[1])
      BY <1>4, <2>3 DEF Flag
    <3>2. PICK j \in 0 + 1 .. Len(c) : Demotes(c[j])
      BY <2>1, <3>1 DEF EndsPolite
    <3>3. j # 1
      BY <3>1, <3>2
    <3> QED
      BY <1>2, <2>1, <3>2, <3>3
  <2> QED
    BY <2>2, <2>3
<1> QED
  BY <1>3, <1>4 DEF EndsPolite, d

\* A message that is no departure takes no remote peer away.
LEMMA NamedAppend ==
    ASSUME NEW S, NEW c \in Seq(S), NEW m \in S, NEW peer,
           m.type # "left", EndsNamed(peer, c)
    PROVE  EndsNamed(peer, Append(c, m))
<1> DEFINE d == Append(c, m)
<1>1. /\ Len(c) \in Nat /\ Len(d) = Len(c) + 1
      /\ \A i \in 1 .. Len(c) : d[i] = c[i]
      /\ d[Len(c) + 1] = m
  BY ChannelAppend
<1> HIDE DEF d
<1>2. PICK i \in 0 .. Len(c) :
         /\ IF i = 0 THEN peer # NoPeer ELSE c[i].type = "joined"
         /\ \A j \in i + 1 .. Len(c) : c[j].type # "left"
  BY DEF EndsNamed
<1>3. i \in 0 .. Len(d) /\ (IF i = 0 THEN peer # NoPeer ELSE d[i].type = "joined")
  BY <1>1, <1>2
<1>4. ASSUME NEW j \in i + 1 .. Len(d)
      PROVE  d[j].type # "left"
  <2>1. CASE j = Len(c) + 1
    BY <1>1, <2>1
  <2>2. CASE j # Len(c) + 1
    <3>1. j \in i + 1 .. Len(c) /\ j \in 1 .. Len(c)
      BY <1>1, <1>2, <2>2
    <3> QED
      BY <1>1, <1>2, <3>1
  <2> QED
    BY <2>1, <2>2
<1> QED
  BY <1>3, <1>4 DEF EndsNamed, d

\* An announcement that is put last names a peer.
LEMMA NamedLast ==
    ASSUME NEW S, NEW c \in Seq(S), NEW m \in S, NEW peer, m.type = "joined"
    PROVE  EndsNamed(peer, Append(c, m))
<1> DEFINE d == Append(c, m)
<1>1. /\ Len(c) \in Nat /\ Len(d) = Len(c) + 1
      /\ d[Len(c) + 1] = m
  BY ChannelAppend
<1> HIDE DEF d
<1>2. Len(c) + 1 \in 0 .. Len(d) /\ Len(c) + 1 # 0
      /\ \A j \in Len(c) + 1 + 1 .. Len(d) : d[j].type # "left"
  BY <1>1
<1> QED
  BY <1>1, <1>2 DEF EndsNamed, d

\* Reading a message changes nothing about how it ends: only a departure can
\* make the page forget its remote peer, and an announcement gives it one.
LEMMA NamedRead ==
    ASSUME NEW S, NEW c \in Seq(S), c # <<>>, NEW peer, NEW then, EndsNamed(peer, c),
           c[1].type = "joined" => then # NoPeer,
           c[1].type # "left" /\ peer # NoPeer => then # NoPeer
    PROVE  EndsNamed(then, Tail(c))
<1> DEFINE d == Tail(c)
<1>1. /\ Len(c) \in Nat \ {0} /\ Len(d) = Len(c) - 1
      /\ \A i \in 1 .. Len(c) - 1 : d[i] = c[i + 1]
  BY ChannelTail
<1> HIDE DEF d
<1>2. PICK i \in 0 .. Len(c) :
         /\ IF i = 0 THEN peer # NoPeer ELSE c[i].type = "joined"
         /\ \A j \in i + 1 .. Len(c) : c[j].type # "left"
  BY DEF EndsNamed
<1>3. ASSUME NEW j \in 1 .. Len(d), i <= j
      PROVE  d[j].type # "left"
  <2>1. j \in 1 .. Len(c) - 1 /\ j + 1 \in i + 1 .. Len(c)
    BY <1>1, <1>2, <1>3
  <2> QED
    BY <1>1, <1>2, <2>1
<1>4. CASE i <= 1
  <2>1. then # NoPeer
    <3>1. CASE i = 0
      <4>1. 1 \in i + 1 .. Len(c)
        BY <1>1, <3>1
      <4> QED
        BY <1>2, <3>1, <4>1
    <3>2. CASE i # 0
      BY <1>2, <1>4, <3>2
    <3> QED
      BY <3>1, <3>2
  <2>2. 0 \in 0 .. Len(d) /\ \A j \in 0 + 1 .. Len(d) : d[j].type # "left"
    <3>1. 0 \in 0 .. Len(d)
      BY <1>1
    <3>2. ASSUME NEW j \in 0 + 1 .. Len(d)
          PROVE  d[j].type # "left"
      BY <1>1, <1>3, <1>4
    <3> QED
      BY <3>1, <3>2
  <2> QED
    BY <2>1, <2>2 DEF EndsNamed, d
<1>5. CASE ~(i <= 1)
  <2>1. i - 1 \in 0 .. Len(d) /\ i - 1 # 0 /\ i - 1 \in 1 .. Len(c) - 1 /\ i - 1 + 1 = i
    BY <1>1, <1>2, <1>5
  <2>2. d[i - 1].type = "joined"
    BY <1>1, <1>2, <1>5, <2>1
  <2>3. ASSUME NEW j \in i - 1 + 1 .. Len(d)
        PROVE  d[j].type # "left"
    BY <1>3, <1>5, <2>1
  <2> QED
    BY <2>1, <2>2, <2>3 DEF EndsNamed, d
<1> QED
  BY <1>2, <1>4, <1>5

-------------------------------------------------------------------------------
(* The invariant.                                                          *)

\* The places of a handler whose page is in the call and has not begun to leave.
Talking == Joining \cup {"reading", "forwarding"}

\* Whatever was sent to the page is or was in its channel.
Heard(h) == ~closed[h] /\ ~lost[h]

\* The handler has yet to announce its page to p.
Owes(h, p) ==
    \/ pc[h] \in {"joined", "welcoming", "welcomed"}
    \/ pc[h] = "announcing" /\ p \in snap[h]

PageTypes ==
    /\ remote \in [Conns -> Conns \cup {NoPeer}]
    /\ impolite \in [Conns -> BOOLEAN]

\* A handler sends to peers that are or were in its room.
Snapshots ==
    \A h \in Conns : \A p \in snap[h] :
        /\ pc[h] \in InRoom
        /\ pc[p] \in InRoom \cup {"done"}
        /\ pc[p] \in InRoom => room[p] = room[h]
        /\ pc[h] \in {"welcoming", "announcing", "notifying"} => p # h

\* Nobody sends to a page that is not in a room yet.
Newcomers ==
    \A h \in Conns : pc[h] \in {"idle", "found", "storing"} => send[h] = <<>>

\* A page is impolite only if the server made it so.
FlagsGiven ==
    \A h \in Conns :
        /\ impolite[h] => pc[h] \in InRoom /\ second[h]
        /\ \A i \in DOMAIN send[h] : send[h][i].type = "welcome" =>
              pc[h] \in InRoom /\ (send[h][i].initiator => second[h])

\* Two pages that both joined a room with one peer in it can both be impolite
\* for a while.  One of them has yet to announce itself to the other, or the
\* announcement that ends it is on its way, whichever of them joined first.
OneGivesWay ==
    \A p, q \in Conns :
        /\ p # q /\ room[p] = room[q]
        /\ pc[p] \in Talking /\ pc[q] \in Talking
        /\ second[p] /\ second[q] /\ Heard(p) /\ Heard(q)
        => \/ Owes(p, q) \/ Owes(q, p)
           \/ EndsPolite(impolite[p], send[p]) \/ EndsPolite(impolite[q], send[q])

FlagInv == PageTypes /\ Snapshots /\ Newcomers /\ FlagsGiven /\ OneGivesWay

-------------------------------------------------------------------------------
(* What the steps do to pages and channels.                                *)

\* Nothing the invariant speaks of changes at x, but a channel may be closed
\* and a message may be lost.
Alike(x) ==
    /\ pc'[x] = pc[x] /\ room'[x] = room[x] /\ second'[x] = second[x]
    /\ snap'[x] = snap[x] /\ send'[x] = send[x]
    /\ remote'[x] = remote[x] /\ impolite'[x] = impolite[x]
    /\ closed[x] => closed'[x]
    /\ lost[x] => lost'[x]

Others(h) == \A x \in Conns \ {h} : Alike(x)

Background == peers' = peers /\ \A x \in Conns : Alike(x)

\* Up to the append: the handler looks its room up, waits and may give up.
Approach(h) ==
    /\ pc[h] \in {"idle", "found"} /\ pc'[h] \in {"found", "storing", "done"}
    /\ snap'[h] = snap[h] /\ send'[h] = send[h] /\ impolite'[h] = impolite[h]
    /\ peers' = peers /\ Others(h)

\* The append.
Enters(h) ==
    /\ pc[h] = "storing" /\ pc'[h] = "joined" /\ room'[h] = room[h]
    /\ snap'[h] = snap[h] /\ send'[h] = send[h]
    /\ remote'[h] = remote[h] /\ impolite'[h] = impolite[h]
    /\ peers' = [peers EXCEPT ![room[h]] = Append(@, h)]
    /\ Others(h)

\* What a handler in its room does without sending anything.
Inward(h) ==
    \/ pc[h] = "joined" /\ pc'[h] = "welcoming" /\ snap'[h] = Roommates(h)
    \/ pc[h] = "welcomed" /\ pc'[h] = "announcing" /\ snap'[h] = Roommates(h)
    \/ pc[h] = "leaving" /\ pc'[h] = "notifying" /\ snap'[h] = Roommates(h)
    \/ /\ pc[h] = "reading" /\ pc'[h] = "forwarding"
       /\ \E t \in ToSet(peers[room[h]]) : snap'[h] = {t}
    \/ pc[h] = "announcing" /\ snap[h] = {} /\ pc'[h] = "reading" /\ snap'[h] = {}
    \/ pc[h] = "reading" /\ pc'[h] = "leaving" /\ snap'[h] = snap[h]
    \/ pc[h] = "notifying" /\ pc'[h] = "unwinding" /\ snap'[h] = snap[h]

\* At h everything but its place and its copy stays as it is.
Rest(h) ==
    /\ room'[h] = room[h] /\ second'[h] = second[h]
    /\ remote'[h] = remote[h] /\ impolite'[h] = impolite[h]
    /\ closed'[h] = closed[h]

Moves(h) ==
    /\ Inward(h) /\ Rest(h) /\ send'[h] = send[h] /\ lost'[h] = lost[h]
    /\ peers' = peers /\ Others(h)

\* h pushes the message m to t and goes on at "to" ...
Pushes(h, t, m, to) ==
    \/ /\ pc[h] = "welcoming" /\ t = h /\ m = Welcome(h, snap[h])
       /\ to = "welcomed" /\ snap'[h] = {}
    \/ /\ pc[h] = "announcing" /\ t \in snap[h] /\ m = Joined(h)
       /\ to = "announcing" /\ snap'[h] = snap[h] \ {t}
    \/ /\ pc[h] = "notifying" /\ t \in snap[h] /\ m = Left(h)
       /\ to = "notifying" /\ snap'[h] = snap[h] \ {t}
    \/ /\ pc[h] = "forwarding" /\ t \in snap[h] /\ m = Signal(h)
       /\ to = "reading" /\ snap'[h] = {}

\* ... or panics, or finds the channel full.
Outcome(h, t, m, to) ==
    \/ pc'[h] = "panicked" /\ send' = send /\ lost' = lost
    \/ /\ pc'[h] = to /\ ~closed[t] /\ lost' = lost
       /\ send' = [send EXCEPT ![t] = Append(@, m)]
    \/ pc'[h] = to /\ send' = send /\ lost' = [lost EXCEPT ![t] = TRUE]

Sends(h, t, m, to) ==
    /\ Pushes(h, t, m, to) /\ Outcome(h, t, m, to)
    /\ peers' = peers
    /\ \A x \in Conns :
          /\ room'[x] = room[x] /\ second'[x] = second[x]
          /\ remote'[x] = remote[x] /\ impolite'[x] = impolite[x]
          /\ closed'[x] = closed[x]
          /\ x # h => pc'[x] = pc[x] /\ snap'[x] = snap[x]

\* The handler has returned.
Leaves(h) ==
    /\ pc[h] \in InRoom /\ pc'[h] = "done"
    /\ snap'[h] = {} /\ send'[h] = <<>> /\ ~impolite'[h] /\ closed'[h]
    /\ \E i \in DOMAIN peers[room[h]] :
          peers' = [peers EXCEPT ![room[h]] = RemoveAt(@, i)]
    /\ Others(h)

\* The page reads the next message.
Reads(h) ==
    /\ send[h] # <<>>
    /\ send' = [send EXCEPT ![h] = Tail(@)]
    /\ OnMessage(h, Head(send[h]))
    /\ UNCHANGED <<peers, pc, room, second, snap, closed, lost>>

LEMMA AlikeIf ==
    ASSUME NEW x \in Conns,
           pc'[x] = pc[x], room'[x] = room[x], second'[x] = second[x], snap'[x] = snap[x],
           send'[x] = send[x], remote'[x] = remote[x], impolite'[x] = impolite[x],
           closed[x] => closed'[x], lost[x] => lost'[x]
    PROVE  Alike(x)
BY DEF Alike

LEMMA BackgroundSteps ==
    ASSUME TypeOK, UNCHANGED pageVars,
           \/ \E r \in Rooms : RegistryStep(r)
           \/ \E h \in Conns : ReadBye(h) \/ WriterStops(h) \/ PingTimeout(h) \/ Disconnect(h)
    PROVE  Background
<1> USE DEF registryVars, handlerVars, channelVars, socketVars
<1>1. UNCHANGED <<peers, pc, room, second, snap, send, lost, remote, impolite>>
  BY DEF RegistryStep, Create, Age, Collect, Delete, ReadBye, WriterStops, PingTimeout,
         Disconnect, pageVars
<1>2. ASSUME NEW x \in Conns
      PROVE  closed[x] => closed'[x]
  <2>1. ASSUME NEW r \in Rooms, RegistryStep(r)
        PROVE  closed[x] => closed'[x]
    BY <2>1 DEF RegistryStep, Create, Age, Collect, Delete
  <2>2. ASSUME NEW h \in Conns,
               ReadBye(h) \/ WriterStops(h) \/ PingTimeout(h) \/ Disconnect(h)
        PROVE  closed[x] => closed'[x]
    BY <2>2 DEF ReadBye, WriterStops, PingTimeout, Disconnect
  <2> QED
    BY <2>1, <2>2
<1> QED
  BY <1>1, <1>2 DEF Background, Alike

LEMMA ApproachSteps ==
    ASSUME TypeOK, UNCHANGED pageVars, NEW h \in Conns,
           (\E r \in Rooms : Lookup(h, r)) \/ Quit(h) \/ JoinBegin(h)
    PROVE  Approach(h)
<1> USE DEF registryVars, handlerVars, channelVars
<1>1. /\ UNCHANGED <<peers, second, snap, send, closed, lost, remote, impolite>>
      /\ pc[h] \in {"idle", "found"}
      /\ \E q \in {"found", "storing", "done"} : pc' = [pc EXCEPT ![h] = q]
      /\ \A x \in Conns \ {h} : room'[x] = room[x]
  BY DEF Lookup, Quit, AcceptFails, JoinFull, JoinBegin, pageVars, TypeOK
<1>2. pc'[h] \in {"found", "storing", "done"} /\ \A x \in Conns \ {h} : pc'[x] = pc[x]
  BY <1>1 DEF TypeOK
<1> QED
  BY <1>1, <1>2 DEF Approach, Others, Alike

LEMMA EnterSteps ==
    ASSUME TypeOK, UNCHANGED pageVars, NEW h \in Conns, JoinEnd(h)
    PROVE  Enters(h)
<1>1. /\ pc[h] = "storing" /\ pc' = [pc EXCEPT ![h] = "joined"]
      /\ peers' = [peers EXCEPT ![room[h]] = Append(@, h)]
      /\ \A x \in Conns \ {h} : second'[x] = second[x]
      /\ UNCHANGED <<room, snap, send, closed, lost, remote, impolite>>
  BY DEF JoinEnd, registryVars, channelVars, pageVars, TypeOK
<1>2. pc'[h] = "joined" /\ \A x \in Conns \ {h} : pc'[x] = pc[x]
  BY <1>1 DEF TypeOK
<1> QED
  BY <1>1, <1>2 DEF Enters, Others, Alike

LEMMA MoveSteps ==
    ASSUME TypeOK, UNCHANGED pageVars, NEW h \in Conns,
           \/ CopyForWelcome(h) \/ CopyForAnnounce(h) \/ CopyForLeave(h)
           \/ \E t \in Conns : ReadSignal(h, t)
           \/ StartLoop(h) \/ ReadError(h) \/ Finish(h)
    PROVE  Moves(h)
<1> USE DEF registryVars, handlerVars, channelVars, socketVars
<1>1. UNCHANGED <<peers, room, second, send, closed, lost, remote, impolite>>
  BY DEF CopyForWelcome, CopyForAnnounce, CopyForLeave, ReadSignal, CopyRoster,
         StartLoop, ReadError, Finish, pageVars
<1>2. pc \in [Conns -> Places] /\ snap \in [Conns -> SUBSET Conns]
  BY DEF TypeOK
<1>3. ASSUME NEW from, NEW to, NEW copy, CopyRoster(h, from, to, copy)
      PROVE  /\ pc[h] = from /\ pc'[h] = to /\ snap'[h] = copy
             /\ \A x \in Conns \ {h} : pc'[x] = pc[x] /\ snap'[x] = snap[x]
  BY <1>2, <1>3 DEF CopyRoster
<1>4. CASE CopyForWelcome(h) \/ CopyForAnnounce(h) \/ CopyForLeave(h)
  BY <1>1, <1>3, <1>4 DEF CopyForWelcome, CopyForAnnounce, CopyForLeave,
     Moves, Inward, Rest, Others, Alike
<1>5. ASSUME NEW t \in Conns, ReadSignal(h, t)
      PROVE  Moves(h)
  BY <1>1, <1>3, <1>5 DEF ReadSignal, Moves, Inward, Rest, Others, Alike
<1>6. CASE StartLoop(h) \/ ReadError(h) \/ Finish(h)
  <2>1. snap' = snap /\ \E q : pc' = [pc EXCEPT ![h] = q]
    BY <1>6 DEF StartLoop, ReadError, Finish
  <2>2. \A x \in Conns \ {h} : pc'[x] = pc[x]
    BY <1>2, <2>1
  <2>3. Inward(h)
    BY <1>2, <1>6, <2>1, PlaceNames DEF StartLoop, ReadError, Finish, Inward
  <2> QED
    BY <1>1, <2>1, <2>2, <2>3 DEF Moves, Rest, Others, Alike
<1> QED
  BY <1>4, <1>5, <1>6

LEMMA SendSteps ==
    ASSUME TypeOK, UNCHANGED pageVars, NEW h \in Conns,
           SendWelcome(h) \/ Forward(h) \/ \E p \in Conns : Announce(h, p) \/ Notify(h, p)
    PROVE  \E t \in Conns, m \in Message, to \in InRoom : Sends(h, t, m, to)
<1> USE DEF registryVars, handlerVars, channelVars, socketVars
<1>1. UNCHANGED <<peers, room, second, closed, remote, impolite>>
  BY DEF SendWelcome, Forward, Announce, Notify, SendNext, pageVars
<1>2. pc \in [Conns -> Places] /\ snap \in [Conns -> SUBSET Conns]
  BY DEF TypeOK
<1>3. ASSUME NEW t \in Conns, NEW m \in Message, NEW to \in InRoom, NEW copy,
             TrySend(h, t, m, to), snap' = [snap EXCEPT ![h] = copy],
             Pushes(h, t, m, to)
      PROVE  Sends(h, t, m, to)
  <2>1. Outcome(h, t, m, to)
    BY <1>2, <1>3 DEF TrySend, Outcome
  <2>2. \A x \in Conns \ {h} : pc'[x] = pc[x] /\ snap'[x] = snap[x]
    <3>1. \E q : pc' = [pc EXCEPT ![h] = q]
      BY <1>3 DEF TrySend
    <3> QED
      BY <1>2, <1>3, <3>1
  <2> QED
    BY <1>1, <1>3, <2>1, <2>2 DEF Sends
<1>4. CASE SendWelcome(h)
  <2>1. TrySend(h, h, Welcome(h, snap[h]), "welcomed") /\ snap' = [snap EXCEPT ![h] = {}]
        /\ pc[h] = "welcoming"
    BY <1>4 DEF SendWelcome
  <2>2. snap'[h] = {}
    BY <1>2, <2>1
  <2>3. Welcome(h, snap[h]) \in Message /\ "welcomed" \in InRoom
    BY <1>2, MessageTypes, PlaceNames
  <2>4. Pushes(h, h, Welcome(h, snap[h]), "welcomed")
    BY <2>1, <2>2 DEF Pushes
  <2> QED
    BY <1>3, <2>1, <2>3, <2>4
<1>5. CASE Forward(h)
  <2>1. PICK t \in snap[h] : TrySend(h, t, Signal(h), "reading")
    BY <1>5 DEF Forward
  <2>2. snap' = [snap EXCEPT ![h] = {}] /\ pc[h] = "forwarding"
    BY <1>5 DEF Forward
  <2>3. snap'[h] = {} /\ t \in Conns
    BY <1>2, <2>2
  <2>4. Signal(h) \in Message /\ "reading" \in InRoom
    BY MessageTypes, PlaceNames
  <2>5. Pushes(h, t, Signal(h), "reading")
    BY <2>2, <2>3 DEF Pushes
  <2> QED
    BY <1>3, <2>1, <2>2, <2>3, <2>4, <2>5
<1>6. ASSUME NEW p \in Conns, Announce(h, p)
      PROVE  \E t \in Conns, m \in Message, to \in InRoom : Sends(h, t, m, to)
  <2>1. /\ pc[h] = "announcing" /\ p \in snap[h]
        /\ snap' = [snap EXCEPT ![h] = snap[h] \ {p}] /\ TrySend(h, p, Joined(h), pc[h])
    BY <1>6 DEF Announce, SendNext
  <2>2. snap'[h] = snap[h] \ {p}
    BY <1>2, <2>1
  <2>3. Joined(h) \in Message /\ pc[h] \in InRoom
    BY <2>1, MessageTypes, PlaceNames
  <2>4. Pushes(h, p, Joined(h), pc[h])
    BY <2>1, <2>2 DEF Pushes
  <2> QED
    BY <1>3, <2>1, <2>3, <2>4
<1>7. ASSUME NEW p \in Conns, Notify(h, p)
      PROVE  \E t \in Conns, m \in Message, to \in InRoom : Sends(h, t, m, to)
  <2>1. /\ pc[h] = "notifying" /\ p \in snap[h]
        /\ snap' = [snap EXCEPT ![h] = snap[h] \ {p}] /\ TrySend(h, p, Left(h), pc[h])
    BY <1>7 DEF Notify, SendNext
  <2>2. snap'[h] = snap[h] \ {p}
    BY <1>2, <2>1
  <2>3. Left(h) \in Message /\ pc[h] \in InRoom
    BY <2>1, MessageTypes, PlaceNames
  <2>4. Pushes(h, p, Left(h), pc[h])
    BY <2>1, <2>2 DEF Pushes
  <2> QED
    BY <1>3, <2>1, <2>3, <2>4
<1> QED
  BY <1>4, <1>5, <1>6, <1>7

LEMMA LeaveSteps ==
    ASSUME TypeOK, PageTypes, NEW h \in Conns, PageEnds(h)
    PROVE  Leaves(h)
<1>1. /\ pc[h] \in InRoom /\ pc' = [pc EXCEPT ![h] = "done"]
      /\ \E i \in DOMAIN peers[room[h]] :
            peers' = [peers EXCEPT ![room[h]] = RemoveAt(@, i)]
      /\ closed' = [closed EXCEPT ![h] = TRUE]
      /\ send' = [send EXCEPT ![h] = <<>>]
      /\ snap' = [snap EXCEPT ![h] = {}]
      /\ room' = [room EXCEPT ![h] = NoRoom]
      /\ second' = [second EXCEPT ![h] = FALSE]
      /\ lost' = [lost EXCEPT ![h] = FALSE]
      /\ remote' = [remote EXCEPT ![h] = NoPeer]
      /\ impolite' = [impolite EXCEPT ![h] = FALSE]
  BY PlaceNames DEF PageEnds, RemovePeer, Unwinding
<1>2. pc'[h] = "done" /\ snap'[h] = {} /\ send'[h] = <<>> /\ ~impolite'[h] /\ closed'[h]
  BY <1>1 DEF TypeOK, PageTypes
<1>3. ASSUME NEW x \in Conns, x # h
      PROVE  Alike(x)
  BY <1>1, <1>3 DEF TypeOK, PageTypes, Alike
<1> QED
  BY <1>1, <1>2, <1>3 DEF Leaves, Others

\* Every step of the system is of one of these kinds.
LEMMA CallKinds ==
    ASSUME TypeOK, PageTypes, [CallNext]_callVars
    PROVE  \/ Background
           \/ \E h \in Conns :
                 \/ Approach(h) \/ Enters(h) \/ Moves(h) \/ Leaves(h) \/ Reads(h)
                 \/ \E t \in Conns, m \in Message, to \in InRoom : Sends(h, t, m, to)
<1>1. CASE UNCHANGED callVars
  BY <1>1 DEF callVars, Background, Alike
<1>2. ASSUME NEW h \in Conns, Receive(h)
      PROVE  Reads(h)
  BY <1>2 DEF Receive, Deliver, Reads, registryVars, handlerVars
<1>3. ASSUME NEW h \in Conns, PageEnds(h)
      PROVE  Leaves(h)
  BY <1>3, LeaveSteps
<1>4. ASSUME ServerStep, UNCHANGED pageVars
      PROVE  \/ Background
             \/ \E h \in Conns :
                   \/ Approach(h) \/ Enters(h) \/ Moves(h)
                   \/ \E t \in Conns, m \in Message, to \in InRoom : Sends(h, t, m, to)
  <2>1. ASSUME NEW r \in Rooms, RegistryStep(r)
        PROVE  Background
    BY <1>4, <2>1, BackgroundSteps
  <2>2. ASSUME NEW h \in Conns, ClientStep(h) \/ WriterStops(h) \/ PingTimeout(h)
        PROVE  Background \/ Approach(h) \/ Moves(h)
    BY <1>4, <2>2, BackgroundSteps, ApproachSteps, MoveSteps DEF ClientStep
  <2>3. ASSUME NEW h \in Conns, HandlerRuns(h)
        PROVE  \/ Approach(h) \/ Enters(h) \/ Moves(h)
               \/ \E t \in Conns, m \in Message, to \in InRoom : Sends(h, t, m, to)
    <3>1. CASE AcceptFails(h) \/ JoinFull(h) \/ JoinBegin(h)
      BY <1>4, <3>1, ApproachSteps DEF Quit
    <3>2. CASE JoinEnd(h)
      BY <1>4, <3>2, EnterSteps
    <3>3. CASE CopyForWelcome(h) \/ CopyForAnnounce(h) \/ CopyForLeave(h)
               \/ StartLoop(h) \/ ReadError(h) \/ Finish(h)
      BY <1>4, <3>3, MoveSteps
    <3>4. CASE SendWelcome(h) \/ Forward(h) \/ \E p \in Conns : Announce(h, p) \/ Notify(h, p)
      BY <1>4, <3>4, SendSteps
    <3> QED
      BY <2>3, <3>1, <3>2, <3>3, <3>4 DEF HandlerRuns
  <2> QED
    BY <1>4, <2>1, <2>2, <2>3 DEF ServerStep
<1> QED
  BY <1>1, <1>2, <1>3, <1>4 DEF CallNext

-------------------------------------------------------------------------------
(* The invariant is kept, part by part.                                    *)

LEMMA InRoomNames ==
    /\ {"idle", "found", "storing", "done"} \cap InRoom = {}
    /\ Talking \subseteq InRoom
    /\ {"joined", "welcoming", "welcomed", "announcing", "reading", "forwarding"} = Talking
    /\ {"leaving", "notifying", "unwinding", "panicked", "done", "found", "storing"}
         \cap Talking = {}
BY DEF Talking, InRoom, Joining

\* The peers of a handler's room, without the handler.
LEMMA RoommatesAre ==
    ASSUME IInv, NEW h \in Conns, pc[h] \in InRoom
    PROVE  Roommates(h) = {p \in Conns : pc[p] \in InRoom /\ room[p] = room[h] /\ p # h}
<1>1. room[h] \in Rooms
  BY RunningHasRoom DEF IInv
<1>2. ToSet(peers[room[h]]) = {p \in Conns : pc[p] \in InRoom /\ room[p] = room[h]}
  BY <1>1 DEF IInv, RosterMatchesHandlers
<1> QED
  BY <1>2 DEF Roommates

\* What one send does to the channels and to the sender's place and copy.
LEMMA SendFacts ==
    ASSUME TypeOK, NEW h \in Conns, NEW t \in Conns, NEW m \in Message, NEW to \in InRoom,
           Sends(h, t, m, to)
    PROVE  /\ pc[h] \in InRoom /\ pc'[h] \in {to, "panicked"} /\ pc'[h] \in InRoom
           /\ snap'[h] \subseteq snap[h]
           /\ t \in snap[h] \/ (t = h /\ pc[h] = "welcoming")
           /\ \A x \in Conns :
                 \/ send'[x] = send[x]
                 \/ x = t /\ send'[x] = Append(send[t], m)
           /\ \A x \in Conns : lost[x] => lost'[x]
           /\ \A x \in Conns : ~(x = t /\ send'[x] = Append(send[t], m)) => send'[x] = send[x]
           /\ \/ pc'[h] = "panicked" \/ lost'[t]
              \/ send'[t] = Append(send[t], m)
<1>1. pc[h] \in InRoom /\ snap'[h] \subseteq snap[h]
      /\ (t \in snap[h] \/ (t = h /\ pc[h] = "welcoming"))
  BY PlaceNames DEF Sends, Pushes
<1>2. send \in [Conns -> Seq(Message)] /\ lost \in [Conns -> BOOLEAN]
  BY DEF TypeOK
<1>3. pc'[h] \in {to, "panicked"} /\ pc'[h] \in InRoom
  BY PlaceNames DEF Sends, Outcome
<1>4. \/ pc'[h] = "panicked" /\ send' = send /\ lost' = lost
      \/ send' = [send EXCEPT ![t] = Append(@, m)] /\ lost' = lost
      \/ send' = send /\ lost' = [lost EXCEPT ![t] = TRUE]
  BY DEF Sends, Outcome
<1> QED
  BY <1>1, <1>2, <1>3, <1>4

LEMMA SnapshotsKept ==
    ASSUME IInv, Snapshots, NEW h \in Conns,
           \/ Background \/ Approach(h) \/ Enters(h) \/ Moves(h) \/ Leaves(h) \/ Reads(h)
           \/ \E t \in Conns, m \in Message, to \in InRoom : Sends(h, t, m, to)
    PROVE  Snapshots'
<1> DEFINE Good(x, p) ==
             /\ pc'[x] \in InRoom
             /\ pc'[p] \in InRoom \cup {"done"}
             /\ pc'[p] \in InRoom => room'[p] = room'[x]
             /\ pc'[x] \in {"welcoming", "announcing", "notifying"} => p # x
<1>0. /\ \A x \in Conns : \A p \in snap[x] :
            /\ p \in Conns /\ pc[x] \in InRoom
            /\ pc[p] \in InRoom \cup {"done"}
            /\ pc[p] \in InRoom => room[p] = room[x]
            /\ pc[x] \in {"welcoming", "announcing", "notifying"} => p # x
      /\ (\A x \in Conns : \A p \in snap'[x] : Good(x, p)) => Snapshots'
  BY DEF Snapshots, IInv, TypeOK
<1>1. CASE Background
  <2>1. \A x \in Conns : /\ snap'[x] = snap[x] /\ pc'[x] = pc[x] /\ room'[x] = room[x]
    BY <1>1 DEF Background, Alike
  <2>2. ASSUME NEW x \in Conns, NEW p \in snap'[x]
        PROVE  Good(x, p)
    BY <1>0, <2>1, <2>2
  <2> QED
    BY <1>0, <2>2
<1>2. CASE Approach(h)
  <2>1. \A x \in Conns : snap'[x] = snap[x]
    BY <1>2 DEF Approach, Others, Alike
  <2>2. \A x \in Conns : \A p \in snap[x] : x # h /\ p # h
    BY <1>2, InRoomNames DEF Approach, Snapshots
  <2> QED
    BY <1>2, <2>1, <2>2 DEF Approach, Others, Alike, Snapshots, IInv, TypeOK
<1>3. CASE Enters(h)
  <2>1. \A x \in Conns : snap'[x] = snap[x]
    BY <1>3 DEF Enters, Others, Alike
  <2>2. \A x \in Conns : \A p \in snap[x] : x # h /\ p # h
    BY <1>3, InRoomNames DEF Enters, Snapshots
  <2> QED
    BY <1>3, <2>1, <2>2 DEF Enters, Others, Alike, Snapshots, IInv, TypeOK
<1>4. CASE Moves(h)
  <2>1. /\ pc[h] \in InRoom /\ pc'[h] \in InRoom
        /\ \A x \in Conns : room'[x] = room[x]
        /\ \A x \in Conns \ {h} : pc'[x] = pc[x] /\ snap'[x] = snap[x]
    BY <1>4, PlaceNames DEF Moves, Inward, Rest, Others, Alike
  <2>2. ASSUME NEW p \in snap'[h]
        PROVE  /\ p \in Conns
               /\ pc[p] \in InRoom \cup {"done"}
               /\ pc[p] \in InRoom => room[p] = room[h]
               /\ pc'[h] \in {"welcoming", "announcing", "notifying"} => p # h
    <3>1. CASE p \in Roommates(h) /\ snap'[h] = Roommates(h)
      BY <2>1, <3>1, RoommatesAre
    <3>2. CASE \E t \in ToSet(peers[room[h]]) : snap'[h] = {t} /\ pc'[h] = "forwarding"
      <4>1. room[h] \in Rooms
        BY <2>1, RunningHasRoom DEF IInv
      <4>2. p \in Conns /\ pc[p] \in InRoom /\ room[p] = room[h]
        BY <2>2, <3>2, <4>1 DEF IInv, RosterMatchesHandlers
      <4> QED
        BY <3>2, <4>2
    <3>3. CASE snap'[h] = snap[h] /\ pc'[h] \in {"leaving", "unwinding"}
      BY <2>2, <3>3 DEF Snapshots, IInv, TypeOK
    <3>4. snap'[h] # {}
      BY <2>2
    <3> QED
      BY <1>4, <2>2, <3>1, <3>2, <3>3, <3>4 DEF Moves, Inward
  <2>3. ASSUME NEW x \in Conns, NEW p \in snap'[x]
        PROVE  Good(x, p)
    <3>1. CASE x = h
      BY <2>1, <2>2, <2>3, <3>1
    <3>2. CASE x # h
      <4>1. p \in snap[x] /\ pc'[x] = pc[x]
        BY <2>1, <2>3, <3>2
      <4> QED
        BY <1>0, <2>1, <4>1
    <3> QED
      BY <3>1, <3>2
  <2> QED
    BY <1>0, <2>3
<1>5. CASE Leaves(h)
  <2>1. \A x \in Conns : snap'[x] # {} => x # h
    BY <1>5 DEF Leaves
  <2>2. pc'[h] = "done" /\ pc'[h] \notin InRoom
    BY <1>5, InRoomNames DEF Leaves
  <2>3. \A x \in Conns \ {h} : /\ snap'[x] = snap[x] /\ pc'[x] = pc[x]
                               /\ room'[x] = room[x]
    BY <1>5 DEF Leaves, Others, Alike
  <2>4. ASSUME NEW x \in Conns, NEW p \in snap'[x]
        PROVE  Good(x, p)
    <3>1. x # h /\ p \in snap[x] /\ p \in Conns
      BY <1>0, <2>1, <2>3, <2>4
    <3>2. CASE p = h
      BY <1>0, <2>2, <2>3, <3>1, <3>2
    <3>3. CASE p # h
      BY <1>0, <2>3, <3>1, <3>3
    <3> QED
      BY <3>2, <3>3
  <2> QED
    BY <1>0, <2>4
<1>6. CASE Reads(h)
  BY <1>6 DEF Reads, Snapshots
<1>7. ASSUME NEW t \in Conns, NEW m \in Message, NEW to \in InRoom, Sends(h, t, m, to)
      PROVE  Snapshots'
  <2>1. /\ pc[h] \in InRoom /\ pc'[h] \in InRoom /\ snap'[h] \subseteq snap[h]
    BY <1>7, SendFacts DEF IInv
  <2>2. pc'[h] \in {"welcoming", "announcing", "notifying"} => pc'[h] = pc[h]
    BY <1>7 DEF Sends, Pushes, Outcome
  <2>3. \A x \in Conns : /\ room'[x] = room[x]
                         /\ x # h => pc'[x] = pc[x] /\ snap'[x] = snap[x]
    BY <1>7 DEF Sends
  <2>4. ASSUME NEW x \in Conns, NEW p \in snap'[x]
        PROVE  Good(x, p)
    <3>1. p \in snap[x] /\ p \in Conns
      BY <1>0, <2>1, <2>3, <2>4
    <3>2. pc'[p] \in InRoom \cup {"done"} /\ (pc'[p] \in InRoom => pc[p] \in InRoom)
      BY <1>0, <2>1, <2>3, <3>1
    <3> QED
      BY <1>0, <2>1, <2>2, <2>3, <3>1, <3>2
  <2> QED
    BY <1>0, <2>4
<1> QED
  BY <1>1, <1>2, <1>3, <1>4, <1>5, <1>6, <1>7

LEMMA NewcomersKept ==
    ASSUME IInv, Snapshots, Newcomers, NEW h \in Conns,
           \/ Background \/ Approach(h) \/ Enters(h) \/ Moves(h) \/ Leaves(h) \/ Reads(h)
           \/ \E t \in Conns, m \in Message, to \in InRoom : Sends(h, t, m, to)
    PROVE  Newcomers'
<1>1. CASE Background
  BY <1>1 DEF Background, Alike, Newcomers
<1>2. CASE Approach(h)
  BY <1>2 DEF Approach, Others, Alike, Newcomers
<1>3. CASE Enters(h)
  BY <1>3 DEF Enters, Others, Alike, Newcomers
<1>4. CASE Moves(h)
  <2>1. pc'[h] \in InRoom /\ \A x \in Conns \ {h} : pc'[x] = pc[x] /\ send'[x] = send[x]
    BY <1>4, PlaceNames DEF Moves, Inward, Others, Alike
  <2>2. pc'[h] \notin {"idle", "found", "storing"}
    BY <2>1, InRoomNames
  <2> QED
    BY <2>1, <2>2 DEF Newcomers
<1>5. CASE Leaves(h)
  BY <1>5 DEF Leaves, Others, Alike, Newcomers
<1>6. CASE Reads(h)
  <2>1. pc[h] \notin {"idle", "found", "storing"}
    BY <1>6 DEF Reads, Newcomers
  <2>2. \A x \in Conns \ {h} : send'[x] = send[x]
    BY <1>6 DEF Reads, IInv, TypeOK
  <2> QED
    BY <1>6, <2>1, <2>2 DEF Reads, Newcomers
<1>7. ASSUME NEW t \in Conns, NEW m \in Message, NEW to \in InRoom, Sends(h, t, m, to)
      PROVE  Newcomers'
  <2>1. /\ pc[h] \in InRoom /\ pc'[h] \in InRoom
        /\ t \in snap[h] \/ t = h
        /\ \A x \in Conns : x = t \/ send'[x] = send[x]
    BY <1>7, SendFacts DEF IInv
  <2>2. pc[t] \in InRoom \cup {"done"}
    BY <2>1 DEF Snapshots
  <2>3. {"idle", "found", "storing"} \cap (InRoom \cup {"done"}) = {}
    BY InRoomNames
  <2> QED
    BY <1>7, <2>1, <2>2, <2>3 DEF Sends, Newcomers
<1> QED
  BY <1>1, <1>2, <1>3, <1>4, <1>5, <1>6, <1>7

\* What reading a message does to the page.
LEMMA ReadFacts ==
    ASSUME TypeOK, PageTypes, NEW h \in Conns, Reads(h)
    PROVE  /\ send[h] \in Seq(Message) /\ send[h] # <<>> /\ send[h][1] \in Message
           /\ send'[h] = Tail(send[h])
           /\ impolite'[h] = Flag(impolite[h], send[h][1])
           /\ \/ send[h][1].type \in {"welcome", "joined"} /\ remote'[h] \in send[h][1].who
              \/ /\ send[h][1].type = "welcome" /\ send[h][1].who = {}
                 /\ remote'[h] = remote[h]
              \/ send[h][1].type = "left" /\ remote'[h] \in {remote[h], NoPeer}
              \/ send[h][1].type = "signal" /\ remote'[h] = remote[h]
           /\ \A x \in Conns \ {h} : Alike(x)
<1> DEFINE m == send[h][1]
<1>1. send[h] \in Seq(Message) /\ send[h] # <<>>
  BY DEF TypeOK, Reads
<1>2. Head(send[h]) = m /\ m \in Message
  BY <1>1, ChannelTail
<1>3. OnMessage(h, m) /\ send' = [send EXCEPT ![h] = Tail(send[h])]
  BY <1>2 DEF Reads
<1> HIDE DEF m
<1>4. send'[h] = Tail(send[h]) /\ \A x \in Conns \ {h} : send'[x] = send[x]
  BY <1>3 DEF TypeOK
<1>5. /\ impolite'[h] = Flag(impolite[h], m)
      /\ \A x \in Conns \ {h} : impolite'[x] = impolite[x]
  <2>1. CASE m.type = "welcome"
    BY <1>3, <2>1 DEF OnMessage, OnWelcome, Flag, PageTypes
  <2>2. CASE m.type = "joined"
    <3>1. impolite' = [impolite EXCEPT ![h] = impolite[h] /\ ~m.initiator]
      BY <1>3, <2>2 DEF OnMessage, OnJoined
    <3>2. Flag(impolite[h], m) = (impolite[h] /\ ~m.initiator)
      BY <2>2 DEF Flag, Demotes
    <3> QED
      BY <3>1, <3>2 DEF PageTypes
  <2>3. CASE m.type \in {"left", "signal"}
    <3>1. impolite' = impolite
      BY <1>3, <2>3 DEF OnMessage, OnLeft, pageVars
    <3>2. Flag(impolite[h], m) = impolite[h]
      BY <2>3 DEF Flag, Demotes, PageTypes
    <3> QED
      BY <3>1, <3>2
  <2> QED
    BY <1>3, <2>1, <2>2, <2>3 DEF OnMessage
<1>6. /\ \/ m.type \in {"welcome", "joined"} /\ remote'[h] \in m.who
         \/ m.type = "welcome" /\ m.who = {} /\ remote'[h] = remote[h]
         \/ m.type = "left" /\ remote'[h] \in {remote[h], NoPeer}
         \/ m.type = "signal" /\ remote'[h] = remote[h]
      /\ \A x \in Conns \ {h} : remote'[x] = remote[x]
  <2>1. ASSUME m.type \in {"welcome", "joined"}, NEW p \in m.who, remote' = [remote EXCEPT ![h] = p]
        PROVE  /\ m.type \in {"welcome", "joined"} /\ remote'[h] \in m.who
               /\ \A x \in Conns \ {h} : remote'[x] = remote[x]
    BY <2>1 DEF PageTypes
  <2>2. ASSUME m.type = "left",
               remote' = [remote EXCEPT ![h] = IF @ \in m.who THEN NoPeer ELSE @]
        PROVE  /\ m.type = "left" /\ remote'[h] \in {remote[h], NoPeer}
               /\ \A x \in Conns \ {h} : remote'[x] = remote[x]
    BY <2>2 DEF PageTypes
  <2>3. \/ m.type \in {"welcome", "joined"} /\ \E p \in m.who : remote' = [remote EXCEPT ![h] = p]
        \/ m.type = "welcome" /\ m.who = {} /\ remote' = remote
        \/ m.type = "left" /\ remote' = [remote EXCEPT ![h] = IF @ \in m.who THEN NoPeer ELSE @]
        \/ m.type = "signal" /\ remote' = remote
    BY <1>3 DEF OnMessage, OnWelcome, OnJoined, OnLeft, pageVars
  <2> QED
    BY <2>1, <2>2, <2>3
<1>7. UNCHANGED <<pc, room, second, snap, closed, lost>>
  BY DEF Reads
<1> QED
  BY <1>1, <1>2, <1>4, <1>5, <1>6, <1>7 DEF Alike, m

LEMMA PageTypesKept ==
    ASSUME IInv, PageTypes, [CallNext]_callVars
    PROVE  PageTypes'
<1>1. ASSUME NEW h \in Conns, Receive(h)
      PROVE  PageTypes'
  <2>1. send[h] # <<>> /\ send[h] \in Seq(Message)
    BY <1>1 DEF Receive, Deliver, IInv, TypeOK
  <2>2. Head(send[h]) \in Message
    BY <2>1, HeadTailProperties
  <2> DEFINE m == Head(send[h])
  <2>3. m.who \in SUBSET Conns /\ m.initiator \in BOOLEAN
    BY <2>2 DEF Message
  <2>4. OnMessage(h, m)
    BY <1>1 DEF Receive
  <2> HIDE DEF m
  <2>5. CASE OnWelcome(h, m)
    BY <2>3, <2>5 DEF OnWelcome, PageTypes
  <2>6. CASE OnJoined(h, m)
    BY <2>3, <2>6 DEF OnJoined, PageTypes
  <2>7. CASE OnLeft(h, m)
    BY <2>7 DEF OnLeft, PageTypes
  <2>8. CASE UNCHANGED pageVars
    BY <2>8 DEF pageVars, PageTypes
  <2> QED
    BY <2>4, <2>5, <2>6, <2>7, <2>8 DEF OnMessage
<1>2. ASSUME NEW h \in Conns, PageEnds(h)
      PROVE  PageTypes'
  BY <1>2 DEF PageEnds, PageTypes
<1>3. CASE UNCHANGED pageVars
  BY <1>3 DEF pageVars, PageTypes
<1>4. CASE UNCHANGED callVars
  BY <1>4 DEF callVars, PageTypes
<1> QED
  BY <1>1, <1>2, <1>3, <1>4 DEF CallNext

LEMMA FlagsKept ==
    ASSUME IInv, FlagInv, NEW h \in Conns,
           \/ Background \/ Approach(h) \/ Enters(h) \/ Moves(h) \/ Leaves(h) \/ Reads(h)
           \/ \E t \in Conns, m \in Message, to \in InRoom : Sends(h, t, m, to)
    PROVE  FlagsGiven'
<1> DEFINE Good(x) ==
             /\ impolite'[x] => pc'[x] \in InRoom /\ second'[x]
             /\ \A i \in DOMAIN send'[x] : send'[x][i].type = "welcome" =>
                   pc'[x] \in InRoom /\ (send'[x][i].initiator => second'[x])
<1>1. (\A x \in Conns : Good(x)) => FlagsGiven'
  BY DEF FlagsGiven
<1>2. \A x \in Conns :
         /\ impolite[x] => pc[x] \in InRoom /\ second[x]
         /\ \A i \in DOMAIN send[x] : send[x][i].type = "welcome" =>
               pc[x] \in InRoom /\ (send[x][i].initiator => second[x])
  BY DEF FlagInv, FlagsGiven
<1>3. ASSUME NEW x \in Conns,
             impolite'[x] = impolite[x], send'[x] = send[x],
             pc[x] \in InRoom => pc'[x] \in InRoom /\ second'[x] = second[x]
      PROVE  Good(x)
  BY <1>2, <1>3
<1>4. ASSUME NEW x \in Conns, Alike(x)
      PROVE  Good(x)
  BY <1>3, <1>4 DEF Alike
<1> HIDE DEF Good
<1>5. CASE Background
  BY <1>1, <1>4, <1>5 DEF Background
<1>6. CASE Approach(h)
  BY <1>1, <1>3, <1>4, <1>6, InRoomNames DEF Approach, Others
<1>7. CASE Enters(h)
  BY <1>1, <1>3, <1>4, <1>7, InRoomNames DEF Enters, Others
<1>8. CASE Moves(h)
  BY <1>1, <1>3, <1>4, <1>8, PlaceNames DEF Moves, Inward, Rest, Others
<1>9. CASE Leaves(h)
  <2>1. ~impolite'[h] /\ send'[h] = <<>>
    BY <1>9 DEF Leaves
  <2>2. Good(h)
    BY <2>1 DEF Good
  <2> QED
    BY <1>1, <1>4, <1>9, <2>2 DEF Leaves, Others
<1>10. CASE Reads(h)
  <2> DEFINE c == send[h]
             d == send'[h]
  <2>1. /\ c \in Seq(Message) /\ c # <<>>
        /\ d = Tail(c) /\ impolite'[h] = Flag(impolite[h], c[1])
        /\ \A x \in Conns \ {h} : Alike(x)
    BY <1>10, ReadFacts DEF IInv, FlagInv
  <2>2. /\ Len(c) \in Nat \ {0} /\ DOMAIN c = 1 .. Len(c) /\ DOMAIN d = 1 .. Len(c) - 1
        /\ \A i \in 1 .. Len(c) - 1 : d[i] = c[i + 1]
    BY <2>1, ChannelTail
  <2>3. pc'[h] = pc[h] /\ second'[h] = second[h]
    BY <1>10 DEF Reads
  <2>4. /\ impolite[h] => pc[h] \in InRoom /\ second[h]
        /\ \A i \in DOMAIN c : c[i].type = "welcome" =>
              pc[h] \in InRoom /\ (c[i].initiator => second[h])
    BY <1>2
  <2> HIDE DEF c, d
  <2>5. impolite'[h] => pc'[h] \in InRoom /\ second'[h]
    <3>1. 1 \in DOMAIN c
      BY <2>2
    <3> QED
      BY <2>1, <2>3, <2>4, <3>1 DEF Flag
  <2>6. ASSUME NEW i \in DOMAIN d, d[i].type = "welcome"
        PROVE  pc'[h] \in InRoom /\ (d[i].initiator => second'[h])
    <3>1. i + 1 \in DOMAIN c /\ d[i] = c[i + 1]
      BY <2>2
    <3> QED
      BY <2>3, <2>4, <2>6, <3>1
  <2>7. Good(h)
    BY <2>5, <2>6 DEF Good, d
  <2> QED
    BY <1>1, <1>4, <2>1, <2>7
<1>11. ASSUME NEW t \in Conns, NEW m \in Message, NEW to \in InRoom, Sends(h, t, m, to)
       PROVE  FlagsGiven'
  <2>1. /\ pc[h] \in InRoom /\ pc'[h] \in InRoom
        /\ \A x \in Conns : ~(x = t /\ send'[x] = Append(send[t], m)) => send'[x] = send[x]
    BY <1>11, SendFacts DEF IInv
  <2>2. \A x \in Conns : /\ impolite'[x] = impolite[x] /\ second'[x] = second[x]
                         /\ pc[x] \in InRoom => pc'[x] \in InRoom
    BY <1>11, <2>1 DEF Sends
  <2>3. m.type = "welcome" => t = h /\ (m.initiator => second[h])
    BY <1>11 DEF Sends, Pushes, Welcome, Joined, Left, Signal
  <2>4. ASSUME send'[t] = Append(send[t], m)
        PROVE  Good(t)
    <3> DEFINE c == send[t]
               d == send'[t]
    <3>1. c \in Seq(Message)
      BY DEF IInv, TypeOK
    <3>2. /\ Len(c) \in Nat /\ DOMAIN c = 1 .. Len(c) /\ DOMAIN d = 1 .. Len(c) + 1
          /\ \A i \in 1 .. Len(c) : d[i] = c[i]
          /\ d[Len(c) + 1] = m
      BY <2>4, <3>1, ChannelAppend
    <3>3. /\ impolite[t] => pc[t] \in InRoom /\ second[t]
          /\ \A i \in DOMAIN c : c[i].type = "welcome" =>
                pc[t] \in InRoom /\ (c[i].initiator => second[t])
      BY <1>2
    <3> HIDE DEF c, d
    <3>4. ASSUME NEW i \in DOMAIN d, d[i].type = "welcome"
          PROVE  pc'[t] \in InRoom /\ (d[i].initiator => second'[t])
      <4>1. CASE i = Len(c) + 1
        BY <2>1, <2>2, <2>3, <3>2, <3>4, <4>1
      <4>2. CASE i # Len(c) + 1
        <5>1. i \in DOMAIN c /\ d[i] = c[i]
          BY <3>2, <4>2
        <5> QED
          BY <2>2, <3>3, <3>4, <5>1
      <4> QED
        BY <4>1, <4>2
    <3> QED
      BY <2>2, <3>3, <3>4 DEF Good, d
  <2> QED
    BY <1>1, <1>3, <2>1, <2>2, <2>4
<1> QED
  BY <1>5, <1>6, <1>7, <1>8, <1>9, <1>10, <1>11

\* A handler that enters or copies the peer list owes everyone in the room an
\* announcement; one that announces itself puts it last in the channel.
LEMMA OneGivesWayKept ==
    ASSUME IInv, IInv', FlagInv, NEW h \in Conns,
           \/ Background \/ Approach(h) \/ Enters(h) \/ Moves(h) \/ Leaves(h) \/ Reads(h)
           \/ \E t \in Conns, m \in Message, to \in InRoom : Sends(h, t, m, to)
    PROVE  OneGivesWay'
<1> DEFINE Ends(x) == EndsPolite(impolite[x], send[x])
           EndsNow(x) == EndsPolite(impolite'[x], send'[x])
           OwesNow(x, y) ==
             \/ pc'[x] \in {"joined", "welcoming", "welcomed"}
             \/ pc'[x] = "announcing" /\ y \in snap'[x]
           Both(x, y) ==
             /\ x \in Conns /\ y \in Conns /\ x # y /\ room'[x] = room'[y]
             /\ pc'[x] \in Talking /\ pc'[y] \in Talking
             /\ second'[x] /\ second'[y]
             /\ ~closed'[x] /\ ~lost'[x] /\ ~closed'[y] /\ ~lost'[y]
           Goal(x, y) == OwesNow(x, y) \/ OwesNow(y, x) \/ EndsNow(x) \/ EndsNow(y)
<1>1. (\A x, y \in Conns : Both(x, y) => Goal(x, y)) => OneGivesWay'
  BY DEF OneGivesWay, Heard, Owes
<1>2. \A x, y \in Conns :
         /\ x # y /\ room[x] = room[y] /\ pc[x] \in Talking /\ pc[y] \in Talking
         /\ second[x] /\ second[y] /\ ~closed[x] /\ ~lost[x] /\ ~closed[y] /\ ~lost[y]
         => Owes(x, y) \/ Owes(y, x) \/ Ends(x) \/ Ends(y)
  BY DEF FlagInv, OneGivesWay, Heard
<1>3. \A x \in Conns : send[x] \in Seq(Message)
  BY DEF IInv, TypeOK
\* It is enough that at x and y nothing is taken back.
<1>4. ASSUME NEW x \in Conns, NEW y \in Conns, Both(x, y),
             room'[x] = room[x], room'[y] = room[y],
             pc[x] \in Talking, pc[y] \in Talking,
             second'[x] = second[x], second'[y] = second[y],
             closed[x] => closed'[x], closed[y] => closed'[y],
             lost[x] => lost'[x], lost[y] => lost'[y],
             Owes(x, y) => Goal(x, y), Owes(y, x) => Goal(x, y),
             Ends(x) => Goal(x, y), Ends(y) => Goal(x, y)
      PROVE  Goal(x, y)
  BY <1>2, <1>4
<1>5. ASSUME NEW x \in Conns, NEW y \in Conns, Alike(x)
      PROVE  /\ room'[x] = room[x] /\ second'[x] = second[x]
             /\ pc'[x] = pc[x] /\ snap'[x] = snap[x]
             /\ closed[x] => closed'[x]
             /\ lost[x] => lost'[x]
             /\ Owes(x, y) => OwesNow(x, y)
             /\ Ends(x) => EndsNow(x)
  BY <1>5 DEF Alike, Owes
<1> HIDE DEF Ends, EndsNow
<1>6. ASSUME NEW x \in Conns, NEW y \in Conns, Alike(x), Alike(y), Both(x, y)
      PROVE  Goal(x, y)
  <2>1. /\ Owes(x, y) => Goal(x, y)
        /\ Owes(y, x) => Goal(x, y)
        /\ Ends(x) => Goal(x, y)
        /\ Ends(y) => Goal(x, y)
    BY <1>5, <1>6
  <2>2. pc[x] \in Talking /\ pc[y] \in Talking
    BY <1>5, <1>6
  <2> HIDE DEF Goal
  <2> QED
    BY <1>4, <1>5, <1>6, <2>1, <2>2
<1>7. CASE Background
  BY <1>1, <1>6, <1>7 DEF Background
<1>8. CASE Approach(h) \/ Leaves(h)
  <2>1. pc'[h] \notin Talking /\ \A x \in Conns \ {h} : Alike(x)
    BY <1>8, InRoomNames DEF Approach, Leaves, Others
  <2> QED
    BY <1>1, <1>6, <2>1
<1>9. CASE Enters(h)
  <2>1. (\A y : OwesNow(h, y)) /\ \A x \in Conns \ {h} : Alike(x)
    BY <1>9 DEF Enters, Others
  <2> QED
    BY <1>1, <1>6, <2>1
\* It is enough to look at h and one other page.
<1>10. ASSUME \A y \in Conns : Both(h, y) => Goal(h, y),
              \A x \in Conns \ {h} : Alike(x)
       PROVE  OneGivesWay'
  <2>1. ASSUME NEW x \in Conns, NEW y \in Conns, Both(x, y)
        PROVE  Goal(x, y)
    <3>1. CASE x = h
      BY <1>10, <2>1, <3>1
    <3>2. CASE y = h
      <4>1. Both(h, x)
        BY <2>1, <3>2
      <4>2. Goal(h, x)
        BY <1>10, <4>1
      <4> QED
        BY <3>2, <4>2
    <3>3. CASE x # h /\ y # h
      BY <1>6, <1>10, <2>1, <3>3
    <3> QED
      BY <3>1, <3>2, <3>3
  <2> QED
    BY <1>1, <2>1
<1>11. CASE Moves(h)
  <2>1. ASSUME NEW y \in Conns, Both(h, y)
        PROVE  Goal(h, y)
    <3>1. /\ y # h /\ Alike(y) /\ room[y] = room[h] /\ pc[y] \in InRoom
      BY <1>11, <2>1, InRoomNames DEF Moves, Rest, Others, Alike
    <3>2. pc[h] \in InRoom => y \in Roommates(h)
      BY <3>1, RoommatesAre
    <3>3. \/ OwesNow(h, y)
          \/ pc[h] = "reading" /\ pc'[h] = "forwarding"
          \/ pc[h] = "announcing" /\ snap[h] = {} /\ pc'[h] = "reading"
      BY <1>11, <2>1, <3>2, InRoomNames, PlaceNames DEF Moves, Inward
    <3>4. CASE ~OwesNow(h, y)
      <4>1. pc[h] \in Talking /\ ~Owes(h, y)
        BY <3>3, <3>4, InRoomNames DEF Owes
      <4>2. Ends(h) => EndsNow(h)
        BY <1>11 DEF Moves, Rest, Ends, EndsNow
      <4>3. /\ Owes(h, y) => Goal(h, y)
            /\ Owes(y, h) => Goal(h, y)
            /\ Ends(h) => Goal(h, y)
            /\ Ends(y) => Goal(h, y)
        BY <1>5, <3>1, <4>1, <4>2
      <4>4. /\ room'[h] = room[h] /\ second'[h] = second[h]
            /\ closed'[h] = closed[h] /\ lost'[h] = lost[h]
        BY <1>11 DEF Moves, Rest
      <4>5. pc[y] \in Talking
        BY <1>5, <2>1, <3>1
      <4> HIDE DEF Goal
      <4> QED
        BY <1>4, <1>5, <2>1, <3>1, <4>1, <4>3, <4>4, <4>5
    <3> QED
      BY <3>4
  <2> QED
    BY <1>10, <1>11, <2>1 DEF Moves, Others
<1>12. CASE Reads(h)
  <2>1. /\ send[h] \in Seq(Message) /\ send[h] # <<>> /\ send'[h] = Tail(send[h])
        /\ impolite'[h] = Flag(impolite[h], send[h][1])
        /\ \A x \in Conns \ {h} : Alike(x)
    BY <1>12, ReadFacts DEF IInv, FlagInv
  <2>2. Ends(h) => EndsNow(h)
    BY <2>1, PoliteRead DEF Ends, EndsNow
  <2>3. /\ pc'[h] = pc[h] /\ room'[h] = room[h] /\ second'[h] = second[h]
        /\ snap'[h] = snap[h] /\ closed'[h] = closed[h] /\ lost'[h] = lost[h]
    BY <1>12 DEF Reads
  <2>4. ASSUME NEW y \in Conns, Both(h, y)
        PROVE  Goal(h, y)
    <3>1. y # h /\ Alike(y)
      BY <2>1, <2>4
    <3>2. /\ Owes(h, y) => Goal(h, y)
          /\ Owes(y, h) => Goal(h, y)
          /\ Ends(h) => Goal(h, y)
          /\ Ends(y) => Goal(h, y)
      BY <1>5, <2>2, <2>3, <3>1 DEF Owes
    <3>3. pc[h] \in Talking /\ pc[y] \in Talking
      BY <1>5, <2>3, <2>4, <3>1
    <3> HIDE DEF Goal
    <3> QED
      BY <1>4, <1>5, <2>3, <2>4, <3>1, <3>2, <3>3
  <2> QED
    BY <1>10, <2>1, <2>4
<1>13. ASSUME NEW t \in Conns, NEW m \in Message, NEW to \in InRoom, Sends(h, t, m, to)
       PROVE  OneGivesWay'
  <2>1. /\ pc[h] \in InRoom /\ pc'[h] \in {to, "panicked"}
        /\ \A x \in Conns : lost[x] => lost'[x]
        /\ \A x \in Conns : ~(x = t /\ send'[x] = Append(send[t], m)) => send'[x] = send[x]
        /\ \/ pc'[h] = "panicked" \/ lost'[t]
           \/ send'[t] = Append(send[t], m)
    BY <1>13, SendFacts DEF IInv
  <2>2. \A x \in Conns :
           /\ room'[x] = room[x] /\ second'[x] = second[x]
           /\ impolite'[x] = impolite[x] /\ closed'[x] = closed[x]
           /\ x # h => pc'[x] = pc[x] /\ snap'[x] = snap[x]
    BY <1>13 DEF Sends
  <2>3. Pushes(h, t, m, to)
    BY <1>13 DEF Sends
  <2>4. ASSUME NEW x \in Conns, ~Promotes(m)
        PROVE  Ends(x) => EndsNow(x)
    <3>1. CASE send'[x] = send[x]
      BY <2>2, <3>1 DEF Ends, EndsNow
    <3>2. CASE x = t /\ send'[x] = Append(send[t], m)
      BY <1>3, <2>2, <2>4, <3>2, PoliteAppend DEF Ends, EndsNow
    <3> QED
      BY <2>1, <3>1, <3>2
  <2>5. ASSUME NEW x \in Conns, x # t
        PROVE  Ends(x) => EndsNow(x)
    BY <2>1, <2>2, <2>5 DEF Ends, EndsNow
  <2>6. ASSUME NEW x \in Conns, pc'[x] \in Talking
        PROVE  pc[x] \in Talking
    <3>1. CASE x = h
      BY <2>1, <2>3, <2>6, <3>1, InRoomNames DEF Pushes
    <3>2. CASE x # h
      BY <2>2, <2>6, <3>2
    <3> QED
      BY <3>1, <3>2
  <2>7. ASSUME NEW x \in Conns, NEW y \in Conns, Both(x, y), Owes(x, y)
        PROVE  Goal(x, y)
    <3>1. CASE x # h
      BY <2>2, <2>7, <3>1 DEF Owes
    <3>2. CASE x = h /\ pc[h] = "welcoming"
      <4>1. pc'[h] = "welcomed"
        BY <2>1, <2>3, <2>7, <3>2, InRoomNames DEF Pushes
      <4> QED
        BY <3>2, <4>1
    <3>3. CASE x = h /\ pc[h] = "announcing" /\ y \in snap[h]
      <4>1. pc'[h] = "announcing" /\ m = Joined(h) /\ snap'[h] = snap[h] \ {t}
        BY <2>1, <2>3, <2>7, <3>3, InRoomNames DEF Pushes
      <4>2. CASE y # t
        BY <3>3, <4>1, <4>2
      <4>3. CASE y = t
        <5>1. send'[t] = Append(send[t], m)
          BY <2>1, <2>7, <4>1, <4>3
        <5>2. Demotes(m)
          <6>1. second[h]
            BY <2>2, <2>7, <3>3
          <6> QED
            BY <4>1, <6>1 DEF Joined, Demotes
        <5>3. EndsNow(y)
          BY <1>3, <4>3, <5>1, <5>2, PoliteLast DEF EndsNow
        <5> QED
          BY <5>3
      <4> QED
        BY <4>2, <4>3
    <3> QED
      BY <2>3, <2>7, <3>1, <3>2, <3>3 DEF Owes, Pushes
  <2>8. ASSUME NEW x \in Conns, NEW y \in Conns, Both(x, y), Ends(x)
        PROVE  Goal(x, y)
    <3>1. CASE x = t /\ Promotes(m)
      <4>1. t = h /\ pc'[h] = "welcomed"
        BY <2>1, <2>3, <2>8, <3>1, InRoomNames DEF Pushes, Promotes, Joined, Left, Signal
      <4> QED
        BY <3>1, <4>1
    <3>2. CASE ~(x = t /\ Promotes(m))
      BY <2>4, <2>5, <2>8, <3>2
    <3> QED
      BY <3>1, <3>2
  <2>9. ASSUME NEW x \in Conns, NEW y \in Conns, Both(x, y)
        PROVE  Goal(x, y)
    <3>1. Both(y, x) /\ (Goal(y, x) => Goal(x, y))
      BY <2>9
    <3>2. pc[x] \in Talking /\ pc[y] \in Talking
      BY <2>6, <2>9
    <3> HIDE DEF Goal, Both
    <3>3. /\ Owes(x, y) => Goal(x, y)
          /\ Owes(y, x) => Goal(x, y)
          /\ Ends(x) => Goal(x, y)
          /\ Ends(y) => Goal(x, y)
      BY <2>7, <2>8, <2>9, <3>1
    <3> QED
      BY <1>4, <2>1, <2>2, <2>9, <3>2, <3>3
  <2> QED
    BY <1>1, <2>9
<1> QED
  BY <1>7, <1>8, <1>9, <1>11, <1>12, <1>13

LEMMA InitFlagInv == CallInit => FlagInv
<1> SUFFICES ASSUME CallInit PROVE FlagInv
  OBVIOUS
<1>1. PageTypes
  BY DEF CallInit, PageTypes
<1>2. Snapshots /\ Newcomers
  BY DEF CallInit, Init, Snapshots, Newcomers
<1>3. FlagsGiven
  BY DEF CallInit, Init, FlagsGiven
<1>4. OneGivesWay
  BY InRoomNames DEF CallInit, Init, OneGivesWay
<1> QED
  BY <1>1, <1>2, <1>3, <1>4 DEF FlagInv

\* The pages change nothing in what the server does.
LEMMA ServerSteps == [CallNext]_callVars => [Next]_vars
BY DEF CallNext, Receive, PageEnds, ServerStep, Next, HandlerStep, WriterStep, callVars, vars

LEMMA NextFlagInv == IInv /\ IInv' /\ FlagInv /\ [CallNext]_callVars => FlagInv'
<1> SUFFICES ASSUME IInv, IInv', FlagInv, [CallNext]_callVars PROVE FlagInv'
  OBVIOUS
<1>1. PageTypes'
  BY PageTypesKept DEF FlagInv
<1>2. \/ Background
      \/ \E h \in Conns :
            \/ Approach(h) \/ Enters(h) \/ Moves(h) \/ Leaves(h) \/ Reads(h)
            \/ \E t \in Conns, m \in Message, to \in InRoom : Sends(h, t, m, to)
  BY CallKinds DEF FlagInv, IInv
<1>3. ASSUME Background
      PROVE  Snapshots' /\ Newcomers' /\ FlagsGiven' /\ OneGivesWay'
  <2>1. CASE Conns = {}
    BY <2>1 DEF Snapshots, Newcomers, FlagsGiven, OneGivesWay
  <2>2. CASE Conns # {}
    BY <1>3, <2>2, SnapshotsKept, NewcomersKept, FlagsKept, OneGivesWayKept DEF FlagInv
  <2> QED
    BY <2>1, <2>2
<1>4. ASSUME ~Background
      PROVE  Snapshots' /\ Newcomers' /\ FlagsGiven' /\ OneGivesWay'
  <2>1. PICK h \in Conns :
           \/ Approach(h) \/ Enters(h) \/ Moves(h) \/ Leaves(h) \/ Reads(h)
           \/ \E t \in Conns, m \in Message, to \in InRoom : Sends(h, t, m, to)
    BY <1>2, <1>4
  <2> QED
    BY <2>1, SnapshotsKept, NewcomersKept, FlagsKept, OneGivesWayKept DEF FlagInv
<1> QED
  BY <1>1, <1>3, <1>4 DEF FlagInv

\* The server's invariant holds with the pages, too.
LEMMA CallServer == CallSpec => []IInv
<1>1. CallInit => IInv
  BY InitIInv DEF CallInit
<1>2. IInv /\ [CallNext]_callVars => IInv'
  BY NextIInv, ServerSteps
<1> QED
  BY <1>1, <1>2, PTL DEF CallSpec

THEOREM FlagInvHolds == CallSpec => []FlagInv
BY CallServer, InitFlagInv, NextFlagInv, PTL DEF CallSpec

\* Of two pages that sit in a call with nothing under way, one is polite.
THEOREM OffersAreNotIgnoredByBoth == CallSpec => []NotBothImpolite
<1>1. IInv /\ FlagInv => NotBothImpolite
  <2> SUFFICES ASSUME IInv, FlagInv, NEW r \in Rooms, Settled(r),
                      NEW p \in Occupants(r), NEW q \in Occupants(r), p # q,
                      impolite[p], impolite[q]
               PROVE  FALSE
    BY DEF NotBothImpolite
  <2>1. /\ p \in Conns /\ q \in Conns /\ room[p] = room[q]
        /\ pc[p] = "reading" /\ pc[q] = "reading"
        /\ send[p] = <<>> /\ send[q] = <<>> /\ Heard(p) /\ Heard(q)
    BY DEF Settled, Occupants, Heard
  <2>2. second[p] /\ second[q]
    BY <2>1 DEF FlagInv, FlagsGiven
  <2>3. ~Owes(p, q) /\ ~Owes(q, p) /\ "reading" \in Talking
    BY <2>1, InRoomNames DEF Owes
  <2>4. EndsPolite(impolite[p], send[p]) \/ EndsPolite(impolite[q], send[q])
    BY <2>1, <2>2, <2>3 DEF FlagInv, OneGivesWay
  <2>5. ASSUME NEW x \in {p, q}
        PROVE  ~EndsPolite(impolite[x], send[x])
    <3>1. send[x] = <<>> /\ impolite[x] /\ Len(<<>>) = 0
      BY <2>1
    <3>2. 0 \in 0 .. 0 /\ 0 + 1 .. 0 = {}
      OBVIOUS
    <3> QED
      BY <3>1, <3>2 DEF EndsPolite
  <2> QED
    BY <2>4, <2>5
<1> QED
  BY <1>1, CallServer, FlagInvHolds, PTL

-------------------------------------------------------------------------------
(* Who names whom, when a room holds two: p came first and q came last.    *)

Listed(r, p, q) == Len(peers[r]) = 2 /\ peers[r][1] = p /\ peers[r][2] = q

\* The message names no peer but p, and does not take p away.
Mentions(m, p) == m.type # "left" /\ (m.type \in {"welcome", "joined"} => m.who = {p})

\* The latecomer is welcomed with the name of the first ...
Copied(p, q) == pc[p] \in Talking /\ pc[q] = "welcoming" => snap[q] = {p}

\* ... it is told of nobody else ...
ToldOf(p, q) == pc[p] \in Talking => \A i \in DOMAIN send[q] : Mentions(send[q][i], p)

\* ... and names it from the welcome on.
LastNames(p, q) ==
    pc[p] \in Talking /\ pc[q] \in Talking \ {"joined", "welcoming"} /\ Heard(q) =>
        remote[q] = p \/ \E i \in DOMAIN send[q] : send[q][i].type = "welcome"

\* The first gets a remote peer from the latecomer's announcement, if it has
\* none, and keeps one.
FirstNames(p, q) ==
    pc[q] \in Talking /\ ~Owes(q, p) /\ Heard(p) => EndsNamed(remote[p], send[p])

NamesAgree(p, q) == Copied(p, q) /\ ToldOf(p, q) /\ LastNames(p, q) /\ FirstNames(p, q)

PairsNamed ==
    \A r \in Rooms : \A p, q \in Conns : Listed(r, p, q) => NamesAgree(p, q)

LEMMA ListedAre ==
    ASSUME IInv, NEW r \in Rooms, NEW p \in Conns, NEW q \in Conns, Listed(r, p, q)
    PROVE  /\ p # q /\ room[p] = r /\ room[q] = r
           /\ pc[p] \in InRoom /\ pc[q] \in InRoom
           /\ \A x \in Conns : pc[x] \in InRoom /\ room[x] = r => x \in {p, q}
<1> DEFINE s == peers[r]
<1>1. s \in Seq(Conns) /\ IsInjective(s) /\ Len(s) = 2 /\ s[1] = p /\ s[2] = q
  BY DEF IInv, TypeOK, PlacesRespected, Listed
<1>2. ToSet(s) = {x \in Conns : pc[x] \in InRoom /\ room[x] = r}
  BY DEF IInv, RosterMatchesHandlers
<1> HIDE DEF s
<1>3. DOMAIN s = 1 .. 2
  BY <1>1, LenProperties
<1>4. ToSet(s) = {p, q}
  BY <1>1, <1>3 DEF ToSet
<1>5. p # q
  BY <1>1, <1>3 DEF IsInjective
<1> QED
  BY <1>2, <1>4, <1>5

LEMMA NamesStill ==
    ASSUME NEW p \in Conns, NEW q \in Conns, Alike(p), Alike(q), NamesAgree(p, q)
    PROVE  NamesAgree(p, q)'
BY DEF Alike, NamesAgree, Copied, ToldOf, LastNames, FirstNames, Heard, Owes

LEMMA NamesMove ==
    ASSUME IInv, NEW r \in Rooms, NEW p \in Conns, NEW q \in Conns, Listed(r, p, q),
           NamesAgree(p, q), NEW h \in Conns, Moves(h)
    PROVE  NamesAgree(p, q)'
<1>1. /\ p # q /\ room[p] = r /\ room[q] = r
      /\ pc[p] \in InRoom /\ pc[q] \in InRoom
      /\ \A x \in Conns : pc[x] \in InRoom /\ room[x] = r => x \in {p, q}
  BY ListedAre
<1>2. /\ Inward(h) /\ Rest(h) /\ send'[h] = send[h] /\ lost'[h] = lost[h]
      /\ \A x \in Conns \ {h} : Alike(x)
  BY DEF Moves, Others
<1>3. CASE h \notin {p, q}
  BY <1>2, <1>3, NamesStill
<1>4. CASE h = p
  <2>1. pc'[p] \in Talking => pc[p] \in Talking
    BY <1>2, <1>4, InRoomNames DEF Inward
  <2>2. Alike(q) /\ remote'[p] = remote[p] /\ closed'[p] = closed[p]
    BY <1>1, <1>2, <1>4 DEF Rest
  <2> QED
    BY <1>2, <1>4, <2>1, <2>2
       DEF Alike, NamesAgree, Copied, ToldOf, LastNames, FirstNames, Heard, Owes
<1>5. CASE h = q
  <2>1. Alike(p) /\ remote'[q] = remote[q] /\ closed'[q] = closed[q]
    BY <1>1, <1>2, <1>5 DEF Rest
  <2>2. Roommates(q) = {p}
    BY <1>1, RoommatesAre
  <2>3. Copied(p, q)'
    <3>1. pc'[q] = "welcoming" => snap'[q] = {p}
      BY <1>2, <1>5, <2>2 DEF Inward
    <3> QED
      BY <3>1 DEF Copied
  <2>4. ToldOf(p, q)'
    BY <1>2, <1>5, <2>1 DEF Alike, NamesAgree, ToldOf
  <2>5. pc'[q] \in Talking \ {"joined", "welcoming"} => pc[q] \in Talking \ {"joined", "welcoming"}
    BY <1>2, <1>5, InRoomNames DEF Inward
  <2>6. LastNames(p, q)'
    BY <1>2, <1>5, <2>1, <2>5 DEF Alike, NamesAgree, LastNames, Heard
  <2>7. pc'[q] \in Talking /\ ~Owes(q, p)' => pc[q] \in Talking /\ ~Owes(q, p)
    BY <1>2, <1>5, <2>2, InRoomNames DEF Inward, Owes
  <2>8. FirstNames(p, q)'
    BY <2>1, <2>7 DEF Alike, NamesAgree, FirstNames, Heard
  <2> QED
    BY <2>3, <2>4, <2>6, <2>8 DEF NamesAgree
<1> QED
  BY <1>3, <1>4, <1>5

LEMMA NamesRead ==
    ASSUME IInv, FlagInv, NEW r \in Rooms, NEW p \in Conns, NEW q \in Conns,
           Listed(r, p, q), NamesAgree(p, q), NEW h \in Conns, Reads(h)
    PROVE  NamesAgree(p, q)'
<1>1. p # q
  BY ListedAre
<1> DEFINE c == send[h]
           d == send'[h]
<1>2. /\ c \in Seq(Message) /\ c # <<>> /\ c[1] \in Message
      /\ d = Tail(c)
      /\ \/ c[1].type \in {"welcome", "joined"} /\ remote'[h] \in c[1].who
         \/ c[1].type = "welcome" /\ c[1].who = {} /\ remote'[h] = remote[h]
         \/ c[1].type = "left" /\ remote'[h] \in {remote[h], NoPeer}
         \/ c[1].type = "signal" /\ remote'[h] = remote[h]
      /\ \A x \in Conns \ {h} : Alike(x)
  BY ReadFacts DEF IInv, FlagInv
<1>3. /\ Len(c) \in Nat \ {0} /\ DOMAIN c = 1 .. Len(c) /\ DOMAIN d = 1 .. Len(c) - 1
      /\ \A i \in 1 .. Len(c) - 1 : d[i] = c[i + 1]
  BY <1>2, ChannelTail
<1>4. UNCHANGED <<pc, room, second, snap, closed, lost>>
  BY DEF Reads
<1> HIDE DEF c, d
<1>5. CASE h \notin {p, q}
  BY <1>2, <1>5, NamesStill
<1>6. CASE h = p
  <2>1. Alike(q)
    BY <1>1, <1>2, <1>6
  <2>2. FirstNames(p, q)'
    <3>1. c[1].who \in SUBSET Conns
      BY <1>2 DEF Message
    <3>2. c[1].type = "joined" => remote'[p] # NoPeer
      BY <1>2, <1>6, <3>1, NoPeerAssumption
    <3>3. c[1].type # "left" /\ remote[p] # NoPeer => remote'[p] # NoPeer
      BY <1>2, <1>6, <3>1, NoPeerAssumption
    <3>4. EndsNamed(remote[p], c) => EndsNamed(remote'[p], d)
      BY <1>2, <3>2, <3>3, NamedRead
    <3> QED
      BY <1>4, <1>6, <3>4 DEF NamesAgree, FirstNames, Heard, Owes, c, d
  <2>3. Copied(p, q)' /\ ToldOf(p, q)' /\ LastNames(p, q)'
    BY <1>4, <2>1 DEF Alike, NamesAgree, Copied, ToldOf, LastNames, Heard
  <2> QED
    BY <2>2, <2>3 DEF NamesAgree
<1>7. CASE h = q
  <2>1. Alike(p)
    BY <1>1, <1>2, <1>7
  <2>2. Copied(p, q)' /\ FirstNames(p, q)'
    BY <1>4, <2>1 DEF Alike, NamesAgree, Copied, FirstNames, Heard, Owes
  <2>3. pc[p] \in Talking => \A i \in DOMAIN c : Mentions(c[i], p)
    BY <1>7 DEF NamesAgree, ToldOf, c
  <2>4. ToldOf(p, q)'
    <3>1. ASSUME pc[p] \in Talking, NEW i \in DOMAIN d
          PROVE  Mentions(d[i], p)
      <4>1. i + 1 \in DOMAIN c /\ d[i] = c[i + 1]
        BY <1>3
      <4> QED
        BY <2>3, <3>1, <4>1
    <3> QED
      BY <1>4, <1>7, <3>1 DEF ToldOf, d
  <2>5. LastNames(p, q)'
    <3> SUFFICES ASSUME pc[p] \in Talking, pc[q] \in Talking \ {"joined", "welcoming"}, Heard(q)
                 PROVE  remote'[q] = p \/ \E i \in DOMAIN d : d[i].type = "welcome"
      BY <1>4, <1>7 DEF LastNames, Heard, d
    <3>1. Mentions(c[1], p)
      <4>1. 1 \in DOMAIN c
        BY <1>3
      <4> QED
        BY <2>3, <4>1
    <3>2. remote[q] = p \/ \E i \in DOMAIN c : c[i].type = "welcome"
      BY <1>7 DEF NamesAgree, LastNames, c
    <3>3. CASE c[1].type \in {"welcome", "joined"}
      BY <1>2, <1>7, <3>1, <3>3 DEF Mentions
    <3>4. CASE c[1].type \notin {"welcome", "joined"}
      <4>1. remote'[q] = remote[q]
        BY <1>2, <1>7, <3>1, <3>4 DEF Mentions
      <4>2. ASSUME NEW i \in DOMAIN c, c[i].type = "welcome"
            PROVE  \E j \in DOMAIN d : d[j].type = "welcome"
        <5>1. i # 1
          BY <3>4, <4>2
        <5>2. i - 1 \in DOMAIN d /\ i - 1 \in 1 .. Len(c) - 1 /\ i - 1 + 1 = i
          BY <1>3, <5>1
        <5>3. d[i - 1] = c[i]
          BY <1>3, <5>2
        <5> QED
          BY <4>2, <5>2, <5>3
      <4> QED
        BY <3>2, <4>1, <4>2
    <3> QED
      BY <3>3, <3>4
  <2> QED
    BY <2>2, <2>4, <2>5 DEF NamesAgree
<1> QED
  BY <1>5, <1>6, <1>7

LEMMA NamesSend ==
    ASSUME IInv, FlagInv, NEW r \in Rooms, NEW p \in Conns, NEW q \in Conns,
           Listed(r, p, q), NamesAgree(p, q), NEW h \in Conns, NEW t \in Conns,
           NEW m \in Message, NEW to \in InRoom, Sends(h, t, m, to)
    PROVE  NamesAgree(p, q)'
<1>1. /\ p # q /\ room[p] = r /\ room[q] = r
      /\ pc[p] \in InRoom /\ pc[q] \in InRoom
      /\ \A x \in Conns : pc[x] \in InRoom /\ room[x] = r => x \in {p, q}
  BY ListedAre
<1>2. /\ pc[h] \in InRoom /\ pc'[h] \in {to, "panicked"}
      /\ t \in snap[h] \/ (t = h /\ pc[h] = "welcoming")
      /\ \A x \in Conns : lost[x] => lost'[x]
      /\ \A x \in Conns : ~(x = t /\ send'[x] = Append(send[t], m)) => send'[x] = send[x]
      /\ \/ pc'[h] = "panicked" \/ lost'[t]
         \/ send'[t] = Append(send[t], m)
  BY SendFacts DEF IInv
<1>3. \A x \in Conns :
         /\ remote'[x] = remote[x] /\ closed'[x] = closed[x]
         /\ x # h => pc'[x] = pc[x] /\ snap'[x] = snap[x]
  BY DEF Sends
<1>4. Pushes(h, t, m, to)
  BY DEF Sends
<1>5. send[t] \in Seq(Message)
  BY DEF IInv, TypeOK
<1>6. ASSUME NEW x \in Conns, pc'[x] \in Talking
      PROVE  pc[x] \in Talking
  <2>1. CASE x = h
    BY <1>2, <1>4, <1>6, <2>1, InRoomNames DEF Pushes
  <2>2. CASE x # h
    BY <1>3, <1>6, <2>2
  <2> QED
    BY <2>1, <2>2
\* Only the two send to each other, or to themselves.
<1>7. t \in {p, q} => h \in {p, q}
  <2>1. CASE t = h
    BY <2>1
  <2>2. CASE t # h
    <3>1. t \in snap[h]
      BY <1>2, <2>2
    <3>2. pc[t] \in InRoom => room[t] = room[h]
      BY <3>1 DEF FlagInv, Snapshots
    <3> QED
      BY <1>1, <1>2, <3>2
  <2> QED
    BY <2>1, <2>2
<1>8. pc[h] \in {"announcing", "notifying"} => t # h
  BY <1>2 DEF FlagInv, Snapshots
\* A farewell to one of them comes from the other.
<1>9. ASSUME t \in {p, q}, m.type = "left", NEW x \in {p, q}, x # t
      PROVE  pc'[x] \notin Talking
  <2>1. pc[h] = "notifying" /\ to = "notifying"
    BY <1>4, <1>9 DEF Pushes, Welcome, Joined, Signal
  <2>2. h = x
    BY <1>7, <1>8, <1>9, <2>1
  <2> QED
    BY <1>2, <2>1, <2>2, InRoomNames
<1>10. ASSUME t = q, pc'[p] \in Talking
       PROVE  Mentions(m, p)
  <2>1. CASE pc[h] = "welcoming"
    <3>1. h = q /\ m = Welcome(q, snap[q])
      BY <1>4, <1>10, <2>1 DEF Pushes
    <3>2. pc[p] \in Talking
      BY <1>6, <1>10
    <3>3. snap[q] = {p}
      BY <2>1, <3>1, <3>2 DEF NamesAgree, Copied
    <3> QED
      BY <3>1, <3>3 DEF Welcome, Mentions
  <2>2. CASE pc[h] = "announcing"
    <3>1. h = p /\ m = Joined(p)
      BY <1>4, <1>7, <1>8, <1>10, <2>2 DEF Pushes
    <3> QED
      BY <3>1 DEF Joined, Mentions
  <2>3. CASE pc[h] = "notifying"
    <3>1. m.type = "left"
      BY <1>4, <2>3 DEF Pushes, Left
    <3> QED
      BY <1>1, <1>9, <1>10, <3>1
  <2>4. CASE pc[h] = "forwarding"
    <3>1. m = Signal(h)
      BY <1>4, <2>4 DEF Pushes
    <3> QED
      BY <3>1 DEF Signal, Mentions
  <2> QED
    BY <1>4, <2>1, <2>2, <2>3, <2>4 DEF Pushes
<1>11. Copied(p, q)'
  <2>1. pc'[q] = "welcoming" => q # h
    BY <1>2, <1>4 DEF Pushes
  <2> QED
    BY <1>3, <1>6, <2>1 DEF NamesAgree, Copied
<1>12. CASE send'[t] = Append(send[t], m)
  <2> DEFINE c == send[t]
             d == send'[t]
  <2>1. /\ Len(c) \in Nat /\ DOMAIN c = 1 .. Len(c) /\ DOMAIN d = 1 .. Len(c) + 1
        /\ \A i \in 1 .. Len(c) : d[i] = c[i]
        /\ d[Len(c) + 1] = m
    BY <1>5, <1>12, ChannelAppend
  <2> HIDE DEF c, d
  <2>2. ToldOf(p, q)'
    <3>1. CASE t = q
      <4>1. ASSUME pc'[p] \in Talking, NEW i \in DOMAIN d
            PROVE  Mentions(d[i], p)
        <5>1. CASE i = Len(c) + 1
          BY <1>10, <2>1, <3>1, <4>1, <5>1
        <5>2. CASE i # Len(c) + 1
          <6>1. i \in DOMAIN c /\ d[i] = c[i]
            BY <2>1, <5>2
          <6> QED
            BY <1>6, <3>1, <4>1, <6>1 DEF NamesAgree, ToldOf, c
        <5> QED
          BY <5>1, <5>2
      <4> QED
        BY <3>1, <4>1 DEF ToldOf, d
    <3>2. CASE t # q
      BY <1>2, <1>6, <3>2 DEF NamesAgree, ToldOf
    <3> QED
      BY <3>1, <3>2
  <2>3. LastNames(p, q)'
    <3> SUFFICES ASSUME pc'[p] \in Talking, pc'[q] \in Talking \ {"joined", "welcoming"}, Heard(q)'
                 PROVE  remote'[q] = p \/ \E i \in DOMAIN send'[q] : send'[q][i].type = "welcome"
      BY DEF LastNames
    <3>1. CASE h = q /\ pc[q] = "welcoming"
      <4>1. t = q /\ m.type = "welcome"
        BY <1>4, <3>1 DEF Pushes, Welcome
      <4>2. Len(c) + 1 \in DOMAIN d
        BY <2>1
      <4> QED
        BY <2>1, <4>1, <4>2 DEF d
    <3>2. CASE ~(h = q /\ pc[q] = "welcoming")
      <4>1. pc[p] \in Talking /\ pc[q] \in Talking \ {"joined", "welcoming"} /\ Heard(q)
        <5>1. pc[q] # "joined"
          BY <1>3, <1>4 DEF Pushes
        <5>2. pc[q] # "welcoming"
          BY <1>3, <3>2
        <5> QED
          BY <1>2, <1>3, <1>6, <5>1, <5>2 DEF Heard
      <4>2. remote[q] = p \/ \E i \in DOMAIN send[q] : send[q][i].type = "welcome"
        BY <4>1 DEF NamesAgree, LastNames
      <4>3. ASSUME NEW i \in DOMAIN send[q], send[q][i].type = "welcome"
            PROVE  \E j \in DOMAIN send'[q] : send'[q][j].type = "welcome"
        <5>1. CASE t = q
          <6>1. i \in DOMAIN d /\ d[i] = c[i]
            BY <2>1, <4>3, <5>1 DEF c
          <6> QED
            BY <4>3, <5>1, <6>1 DEF c, d
        <5>2. CASE t # q
          BY <1>2, <4>3, <5>2
        <5> QED
          BY <5>1, <5>2
      <4> QED
        BY <1>3, <4>2, <4>3
    <3> QED
      BY <3>1, <3>2
  <2>4. FirstNames(p, q)'
    <3> SUFFICES ASSUME pc'[q] \in Talking, ~Owes(q, p)', Heard(p)'
                 PROVE  EndsNamed(remote'[p], send'[p])
      BY DEF FirstNames
    <3>1. CASE Owes(q, p)
      <4>1. h = q /\ t = p /\ m.type = "joined"
        <5>1. q = h
          BY <1>3, <3>1 DEF Owes
        <5>2. pc[h] = "announcing" /\ pc'[h] = "announcing" /\ snap'[h] = snap[h] \ {t}
              /\ m = Joined(h)
          BY <1>2, <1>4, <3>1, <5>1, InRoomNames DEF Owes, Pushes
        <5> QED
          BY <3>1, <5>1, <5>2 DEF Owes, Joined
      <4> QED
        BY <1>5, <1>12, <4>1, NamedLast
    <3>2. CASE ~Owes(q, p)
      <4>1. EndsNamed(remote[p], send[p])
        BY <1>2, <1>3, <1>6, <3>2 DEF NamesAgree, FirstNames, Heard
      <4>2. CASE t = p
        <5>1. m.type # "left"
          BY <1>1, <1>9, <4>2
        <5> QED
          BY <1>3, <1>5, <1>12, <4>1, <4>2, <5>1, NamedAppend
      <4>3. CASE t # p
        BY <1>2, <1>3, <4>1, <4>3
      <4> QED
        BY <4>2, <4>3
    <3> QED
      BY <3>1, <3>2
  <2> QED
    BY <1>11, <2>2, <2>3, <2>4 DEF NamesAgree
<1>13. CASE send'[t] # Append(send[t], m)
  <2>1. \A x \in Conns : send'[x] = send[x]
    BY <1>2, <1>13
  <2>2. ToldOf(p, q)'
    BY <1>6, <2>1 DEF NamesAgree, ToldOf
  <2>3. pc'[h] = "panicked" \/ lost'[t]
    BY <1>2, <1>13
  <2>4. LastNames(p, q)'
    <3> SUFFICES ASSUME pc'[p] \in Talking, pc'[q] \in Talking \ {"joined", "welcoming"}, Heard(q)'
                 PROVE  remote'[q] = p \/ \E i \in DOMAIN send'[q] : send'[q][i].type = "welcome"
      BY DEF LastNames
    <3>1. pc[q] # "welcoming"
      <4>1. CASE h = q /\ pc[q] = "welcoming"
        <5>1. t = q
          BY <1>4, <4>1 DEF Pushes
        <5> QED
          BY <2>3, <4>1, <5>1, InRoomNames DEF Heard
      <4>2. CASE h # q
        BY <1>3, <4>2
      <4> QED
        BY <4>1, <4>2
    <3>2. pc[q] # "joined"
      BY <1>3, <1>4 DEF Pushes
    <3> QED
      BY <1>2, <1>3, <1>6, <2>1, <3>1, <3>2 DEF NamesAgree, LastNames, Heard
  <2>5. FirstNames(p, q)'
    <3> SUFFICES ASSUME pc'[q] \in Talking, ~Owes(q, p)', Heard(p)'
                 PROVE  EndsNamed(remote'[p], send'[p])
      BY DEF FirstNames
    <3>1. ~Owes(q, p)
      <4>1. ASSUME Owes(q, p)
            PROVE  FALSE
        <5>1. q = h
          BY <1>3, <4>1 DEF Owes
        <5>2. pc[h] = "announcing" /\ pc'[h] = "announcing" /\ snap'[h] = snap[h] \ {t}
          BY <1>2, <1>4, <4>1, <5>1, InRoomNames DEF Owes, Pushes
        <5>3. t = p
          BY <4>1, <5>1, <5>2 DEF Owes
        <5> QED
          BY <2>3, <5>2, <5>3 DEF Heard
      <4> QED
        BY <4>1
    <3> QED
      BY <1>2, <1>3, <1>6, <2>1, <3>1 DEF NamesAgree, FirstNames, Heard
  <2> QED
    BY <1>11, <2>2, <2>4, <2>5 DEF NamesAgree
<1> QED
  BY <1>12, <1>13

LEMMA PairsKept ==
    ASSUME MaxPeers = 2, IInv, FlagInv, PairsNamed,
           NEW r \in Rooms, NEW p \in Conns, NEW q \in Conns, Listed(r, p, q)',
           \/ Background
           \/ \E h \in Conns :
                 \/ Approach(h) \/ Enters(h) \/ Moves(h) \/ Leaves(h) \/ Reads(h)
                 \/ \E t \in Conns, m \in Message, to \in InRoom : Sends(h, t, m, to)
    PROVE  NamesAgree(p, q)'
<1>1. /\ peers \in [Rooms -> Seq(Conns)] /\ peers[r] \in Seq(Conns)
      /\ IsInjective(peers[r]) /\ Len(peers[r]) <= 2 /\ Len(peers[r]) \in Nat
  BY LenProperties DEF IInv, TypeOK, PlacesRespected
<1>2. ASSUME peers'[r] = peers[r]
      PROVE  Listed(r, p, q) /\ NamesAgree(p, q)
  BY <1>2 DEF Listed, PairsNamed
<1>3. CASE Background
  BY <1>2, <1>3, NamesStill DEF Background
<1>4. ASSUME NEW h \in Conns, \A x \in Conns \ {h} : Alike(x), peers'[r] = peers[r],
             pc[h] \notin InRoom \/ room[h] # r
      PROVE  NamesAgree(p, q)'
  <2>1. h \notin {p, q}
    BY <1>2, <1>4, ListedAre
  <2> QED
    BY <1>2, <1>4, <2>1, NamesStill
<1>5. ASSUME NEW h \in Conns, Approach(h)
      PROVE  NamesAgree(p, q)'
  BY <1>4, <1>5, InRoomNames DEF Approach, Others
<1>6. ASSUME NEW h \in Conns, Enters(h)
      PROVE  NamesAgree(p, q)'
  <2>1. CASE room[h] # r
    BY <1>1, <1>4, <1>6, <2>1 DEF Enters, Others
  <2>2. CASE room[h] = r
    <3>1. peers'[r] = Append(peers[r], h)
      BY <1>1, <1>6, <2>2 DEF Enters
    <3>2. /\ Len(Append(peers[r], h)) = Len(peers[r]) + 1
          /\ Append(peers[r], h)[Len(peers[r]) + 1] = h
      BY <1>1, ChannelAppend
    <3>3. q = h
      BY <1>1, <3>1, <3>2 DEF Listed
    <3>4. pc'[q] = "joined" /\ send'[q] = <<>>
      BY <1>6, <3>3 DEF Enters, FlagInv, Newcomers
    <3> QED
      BY <3>4 DEF NamesAgree, Copied, ToldOf, LastNames, FirstNames, Owes
  <2> QED
    BY <2>1, <2>2
<1>7. ASSUME NEW h \in Conns, Leaves(h)
      PROVE  NamesAgree(p, q)'
  <2>1. PICK i \in DOMAIN peers[room[h]] : peers' = [peers EXCEPT ![room[h]] = RemoveAt(@, i)]
    BY <1>7 DEF Leaves
  <2>2. CASE room[h] # r
    BY <1>1, <1>4, <1>7, <2>1, <2>2 DEF Leaves, Others
  <2>3. CASE room[h] = r
    <3>1. peers'[r] = RemoveAt(peers[r], i)
      BY <1>1, <2>1, <2>3
    <3>2. Len(RemoveAt(peers[r], i)) = Len(peers[r]) - 1
      BY <1>1, <2>1, <2>3, RemoveFromRoster
    <3>3. Len(peers'[r]) = 2
      BY DEF Listed
    <3>4. Len(peers'[r]) = Len(peers[r]) - 1
      BY <3>1, <3>2
    <3>5. \A n \in Nat : n <= 2 => n - 1 # 2
      OBVIOUS
    <3>6. Len(peers[r]) \in Nat /\ Len(peers[r]) <= 2
      BY <1>1
    <3> QED
      BY <3>3, <3>4, <3>5, <3>6
  <2> QED
    BY <2>2, <2>3
<1>8. ASSUME NEW h \in Conns, Moves(h)
      PROVE  NamesAgree(p, q)'
  <2>1. peers'[r] = peers[r]
    BY <1>8 DEF Moves
  <2> QED
    BY <1>2, <1>8, <2>1, NamesMove
<1>9. ASSUME NEW h \in Conns, Reads(h)
      PROVE  NamesAgree(p, q)'
  <2>1. peers'[r] = peers[r]
    BY <1>9 DEF Reads
  <2> QED
    BY <1>2, <1>9, <2>1, NamesRead
<1>10. ASSUME NEW h \in Conns, NEW t \in Conns, NEW m \in Message, NEW to \in InRoom,
              Sends(h, t, m, to)
       PROVE  NamesAgree(p, q)'
  <2>1. peers'[r] = peers[r]
    BY <1>10 DEF Sends
  <2> QED
    BY <1>2, <1>10, <2>1, NamesSend
<1> QED
  BY <1>3, <1>5, <1>6, <1>7, <1>8, <1>9, <1>10

LEMMA InitPairs == CallInit => PairsNamed
<1> SUFFICES ASSUME CallInit, NEW r \in Rooms PROVE Len(peers[r]) # 2
  BY DEF PairsNamed, Listed
<1>1. peers[r] = <<>> /\ Len(<<>>) = 0
  BY DEF CallInit, Init
<1> QED
  BY <1>1

LEMMA NextPairs ==
    ASSUME MaxPeers = 2
    PROVE  IInv /\ FlagInv /\ PairsNamed /\ [CallNext]_callVars => PairsNamed'
<1> SUFFICES ASSUME IInv, FlagInv, PairsNamed, [CallNext]_callVars,
                    NEW r \in Rooms, NEW p \in Conns, NEW q \in Conns, Listed(r, p, q)'
             PROVE  NamesAgree(p, q)'
  BY DEF PairsNamed
<1>1. \/ Background
      \/ \E h \in Conns :
            \/ Approach(h) \/ Enters(h) \/ Moves(h) \/ Leaves(h) \/ Reads(h)
            \/ \E t \in Conns, m \in Message, to \in InRoom : Sends(h, t, m, to)
  BY CallKinds DEF FlagInv, IInv
<1> QED
  BY <1>1, PairsKept

THEOREM PairsNamedHolds ==
    ASSUME MaxPeers = 2
    PROVE  CallSpec => []PairsNamed
BY CallServer, FlagInvHolds, InitPairs, NextPairs, PTL DEF CallSpec

\* In a room for two (MaxPeersPerRoom is 2), once nothing is under way, the
\* page that came last names the first, and the first names somebody.
THEOREM LatecomerNamesTheFirst ==
    ASSUME MaxPeers = 2
    PROVE  CallSpec => []LatecomerNamesFirst
<1>1. IInv /\ PairsNamed => LatecomerNamesFirst
  <2> SUFFICES ASSUME IInv, PairsNamed, NEW r \in Rooms, Settled(r), Len(peers[r]) = 2
               PROVE  remote[peers[r][2]] = peers[r][1] /\ remote[peers[r][1]] # NoPeer
    BY DEF LatecomerNamesFirst
  <2> DEFINE p == peers[r][1]
             q == peers[r][2]
  <2>1. p \in Conns /\ q \in Conns
    <3>1. peers[r] \in Seq(Conns)
      BY DEF IInv, TypeOK
    <3> QED
      BY <3>1, ElementOfSeq
  <2>2. Listed(r, p, q)
    BY DEF Listed
  <2> HIDE DEF p, q
  <2>3. pc[p] \in InRoom /\ pc[q] \in InRoom /\ room[p] = r /\ room[q] = r
    BY <2>1, <2>2, ListedAre
  <2>4. /\ pc[p] = "reading" /\ pc[q] = "reading"
        /\ send[p] = <<>> /\ send[q] = <<>> /\ Heard(p) /\ Heard(q)
    BY <2>1, <2>3 DEF Settled, Occupants, Heard
  <2>5. NamesAgree(p, q) /\ ~Owes(q, p) /\ "reading" \in Talking
    BY <2>1, <2>2, <2>4, InRoomNames DEF PairsNamed, Owes
  <2>6. remote[q] = p
    <3>1. DOMAIN send[q] = {}
      BY <2>4
    <3> QED
      BY <2>4, <2>5, <3>1 DEF NamesAgree, LastNames
  <2>7. remote[p] # NoPeer
    <3>1. EndsNamed(remote[p], <<>>) /\ Len(<<>>) = 0
      BY <2>4, <2>5 DEF NamesAgree, FirstNames
    <3> QED
      BY <3>1 DEF EndsNamed
  <2> QED
    BY <2>6, <2>7 DEF p, q
<1> QED
  BY <1>1, CallServer, PairsNamedHolds, PTL
-------------------------------------------------------------------------------
(* What is on its way to a page, and in which order.                       *)

\* Where a handler stands once it has told the others of a departure, or will
\* not tell them any more, and once it has announced its page.
Parting == {"notifying", "unwinding", "panicked", "done"}
Introduced == {"reading", "forwarding", "leaving"} \cup Parting

\* p came into h's room, and may have left it since.
Acquainted(p, h) ==
    /\ pc[p] \in InRoom \cup {"done"}
    /\ pc[p] \in InRoom => room[p] = room[h]

\* p has got far enough to have sent m to h, and will not send h another
\* announcement, or a second farewell.
Told(p, h, m) ==
    /\ m.type = "joined" => pc[p] \in Introduced \/ (pc[p] = "announcing" /\ h \notin snap[p])
    /\ m.type = "signal" => pc[p] \in Introduced
    /\ m.type = "left" => pc[p] \in Parting /\ (pc[p] = "notifying" => h \notin snap[p])

Genuine(h, m) ==
    /\ pc[h] \in InRoom
    /\ \A p \in m.who : Acquainted(p, h)
    /\ \A p \in Senders(m) : Told(p, h, m)

\* Who is in a copy and has left since has a closed channel.
DepartedClosed == \A h \in Conns : \A p \in snap[h] : pc[p] = "done" => closed[p]

MailGenuine == \A h \in Conns : \A m \in ToSet(send[h]) : Genuine(h, m)

\* P relates every message of the channel to every later one.
Paired(c, P) == \A i, j \in DOMAIN c : i < j => <<c[i], c[j]>> \in P

\* m may come before n.
Ordered ==
    {mn \in Message \X Message :
        Senders(mn[1]) \cap Senders(mn[2]) # {} =>
            mn[1].type # "left" /\ mn[2].type # "joined"}

\* m may come before n at the page h of a room for two.
InTurn(h) ==
    {mn \in Message \X Message :
        \A p \in Senders(mn[1]) \ {h}, q \in Senders(mn[2]) \ {h} :
            p # q => pc[p] = "done"}

MailInv == DepartedClosed /\ MailGenuine /\ \A h \in Conns : Paired(send[h], Ordered)

Turns == \A h \in Conns : Paired(send[h], InTurn(h))

CallStep ==
    \/ Background
    \/ \E h \in Conns :
          \/ Approach(h) \/ Enters(h) \/ Moves(h) \/ Leaves(h) \/ Reads(h)
          \/ \E t \in Conns, m \in Message, to \in InRoom : Sends(h, t, m, to)

\* Where a handler can get to from where it is.
Onward(p) ==
    /\ pc[p] = "done" => pc'[p] = "done"
    /\ pc[p] \in InRoom => \/ pc'[p] = "done" /\ closed'[p]
                           \/ pc'[p] \in InRoom /\ room'[p] = room[p]
    /\ pc[p] \in Introduced => pc'[p] \in Introduced
    /\ pc[p] \in Parting => pc'[p] \in Parting
    /\ pc[p] = "announcing" =>
          pc'[p] \in Introduced \/ (pc'[p] = "announcing" /\ snap'[p] \subseteq snap[p])
    /\ pc[p] \in Parting /\ pc'[p] = "notifying" =>
          pc[p] = "notifying" /\ snap'[p] \subseteq snap[p]

\* s has pushed m into the channel of t.
Pushed(s, t, m, to) ==
    /\ Pushes(s, t, m, to) /\ pc'[s] = to /\ ~closed[t]
    /\ send'[t] = Append(send[t], m)
    /\ \A x \in Conns : x # s => pc'[x] = pc[x] /\ snap'[x] = snap[x]

LEMMA PlacesApart ==
    /\ {"joined", "welcoming", "welcomed", "announcing", "found", "storing", "idle"}
         \cap Introduced = {}
    /\ {"reading", "forwarding", "leaving"} \cap Parting = {}
    /\ Parting \subseteq Introduced /\ Introduced \subseteq InRoom \cup {"done"}
BY PlaceNames DEF Parting, Introduced

LEMMA AlikeOnward ==
    ASSUME NEW p \in Conns, Alike(p)
    PROVE  Onward(p)
BY DEF Alike, Onward

LEMMA StepOnward ==
    ASSUME IInv, CallStep, NEW p \in Conns
    PROVE  Onward(p)
<1>1. CASE Background
  BY <1>1, AlikeOnward DEF Background
<1>2. ASSUME NEW h \in Conns, Others(h), p # h
      PROVE  Onward(p)
  BY <1>2, AlikeOnward DEF Others
<1>3. CASE Approach(p)
  BY <1>3, PlaceNames, PlacesApart DEF Approach, Onward, Parting
<1>4. CASE Enters(p)
  BY <1>4, PlaceNames, PlacesApart DEF Enters, Onward, Parting
<1>5. CASE Moves(p)
  <2>1. pc[p] \in InRoom /\ pc'[p] \in InRoom /\ room'[p] = room[p] /\ pc[p] # "done"
    BY <1>5, PlaceNames DEF Moves, Inward, Rest
  <2> QED
    BY <1>5, <2>1 DEF Moves, Inward, Onward, Parting, Introduced
<1>6. CASE Leaves(p)
  BY <1>6, InRoomNames DEF Leaves, Onward, Parting, Introduced
<1>7. CASE Reads(p)
  BY <1>7 DEF Reads, Onward
<1>8. ASSUME NEW h \in Conns, Reads(h)
      PROVE  Onward(p)
  BY <1>8 DEF Reads, Onward
<1>9. ASSUME NEW h \in Conns, NEW t \in Conns, NEW m \in Message, NEW to \in InRoom,
             Sends(h, t, m, to)
      PROVE  Onward(p)
  <2>1. CASE p = h
    <3>1. /\ pc[p] \in InRoom /\ pc'[p] \in {to, "panicked"} /\ pc'[p] \in InRoom
          /\ snap'[p] \subseteq snap[p] /\ room'[p] = room[p] /\ pc[p] # "done"
      BY <1>9, <2>1, SendFacts, PlaceNames DEF Sends, IInv
    <3>2. pc'[p] = "panicked" \/ pc'[p] = to
      BY <3>1
    <3> QED
      BY <1>9, <2>1, <3>1, <3>2 DEF Sends, Pushes, Onward, Parting, Introduced
  <2>2. CASE p # h
    BY <1>9, <2>2 DEF Sends, Onward
  <2> QED
    BY <2>1, <2>2
<1> QED
  BY <1>1, <1>2, <1>3, <1>4, <1>5, <1>6, <1>8, <1>9
     DEF CallStep, Approach, Enters, Moves, Leaves

\* What a step makes of a channel.
LEMMA StepChannel ==
    ASSUME IInv, FlagInv, CallStep, NEW x \in Conns
    PROVE  \/ send'[x] = send[x] /\ (pc[x] \in InRoom => pc'[x] \in InRoom)
           \/ send'[x] = <<>>
           \/ /\ send[x] # <<>> /\ send'[x] = Tail(send[x])
              /\ pc[x] \in InRoom => pc'[x] \in InRoom
           \/ \E s \in Conns, m \in Message, to \in InRoom : Pushed(s, x, m, to)
<1>1. CASE Background
  BY <1>1 DEF Background, Alike
<1>2. ASSUME NEW h \in Conns, Approach(h) \/ Enters(h) \/ Moves(h)
      PROVE  send'[x] = send[x] /\ (pc[x] \in InRoom => pc'[x] \in InRoom)
  <2>1. send'[h] = send[h] /\ (pc[h] \in InRoom => pc'[h] \in InRoom) /\ Others(h)
    BY <1>2, PlaceNames, InRoomNames DEF Approach, Enters, Moves, Inward
  <2> QED
    BY <2>1 DEF Others, Alike
<1>3. ASSUME NEW h \in Conns, Leaves(h)
      PROVE  send'[x] = <<>> \/ (send'[x] = send[x] /\ pc'[x] = pc[x])
  BY <1>3 DEF Leaves, Others, Alike
<1>4. ASSUME NEW h \in Conns, Reads(h)
      PROVE  /\ pc'[x] = pc[x]
             /\ \/ send'[x] = send[x]
                \/ send[x] # <<>> /\ send'[x] = Tail(send[x])
  BY <1>4, ReadFacts DEF Reads, Alike, FlagInv, IInv
<1>5. ASSUME NEW h \in Conns, NEW t \in Conns, NEW m \in Message, NEW to \in InRoom,
             Sends(h, t, m, to)
      PROVE  \/ send'[x] = send[x] /\ (pc[x] \in InRoom => pc'[x] \in InRoom)
             \/ Pushed(h, x, m, to)
  <2>1. pc[x] \in InRoom => pc'[x] \in InRoom
    BY <1>5, SendFacts DEF Sends, IInv
  <2>2. CASE send' = send
    BY <2>1, <2>2
  <2>3. CASE pc'[h] = to /\ ~closed[t] /\ send' = [send EXCEPT ![t] = Append(@, m)]
    <3>1. send'[t] = Append(send[t], m) /\ \A y \in Conns : y # t => send'[y] = send[y]
      BY <2>3 DEF IInv, TypeOK
    <3>2. CASE x # t
      BY <2>1, <3>1, <3>2
    <3>3. CASE x = t
      BY <1>5, <2>3, <3>1, <3>3 DEF Sends, Pushed
    <3> QED
      BY <3>2, <3>3
  <2> QED
    BY <1>5, <2>2, <2>3 DEF Sends, Outcome
<1> QED
  BY <1>1, <1>2, <1>3, <1>4, <1>5 DEF CallStep

\* A handler copies only peers that are in the room.
LEMMA StepCopies ==
    ASSUME IInv, FlagInv, CallStep, NEW x \in Conns, NEW p \in snap'[x]
    PROVE  p \in snap[x] \/ (p \in Conns /\ pc[p] \in InRoom)
<1>1. ASSUME NEW h \in Conns, Moves(h)
      PROVE  p \in snap[x] \/ (p \in Conns /\ pc[p] \in InRoom)
  <2>1. CASE x # h
    BY <1>1, <2>1 DEF Moves, Others, Alike
  <2>2. CASE x = h
    <3>1. pc[h] \in InRoom
      BY <1>1, PlaceNames DEF Moves, Inward
    <3>2. CASE snap'[h] = Roommates(h)
      BY <2>2, <3>1, <3>2, RoommatesAre
    <3>3. CASE \E t \in ToSet(peers[room[h]]) : snap'[h] = {t}
      <4>1. room[h] \in Rooms
        BY <3>1, RunningHasRoom DEF IInv
      <4> QED
        BY <2>2, <3>3, <4>1 DEF IInv, RosterMatchesHandlers
    <3>4. CASE snap'[h] \subseteq snap[h]
      BY <2>2, <3>4
    <3> QED
      BY <1>1, <3>2, <3>3, <3>4 DEF Moves, Inward
  <2> QED
    BY <2>1, <2>2
<1>2. ASSUME NEW h \in Conns, NEW t \in Conns, NEW m \in Message, NEW to \in InRoom,
             Sends(h, t, m, to)
      PROVE  p \in snap[x]
  BY <1>2, SendFacts DEF Sends, IInv
<1>3. CASE Background
  BY <1>3 DEF Background, Alike
<1>4. ASSUME NEW h \in Conns, Approach(h) \/ Enters(h) \/ Leaves(h) \/ Reads(h)
      PROVE  p \in snap[x]
  BY <1>4 DEF Approach, Enters, Leaves, Reads, Others, Alike
<1> QED
  BY <1>1, <1>2, <1>3, <1>4 DEF CallStep

LEMMA StepCloses ==
    ASSUME IInv, CallStep, NEW p \in Conns, closed[p], pc[p] = "done"
    PROVE  closed'[p]
<1>1. pc[p] \notin InRoom /\ pc[p] \notin {"idle", "found", "storing"}
  BY InRoomNames
<1>2. ASSUME NEW h \in Conns,
             Approach(h) \/ Enters(h) \/ Moves(h) \/ Leaves(h)
      PROVE  closed'[p]
  <2>1. h # p /\ Others(h)
    BY <1>1, <1>2, PlaceNames DEF Approach, Enters, Moves, Inward, Leaves
  <2> QED
    BY <2>1 DEF Others, Alike
<1>3. ASSUME NEW h \in Conns,
             \/ Reads(h)
             \/ \E t \in Conns, m \in Message, to \in InRoom : Sends(h, t, m, to)
      PROVE  closed'[p]
  BY <1>3 DEF Reads, Sends
<1> QED
  BY <1>2, <1>3 DEF CallStep, Background, Alike

LEMMA DepartedKept ==
    ASSUME IInv, FlagInv, DepartedClosed, CallStep
    PROVE  DepartedClosed'
<1> SUFFICES ASSUME NEW x \in Conns, NEW p \in snap'[x], pc'[p] = "done"
             PROVE  closed'[p]
  BY DEF DepartedClosed
<1>1. CASE p \in snap[x]
  <2>1. p \in Conns /\ pc[p] \in InRoom \cup {"done"}
    BY <1>1 DEF FlagInv, Snapshots, IInv, TypeOK
  <2>2. CASE pc[p] = "done"
    BY <1>1, <2>1, <2>2, StepCloses DEF DepartedClosed
  <2>3. CASE pc[p] \in InRoom
    BY <2>1, <2>3, StepOnward, InRoomNames DEF Onward
  <2> QED
    BY <2>1, <2>2, <2>3
<1>2. CASE p \in Conns /\ pc[p] \in InRoom
  BY <1>2, StepOnward, InRoomNames DEF Onward
<1> QED
  BY <1>1, <1>2, StepCopies

\* What holds of a message holds as long as its receiver is in the room.
LEMMA GenuineKept ==
    ASSUME IInv, CallStep, NEW x \in Conns, NEW m \in Message, Genuine(x, m), pc'[x] \in InRoom
    PROVE  Genuine(x, m)'
<1>1. pc[x] \in InRoom /\ room'[x] = room[x]
  BY StepOnward, InRoomNames DEF Onward, Genuine
<1>2. m.who \in SUBSET Conns /\ Senders(m) \in SUBSET Conns
  BY DEF Message, Senders
<1>3. ASSUME NEW p \in m.who
      PROVE  Acquainted(p, x)'
  <2>1. Onward(p) /\ Acquainted(p, x)
    BY <1>2, StepOnward DEF Genuine
  <2> QED
    BY <1>1, <2>1, InRoomNames DEF Onward, Acquainted
<1>4. ASSUME NEW p \in Senders(m)
      PROVE  Told(p, x, m)'
  <2>1. Onward(p) /\ Told(p, x, m)
    BY <1>2, StepOnward DEF Genuine
  <2>2. "notifying" \in Parting
    BY DEF Parting
  <2> QED
    BY <2>1, <2>2, PlacesApart DEF Onward, Told
<1> QED
  BY <1>3, <1>4 DEF Genuine

\* Only those whose channel is open are pushed to, and they are in the room.
LEMMA ReceiverIsThere ==
    ASSUME IInv, FlagInv, DepartedClosed, NEW s \in Conns, NEW t \in Conns, NEW m \in Message,
           NEW to \in InRoom, Pushed(s, t, m, to)
    PROVE  /\ pc[s] \in InRoom /\ pc[t] \in InRoom /\ room[s] = room[t]
           /\ Senders(m) \subseteq {s}
<1>1. pc[s] \in InRoom
  BY PlaceNames DEF Pushed, Pushes
<1>2. CASE t = s
  BY <1>1, <1>2 DEF Pushed, Pushes, Welcome, Joined, Left, Signal, Senders
<1>3. CASE t # s
  <2>1. t \in snap[s]
    BY <1>3 DEF Pushed, Pushes
  <2>2. pc[t] \in InRoom
    BY <2>1 DEF Pushed, DepartedClosed, FlagInv, Snapshots
  <2> QED
    BY <1>1, <1>3, <2>1, <2>2
       DEF FlagInv, Snapshots, Pushed, Pushes, Welcome, Joined, Left, Signal, Senders
<1> QED
  BY <1>2, <1>3

\* A message that was just pushed is what it seems.
LEMMA PushedGenuine ==
    ASSUME IInv, FlagInv, DepartedClosed, CallStep, NEW s \in Conns, NEW t \in Conns,
           NEW m \in Message, NEW to \in InRoom, Pushed(s, t, m, to)
    PROVE  Genuine(t, m)'
<1>1. /\ pc[s] \in InRoom /\ pc[t] \in InRoom /\ room[s] = room[t]
      /\ Senders(m) \subseteq {s}
  BY ReceiverIsThere
<1>2. pc'[s] \in InRoom /\ pc'[t] \in InRoom
  <2>1. t # s => pc'[t] = pc[t]
    BY DEF Pushed
  <2> QED
    BY <1>1, <2>1 DEF Pushed
<1>3. room'[s] = room[s] /\ room'[t] = room[t]
  BY <1>1, <1>2, StepOnward, InRoomNames DEF Onward
<1>4. ASSUME NEW p \in m.who
      PROVE  Acquainted(p, t)'
  <2>1. p = s \/ p \in snap[s]
    BY DEF Pushed, Pushes, Welcome, Joined, Left, Signal
  <2>2. CASE p = s
    BY <1>1, <1>2, <1>3, <2>2 DEF Acquainted
  <2>3. CASE p \in snap[s]
    <3>1. p \in Conns /\ Acquainted(p, t)
      BY <1>1, <2>3 DEF FlagInv, Snapshots, Acquainted, IInv, TypeOK
    <3> QED
      BY <1>3, <3>1, StepOnward, InRoomNames DEF Onward, Acquainted
  <2> QED
    BY <2>1, <2>2, <2>3
<1>5. ASSUME NEW p \in Senders(m)
      PROVE  Told(p, t, m)'
  <2>1. p = s
    BY <1>1, <1>5
  <2> QED
    BY <2>1, PlacesApart
       DEF Pushed, Pushes, Told, Parting, Introduced, Joined, Left, Signal, Welcome, Senders
<1> QED
  BY <1>2, <1>4, <1>5 DEF Genuine

LEMMA MailGenuineKept ==
    ASSUME IInv, FlagInv, DepartedClosed, MailGenuine, CallStep
    PROVE  MailGenuine'
<1> SUFFICES ASSUME NEW x \in Conns, NEW n \in ToSet(send'[x])
             PROVE  Genuine(x, n)'
  BY DEF MailGenuine
<1> DEFINE c == send[x]
           d == send'[x]
<1>1. c \in Seq(Message) /\ DOMAIN c = 1 .. Len(c)
      /\ \A k \in DOMAIN c : Genuine(x, c[k]) /\ c[k] \in Message
  BY ElementOfSeq, LenProperties DEF IInv, TypeOK, MailGenuine, ToSet
<1>2. \/ d = c /\ (pc[x] \in InRoom => pc'[x] \in InRoom)
      \/ d = <<>>
      \/ c # <<>> /\ d = Tail(c) /\ (pc[x] \in InRoom => pc'[x] \in InRoom)
      \/ \E s \in Conns, m \in Message, to \in InRoom : Pushed(s, x, m, to)
  BY StepChannel
<1>3. PICK i \in DOMAIN d : d[i] = n
  BY DEF ToSet
<1> HIDE DEF c, d
<1>4. ASSUME NEW k \in DOMAIN c, n = c[k], pc[x] \in InRoom => pc'[x] \in InRoom
      PROVE  Genuine(x, n)'
  <2>1. Genuine(x, n) /\ n \in Message /\ pc'[x] \in InRoom
    BY <1>1, <1>4 DEF Genuine
  <2> QED
    BY <2>1, GenuineKept
<1>5. CASE d = c /\ (pc[x] \in InRoom => pc'[x] \in InRoom)
  BY <1>3, <1>4, <1>5
<1>6. CASE d = <<>>
  BY <1>3, <1>6
<1>7. CASE c # <<>> /\ d = Tail(c) /\ (pc[x] \in InRoom => pc'[x] \in InRoom)
  <2>1. i + 1 \in DOMAIN c /\ d[i] = c[i + 1]
    BY <1>1, <1>3, <1>7, ChannelTail
  <2> QED
    BY <1>3, <1>4, <1>7, <2>1
<1>8. ASSUME NEW s \in Conns, NEW m \in Message, NEW to \in InRoom, Pushed(s, x, m, to)
      PROVE  Genuine(x, n)'
  <2>1. d = Append(c, m)
    BY <1>8 DEF Pushed, c, d
  <2>2. /\ Len(c) \in Nat /\ DOMAIN c = 1 .. Len(c) /\ DOMAIN d = 1 .. Len(c) + 1
        /\ \A k \in 1 .. Len(c) : d[k] = c[k]
        /\ d[Len(c) + 1] = m
    BY <1>1, <2>1, ChannelAppend
  <2>3. Genuine(x, m)'
    BY <1>8, PushedGenuine
  <2>4. CASE i = Len(c) + 1
    <3>1. n = m
      BY <1>3, <2>2, <2>4
    <3> QED
      BY <2>3, <3>1
  <2>5. CASE i # Len(c) + 1
    <3>1. i \in DOMAIN c /\ n = c[i]
      BY <1>3, <2>2, <2>5
    <3>2. pc'[x] \in InRoom
      BY <2>3 DEF Genuine
    <3> QED
      BY <1>4, <3>1, <3>2
  <2> QED
    BY <2>4, <2>5
<1> QED
  BY <1>2, <1>5, <1>6, <1>7, <1>8

\* A message that comes last may come after each of the others.
LEMMA PairedStep ==
    ASSUME NEW S, NEW c \in Seq(S), NEW d, NEW P, NEW Q, P \subseteq Q, Paired(c, P),
           \/ d = c
           \/ d = <<>>
           \/ c # <<>> /\ d = Tail(c)
           \/ \E m \in S : d = Append(c, m) /\ \A n \in ToSet(c) : <<n, m>> \in Q
    PROVE  Paired(d, Q)
<1>1. \A i, j \in DOMAIN c : i < j => <<c[i], c[j]>> \in Q
  BY DEF Paired
<1>2. DOMAIN c = 1 .. Len(c) /\ Len(c) \in Nat
  BY LenProperties
<1>3. CASE d = c
  BY <1>1, <1>3 DEF Paired
<1>4. CASE d = <<>>
  BY <1>4 DEF Paired
<1>5. CASE c # <<>> /\ d = Tail(c)
  <2>1. /\ DOMAIN d = 1 .. Len(c) - 1
        /\ \A i \in 1 .. Len(c) - 1 : d[i] = c[i + 1]
    BY <1>5, ChannelTail
  <2>2. ASSUME NEW i \in DOMAIN d, NEW j \in DOMAIN d, i < j
        PROVE  <<d[i], d[j]>> \in Q
    <3>0. i \in 1 .. Len(c) - 1 /\ j \in 1 .. Len(c) - 1
      BY <2>1, <2>2
    <3>1. i + 1 \in DOMAIN c /\ j + 1 \in DOMAIN c /\ i + 1 < j + 1
      BY <1>2, <2>2, <3>0
    <3>2. d[i] = c[i + 1] /\ d[j] = c[j + 1]
      BY <2>1
    <3> QED
      BY <1>1, <3>1, <3>2
  <2> QED
    BY <2>2 DEF Paired
<1>6. ASSUME NEW m \in S, d = Append(c, m), \A n \in ToSet(c) : <<n, m>> \in Q
      PROVE  Paired(d, Q)
  <2>1. /\ DOMAIN d = 1 .. Len(c) + 1
        /\ \A i \in 1 .. Len(c) : d[i] = c[i]
        /\ d[Len(c) + 1] = m
    BY <1>6, ChannelAppend
  <2>2. ASSUME NEW i \in DOMAIN d, NEW j \in DOMAIN d, i < j
        PROVE  <<d[i], d[j]>> \in Q
    <3>0. i \in 1 .. Len(c) + 1 /\ j \in 1 .. Len(c) + 1
      BY <2>1, <2>2
    <3>1. i \in DOMAIN c /\ d[i] = c[i]
      <4>1. i \in 1 .. Len(c)
        BY <1>2, <2>2, <3>0
      <4> QED
        BY <1>2, <2>1, <4>1
    <3>2. CASE j = Len(c) + 1
      <4>1. c[i] \in ToSet(c)
        BY <3>1 DEF ToSet
      <4> QED
        BY <1>6, <2>1, <3>1, <3>2, <4>1
    <3>3. CASE j # Len(c) + 1
      <4>1. j \in DOMAIN c /\ d[j] = c[j]
        <5>1. j \in 1 .. Len(c)
          BY <1>2, <3>0, <3>3
        <5> QED
          BY <1>2, <2>1, <5>1
      <4> QED
        BY <1>1, <2>2, <3>1, <4>1
    <3> QED
      BY <3>2, <3>3
  <2> QED
    BY <2>2 DEF Paired
<1> QED
  BY <1>3, <1>4, <1>5, <1>6

\* What is pushed comes in order behind whatever waits in the channel.
LEMMA PushedOrdered ==
    ASSUME IInv, FlagInv, DepartedClosed, MailGenuine, NEW s \in Conns, NEW t \in Conns,
           NEW m \in Message, NEW to \in InRoom, Pushed(s, t, m, to), NEW n \in ToSet(send[t])
    PROVE  <<n, m>> \in Ordered
<1>1. n \in Message /\ Genuine(t, n)
  BY ElementOfSeq, LenProperties DEF IInv, TypeOK, MailGenuine, ToSet
<1>2. SUFFICES ASSUME Senders(n) \cap Senders(m) # {}
               PROVE  n.type # "left" /\ m.type # "joined"
  BY <1>1 DEF Ordered
<1>3. s \in Senders(n) /\ s \in Senders(m)
  BY <1>2, ReceiverIsThere
<1>4. Told(s, t, n) /\ n.type \in {"joined", "left", "signal"}
  BY <1>1, <1>3 DEF Genuine, Message, Senders
<1>5. \/ pc[s] = "announcing" /\ t \in snap[s]
      \/ pc[s] = "notifying" /\ t \in snap[s] /\ m.type = "left"
      \/ pc[s] = "forwarding" /\ m.type = "signal"
  BY <1>3 DEF Pushed, Pushes, Welcome, Left, Signal, Senders
<1> QED
  BY <1>4, <1>5, PlacesApart DEF Told

LEMMA MailKept ==
    ASSUME IInv, FlagInv, MailInv, CallStep
    PROVE  MailInv'
<1>1. DepartedClosed'
  BY DepartedKept DEF MailInv
<1>2. MailGenuine'
  BY MailGenuineKept DEF MailInv
<1>3. ASSUME NEW h \in Conns
      PROVE  Paired(send'[h], Ordered)
  <2>1. send[h] \in Seq(Message) /\ Paired(send[h], Ordered)
    BY DEF IInv, TypeOK, MailInv
  <2>2. ASSUME NEW s \in Conns, NEW m \in Message, NEW to \in InRoom, Pushed(s, h, m, to)
        PROVE  /\ send'[h] = Append(send[h], m)
               /\ \A n \in ToSet(send[h]) : <<n, m>> \in Ordered
    BY <2>2, PushedOrdered DEF MailInv, Pushed
  <2>3. \/ send'[h] = send[h]
        \/ send'[h] = <<>>
        \/ send[h] # <<>> /\ send'[h] = Tail(send[h])
        \/ \E m \in Message : /\ send'[h] = Append(send[h], m)
                              /\ \A n \in ToSet(send[h]) : <<n, m>> \in Ordered
    BY <2>2, StepChannel
  <2> QED
    BY <2>1, <2>3, PairedStep
<1> QED
  BY <1>1, <1>2, <1>3 DEF MailInv, Paired

THEOREM MailHolds == CallSpec => []MailInv
<1>1. CallInit => MailInv
  <2> SUFFICES ASSUME CallInit PROVE MailInv
    OBVIOUS
  <2>1. \A h \in Conns : snap[h] = {} /\ send[h] = <<>> /\ DOMAIN send[h] = {}
    BY DEF CallInit, Init
  <2> QED
    BY <2>1 DEF MailInv, DepartedClosed, MailGenuine, Paired, ToSet
<1>2. IInv /\ FlagInv /\ MailInv /\ [CallNext]_callVars => MailInv'
  BY CallKinds, MailKept DEF CallStep, FlagInv, IInv
<1> QED
  BY <1>1, <1>2, CallServer, FlagInvHolds, PTL DEF CallSpec

\* A channel holds nothing about a connection that sits in another room.
MessagesStayInRoom ==
    \A h \in Conns : \A i \in DOMAIN send[h] : \A p \in send[h][i].who :
        pc[p] \in InRoom => room[p] = room[h]

\* Of one sender, a page is told first that it came and last that it left.
SendersInOrder ==
    \A h \in Conns : \A i, j \in DOMAIN send[h] :
        i < j /\ Senders(send[h][i]) \cap Senders(send[h][j]) # {} =>
            send[h][i].type # "left" /\ send[h][j].type # "joined"

\* Nothing waits for a page that concerns a connection in another room.
THEOREM MessagesKeepToTheirRoom == CallSpec => []MessagesStayInRoom
<1>1. MailInv => MessagesStayInRoom
  <2> SUFFICES ASSUME MailInv, NEW h \in Conns, NEW i \in DOMAIN send[h],
                      NEW p \in send[h][i].who, pc[p] \in InRoom
               PROVE  room[p] = room[h]
    BY DEF MessagesStayInRoom
  <2>1. Genuine(h, send[h][i])
    BY DEF MailInv, MailGenuine, ToSet
  <2> QED
    BY <2>1 DEF Genuine, Acquainted
<1> QED
  BY <1>1, MailHolds, PTL

\* No signal overtakes the announcement of its sender, and none comes behind
\* its farewell.
THEOREM SendersKeepOrder == CallSpec => []SendersInOrder
<1>1. MailInv => SendersInOrder
  <2> SUFFICES ASSUME MailInv, NEW h \in Conns,
                      NEW i \in DOMAIN send[h], NEW j \in DOMAIN send[h], i < j,
                      Senders(send[h][i]) \cap Senders(send[h][j]) # {}
               PROVE  send[h][i].type # "left" /\ send[h][j].type # "joined"
    BY DEF SendersInOrder
  <2>1. <<send[h][i], send[h][j]>> \in Ordered
    BY DEF MailInv, Paired
  <2> QED
    BY <2>1 DEF Ordered
<1> QED
  BY <1>1, MailHolds, PTL

\* Of three connections in one room for two, two are the same.
LEMMA RoomForTwo ==
    ASSUME MaxPeers = 2, IInv, NEW p \in Conns, NEW q \in Conns, NEW t \in Conns,
           pc[p] \in InRoom, pc[q] \in InRoom, pc[t] \in InRoom,
           room[p] = room[t], room[q] = room[t]
    PROVE  p = q \/ p = t \/ q = t
<1> DEFINE s == peers[room[t]]
<1>1. room[t] \in Rooms
  BY RunningHasRoom DEF IInv
<1>2. /\ s \in Seq(Conns) /\ Len(s) <= 2 /\ Len(s) \in Nat /\ DOMAIN s = 1 .. Len(s)
      /\ {p, q, t} \subseteq ToSet(s)
  BY <1>1, LenProperties DEF IInv, TypeOK, PlacesRespected, RosterMatchesHandlers
<1> HIDE DEF s
<1>3. DOMAIN s \subseteq {1, 2}
  BY <1>2
<1>4. ToSet(s) \subseteq {s[1], s[2]}
  BY <1>3 DEF ToSet
<1> QED
  BY <1>2, <1>4

LEMMA TurnsKept ==
    ASSUME MaxPeers = 2, IInv, FlagInv, MailInv, Turns, CallStep
    PROVE  Turns'
<1> SUFFICES ASSUME NEW h \in Conns
             PROVE  Paired(send'[h], InTurn(h)')
  BY DEF Turns, Paired
<1>1. send[h] \in Seq(Message) /\ Paired(send[h], InTurn(h))
  BY DEF IInv, TypeOK, Turns
<1>2. \A m \in Message : Senders(m) \subseteq Conns
  BY DEF Message, Senders
<1>3. InTurn(h) \subseteq InTurn(h)'
  BY <1>2, StepOnward DEF InTurn, Onward
<1>4. ASSUME NEW s \in Conns, NEW m \in Message, NEW to \in InRoom, Pushed(s, h, m, to),
             NEW n \in ToSet(send[h])
      PROVE  <<n, m>> \in InTurn(h)
  <2>1. n \in Message /\ Genuine(h, n)
    BY <1>1, ElementOfSeq, LenProperties DEF MailInv, MailGenuine, ToSet
  <2>2. SUFFICES ASSUME NEW p \in Senders(n) \ {h}, NEW q \in Senders(m) \ {h}, p # q
                 PROVE  pc[p] = "done"
    BY <2>1 DEF InTurn
  <2>3. /\ q = s /\ pc[s] \in InRoom /\ pc[h] \in InRoom /\ room[s] = room[h]
    BY <1>4, <2>2, ReceiverIsThere DEF MailInv
  <2>4. p \in Conns /\ Acquainted(p, h)
    <3>1. p \in n.who
      BY <2>2 DEF Senders
    <3> QED
      BY <1>2, <2>1, <2>2, <3>1 DEF Genuine
  <2>5. pc[p] \notin InRoom
    BY <2>2, <2>3, <2>4, RoomForTwo DEF Acquainted
  <2> QED
    BY <2>4, <2>5 DEF Acquainted
<1>5. ASSUME NEW s \in Conns, NEW m \in Message, NEW to \in InRoom, Pushed(s, h, m, to)
      PROVE  /\ send'[h] = Append(send[h], m)
             /\ \A n \in ToSet(send[h]) : <<n, m>> \in InTurn(h)'
  BY <1>3, <1>4, <1>5 DEF Pushed
<1>6. \/ send'[h] = send[h]
      \/ send'[h] = <<>>
      \/ send[h] # <<>> /\ send'[h] = Tail(send[h])
      \/ \E m \in Message : /\ send'[h] = Append(send[h], m)
                            /\ \A n \in ToSet(send[h]) : <<n, m>> \in InTurn(h)'
  BY <1>5, StepChannel
<1> DEFINE c == send[h]
           d == send'[h]
           P == InTurn(h)
           Q == InTurn(h)'
<1>7. /\ c \in Seq(Message) /\ P \subseteq Q /\ Paired(c, P)
      /\ \/ d = c
         \/ d = <<>>
         \/ c # <<>> /\ d = Tail(c)
         \/ \E m \in Message : d = Append(c, m) /\ \A n \in ToSet(c) : <<n, m>> \in Q
  BY <1>1, <1>3, <1>6
<1> HIDE DEF c, d, P, Q
<1>8. Paired(d, Q)
  BY <1>7, PairedStep
<1> QED
  BY <1>8 DEF d, Q

\* In a room for two, what a page is sent of another begins with its arrival and
\* ends with its farewell, and nothing comes of a third before the other is done.
THEOREM MailComesInOrder ==
    ASSUME MaxPeers = 2
    PROVE  CallSpec => []MailInOrder
<1>1. CallInit => Turns
  <2> SUFFICES ASSUME CallInit PROVE Turns
    OBVIOUS
  <2>1. \A h \in Conns : DOMAIN send[h] = {}
    BY DEF CallInit, Init
  <2> QED
    BY <2>1 DEF Turns, Paired
<1>2. IInv /\ FlagInv /\ MailInv /\ Turns /\ [CallNext]_callVars => Turns'
  BY CallKinds, TurnsKept DEF CallStep, FlagInv, IInv
<1>3. MailInv /\ Turns => MailInOrder
  <2> SUFFICES ASSUME MailInv, Turns, NEW h \in Conns,
                      NEW i \in DOMAIN send[h], NEW j \in DOMAIN send[h], i < j,
                      NEW p \in Senders(send[h][i]) \ {h},
                      NEW q \in Senders(send[h][j]) \ {h}
               PROVE  IF p = q THEN send[h][i].type # "left" /\ send[h][j].type # "joined"
                               ELSE pc[p] = "done"
    BY DEF MailInOrder
  <2>1. <<send[h][i], send[h][j]>> \in Ordered \cap InTurn(h)
    BY DEF MailInv, Turns, Paired
  <2>2. CASE p = q
    BY <2>1, <2>2 DEF Ordered
  <2>3. CASE p # q
    BY <2>1, <2>3 DEF InTurn
  <2> QED
    BY <2>2, <2>3
<1> QED
  BY <1>1, <1>2, <1>3, CallServer, FlagInvHolds, MailHolds, PTL DEF CallSpec
===============================================================================
