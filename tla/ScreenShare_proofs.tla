--------------------------- MODULE ScreenShare_proofs ---------------------------
(***************************************************************************)
(* What holds of the camera and the screen of a page for any number of     *)
(* switches of the camera that may be under way and any number of tracks.  *)
(***************************************************************************)
EXTENDS ScreenShare, SequenceTheorems, TLAPS

-------------------------------------------------------------------------------
(* The inductive invariant.  Its parts are about a page s, tracks ts and   *)
(* switches fl, because the procedures of the page are called in the       *)
(* middle of a step, with a page that is about to become the page.         *)

Camera(ts, t) == ts[t].kind # "screen"
Shown(s) == IF s.video = <<>> THEN NoTrack ELSE Head(s.video)

\* At most one video track is in the stream: the screen while one is shared.
OneVideo(s, ts) ==
    /\ s.video = <<>> \/ s.video = <<Head(s.video)>>
    /\ s.screen # NoTrack => s.video = <<s.screen>> /\ ~Camera(ts, s.screen)
    /\ s.screen = NoTrack /\ s.video # <<>> => Camera(ts, Head(s.video))

\* Nothing happens before the page has started.
NotYet(s, ts, fl) ==
    ~s.started => /\ s.video = <<>> /\ s.screen = NoTrack /\ s.share.at = "idle" /\ ~s.pc
                  /\ Len(ts) = 0 /\ \A f \in Flips : fl[f].at = "idle"

\* Where a share may be waiting, and what the page looks like meanwhile.
Waiting(s) ==
    /\ s.share.at \in {"picking", "restoring"} => s.screen = NoTrack
    /\ s.share.at = "restoring" => s.video = <<>>
    /\ s.share.lost => s.share.at \in {"replacing", "offering"}
    /\ s.share.at \in {"replacing", "offering"} /\ ~s.share.lost => s.pc

\* The connection sends what is shown, or is about to be told what to send.
Sending(s) ==
    s.pc =>
        /\ ~s.torn
        /\ s.senders = <<s.senders[1]>>
        /\ s.share.at \notin {"replacing", "restoring"} \/ s.share.lost =>
              s.senders[1] = Shown(s) /\ s.sendrecv = (s.video # <<>>)
        /\ s.share.at \in {"replacing", "offering"} /\ ~s.share.lost =>
              s.share.track = Shown(s)

\* A call that was torn down has given up the stream, and gets no camera back.
Over(s, ts) ==
    /\ ~s.torn /\ (s.video # <<>> \/ s.share.at = "restoring") => s.stream
    /\ s.torn => /\ s.share.at = "restoring" => ~s.stream
                 /\ s.share.at = "picking" => s.video = <<>>
                 /\ s.screen # NoTrack => s.restore = {}
                 /\ \A t \in 1 .. Len(ts) : ts[t].kind = "restored" => ~ts[t].live

\* One switch at a time, of the camera that is in the stream, and not during a share.
Switching(s, ts, fl) ==
    \A f \in Flips :
        /\ ~fl[f].lost
        /\ fl[f].at # "idle" =>
              /\ \A g \in Flips \ {f} : fl[g].at = "idle"
              /\ s.share.at = "idle" /\ s.screen = NoTrack
              /\ IF s.torn THEN ~s.stream /\ fl[f].at = "asking"
                 ELSE s.stream /\ s.video = <<fl[f].old>>
        /\ fl[f].at = "replacing" =>
              /\ s.pc /\ fl[f].slot = 1
              /\ fl[f].new # fl[f].old /\ Camera(ts, fl[f].new) /\ ts[fl[f].new].enabled

\* A camera that runs is in the stream, or is on its way there, or was got when
\* the call was over.
Running(s, ts, fl) ==
    \A t \in 1 .. Len(ts) : Camera(ts, t) /\ ts[t].live =>
        \/ s.video = <<t>>
        \/ \E f \in Flips : fl[f].at = "replacing" /\ fl[f].new = t
        \/ s.torn /\ s.share.at = "idle" /\ s.screen = NoTrack

\* Whether the camera is on: its user left it on, or a switch has turned a muted
\* one on.
On(p) == p.choice \/ p.unmuted

\* The camera is on or not, or is remembered and will come back so.
Muted(s, ts, on) ==
    /\ s.video # <<>> /\ Camera(ts, Head(s.video)) => ts[Head(s.video)].enabled = on
    /\ s.screen # NoTrack => s.restore \subseteq {on}
    /\ s.share.at = "restoring" => s.share.resume \subseteq {on}

\* All of it but what the connection sends.
Orderly(s, ts, fl, on) ==
    /\ OneVideo(s, ts) /\ NotYet(s, ts, fl) /\ Waiting(s) /\ Over(s, ts)
    /\ Switching(s, ts, fl) /\ Running(s, ts, fl) /\ Muted(s, ts, on)

Sane(s, ts, fl, on) == Orderly(s, ts, fl, on) /\ Sending(s)

\* A switch that waits for its sender has a track to send, in every state.
Switched(fl) ==
    \A f \in Flips : fl[f].at = "replacing" \/ fl[f].lost => fl[f].new # NoTrack

IInv == TypeOK /\ Switched(flip) /\ (~past.crossed => Sane(page, tracks, flip, On(past)))

-------------------------------------------------------------------------------
(* Tracks and the order of a stream                                        *)

Track == [kind : {"camera", "screen", "restored", "flipped"},
          live : BOOLEAN, enabled : BOOLEAN]

Pasts == [crossed : BOOLEAN, dropped : BOOLEAN, choice : BOOLEAN, unmuted : BOOLEAN]

LEMMA WithoutType ==
    ASSUME NEW S, NEW s \in Seq(S), NEW t
    PROVE  Without(s, t) \in Seq(S)
<1>1. CASE t \notin ToSet(s)
  BY <1>1 DEF Without
<1>2. CASE t \in ToSet(s)
  <2> DEFINE i == CHOOSE i \in DOMAIN s : s[i] = t
  <2>1. i \in DOMAIN s
    BY <1>2 DEF ToSet
  <2>2. DOMAIN s = 1 .. Len(s) /\ Len(s) \in Nat /\ \A j \in 1 .. Len(s) : s[j] \in S
    BY LenProperties, ElementOfSeq
  <2> HIDE DEF i
  <2>3. SubSeq(s, 1, i - 1) \in Seq(S)
    BY <2>1, <2>2, SubSeqProperties
  <2>4. SubSeq(s, i + 1, Len(s)) \in Seq(S)
    BY <2>1, <2>2, SubSeqProperties
  <2>5. RemoveAt(s, i) \in Seq(S)
    BY <2>3, <2>4, ConcatProperties DEF RemoveAt
  <2> QED
    BY <1>2, <2>5 DEF Without, i
<1> QED
  BY <1>1, <1>2

\* The only track of a stream is taken out of it.
LEMMA WithoutOnly ==
    ASSUME NEW t
    PROVE  Without(<<t>>, t) = <<>>
<1>1. t \in ToSet(<<t>>)
  BY DEF ToSet
<1>2. (CHOOSE i \in DOMAIN <<t>> : <<t>>[i] = t) = 1
  BY DOMAIN <<t>> = {1}
<1>3. SubSeq(<<t>>, 1, 0) = <<>> /\ SubSeq(<<t>>, 2, 1) = <<>>
  BY SubSeqEmpty
<1>4. <<>> \o <<>> = <<>>
  BY ConcatEmptySeq, EmptySeq
<1> QED
  BY <1>1, <1>2, <1>3, <1>4 DEF Without, RemoveAt

\* A sender gets another track.
LEMMA FirstReplaced ==
    ASSUME NEW S, NEW s \in Seq(S), NEW e \in S, NEW i
    PROVE  /\ [s EXCEPT ![i] = e] \in Seq(S)
           /\ s = <<>> <=> [s EXCEPT ![i] = e] = <<>>
<1>1. DOMAIN s = 1 .. Len(s) /\ Len(s) \in Nat
  BY LenProperties
<1>2. CASE i \in 1 .. Len(s)
  <2>1. [s EXCEPT ![i] = e] \in Seq(S) /\ Len([s EXCEPT ![i] = e]) = Len(s)
    BY <1>2, ExceptSeq
  <2> QED
    BY <2>1, EmptySeq
<1>3. CASE i \notin 1 .. Len(s)
  <2>1. s = [j \in DOMAIN s |-> s[j]]
    BY LenProperties
  <2>2. [s EXCEPT ![i] = e] = s
    BY <1>1, <1>3, <2>1
  <2> QED
    BY <2>2
<1> QED
  BY <1>2, <1>3

LEMMA OnlyTrack ==
    ASSUME NEW t
    PROVE  /\ Append(<<>>, t) = <<t>> /\ Head(<<t>>) = t /\ Tail(<<t>>) = <<>>
           /\ <<t>> # <<>> /\ <<t>>[1] = t /\ Len(<<t>>) = 1
OBVIOUS

-------------------------------------------------------------------------------
(* Type correctness                                                        *)

CamRestore == {{}, {TRUE}, {FALSE}}

Shares(n) ==
    [at : {"idle", "picking", "replacing", "offering", "restoring"}, track : 0 .. n,
     resume : CamRestore, stopping : BOOLEAN, lost : BOOLEAN]

Pages(n) ==
    [started : BOOLEAN, torn : BOOLEAN, stream : BOOLEAN, mic : BOOLEAN,
     video : Seq(1 .. n), screen : 0 .. n, restore : CamRestore,
     share : Shares(n), pc : BOOLEAN, senders : Seq(0 .. n),
     sendrecv : BOOLEAN, flipOff : BOOLEAN, camOff : BOOLEAN, cams : BOOLEAN]

Switch(n) ==
    [at : {"idle", "asking", "replacing"}, old : 0 .. n, new : 0 .. n, slot : Nat,
     lost : BOOLEAN]

\* A page whose tracks are among ts.
Typed(s, ts) ==
    /\ ts \in Seq(Track)
    /\ s \in Pages(Len(ts))
    /\ s.pc <=> s.senders # <<>>

LEMMA TypesOfParts ==
    TypeOK <=> /\ Typed(page, tracks)
               /\ flip \in [Flips -> Switch(Len(tracks))]
               /\ past \in Pasts
BY DEF TypeOK, Typed, Pages, Shares, Switch, Track, Tracks, CamRestore, Pasts

LEMMA StoppedType ==
    ASSUME NEW ts \in Seq(Track), NEW S
    PROVE  /\ Stopped(ts, S) \in Seq(Track) /\ Len(Stopped(ts, S)) = Len(ts)
           /\ \A t \in 1 .. Len(ts) :
                 Stopped(ts, S)[t] = [ts[t] EXCEPT !.live = @ /\ t \notin S]
<1>1. DOMAIN ts = 1 .. Len(ts) /\ Len(ts) \in Nat /\ \A t \in 1 .. Len(ts) : ts[t] \in Track
  BY LenProperties, ElementOfSeq
<1> DEFINE us == [t \in 1 .. Len(ts) |-> [ts[t] EXCEPT !.live = @ /\ t \notin S]]
<1>2. \A t \in 1 .. Len(ts) : [ts[t] EXCEPT !.live = @ /\ t \notin S] \in Track
  BY <1>1 DEF Track
<1>3. us \in Seq(Track) /\ Len(us) = Len(ts)
  BY <1>1, <1>2
<1>4. Stopped(ts, S) = us
  BY <1>1 DEF Stopped
<1> QED
  BY <1>3, <1>4

LEMMA MoreTracks ==
    ASSUME NEW n \in Nat, NEW m \in Nat, n <= m
    PROVE  Pages(n) \subseteq Pages(m) /\ Switch(n) \subseteq Switch(m)
<1>1. Seq(1 .. n) \subseteq Seq(1 .. m) /\ Seq(0 .. n) \subseteq Seq(0 .. m)
  BY SeqMonotonic
<1>2. 0 .. n \subseteq 0 .. m
  OBVIOUS
<1> QED
  BY <1>1, <1>2 DEF Pages, Shares, Switch

\* The buttons are no concern of the rest of the page.
LEMMA AppliedSame ==
    ASSUME NEW s, NEW ts, Typed(s, ts)
    PROVE  /\ Applied(s).started = s.started /\ Applied(s).torn = s.torn
           /\ Applied(s).stream = s.stream /\ Applied(s).mic = s.mic
           /\ Applied(s).video = s.video /\ Applied(s).screen = s.screen
           /\ Applied(s).restore = s.restore /\ Applied(s).share = s.share
           /\ Applied(s).pc = s.pc /\ Applied(s).senders = s.senders
           /\ Applied(s).sendrecv = s.sendrecv /\ Applied(s).cams = s.cams
BY DEF Applied, Typed, Pages

LEMMA AppliedTyped ==
    ASSUME NEW s, NEW ts, Typed(s, ts)
    PROVE  Typed(Applied(s), ts)
<1>1. \A x, y \in BOOLEAN : [s EXCEPT !.flipOff = x, !.camOff = y] \in Pages(Len(ts))
  BY DEF Typed, Pages
<1>2. s.cams \in BOOLEAN /\ s.stream \in BOOLEAN
  BY DEF Typed, Pages
<1>3. \E x, y \in BOOLEAN : Applied(s) = [s EXCEPT !.flipOff = x, !.camOff = y]
  BY <1>2 DEF Applied
<1>4. Applied(s) \in Pages(Len(ts))
  BY <1>1, <1>3
<1> QED
  BY <1>4, AppliedSame DEF Typed

\* The page waits for something else, or no longer.
LEMMA WaitsTyped ==
    ASSUME NEW s, NEW ts, Typed(s, ts), NEW w \in Shares(Len(ts))
    PROVE  Typed([s EXCEPT !.share = w], ts)
<1>1. [s EXCEPT !.share = w] \in Pages(Len(ts))
  BY DEF Typed, Pages
<1> QED
  BY <1>1 DEF Typed, Pages

LEMMA IdleShare ==
    ASSUME NEW n \in Nat
    PROVE  Idle \in Shares(n)
BY DEF Idle, NoTrack, Shares, CamRestore

LEMMA RestoringShare ==
    ASSUME NEW n \in Nat, NEW r \in CamRestore
    PROVE  [Idle EXCEPT !.at = "restoring", !.resume = r] \in Shares(n)
BY IdleShare DEF Shares

LEMMA ReplacingShare ==
    ASSUME NEW n \in Nat, NEW t \in 0 .. n
    PROVE  LET w == [Idle EXCEPT !.at = "replacing", !.track = t]
           IN  w \in Shares(n) /\ w.at = "replacing" /\ ~w.lost /\ w.track = t
BY DEF Idle, Shares, CamRestore

LEMMA StopEndsTyped ==
    ASSUME NEW s, NEW ts, Typed(s, ts), StopEnds(s, ts)
    PROVE  Typed(page, tracks)' /\ Len(tracks') = Len(ts)
<1> DEFINE x == s.stream /\ (s.video # <<>> \/ s.mic)
           u == [s EXCEPT !.share = Idle, !.stream = x]
<1>1. u \in Pages(Len(ts)) /\ u.pc = s.pc /\ u.senders = s.senders
  BY IdleShare, LenProperties DEF Typed, Pages
<1>2. Typed(u, ts)
  BY <1>1 DEF Typed
<1>3. Step(Applied(u), ts)
  BY DEF StopEnds
<1> QED
  BY <1>2, <1>3, AppliedTyped DEF Step

LEMMA StopSendsTyped ==
    ASSUME NEW s, NEW ts, Typed(s, ts), NEW t \in 0 .. Len(ts), StopSends(s, ts, t)
    PROVE  Typed(page, tracks)' /\ Len(tracks') = Len(ts)
<1> DEFINE w == [Idle EXCEPT !.at = "replacing", !.track = t, !.stopping = TRUE]
<1>1. w \in Shares(Len(ts))
  BY DEF Idle, Shares, CamRestore
<1>2. CASE s.pc
  BY <1>1, <1>2, WaitsTyped DEF StopSends, Step
<1>3. CASE ~s.pc
  BY <1>3, StopEndsTyped DEF StopSends
<1> QED
  BY <1>2, <1>3

LEMMA StopShareTyped ==
    ASSUME NEW s, NEW ts, Typed(s, ts), StopShare(s, ts)
    PROVE  Typed(page, tracks)' /\ Len(tracks') = Len(ts)
<1> DEFINE v == Without(s.video, s.screen)
           u == [s EXCEPT !.screen = NoTrack, !.restore = {}, !.video = v]
           us == Stopped(ts, {s.screen})
           w == [Idle EXCEPT !.at = "restoring", !.resume = s.restore]
<1>1. v \in Seq(1 .. Len(ts))
  BY WithoutType DEF Typed, Pages
<1>2. us \in Seq(Track) /\ Len(us) = Len(ts) /\ Len(ts) \in Nat
  BY StoppedType, LenProperties DEF Typed
<1>3. w \in Shares(Len(ts))
  <2>1. s.restore \in CamRestore
    BY DEF Typed, Pages
  <2> QED
    BY <1>2, <2>1, RestoringShare
<1>4. StopSends(u, us, NoTrack) \/ Step([u EXCEPT !.share = w], us)
  BY DEF StopShare
<1> HIDE DEF v, us, w
<1>5. {} \in CamRestore /\ NoTrack \in 0 .. Len(ts)
  BY <1>2 DEF NoTrack, CamRestore
<1>6. u \in Pages(Len(ts)) /\ u.pc = s.pc /\ u.senders = s.senders
  BY <1>1, <1>5 DEF Typed, Pages
<1> HIDE DEF u
<1>7. Typed(u, us)
  BY <1>2, <1>6 DEF Typed
<1> QED
  BY <1>2, <1>3, <1>4, <1>5, <1>7, StopSendsTyped, WaitsTyped DEF Step

LEMMA ShareEndsTyped ==
    ASSUME NEW s, NEW ts, Typed(s, ts), ShareEnds(s, ts)
    PROVE  Typed(page, tracks)' /\ Len(tracks') = Len(ts)
<1> DEFINE t == Applied([s EXCEPT !.share = Idle])
<1>1. Typed(t, ts)
  BY IdleShare, LenProperties, WaitsTyped, AppliedTyped DEF Typed
<1> HIDE DEF t
<1>2. StopShare(t, ts) \/ Step(t, ts)
  BY DEF ShareEnds, t
<1> QED
  BY <1>1, <1>2, StopShareTyped DEF Step

LEMMA ReturnTyped ==
    ASSUME NEW s, NEW ts, Typed(s, ts), Return(s, ts)
    PROVE  Typed(page, tracks)' /\ Len(tracks') = Len(ts)
BY StopEndsTyped, ShareEndsTyped DEF Return

LEMMA CapturedType ==
    ASSUME TypeOK, NEW k \in {"camera", "screen", "restored", "flipped"},
           NEW live \in BOOLEAN, NEW enabled \in BOOLEAN
    PROVE  /\ Captured(k, live, enabled) \in Seq(Track)
           /\ Len(Captured(k, live, enabled)) = New
           /\ New \in Nat \ {0} /\ Len(tracks) \in Nat /\ New = Len(tracks) + 1
           /\ Len(tracks) <= New /\ 1 .. Len(tracks) \subseteq 1 .. New
           /\ \A t \in 1 .. Len(tracks) : Captured(k, live, enabled)[t] = tracks[t]
           /\ Captured(k, live, enabled)[New] = [kind |-> k, live |-> live, enabled |-> enabled]
<1>1. tracks \in Seq(Track) /\ Len(tracks) \in Nat
  BY TypesOfParts, LenProperties DEF Typed
<1>2. [kind |-> k, live |-> live, enabled |-> enabled] \in Track
  BY DEF Track
<1> QED
  BY <1>1, <1>2, AppendProperties DEF Captured, New

\* More tracks than before: the page and the switches may stay as they are.
LEMMA StillTyped ==
    ASSUME TypeOK, NEW ts \in Seq(Track), Len(tracks) <= Len(ts)
    PROVE  /\ Typed(page, ts) /\ flip \in [Flips -> Switch(Len(ts))]
           /\ past \in Pasts
<1>1. Len(tracks) \in Nat /\ Len(ts) \in Nat
  BY TypesOfParts, LenProperties DEF Typed
<1>2. /\ page \in Pages(Len(tracks)) /\ flip \in [Flips -> Switch(Len(tracks))]
      /\ (page.pc <=> page.senders # <<>>)
  BY TypesOfParts DEF Typed
<1>3. Pages(Len(tracks)) \subseteq Pages(Len(ts)) /\ Switch(Len(tracks)) \subseteq Switch(Len(ts))
  BY <1>1, MoreTracks
<1> HIDE DEF TypeOK
<1>4. Typed(page, ts)
  BY <1>2, <1>3 DEF Typed
<1>5. flip \in [Flips -> Switch(Len(ts))]
  BY <1>2, <1>3
<1> QED
  BY <1>4, <1>5, TypesOfParts

\* A step that leaves the switches alone.
LEMMA SwitchesAlone ==
    ASSUME TypeOK, Typed(page, tracks)', Len(tracks) <= Len(tracks'), flip' = flip,
           past' \in Pasts
    PROVE  TypeOK'
<1>1. tracks' \in Seq(Track)
  BY DEF Typed
<1>2. flip' \in [Flips -> Switch(Len(tracks'))]
  BY <1>1, StillTyped
<1> QED
  BY <1>2 DEF TypeOK, Typed, Pages, Shares, Switch, Track, Tracks, CamRestore, Pasts

LEMMA ShareTypes ==
    ASSUME TypeOK, Replaced \/ Offered \/ LostReturns \/ ClickShare \/ PickCancelled
    PROVE  TypeOK'
<1>1. /\ Typed(page, tracks) /\ Len(tracks) \in Nat
      /\ past \in Pasts
      /\ page \in Pages(Len(tracks)) /\ page.share \in Shares(Len(tracks))
  BY TypesOfParts, LenProperties DEF Typed, Pages
<1>2. Typed([page EXCEPT !.share = Idle], tracks)
  BY <1>1, IdleShare, WaitsTyped
<1>3. CASE Replaced
  <2> DEFINE s == [page EXCEPT !.senders[1] = page.share.track,
                               !.sendrecv = page.share.track # NoTrack]
  <2>1. page.share.track \in 0 .. Len(tracks) /\ page.senders \in Seq(0 .. Len(tracks))
    BY <1>1 DEF Pages, Shares
  <2>2. [page.senders EXCEPT ![1] = page.share.track] \in Seq(0 .. Len(tracks))
    BY <2>1, FirstReplaced
  <2>3. page.senders # <<>> <=> [page.senders EXCEPT ![1] = page.share.track] # <<>>
    BY <2>1, FirstReplaced
  <2>4. s \in Pages(Len(tracks)) /\ s.pc = page.pc /\ s.share = page.share
        /\ s.senders = [page.senders EXCEPT ![1] = page.share.track]
    BY <1>1, <2>2 DEF Pages
  <2> HIDE DEF s
  <2>5. Typed(s, tracks)
    BY <1>1, <2>3, <2>4 DEF Typed
  <2>6. Return(s, tracks) \/ Step([s EXCEPT !.share.at = "offering"], tracks)
    BY <1>3 DEF Replaced, s
  <2>7. [s.share EXCEPT !.at = "offering"] \in Shares(Len(tracks))
    BY <1>1, <2>4 DEF Shares
  <2>8. Typed([s EXCEPT !.share.at = "offering"], tracks)
    BY <2>5, <2>7, WaitsTyped
  <2>9. Typed(page, tracks)' /\ Len(tracks') = Len(tracks)
    BY <2>5, <2>6, <2>8, ReturnTyped DEF Step
  <2> QED
    BY <1>1, <1>3, <2>9, SwitchesAlone DEF Replaced
<1>4. CASE Offered
  BY <1>1, <1>4, ReturnTyped, SwitchesAlone DEF Offered
<1>5. CASE LostReturns
  <2>1. Return(page, tracks) \/ Step([page EXCEPT !.share = Idle], tracks)
    BY <1>5 DEF LostReturns
  <2>2. Typed(page, tracks)' /\ Len(tracks') = Len(tracks)
    BY <1>1, <1>2, <2>1, ReturnTyped DEF Step
  <2> QED
    BY <1>1, <1>5, <2>2, SwitchesAlone DEF LostReturns
<1>6. CASE ClickShare
  <2>1. [page.share EXCEPT !.at = "picking"] \in Shares(Len(tracks))
    BY <1>1 DEF Shares
  <2>2. Typed([page EXCEPT !.share.at = "picking"], tracks)
    BY <1>1, <2>1, WaitsTyped
  <2>3. StopShare(page, tracks) \/ Step([page EXCEPT !.share.at = "picking"], tracks)
    BY <1>6 DEF ClickShare
  <2>4. Typed(page, tracks)' /\ Len(tracks') = Len(tracks)
    BY <1>1, <2>2, <2>3, StopShareTyped DEF Step
  <2>5. past' \in Pasts
    <3>1. (past.crossed \/ ~page.started \/ FlipUnderWay) \in BOOLEAN
      BY <1>1 DEF Pages
    <3> QED
      BY <1>1, <1>6, <3>1 DEF ClickShare, Pasts
  <2> QED
    BY <1>1, <1>6, <2>4, <2>5, SwitchesAlone DEF ClickShare
<1>7. CASE PickCancelled
  BY <1>1, <1>2, <1>7, SwitchesAlone DEF PickCancelled, Step
<1> QED
  BY <1>3, <1>4, <1>5, <1>6, <1>7

LEMMA DisplacedType ==
    ASSUME NEW ts \in Seq(Track)
    PROVE  Displaced(ts) \in Seq(Track) /\ Len(Displaced(ts)) = Len(ts)
BY StoppedType DEF Displaced

LEMMA RememberedType ==
    ASSUME TypeOK
    PROVE  Remembered \in CamRestore
<1>1. tracks \in Seq(Track) /\ page.video \in Seq(1 .. Len(tracks))
  BY TypesOfParts DEF Typed, Pages
<1>2. CASE page.video = <<>>
  BY <1>2 DEF Remembered, CamRestore
<1>3. CASE page.video # <<>>
  <2>1. Head(page.video) \in 1 .. Len(tracks)
    BY <1>1, <1>3, HeadTailProperties
  <2>2. tracks[Head(page.video)] \in Track
    BY <1>1, <2>1, ElementOfSeq
  <2>3. tracks[Head(page.video)].enabled \in BOOLEAN
    BY <2>2 DEF Track
  <2> QED
    BY <1>3, <2>3 DEF Remembered, CamRestore
<1> QED
  BY <1>2, <1>3

LEMMA CaptureTypes ==
    ASSUME TypeOK, Start \/ Picked \/ CaptureEnds \/ Restore \/ ToggleCamera
    PROVE  TypeOK'
<1>1. /\ Typed(page, tracks) /\ Len(tracks) \in Nat /\ tracks \in Seq(Track)
      /\ past \in Pasts
      /\ page \in Pages(Len(tracks)) /\ page.share \in Shares(Len(tracks))
      /\ page.video \in Seq(1 .. Len(tracks))
  BY TypesOfParts, LenProperties DEF Typed, Pages
<1>2. CASE Start
  <2> DEFINE got(mic, video) == [page EXCEPT !.started = TRUE, !.stream = mic, !.mic = mic,
                                             !.video = video, !.cams = video # <<>>]
  <2>1. ASSUME NEW ts \in Seq(Track), Len(tracks) <= Len(ts), NEW mic \in BOOLEAN,
               NEW video \in Seq(1 .. Len(ts))
        PROVE  Typed(got(mic, video), ts)
    <3>1. Typed(page, ts)
      BY <2>1, StillTyped
    <3>2. got(mic, video) \in Pages(Len(ts))
      BY <2>1, <3>1 DEF Typed, Pages
    <3>3. got(mic, video).pc = page.pc /\ got(mic, video).senders = page.senders
      BY <1>1 DEF Pages
    <3> QED
      BY <2>1, <3>1, <3>2, <3>3 DEF Typed
  <2>2. \/ /\ Step(Applied(got(TRUE, <<New>>)), Captured("camera", TRUE, TRUE))
           /\ past' = [past EXCEPT !.choice = TRUE]
        \/ Step(Applied(got(TRUE, <<>>)), tracks) /\ UNCHANGED past
        \/ Step(Applied(got(FALSE, <<>>)), tracks) /\ UNCHANGED past
    BY <1>2 DEF Start
  <2> HIDE DEF got
  <2>3. past' \in Pasts
    BY <1>1, <2>2 DEF Pasts
  <2>4. <<New>> \in Seq(1 .. New)
    BY <1>1 DEF New
  <2> DEFINE ts == Captured("camera", TRUE, TRUE)
  <2>5. ts \in Seq(Track) /\ Len(ts) = New /\ Len(tracks) <= New
    BY <1>1, CapturedType
  <2> HIDE DEF ts
  <2>6. Typed(got(TRUE, <<New>>), ts)
    BY <2>1, <2>4, <2>5
  <2>7. Typed(got(TRUE, <<>>), tracks) /\ Typed(got(FALSE, <<>>), tracks)
    <3>1. Len(tracks) <= Len(tracks)
      BY <1>1
    <3>2. <<>> \in Seq(1 .. Len(tracks))
      BY EmptySeq
    <3> QED
      BY <1>1, <2>1, <3>1, <3>2
  <2>8. CASE Step(Applied(got(TRUE, <<New>>)), ts)
    BY <2>3, <2>5, <2>6, <2>8, AppliedTyped, SwitchesAlone, <1>2 DEF Step, Start
  <2>9. CASE Step(Applied(got(TRUE, <<>>)), tracks) \/ Step(Applied(got(FALSE, <<>>)), tracks)
    <3>1. Typed(page, tracks)' /\ tracks' = tracks
      BY <2>7, <2>9, AppliedTyped DEF Step
    <3>2. Len(tracks) <= Len(tracks')
      BY <1>1, <3>1
    <3> QED
      BY <1>2, <2>3, <3>1, <3>2, SwitchesAlone DEF Start
  <2> QED
    BY <2>2, <2>8, <2>9 DEF ts
<1>3. CASE Picked
  <2>1. PICK live \in BOOLEAN :
          LET rest == IF page.video = <<>> THEN <<>> ELSE Tail(page.video)
              s == [page EXCEPT !.screen = New, !.stream = TRUE, !.restore = Remembered,
                                !.video = Append(rest, New)]
              ts == Displaced(Captured("screen", live, TRUE))
          IN  \/ Step([s EXCEPT !.share = [Idle EXCEPT !.at = "replacing", !.track = New]], ts)
              \/ ShareEnds(s, ts)
    BY <1>3 DEF Picked
  <2> DEFINE rest == IF page.video = <<>> THEN <<>> ELSE Tail(page.video)
             v == Append(rest, New)
             s == [page EXCEPT !.screen = New, !.stream = TRUE, !.restore = Remembered,
                               !.video = v]
             ts == Displaced(Captured("screen", live, TRUE))
             w == [Idle EXCEPT !.at = "replacing", !.track = New]
  <2>2. Step([s EXCEPT !.share = w], ts) \/ ShareEnds(s, ts)
    BY <2>1
  <2>3. ts \in Seq(Track) /\ Len(ts) = New /\ New \in Nat \ {0} /\ Len(tracks) <= New
    <3>1. /\ Captured("screen", live, TRUE) \in Seq(Track)
          /\ Len(Captured("screen", live, TRUE)) = New
          /\ New \in Nat \ {0} /\ Len(tracks) <= New
      BY CapturedType
    <3> QED
      BY <1>1, <3>1, DisplacedType
  <2>4. v \in Seq(1 .. New)
    <3>1. rest \in Seq(1 .. Len(tracks))
      BY <1>1, HeadTailProperties, EmptySeq
    <3>2. 1 .. Len(tracks) \subseteq 1 .. New
      BY <1>1, <2>3
    <3>3. rest \in Seq(1 .. New)
      BY <3>1, <3>2, SeqMonotonic
    <3> QED
      BY <2>3, <3>3, AppendProperties
  <2> HIDE DEF ts, v
  <2>5. Typed(page, ts)
    BY <2>3, StillTyped
  <2>6. s \in Pages(New) /\ s.pc = page.pc /\ s.senders = page.senders
    <3>1. page \in Pages(New) /\ New \in 0 .. New /\ Remembered \in CamRestore
      BY <2>3, <2>5, RememberedType DEF Typed
    <3> QED
      BY <2>4, <3>1 DEF Pages
  <2> HIDE DEF s
  <2>7. Typed(s, ts)
    BY <2>3, <2>5, <2>6 DEF Typed
  <2>8. w \in Shares(New)
    <3>1. Idle \in Shares(New) /\ New \in 0 .. New
      BY <2>3, IdleShare
    <3> QED
      BY <3>1 DEF Shares
  <2>9. Typed(page, tracks)' /\ Len(tracks') = New
    BY <2>2, <2>3, <2>7, <2>8, WaitsTyped, ShareEndsTyped DEF Step
  <2> QED
    BY <1>1, <1>3, <2>3, <2>9, SwitchesAlone DEF Picked
<1>4. CASE CaptureEnds
  <2>1. PICK t \in Tracks : \/ StopShare(page, Stopped(tracks, {t}))
                            \/ Step(page, Stopped(tracks, {t}))
    BY <1>4 DEF CaptureEnds
  <2>2. Stopped(tracks, {t}) \in Seq(Track) /\ Len(Stopped(tracks, {t})) = Len(tracks)
    BY <1>1, StoppedType
  <2>3. Typed(page, Stopped(tracks, {t}))
    BY <1>1, <2>2, StillTyped
  <2>4. Typed(page, tracks)' /\ Len(tracks') = Len(tracks)
    BY <2>1, <2>2, <2>3, StopShareTyped DEF Step
  <2> QED
    BY <1>1, <1>4, <2>4, SwitchesAlone DEF CaptureEnds
<1>5. CASE Restore
  <2>1. CASE \E enabled \in page.share.resume : Restored(enabled)
    <3>1. PICK enabled \in page.share.resume : Restored(enabled)
      BY <2>1
    <3> DEFINE ts == Captured("restored", TRUE, enabled)
               v == Append(page.video, New)
               s == [page EXCEPT !.video = v]
    <3>2. enabled \in BOOLEAN
      BY <1>1 DEF Shares, CamRestore
    <3>3. ts \in Seq(Track) /\ Len(ts) = New /\ New \in Nat \ {0} /\ Len(tracks) <= New
      BY <3>2, CapturedType
    <3>4. \/ StopSends(s, ts, New)
          \/ Step([page EXCEPT !.share = Idle], Stopped(ts, {New}))
      BY <3>1 DEF Restored
    <3>5. v \in Seq(1 .. New)
      <4>1. 1 .. Len(tracks) \subseteq 1 .. New
        BY <1>1, <3>3
      <4>2. page.video \in Seq(1 .. New)
        BY <1>1, <4>1, SeqMonotonic
      <4> QED
        BY <3>3, <4>2, AppendProperties
    <3> HIDE DEF ts, v
    <3>6. Stopped(ts, {New}) \in Seq(Track) /\ Len(Stopped(ts, {New})) = New
      BY <3>3, StoppedType
    <3>7. Typed(page, ts) /\ Typed(page, Stopped(ts, {New}))
      BY <3>3, <3>6, StillTyped
    <3>8. s \in Pages(New) /\ s.pc = page.pc /\ s.senders = page.senders
      BY <3>3, <3>5, <3>7 DEF Typed, Pages
    <3> HIDE DEF s
    <3>9. Typed(s, ts)
      BY <3>3, <3>6, <3>7, <3>8 DEF Typed
    <3>10. Typed([page EXCEPT !.share = Idle], Stopped(ts, {New}))
      BY <3>3, <3>6, <3>7, IdleShare, WaitsTyped
    <3>11. Typed(page, tracks)' /\ Len(tracks') = New
      BY <3>3, <3>4, <3>6, <3>9, <3>10, StopSendsTyped DEF Step
    <3> QED
      BY <1>1, <1>5, <3>3, <3>11, SwitchesAlone DEF Restore
  <2>2. CASE StopSends(page, tracks, NoTrack) \/ Step([page EXCEPT !.share = Idle], tracks)
    <3>1. Typed([page EXCEPT !.share = Idle], tracks)
      BY <1>1, IdleShare, WaitsTyped
    <3>2. NoTrack \in 0 .. Len(tracks)
      BY <1>1 DEF NoTrack
    <3>3. Typed(page, tracks)' /\ Len(tracks') = Len(tracks)
      BY <1>1, <2>2, <3>1, <3>2, StopSendsTyped DEF Step
    <3> QED
      BY <1>1, <1>5, <3>3, SwitchesAlone DEF Restore
  <2> QED
    BY <1>5, <2>1, <2>2 DEF Restore
<1>6. CASE ToggleCamera
  <2> DEFINE t == Head(page.video)
             k == [tracks[t] EXCEPT !.enabled = ~@]
  <2>1. t \in 1 .. Len(tracks)
    BY <1>1, <1>6, HeadTailProperties DEF ToggleCamera
  <2>2. tracks[t] \in Track
    BY <1>1, <2>1, ElementOfSeq
  <2>3. k \in Track /\ tracks' = [tracks EXCEPT ![t] = k] /\ page' = page
    BY <1>6, <2>2 DEF ToggleCamera, Track
  <2>4. past' \in Pasts
    <3>1. (~tracks[t].enabled) \in BOOLEAN
      BY <2>2 DEF Track
    <3> QED
      BY <1>1, <1>6, <3>1 DEF ToggleCamera, Pasts
  <2> HIDE DEF t, k
  <2>5. tracks' \in Seq(Track) /\ Len(tracks') = Len(tracks)
    BY <1>1, <2>1, <2>3, ExceptSeq
  <2>6. Typed(page, tracks)'
    BY <1>1, <2>3, <2>5 DEF Typed
  <2> QED
    BY <1>1, <1>6, <2>4, <2>5, <2>6, SwitchesAlone DEF ToggleCamera
<1> QED
  BY <1>2, <1>3, <1>4, <1>5, <1>6

LEMMA NoFlipType ==
    ASSUME NEW n \in Nat
    PROVE  NoFlip \in Switch(n)
BY DEF NoFlip, NoTrack, Switch

\* Any step whose parts are typed.
LEMMA PartsTyped ==
    ASSUME Typed(page, tracks)', flip' \in [Flips -> Switch(Len(tracks'))], past' \in Pasts
    PROVE  TypeOK'
BY DEF TypeOK, Typed, Pages, Shares, Switch, Track, Tracks, CamRestore, Pasts

LEMMA FlipEndsTypes ==
    ASSUME TypeOK, NEW f \in Flips, NEW s, NEW ts, Typed(s, ts), Len(tracks) <= Len(ts),
           NEW new \in 1 .. Len(ts), FlipEnds(f, s, ts, new)
    PROVE  TypeOK'
<1> DEFINE old == flip[f].old
           v == Append(Without(s.video, old), new)
           u == [s EXCEPT !.video = v]
<1>1. ts \in Seq(Track) /\ Len(ts) \in Nat /\ s \in Pages(Len(ts))
  BY LenProperties DEF Typed
<1>2. flip' = [flip EXCEPT ![f] = NoFlip] /\ flip \in [Flips -> Switch(Len(ts))] /\ past \in Pasts
  BY <1>1, StillTyped DEF FlipEnds, Pasts
<1>3. flip' \in [Flips -> Switch(Len(ts))]
  BY <1>1, <1>2, NoFlipType
<1>4. CASE s.stream
  <2>1. Step(Applied(u), Stopped(ts, {old})) /\ past' = [past EXCEPT !.unmuted = ~past.choice]
    BY <1>4 DEF FlipEnds
  <2>2. v \in Seq(1 .. Len(ts))
    <3>1. Without(s.video, old) \in Seq(1 .. Len(ts))
      BY <1>1, WithoutType DEF Pages
    <3> QED
      BY <3>1, AppendProperties
  <2>3. Stopped(ts, {old}) \in Seq(Track) /\ Len(Stopped(ts, {old})) = Len(ts)
    BY <1>1, StoppedType
  <2> HIDE DEF v, old
  <2>4. u \in Pages(Len(ts)) /\ u.pc = s.pc /\ u.senders = s.senders
    BY <1>1, <2>2 DEF Pages
  <2> HIDE DEF u
  <2>5. Typed(u, Stopped(ts, {old}))
    BY <1>1, <2>3, <2>4 DEF Typed
  <2>6. Typed(page, tracks)' /\ Len(tracks') = Len(ts)
    BY <2>1, <2>3, <2>5, AppliedTyped DEF Step
  <2>7. past' \in Pasts
    BY <1>2, <2>1 DEF Pasts
  <2> QED
    BY <1>3, <2>6, <2>7, PartsTyped
<1>5. CASE ~s.stream
  <2>1. page' = s /\ tracks' = ts /\ past' = past
    BY <1>5 DEF FlipEnds, Step
  <2> QED
    BY <1>2, <1>3, <2>1, PartsTyped
<1> QED
  BY <1>4, <1>5

LEMMA SwitchTypes ==
    ASSUME TypeOK, Switched(flip), NEW f \in Flips,
           ClickFlip(f) \/ FlipFails(f) \/ FlipGot(f) \/ FlipReplaced(f) \/ FlipLost(f)
    PROVE  TypeOK'
<1>1. /\ Typed(page, tracks) /\ Len(tracks) \in Nat /\ tracks \in Seq(Track)
      /\ past \in Pasts /\ flip \in [Flips -> Switch(Len(tracks))]
      /\ page \in Pages(Len(tracks)) /\ page.share \in Shares(Len(tracks))
      /\ page.video \in Seq(1 .. Len(tracks))
  BY TypesOfParts, LenProperties DEF Typed, Pages, Pasts
<1>2. CASE ClickFlip(f)
  <2>1. Head(page.video) \in 0 .. Len(tracks)
    BY <1>1, <1>2, HeadTailProperties DEF ClickFlip
  <2>2. [NoFlip EXCEPT !.at = "asking", !.old = Head(page.video)] \in Switch(Len(tracks))
    BY <1>1, <2>1, NoFlipType DEF Switch
  <2>3. flip' \in [Flips -> Switch(Len(tracks))]
    BY <1>1, <1>2, <2>2 DEF ClickFlip
  <2>4. past' \in Pasts
    <3>1. (past.crossed \/ FlipUnderWay \/ page.share.at # "idle" \/ page.screen # NoTrack)
             \in BOOLEAN
      BY <1>1 DEF Pasts
    <3> QED
      BY <1>1, <1>2, <3>1 DEF Pasts, ClickFlip
  <2>5. page' = page /\ tracks' = tracks
    BY <1>2 DEF ClickFlip
  <2> QED
    BY <1>1, <2>3, <2>4, <2>5, PartsTyped
<1>3. CASE FlipFails(f)
  <2>1. flip' \in [Flips -> Switch(Len(tracks))]
    BY <1>1, <1>3, NoFlipType DEF FlipFails
  <2>2. page' = page /\ tracks' = tracks /\ past' = past
    BY <1>3 DEF FlipFails
  <2> QED
    BY <1>1, <2>1, <2>2, PartsTyped
<1>4. CASE FlipGot(f)
  <2> DEFINE ts == Captured("flipped", TRUE, TRUE)
  <2>1. ts \in Seq(Track) /\ Len(ts) = New /\ New \in Nat \ {0} /\ Len(tracks) <= New
    BY CapturedType
  <2>2. PICK i \in Nat : \/ FlipEnds(f, page, ts, New)
                         \/ /\ flip' = [flip EXCEPT ![f].at = "replacing", ![f].new = New,
                                                    ![f].slot = i]
                            /\ Step(page, ts)
                            /\ UNCHANGED past
    <3>1. Len(page.senders) \in Nat
      BY <1>1, LenProperties DEF Pages
    <3>2. \/ FlipEnds(f, page, ts, New)
          \/ \E i \in 1 .. Len(page.senders) :
                /\ flip' = [flip EXCEPT ![f].at = "replacing", ![f].new = New,
                                        ![f].slot = i]
                /\ Step(page, ts)
                /\ UNCHANGED past
      BY <1>4 DEF FlipGot
    <3> HIDE DEF ts
    <3>3. 0 \in Nat /\ \A i \in 1 .. Len(page.senders) : i \in Nat
      BY <3>1
    <3> QED
      BY <3>2, <3>3
  <2> HIDE DEF ts
  <2>3. Typed(page, ts) /\ flip \in [Flips -> Switch(New)] /\ New \in 0 .. New /\ New \in 1 .. New
    BY <2>1, StillTyped
  <2>4. CASE FlipEnds(f, page, ts, New)
    BY <2>1, <2>3, <2>4, FlipEndsTypes
  <2>5. CASE /\ flip' = [flip EXCEPT ![f].at = "replacing", ![f].new = New, ![f].slot = i]
             /\ Step(page, ts)
             /\ UNCHANGED past
    <3>1. [flip[f] EXCEPT !.at = "replacing", !.new = New, !.slot = i] \in Switch(New)
      BY <2>3 DEF Switch
    <3>2. flip' \in [Flips -> Switch(New)]
      BY <2>3, <2>5, <3>1
    <3> QED
      BY <1>1, <2>1, <2>3, <2>5, <3>2, PartsTyped DEF Step
  <2> QED
    BY <2>2, <2>4, <2>5
<1>5. CASE FlipReplaced(f) \/ FlipLost(f)
  <2> DEFINE s == [page EXCEPT !.senders[flip[f].slot] = flip[f].new]
  <2>1. flip[f].new \in 0 .. Len(tracks) /\ flip[f].new # NoTrack
    BY <1>1, <1>5 DEF Switched, FlipReplaced, FlipLost, Switch
  <2>2. flip[f].new \in 1 .. Len(tracks)
    BY <1>1, <2>1 DEF NoTrack
  <2>3. /\ [page.senders EXCEPT ![flip[f].slot] = flip[f].new] \in Seq(0 .. Len(tracks))
        /\ page.senders = <<>> <=> [page.senders EXCEPT ![flip[f].slot] = flip[f].new] = <<>>
    <3>1. page.senders \in Seq(0 .. Len(tracks))
      BY <1>1 DEF Pages
    <3> DEFINE e == flip[f].new
               i == flip[f].slot
    <3>2. e \in 0 .. Len(tracks)
      BY <2>1
    <3> HIDE DEF e, i
    <3>3. /\ [page.senders EXCEPT ![i] = e] \in Seq(0 .. Len(tracks))
          /\ page.senders = <<>> <=> [page.senders EXCEPT ![i] = e] = <<>>
      BY <3>1, <3>2, FirstReplaced
    <3> QED
      BY <3>3 DEF e, i
  <2>4. s \in Pages(Len(tracks)) /\ s.pc = page.pc
        /\ s.senders = [page.senders EXCEPT ![flip[f].slot] = flip[f].new]
    BY <1>1, <2>3 DEF Pages
  <2>5. FlipEnds(f, s, tracks, flip[f].new) \/ FlipEnds(f, page, tracks, flip[f].new)
    BY <1>5 DEF FlipReplaced, FlipLost
  <2> HIDE DEF s
  <2>6. Typed(s, tracks) /\ Len(tracks) <= Len(tracks)
    BY <1>1, <2>3, <2>4 DEF Typed
  <2> QED
    BY <1>1, <2>2, <2>5, <2>6, FlipEndsTypes
<1> QED
  BY <1>2, <1>3, <1>4, <1>5

LEMMA CloseTypes ==
    ASSUME TypeOK, CloseConnection
    PROVE  flip' \in [Flips -> Switch(Len(tracks))] /\ past' \in Pasts
<1>1. /\ past \in Pasts /\ flip \in [Flips -> Switch(Len(tracks))]
  BY TypesOfParts DEF Pasts
<1>2. \A f \in Flips : [flip[f] EXCEPT !.lost = @ \/ flip[f].at = "replacing"]
                          \in Switch(Len(tracks))
  BY <1>1 DEF Switch
<1>3. flip' \in [Flips -> Switch(Len(tracks))]
  BY <1>1, <1>2 DEF CloseConnection
<1>4. /\ (past.dropped \/ Awaited) \in BOOLEAN
      /\ (past.crossed \/ \E f \in Flips : flip[f].at = "replacing") \in BOOLEAN
  BY <1>1 DEF Pasts
<1>5. past' \in Pasts
  BY <1>1, <1>4 DEF CloseConnection, Pasts
<1> QED
  BY <1>3, <1>5

LEMMA ConnectionTypes ==
    ASSUME TypeOK, EnsurePC \/ PeerLeaves \/ TearDown
    PROVE  TypeOK'
<1>1. /\ Typed(page, tracks) /\ Len(tracks) \in Nat /\ tracks \in Seq(Track)
      /\ past \in Pasts /\ flip \in [Flips -> Switch(Len(tracks))]
      /\ page \in Pages(Len(tracks)) /\ page.share \in Shares(Len(tracks))
      /\ page.video \in Seq(1 .. Len(tracks))
  BY TypesOfParts, LenProperties DEF Typed, Pages, Pasts
<1>2. ASSUME NEW s \in Pages(Len(tracks)), NEW ts \in Seq(Track), Len(ts) = Len(tracks)
      PROVE  Typed(Closed(s), ts)
  <2>1. [s.share EXCEPT !.lost = @ \/ Awaited] \in Shares(Len(tracks)) /\ <<>> \in Seq(0 .. Len(tracks))
    BY EmptySeq DEF Pages, Shares
  <2>2. Closed(s) \in Pages(Len(tracks)) /\ Closed(s).pc = FALSE /\ Closed(s).senders = <<>>
    BY <2>1 DEF Pages, Closed
  <2> QED
    BY <1>2, <2>2 DEF Typed
<1>3. CASE EnsurePC
  <2> DEFINE senders == IF page.video = <<>> THEN <<NoTrack>> ELSE page.video
  <2>1. page.video \in Seq(0 .. Len(tracks))
    <3>1. 1 .. Len(tracks) \subseteq 0 .. Len(tracks)
      OBVIOUS
    <3> QED
      BY <1>1, <3>1, SeqMonotonic
  <2>2. senders \in Seq(0 .. Len(tracks)) /\ senders # <<>>
    <3>1. <<NoTrack>> \in Seq(0 .. Len(tracks)) /\ <<NoTrack>> # <<>>
      BY <1>1 DEF NoTrack
    <3> QED
      BY <2>1, <3>1
  <2>3. page' = [page EXCEPT !.pc = TRUE, !.sendrecv = page.video # <<>>, !.senders = senders]
        /\ tracks' = tracks /\ flip' = flip /\ past' = past
    BY <1>3 DEF EnsurePC
  <2> HIDE DEF senders
  <2>4. page' \in Pages(Len(tracks)) /\ page'.pc = TRUE /\ page'.senders = senders
    BY <1>1, <2>2, <2>3 DEF Pages
  <2>5. Typed(page, tracks)'
    BY <1>1, <2>2, <2>3, <2>4 DEF Typed
  <2> QED
    BY <1>1, <2>3, <2>5, PartsTyped
<1>4. CASE PeerLeaves
  BY <1>1, <1>2, <1>4, CloseTypes, PartsTyped DEF PeerLeaves, Step
<1>5. CASE TearDown
  <2> DEFINE s == [page EXCEPT !.torn = TRUE, !.stream = FALSE, !.mic = FALSE, !.video = <<>>,
                               !.screen = NoTrack, !.restore = {}]
             S == {page.video[i] : i \in DOMAIN page.video}
  <2>1. Step(Closed(s), Stopped(tracks, S)) /\ CloseConnection
    BY <1>5 DEF TearDown
  <2>2. NoTrack \in 0 .. Len(tracks) /\ {} \in CamRestore /\ <<>> \in Seq(1 .. Len(tracks))
    BY <1>1, EmptySeq DEF NoTrack, CamRestore
  <2>3. s \in Pages(Len(tracks))
    BY <1>1, <2>2 DEF Pages
  <2> HIDE DEF s, S
  <2>4. Typed(page, tracks)' /\ Len(tracks') = Len(tracks)
    BY <1>1, <1>2, <2>1, <2>3, StoppedType DEF Step
  <2> QED
    BY <2>1, <2>4, CloseTypes, PartsTyped
<1> QED
  BY <1>3, <1>4, <1>5

LEMMA SwitchedKept ==
    ASSUME TypeOK, Switched(flip), [Next]_vars
    PROVE  Switched(flip')
<1>1. flip \in [Flips -> Switch(Len(tracks))] /\ New # NoTrack
  <2>1. New \in Nat \ {0}
    BY CapturedType
  <2> QED
    BY <2>1, TypesOfParts DEF NoTrack
<1>2. CASE flip' = flip
  BY <1>2
<1>3. ASSUME NEW f \in Flips, flip' = [flip EXCEPT ![f] = NoFlip]
      PROVE  Switched(flip')
  BY <1>1, <1>3 DEF Switched, NoFlip
<1>4. ASSUME NEW f \in Flips, ClickFlip(f)
      PROVE  Switched(flip')
  BY <1>1, <1>4 DEF ClickFlip, Switched, NoFlip
<1>5. ASSUME NEW f \in Flips, FlipGot(f)
      PROVE  Switched(flip')
  <2>1. \/ flip' = [flip EXCEPT ![f] = NoFlip]
        \/ \E i : flip' = [flip EXCEPT ![f].at = "replacing", ![f].new = New, ![f].slot = i]
    BY <1>5 DEF FlipGot, FlipEnds
  <2>2. ASSUME NEW i,
               flip' = [flip EXCEPT ![f].at = "replacing", ![f].new = New, ![f].slot = i]
        PROVE  Switched(flip')
    <3>1. flip'[f].new = New /\ \A g \in Flips \ {f} : flip'[g] = flip[g]
      BY <1>1, <2>2 DEF Switch
    <3> QED
      BY <1>1, <3>1 DEF Switched
  <2> QED
    BY <1>3, <2>1, <2>2
<1>6. ASSUME NEW f \in Flips, FlipFails(f) \/ FlipReplaced(f) \/ FlipLost(f)
      PROVE  Switched(flip')
  BY <1>3, <1>6 DEF FlipFails, FlipReplaced, FlipLost, FlipEnds
<1>7. CASE CloseConnection
  BY <1>1, <1>7 DEF CloseConnection, Switched, Switch
<1>8. CASE \/ Completes \/ LostReturns \/ Start \/ ClickShare \/ PickCancelled \/ Picked
           \/ CaptureEnds \/ ToggleCamera \/ EnsurePC
  <2>1. flip' = flip
    BY <1>8 DEF Completes, Replaced, Offered, Restore, LostReturns, Start, ClickShare,
                PickCancelled, Picked, CaptureEnds, ToggleCamera, EnsurePC
  <2> QED
    BY <1>2, <2>1
<1> QED
  BY <1>2, <1>4, <1>5, <1>6, <1>7, <1>8 DEF Next, PeerLeaves, TearDown, vars

LEMMA StepTypes ==
    ASSUME TypeOK, Switched(flip), [Next]_vars
    PROVE  TypeOK'
<1>1. CASE UNCHANGED vars
  <2>1. page' = page /\ tracks' = tracks /\ flip' = flip /\ past' = past
    BY <1>1 DEF vars
  <2> QED
    BY <2>1, TypesOfParts, PartsTyped DEF Typed, Pasts
<1>2. CASE Next
  BY <1>2, ShareTypes, CaptureTypes, SwitchTypes, ConnectionTypes DEF Next, Completes
<1> QED
  BY <1>1, <1>2

-------------------------------------------------------------------------------
(* The parts of the page keep it sane                                      *)

\* What the parts of the invariant look at.
LEMMA Fields ==
    ASSUME NEW s, NEW ts, Typed(s, ts)
    PROVE  /\ ts \in Seq(Track) /\ Len(ts) \in Nat
           /\ s.video \in Seq(1 .. Len(ts)) /\ s.screen \in 0 .. Len(ts)
           /\ s.video # <<>> => Head(s.video) \in 1 .. Len(ts)
           /\ s.started \in BOOLEAN /\ s.torn \in BOOLEAN /\ s.stream \in BOOLEAN
           /\ s.pc \in BOOLEAN /\ s.sendrecv \in BOOLEAN /\ s.share.lost \in BOOLEAN
           /\ s.share \in Shares(Len(ts)) /\ s.senders \in Seq(0 .. Len(ts))
           /\ s.pc <=> s.senders # <<>>
           /\ s.restore \in CamRestore /\ s.share.resume \in CamRestore
           /\ s.share.at \in {"idle", "picking", "replacing", "offering", "restoring"}
<1>1. ts \in Seq(Track) /\ Len(ts) \in Nat /\ s \in Pages(Len(ts)) /\ (s.pc <=> s.senders # <<>>)
  BY LenProperties DEF Typed
<1>2. s.video \in Seq(1 .. Len(ts)) /\ s.share \in Shares(Len(ts))
  BY <1>1 DEF Pages
<1>3. s.video # <<>> => Head(s.video) \in 1 .. Len(ts)
  BY <1>2, HeadTailProperties
<1>4. /\ s.share.lost \in BOOLEAN /\ s.share.resume \in CamRestore
      /\ s.share.at \in {"idle", "picking", "replacing", "offering", "restoring"}
  BY <1>2 DEF Shares
<1> QED
  BY <1>1, <1>2, <1>3, <1>4 DEF Pages

LEMMA AppliedSane ==
    ASSUME NEW s, NEW ts, NEW fl, NEW c, Typed(s, ts), Sane(s, ts, fl, c)
    PROVE  Sane(Applied(s), ts, fl, c)
<1>1. OneVideo(Applied(s), ts) /\ NotYet(Applied(s), ts, fl) /\ Waiting(Applied(s))
  BY AppliedSame DEF Sane, Orderly, OneVideo, NotYet, Waiting
<1>2. Over(Applied(s), ts) /\ Sending(Applied(s))
  BY AppliedSame DEF Sane, Orderly, Over, Sending, Shown
<1>3. Switching(Applied(s), ts, fl)
  BY AppliedSame DEF Sane, Orderly, Switching
<1>4. Running(Applied(s), ts, fl) /\ Muted(Applied(s), ts, c)
  BY AppliedSame DEF Sane, Orderly, Running, Muted
<1> QED
  BY <1>1, <1>2, <1>3, <1>4 DEF Sane, Orderly

\* A track that stops disturbs nothing.
LEMMA StoppedSane ==
    ASSUME NEW s, NEW ts, NEW fl, NEW c, NEW S, Typed(s, ts), Sane(s, ts, fl, c),
           \A f \in Flips : fl[f].at = "replacing" => fl[f].new \in 1 .. Len(ts)
    PROVE  Sane(s, Stopped(ts, S), fl, c)
<1> DEFINE us == Stopped(ts, S)
<1>1. /\ ts \in Seq(Track) /\ Len(us) = Len(ts) /\ Len(ts) \in Nat
      /\ s.screen \in 0 .. Len(ts) /\ (s.video # <<>> => Head(s.video) \in 1 .. Len(ts))
  BY StoppedType, Fields
<1>2. \A t \in 1 .. Len(ts) : us[t] = [ts[t] EXCEPT !.live = @ /\ t \notin S] /\ ts[t] \in Track
  BY <1>1, StoppedType, ElementOfSeq
<1> HIDE DEF us
<1>3. \A t \in 1 .. Len(ts) :
         /\ us[t].kind = ts[t].kind /\ us[t].enabled = ts[t].enabled
         /\ us[t].live => ts[t].live
  BY <1>2 DEF Track
<1>4. OneVideo(s, us) /\ NotYet(s, us, fl)
  BY <1>1, <1>3 DEF Sane, Orderly, OneVideo, NotYet, Camera, NoTrack
<1>5. Over(s, us)
  BY <1>1, <1>3 DEF Sane, Orderly, Over
<1>6. Switching(s, us, fl)
  BY <1>1, <1>3 DEF Sane, Orderly, Switching, Camera
<1>7. Running(s, us, fl)
  BY <1>1, <1>3 DEF Sane, Orderly, Running, Camera
<1>8. Muted(s, us, c)
  BY <1>1, <1>3 DEF Sane, Orderly, Muted, Camera
<1> QED
  BY <1>4, <1>5, <1>6, <1>7, <1>8 DEF Sane, Orderly, us

LEMMA IdleOrderly ==
    ASSUME NEW s, NEW ts, NEW fl, NEW c, Typed(s, ts), Orderly(s, ts, fl, c)
    PROVE  Orderly([s EXCEPT !.share = Idle], ts, fl, c)
<1> DEFINE u == [s EXCEPT !.share = Idle]
<1>1. /\ u.share.at = "idle" /\ ~u.share.lost
      /\ u.started = s.started /\ u.torn = s.torn /\ u.stream = s.stream /\ u.video = s.video
      /\ u.screen = s.screen /\ u.restore = s.restore /\ u.pc = s.pc
  BY DEF Typed, Pages, Idle
<1> HIDE DEF u
<1>2. OneVideo(u, ts) /\ NotYet(u, ts, fl) /\ Waiting(u)
  BY <1>1 DEF Orderly, OneVideo, NotYet, Waiting
<1>3. Over(u, ts)
  BY <1>1 DEF Orderly, Over
<1>4. Switching(u, ts, fl)
  BY <1>1 DEF Orderly, Switching
<1>5. Running(u, ts, fl) /\ Muted(u, ts, c)
  BY <1>1 DEF Orderly, Running, Muted
<1> QED
  BY <1>2, <1>3, <1>4, <1>5 DEF Orderly, u

\* A page that stops waiting is sane if its connection sends what is shown.
LEMMA IdleSane ==
    ASSUME NEW s, NEW ts, NEW fl, NEW c, Typed(s, ts), Sane(s, ts, fl, c),
           s.pc => s.senders[1] = Shown(s) /\ s.sendrecv = (s.video # <<>>)
    PROVE  Sane([s EXCEPT !.share = Idle], ts, fl, c)
<1> DEFINE u == [s EXCEPT !.share = Idle]
<1>1. /\ u.share.at = "idle" /\ u.torn = s.torn /\ u.video = s.video /\ u.pc = s.pc
      /\ u.senders = s.senders /\ u.sendrecv = s.sendrecv
  BY DEF Typed, Pages, Idle
<1> HIDE DEF u
<1>2. Sending(u)
  BY <1>1 DEF Sane, Sending, Shown
<1> QED
  BY <1>2, IdleOrderly DEF Sane, u

LEMMA StopEndsSane ==
    ASSUME NEW s, NEW ts, NEW fl, NEW c, Typed(s, ts), StopEnds(s, ts),
           Sane([s EXCEPT !.share = Idle], ts, fl, c)
    PROVE  Sane(page', tracks', fl, c)
<1> DEFINE i == [s EXCEPT !.share = Idle]
           x == s.stream /\ (s.video # <<>> \/ s.mic)
           u == [s EXCEPT !.share = Idle, !.stream = x]
<1>1. Step(Applied(u), ts)
  BY DEF StopEnds
<1>2. /\ u.share = i.share /\ u.started = i.started /\ u.torn = i.torn /\ u.video = i.video
      /\ u.screen = i.screen /\ u.restore = i.restore /\ u.pc = i.pc
      /\ u.senders = i.senders /\ u.sendrecv = i.sendrecv
      /\ u.stream => i.stream
      /\ i.stream /\ i.video # <<>> => u.stream
      /\ i.share.at = "idle"
  BY DEF Typed, Pages, Idle
<1>3. Typed(u, ts)
  <2>1. u \in Pages(Len(ts)) /\ u.pc = s.pc /\ u.senders = s.senders
    BY IdleShare, LenProperties DEF Typed, Pages
  <2> QED
    BY <2>1 DEF Typed
<1> HIDE DEF u, i, x
<1>4. Sane(i, ts, fl, c)
  BY DEF i
<1>5. OneVideo(u, ts) /\ NotYet(u, ts, fl) /\ Waiting(u)
  BY <1>2, <1>4 DEF Sane, Orderly, OneVideo, NotYet, Waiting
<1>6. Over(u, ts) /\ Sending(u)
  BY <1>2, <1>4 DEF Sane, Orderly, Over, Sending, Shown
<1>7. Switching(u, ts, fl)
  <2>1. \A f \in Flips : <<fl[f].old>> # <<>>
    OBVIOUS
  <2> QED
    BY <1>2, <1>4, <2>1 DEF Sane, Orderly, Switching
<1>8. Running(u, ts, fl) /\ Muted(u, ts, c)
  BY <1>2, <1>4 DEF Sane, Orderly, Running, Muted
<1>9. Sane(u, ts, fl, c)
  BY <1>5, <1>6, <1>7, <1>8 DEF Sane, Orderly
<1> QED
  BY <1>1, <1>3, <1>9, AppliedSane DEF Step

\* The page starts to wait for its connection to send what is shown.
LEMMA StartReplacing ==
    ASSUME NEW s, NEW ts, NEW fl, NEW c, NEW w \in Shares(Len(ts)), Typed(s, ts),
           Orderly([s EXCEPT !.share = Idle], ts, fl, c),
           w.at = "replacing", ~w.lost, w.track = Shown(s),
           s.pc, ~s.torn, s.senders = <<s.senders[1]>>,
           \A f \in Flips : fl[f].at = "idle"
    PROVE  Sane([s EXCEPT !.share = w], ts, fl, c)
<1> DEFINE i == [s EXCEPT !.share = Idle]
           u == [s EXCEPT !.share = w]
<1>1. /\ u.share = w /\ u.started = i.started /\ u.torn = i.torn /\ u.video = i.video
      /\ u.screen = i.screen /\ u.restore = i.restore /\ u.pc = i.pc
      /\ u.senders = i.senders /\ u.sendrecv = i.sendrecv /\ u.stream = i.stream
      /\ u.video = s.video /\ u.senders = s.senders /\ u.pc = s.pc /\ u.torn = s.torn
  BY DEF Typed, Pages
<1> HIDE DEF u, i
<1>2. Orderly(i, ts, fl, c)
  BY DEF i
<1>3. OneVideo(u, ts) /\ NotYet(u, ts, fl) /\ Waiting(u)
  BY <1>1, <1>2 DEF Orderly, OneVideo, NotYet, Waiting
<1>4. Over(u, ts) /\ Sending(u)
  BY <1>1, <1>2 DEF Orderly, Over, Sending, Shown
<1>5. Switching(u, ts, fl)
  BY <1>1, <1>2 DEF Orderly, Switching
<1>6. Running(u, ts, fl) /\ Muted(u, ts, c)
  BY <1>1, <1>2 DEF Orderly, Running, Muted
<1> QED
  BY <1>3, <1>4, <1>5, <1>6 DEF Sane, Orderly, u

LEMMA StopSendsSane ==
    ASSUME NEW s, NEW ts, NEW fl, NEW c, NEW t \in 0 .. Len(ts), Typed(s, ts),
           Orderly([s EXCEPT !.share = Idle], ts, fl, c), t = Shown(s),
           s.pc => ~s.torn /\ s.senders = <<s.senders[1]>>,
           \A f \in Flips : fl[f].at = "idle",
           StopSends(s, ts, t)
    PROVE  Sane(page', tracks', fl, c)
<1> DEFINE w == [Idle EXCEPT !.at = "replacing", !.track = t, !.stopping = TRUE]
<1>1. w \in Shares(Len(ts)) /\ w.at = "replacing" /\ ~w.lost /\ w.track = t
  BY DEF Idle, Shares, CamRestore
<1>2. CASE s.pc
  <2>1. Step([s EXCEPT !.share = w], ts)
    BY <1>2 DEF StopSends
  <2> HIDE DEF w
  <2>2. Sane([s EXCEPT !.share = w], ts, fl, c)
    BY <1>1, <1>2, StartReplacing
  <2> QED
    BY <2>1, <2>2 DEF Step
<1>3. CASE ~s.pc
  <2>1. ~[s EXCEPT !.share = Idle].pc
    BY <1>3 DEF Typed, Pages
  <2>2. Sane([s EXCEPT !.share = Idle], ts, fl, c)
    BY <2>1 DEF Sane, Sending
  <2> QED
    BY <1>3, <2>2, StopEndsSane DEF StopSends
<1> QED
  BY <1>2, <1>3 DEF Typed, Pages

\* The end of a share: the screen is the only track of the stream, and nothing
\* else is under way.
LEMMA StopShareSane ==
    ASSUME NEW s, NEW ts, NEW fl, NEW c, Typed(s, ts), Sane(s, ts, fl, c),
           s.share.at = "idle", s.screen # NoTrack, StopShare(s, ts)
    PROVE  Sane(page', tracks', fl, c)
<1> DEFINE v == Without(s.video, s.screen)
           u == [s EXCEPT !.screen = NoTrack, !.restore = {}, !.video = v]
           us == Stopped(ts, {s.screen})
           i == [u EXCEPT !.share = Idle]
           w == [Idle EXCEPT !.at = "restoring", !.resume = s.restore]
           r == [u EXCEPT !.share = w]
<1>1. v = <<>>
  BY WithoutOnly DEF Sane, Orderly, OneVideo
<1>2. /\ us \in Seq(Track) /\ Len(us) = Len(ts) /\ Len(ts) \in Nat
      /\ s.screen \in 1 .. Len(ts) /\ s.restore \in CamRestore
  BY StoppedType, Fields DEF NoTrack
<1>3. \A t \in 1 .. Len(ts) :
         /\ us[t].kind = ts[t].kind /\ us[t].enabled = ts[t].enabled
         /\ us[t].live => ts[t].live
  <2> DEFINE S == {s.screen}
  <2>1. ts \in Seq(Track) /\ \A t \in 1 .. Len(ts) : ts[t] \in Track
    BY Fields, ElementOfSeq
  <2> HIDE DEF S
  <2>2. \A t \in 1 .. Len(ts) : Stopped(ts, S)[t] = [ts[t] EXCEPT !.live = @ /\ t \notin S]
    BY <2>1, StoppedType
  <2>3. us = Stopped(ts, S)
    BY DEF S
  <2> HIDE DEF us
  <2> QED
    BY <2>1, <2>2, <2>3 DEF Track
<1>4. /\ w \in Shares(Len(ts)) /\ w.at = "restoring" /\ w.resume = s.restore /\ ~w.lost
      /\ Idle.at = "idle" /\ ~Idle.lost
  BY <1>2, RestoringShare, IdleShare DEF Shares, Idle
<1> HIDE DEF v, us, w
<1>5. /\ {} \in CamRestore /\ NoTrack \in 0 .. Len(ts) /\ v \in Seq(1 .. Len(ts))
  BY <1>1, <1>2, EmptySeq DEF NoTrack, CamRestore
<1>6. /\ u \in Pages(Len(ts)) /\ u.screen = NoTrack /\ u.restore = {} /\ u.video = <<>>
      /\ u.started = s.started /\ u.torn = s.torn /\ u.stream = s.stream
      /\ u.pc = s.pc /\ u.senders = s.senders /\ u.sendrecv = s.sendrecv
  BY <1>1, <1>5 DEF Typed, Pages
<1> HIDE DEF u
<1>7. Typed(u, us)
  BY <1>2, <1>6 DEF Typed
<1>8. \A f \in Flips : fl[f].at = "idle" /\ ~fl[f].lost
  BY DEF Sane, Orderly, Switching
<1>9. \A t \in 1 .. Len(ts) : Camera(us, t) /\ us[t].live =>
          s.torn
  <2> SUFFICES ASSUME NEW t \in 1 .. Len(ts), Camera(us, t), us[t].live
               PROVE  s.torn
    OBVIOUS
  <2>1. Camera(ts, t) /\ ts[t].live
    BY <1>3 DEF Camera
  <2>2. s.video # <<t>>
    BY <2>1 DEF Sane, Orderly, OneVideo, Camera
  <2> QED
    BY <1>8, <2>1, <2>2 DEF Sane, Orderly, Running
<1>10. /\ s.started /\ (s.pc => ~s.torn /\ s.senders = <<s.senders[1]>>)
       /\ s.restore \subseteq {c} /\ (~s.torn => s.stream)
       /\ s.torn => s.restore = {} /\ \A t \in 1 .. Len(us) : us[t].kind = "restored" => ~us[t].live
  BY <1>2, <1>3 DEF Sane, Orderly, NotYet, Sending, Muted, Over, OneVideo
<1>11. CASE s.restore = {}
  <2>1. StopSends(u, us, NoTrack)
    BY <1>11 DEF StopShare, u, us, v
  <2>2. /\ i.share = Idle /\ i.screen = NoTrack /\ i.restore = {} /\ i.video = <<>>
        /\ i.started = s.started /\ i.torn = s.torn /\ i.stream = s.stream /\ i.pc = s.pc
    BY <1>6 DEF Pages
  <2> HIDE DEF i
  <2>3. OneVideo(i, us) /\ NotYet(i, us, fl) /\ Waiting(i) /\ Over(i, us)
    BY <1>4, <1>10, <2>2 DEF OneVideo, NotYet, Waiting, Over
  <2>4. Switching(i, us, fl)
    BY <1>8 DEF Switching
  <2>5. Running(i, us, fl) /\ Muted(i, us, c)
    BY <1>2, <1>4, <1>9, <2>2 DEF Running, Muted
  <2>6. Orderly([u EXCEPT !.share = Idle], us, fl, c)
    BY <2>3, <2>4, <2>5 DEF Orderly, i
  <2>7. NoTrack = Shown(u) /\ NoTrack \in 0 .. Len(us)
    BY <1>2, <1>5, <1>6 DEF Shown
  <2> QED
    BY <1>6, <1>7, <1>8, <1>10, <2>1, <2>6, <2>7, StopSendsSane
<1>12. CASE s.restore # {}
  <2>1. Step(r, us)
    BY <1>12 DEF StopShare, u, us, v, w
  <2>2. /\ r.share = w /\ r.screen = NoTrack /\ r.restore = {} /\ r.video = <<>>
        /\ r.started = s.started /\ r.torn = s.torn /\ r.stream = s.stream /\ r.pc = s.pc
        /\ r.senders = s.senders
    BY <1>6 DEF Pages
  <2> HIDE DEF r, i
  <2>3. OneVideo(r, us) /\ NotYet(r, us, fl) /\ Waiting(r) /\ Over(r, us)
    BY <1>4, <1>10, <1>12, <2>2 DEF OneVideo, NotYet, Waiting, Over
  <2>4. Switching(r, us, fl)
    BY <1>8 DEF Switching
  <2>5. Running(r, us, fl) /\ Muted(r, us, c)
    BY <1>2, <1>4, <1>9, <1>10, <1>12, <2>2 DEF Running, Muted
  <2>6. Sending(r)
    BY <1>4, <1>10, <2>2 DEF Sending
  <2> QED
    BY <2>1, <2>3, <2>4, <2>5, <2>6 DEF Sane, Orderly, Step
<1> QED
  BY <1>11, <1>12

LEMMA ShareEndsSane ==
    ASSUME NEW s, NEW ts, NEW fl, NEW c, Typed(s, ts), ShareEnds(s, ts),
           Sane([s EXCEPT !.share = Idle], ts, fl, c)
    PROVE  Sane(page', tracks', fl, c)
<1> DEFINE i == [s EXCEPT !.share = Idle]
<1>1. Typed(i, ts) /\ i.share.at = "idle"
  <2>1. i.share = Idle /\ Idle.at = "idle"
    BY DEF Typed, Pages, Idle
  <2> QED
    BY <2>1, IdleShare, LenProperties, WaitsTyped DEF Typed
<1>2. \/ StopShare(Applied(i), ts) /\ Applied(i).screen # NoTrack
      \/ Step(Applied(i), ts)
  BY DEF ShareEnds
<1>3. Sane(i, ts, fl, c)
  OBVIOUS
<1> HIDE DEF i
<1>4. Typed(Applied(i), ts) /\ Sane(Applied(i), ts, fl, c) /\ Applied(i).share.at = "idle"
  BY <1>1, <1>3, AppliedTyped, AppliedSane, AppliedSame
<1> QED
  BY <1>2, <1>4, StopShareSane DEF Step

LEMMA ReturnSane ==
    ASSUME NEW s, NEW ts, NEW fl, NEW c, Typed(s, ts), Return(s, ts),
           Sane([s EXCEPT !.share = Idle], ts, fl, c)
    PROVE  Sane(page', tracks', fl, c)
BY StopEndsSane, ShareEndsSane DEF Return

-------------------------------------------------------------------------------
(* Every action keeps the page sane                                        *)

\* The page now.
Whole == Sane(page, tracks, flip, On(past))

LEMMA NewOfSwitch ==
    ASSUME TypeOK, Switched(flip)
    PROVE  \A f \in Flips : flip[f].at = "replacing" => flip[f].new \in 1 .. Len(tracks)
<1>1. flip \in [Flips -> Switch(Len(tracks))] /\ Len(tracks) \in Nat
  BY TypesOfParts, LenProperties DEF Typed
<1>2. \A f \in Flips : flip[f].new \in 0 .. Len(tracks)
  BY <1>1 DEF Switch
<1>3. \A f \in Flips : flip[f].at = "replacing" => flip[f].new # NoTrack
  BY DEF Switched
<1> QED
  BY <1>1, <1>2, <1>3 DEF NoTrack

LEMMA ReplacedSane ==
    ASSUME TypeOK, Whole, Replaced
    PROVE  Sane(page', tracks', flip', On(past'))
<1> DEFINE t == page.share.track
           s == [page EXCEPT !.senders[1] = t, !.sendrecv = t # NoTrack]
           r == [s EXCEPT !.share.at = "offering"]
<1>1. /\ Typed(page, tracks) /\ page \in Pages(Len(tracks)) /\ Len(tracks) \in Nat
      /\ page.share \in Shares(Len(tracks)) /\ page.senders \in Seq(0 .. Len(tracks))
  BY TypesOfParts, Fields DEF Typed
<1>2. /\ page.share.at = "replacing" /\ ~page.share.lost
      /\ Return(s, tracks) \/ Step(r, tracks)
      /\ flip' = flip /\ past' = past
  BY DEF Replaced
<1>3. page.pc /\ ~page.torn /\ page.senders = <<page.senders[1]>> /\ t = Shown(page)
  BY <1>2 DEF Whole, Sane, Orderly, Waiting, Sending
<1>4. t # NoTrack <=> page.video # <<>>
  BY <1>1, <1>3, Fields DEF Shown, NoTrack
<1>5. [page.senders EXCEPT ![1] = t] = <<t>> /\ t \in 0 .. Len(tracks)
  <2>1. t \in 0 .. Len(tracks)
    BY <1>1 DEF Shares
  <2> DEFINE e == page.senders[1]
  <2>2. page.senders = <<e>>
    BY <1>3
  <2> HIDE DEF t, e
  <2>3. [<<e>> EXCEPT ![1] = t] = <<t>>
    OBVIOUS
  <2> QED
    BY <2>1, <2>2, <2>3
<1>6. /\ s \in Pages(Len(tracks)) /\ s.senders = [page.senders EXCEPT ![1] = t]
      /\ s.sendrecv = (t # NoTrack)
      /\ s.started = page.started /\ s.torn = page.torn /\ s.stream = page.stream
      /\ s.video = page.video /\ s.screen = page.screen /\ s.restore = page.restore
      /\ s.pc = page.pc /\ s.share = page.share
  <2>1. [page.senders EXCEPT ![1] = t] \in Seq(0 .. Len(tracks))
    <3>1. \A x \in 0 .. Len(tracks) : <<x>> \in Seq(0 .. Len(tracks))
      OBVIOUS
    <3> QED
      BY <1>5, <3>1
  <2>2. (t # NoTrack) \in BOOLEAN
    OBVIOUS
  <2> QED
    BY <1>1, <2>1, <2>2 DEF Pages
<1>7. r.senders = s.senders /\ r.sendrecv = s.sendrecv /\ r.share.at = "offering"
      /\ r.share.lost = s.share.lost /\ r.share.track = s.share.track
      /\ r.started = s.started /\ r.torn = s.torn /\ r.stream = s.stream
      /\ r.video = s.video /\ r.screen = s.screen /\ r.restore = s.restore
      /\ r.pc = s.pc
  <2>1. s.share \in Shares(Len(tracks))
    BY <1>1, <1>6
  <2> HIDE DEF s
  <2> QED
    BY <1>6, <2>1 DEF Pages, Shares
<1> HIDE DEF r, s, t
<1>8. Typed(s, tracks) /\ s.senders = <<t>>
  <2>1. <<t>> # <<>>
    OBVIOUS
  <2> QED
    BY <1>1, <1>3, <1>5, <1>6, <2>1 DEF Typed
<1>9. ASSUME NEW u, u = s \/ u = r
      PROVE  Sane(u, tracks, flip, On(past))
  <2>1. /\ u.senders = <<t>> /\ u.senders[1] = t /\ u.sendrecv = (t # NoTrack)
        /\ u.started = page.started /\ u.torn = page.torn /\ u.stream = page.stream
        /\ u.video = page.video /\ u.screen = page.screen /\ u.restore = page.restore
        /\ u.pc = page.pc /\ ~u.share.lost /\ u.share.at \in {"replacing", "offering"}
        /\ u.share.track = t
    BY <1>2, <1>6, <1>7, <1>8, <1>9, OnlyTrack DEF t
  <2>2. OneVideo(u, tracks) /\ NotYet(u, tracks, flip) /\ Waiting(u) /\ Over(u, tracks)
    BY <1>2, <1>3, <2>1 DEF Whole, Sane, Orderly, OneVideo, NotYet, Waiting, Over
  <2>3. Sending(u)
    BY <1>3, <1>4, <2>1 DEF Sending, Shown
  <2>4. Switching(u, tracks, flip)
    BY <1>2 DEF Whole, Sane, Orderly, Switching
  <2>5. Running(u, tracks, flip) /\ Muted(u, tracks, On(past))
    BY <1>2, <1>3, <2>1 DEF Whole, Sane, Orderly, Running, Muted
  <2> QED
    BY <2>2, <2>3, <2>4, <2>5 DEF Sane, Orderly
<1>10. s.senders[1] = Shown(s) /\ s.sendrecv = (s.video # <<>>)
  BY <1>3, <1>4, <1>6, <1>8, OnlyTrack DEF Shown
<1>11. Sane([s EXCEPT !.share = Idle], tracks, flip, On(past))
  BY <1>8, <1>9, <1>10, IdleSane
<1> QED
  BY <1>2, <1>8, <1>9, <1>11, ReturnSane DEF Step

\* What is awaited comes to its end, or the connection was closed.
LEMMA ReturnsSane ==
    ASSUME TypeOK, Whole, Offered \/ LostReturns \/ PickCancelled
    PROVE  Sane(page', tracks', flip', On(past'))
<1>1. Typed(page, tracks)
  BY TypesOfParts
<1>2. flip' = flip /\ past' = past
  BY DEF Offered, LostReturns, PickCancelled
<1>3. page.share.lost \/ page.share.at \in {"offering", "picking"}
  BY DEF Offered, LostReturns, PickCancelled
<1>4. page.pc => page.senders[1] = Shown(page) /\ page.sendrecv = (page.video # <<>>)
  BY <1>3 DEF Whole, Sane, Sending
<1>5. Sane([page EXCEPT !.share = Idle], tracks, flip, On(past))
  BY <1>1, <1>4, IdleSane DEF Whole
<1>6. Return(page, tracks) \/ Step([page EXCEPT !.share = Idle], tracks)
  BY DEF Offered, LostReturns, PickCancelled
<1> QED
  BY <1>1, <1>2, <1>5, <1>6, ReturnSane DEF Step

LEMMA ClickShareSane ==
    ASSUME TypeOK, Whole, ClickShare, ~past'.crossed
    PROVE  Sane(page', tracks', flip', On(past'))
<1> DEFINE u == [page EXCEPT !.share.at = "picking"]
<1>1. Typed(page, tracks) /\ past \in Pasts /\ page \in Pages(Len(tracks))
  BY TypesOfParts DEF Typed, Pasts
<1>2. /\ ~page.torn /\ page.share.at = "idle" /\ flip' = flip
      /\ past' = [past EXCEPT !.crossed = @ \/ ~page.started \/ FlipUnderWay]
  BY DEF ClickShare
<1>3. On(past') = On(past) /\ page.started /\ ~FlipUnderWay
  BY <1>1, <1>2 DEF Pasts, On
<1>4. CASE page.screen # NoTrack /\ StopShare(page, tracks)
  BY <1>1, <1>2, <1>3, <1>4, StopShareSane DEF Whole
<1>5. CASE page.screen = NoTrack /\ Step(u, tracks)
  <2>1. u.share.at = "picking" /\ u.share.lost = page.share.lost
        /\ u.share.track = page.share.track
        /\ u.started = page.started /\ u.torn = page.torn /\ u.stream = page.stream
        /\ u.video = page.video /\ u.screen = page.screen /\ u.restore = page.restore
        /\ u.pc = page.pc /\ u.senders = page.senders /\ u.sendrecv = page.sendrecv
    <3>1. page.share \in Shares(Len(tracks))
      BY <1>1, Fields
    <3> QED
      BY <1>1, <3>1 DEF Pages, Shares
  <2> HIDE DEF u
  <2>2. OneVideo(u, tracks) /\ NotYet(u, tracks, flip) /\ Waiting(u) /\ Over(u, tracks)
    BY <1>2, <1>3, <1>5, <2>1 DEF Whole, Sane, Orderly, OneVideo, NotYet, Waiting, Over
  <2>3. Sending(u)
    BY <1>2, <2>1 DEF Whole, Sane, Sending, Shown
  <2>4. Switching(u, tracks, flip)
    BY <1>3 DEF Whole, Sane, Orderly, Switching, FlipUnderWay
  <2>5. Running(u, tracks, flip) /\ Muted(u, tracks, On(past))
    BY <1>2, <2>1 DEF Whole, Sane, Orderly, Running, Muted
  <2> QED
    BY <1>2, <1>3, <1>5, <2>2, <2>3, <2>4, <2>5 DEF Sane, Orderly, Step
<1> QED
  BY <1>4, <1>5 DEF ClickShare

LEMMA CaptureEndsSane ==
    ASSUME TypeOK, Switched(flip), Whole, CaptureEnds
    PROVE  Sane(page', tracks', flip', On(past'))
<1>1. /\ Typed(page, tracks) /\ tracks \in Seq(Track)
      /\ flip \in [Flips -> Switch(Len(tracks))]
      /\ flip' = flip /\ past' = past
  BY TypesOfParts DEF Typed, CaptureEnds
<1>2. PICK t \in Tracks :
         LET ts == Stopped(tracks, {t})
         IN  IF page.screen # NoTrack /\ page.share.at = "idle"
             THEN StopShare(page, ts) ELSE Step(page, ts)
  BY DEF CaptureEnds
<1> DEFINE S == {t}
           ts == Stopped(tracks, S)
<1>3. \/ page.screen # NoTrack /\ page.share.at = "idle" /\ StopShare(page, ts)
      \/ Step(page, ts)
  BY <1>2
<1> HIDE DEF S
<1>4. ts \in Seq(Track) /\ Len(ts) = Len(tracks)
  BY <1>1, StoppedType
<1>5. \A f \in Flips : flip[f].at = "replacing" => flip[f].new \in 1 .. Len(tracks)
  BY NewOfSwitch
<1>6. Sane(page, ts, flip, On(past))
  BY <1>1, <1>5, StoppedSane DEF Whole
<1> HIDE DEF ts
<1>7. Typed(page, ts)
  BY <1>1, <1>4 DEF Typed
<1> QED
  BY <1>1, <1>3, <1>6, <1>7, StopShareSane DEF Step

\* A screen is captured; the camera that it displaces is off.
LEMMA PickedSane ==
    ASSUME TypeOK, Whole, Picked
    PROVE  Sane(page', tracks', flip', On(past'))
<1>1. /\ Typed(page, tracks) /\ page \in Pages(Len(tracks)) /\ Len(tracks) \in Nat
      /\ page.video \in Seq(1 .. Len(tracks))
      /\ page.video # <<>> => Head(page.video) \in 1 .. Len(tracks)
      /\ tracks \in Seq(Track) /\ \A t \in 1 .. Len(tracks) : tracks[t] \in Track
      /\ flip' = flip /\ past' = past /\ page.share.at = "picking"
  BY TypesOfParts, Fields, ElementOfSeq DEF Picked, Typed
<1>2. PICK live \in BOOLEAN :
         LET rest == IF page.video = <<>> THEN <<>> ELSE Tail(page.video)
             s == [page EXCEPT !.screen = New, !.stream = TRUE, !.restore = Remembered,
                               !.video = Append(rest, New)]
             ts == Displaced(Captured("screen", live, TRUE))
         IN  IF s.pc
             THEN Step([s EXCEPT !.share = [Idle EXCEPT !.at = "replacing",
                                                        !.track = New]], ts)
             ELSE ShareEnds(s, ts)
  BY DEF Picked
<1> DEFINE rest == IF page.video = <<>> THEN <<>> ELSE Tail(page.video)
           v == Append(rest, New)
           s == [page EXCEPT !.screen = New, !.stream = TRUE, !.restore = Remembered,
                             !.video = v]
           us == Captured("screen", live, TRUE)
           ts == Displaced(us)
           w == [Idle EXCEPT !.at = "replacing", !.track = New]
           i == [s EXCEPT !.share = Idle]
<1>3. IF s.pc THEN Step([s EXCEPT !.share = w], ts) ELSE ShareEnds(s, ts)
  BY <1>2
<1>4. /\ us \in Seq(Track) /\ Len(us) = New /\ New \in Nat \ {0} /\ New = Len(tracks) + 1
      /\ Len(tracks) <= New /\ 1 .. Len(tracks) \subseteq 1 .. New
      /\ \A t \in 1 .. Len(tracks) : us[t] = tracks[t]
      /\ us[New] = [kind |-> "screen", live |-> live, enabled |-> TRUE]
  BY CapturedType
<1>5. /\ page.screen = NoTrack /\ ~page.share.lost /\ page.started
      /\ page.video = <<>> \/ page.video = <<Head(page.video)>>
      /\ \A f \in Flips : flip[f].at = "idle" /\ ~flip[f].lost
  BY <1>1 DEF Whole, Sane, Orderly, OneVideo, NotYet, Waiting, Switching
<1>6. v = <<New>>
  <2> DEFINE h == Head(page.video)
  <2>1. page.video = <<>> \/ page.video = <<h>>
    BY <1>5
  <2> HIDE DEF h
  <2>2. rest = <<>>
    BY <2>1, OnlyTrack
  <2> QED
    BY <2>2, OnlyTrack
<1>7. /\ ts \in Seq(Track) /\ Len(ts) = New
      /\ \A t \in 1 .. New : ts[t].kind = us[t].kind /\ ts[t].enabled = us[t].enabled
                             /\ (ts[t].live => us[t].live)
      /\ page.video # <<>> => ~ts[Head(page.video)].live
  <2> DEFINE S == {Head(page.video)}
  <2> HIDE DEF us
  <2>1. CASE page.video = <<>>
    BY <1>4, <2>1 DEF Displaced
  <2>2. CASE page.video # <<>>
    <3>1. ts = Stopped(us, S) /\ Head(page.video) \in S /\ Head(page.video) \in 1 .. New
      BY <1>1, <1>4, <2>2 DEF Displaced
    <3> HIDE DEF S, ts
    <3>2. /\ ts \in Seq(Track) /\ Len(ts) = New
          /\ \A t \in 1 .. New : ts[t] = [us[t] EXCEPT !.live = @ /\ t \notin S]
      BY <1>4, <3>1, StoppedType
    <3>3. \A t \in 1 .. New : us[t] \in Track
      BY <1>4, ElementOfSeq
    <3>4. \A t \in 1 .. New : /\ ts[t].kind = us[t].kind /\ ts[t].enabled = us[t].enabled
                              /\ ts[t].live = (us[t].live /\ t \notin S)
      BY <3>2, <3>3 DEF Track
    <3> QED
      BY <3>1, <3>2, <3>4
  <2> QED
    BY <2>1, <2>2
<1>8. /\ w \in Shares(New) /\ w.at = "replacing" /\ ~w.lost /\ w.track = New
  <2> DEFINE n == New
  <2>1. n \in Nat /\ n \in 0 .. n
    BY <1>4
  <2> HIDE DEF n
  <2>2. LET x == [Idle EXCEPT !.at = "replacing", !.track = n]
        IN  x \in Shares(n) /\ x.at = "replacing" /\ ~x.lost /\ x.track = n
    BY <2>1, ReplacingShare
  <2> QED
    BY <2>2 DEF n
<1>9. /\ Remembered \in CamRestore
      /\ Remembered \subseteq {On(past)} /\ (page.video = <<>> => Remembered = {})
  <2>1. page.video # <<>> => tracks[Head(page.video)].enabled \in BOOLEAN
    BY <1>1 DEF Track
  <2>2. page.video # <<>> => Camera(tracks, Head(page.video))
    BY <1>5 DEF Whole, Sane, Orderly, OneVideo
  <2>3. page.video # <<>> => tracks[Head(page.video)].enabled = On(past)
    BY <2>2 DEF Whole, Sane, Orderly, Muted
  <2> QED
    BY <2>1, <2>3 DEF Remembered, CamRestore
<1> HIDE DEF us, ts, w, v, rest
<1>10. Typed(page, ts)
  BY <1>4, <1>7, StillTyped
<1>11. /\ s \in Pages(New) /\ s.screen = New /\ s.stream = TRUE /\ s.restore = Remembered
       /\ s.video = v /\ s.torn = page.torn /\ s.started = page.started
       /\ s.pc = page.pc /\ s.senders = page.senders
  <2>1. v \in Seq(1 .. New) /\ New \in 0 .. New
    <3>1. New \in 1 .. New /\ \A x \in 1 .. New : <<x>> \in Seq(1 .. New)
      BY <1>4
    <3> QED
      BY <1>4, <1>6, <3>1
  <2> QED
    BY <1>7, <1>9, <1>10, <2>1 DEF Typed, Pages
<1>12. /\ i.share = Idle /\ i.screen = New /\ i.stream = TRUE /\ i.restore = Remembered
       /\ i.video = v /\ i.torn = page.torn /\ i.started = page.started
       /\ i.pc = page.pc
  <2> HIDE DEF s
  <2> QED
    BY <1>11 DEF Pages
<1>13. Typed(s, ts)
  BY <1>7, <1>10, <1>11 DEF Typed
<1> HIDE DEF s, i
<1>14. Idle.at = "idle" /\ ~Idle.lost
  BY DEF Idle
<1>15. v # <<>> /\ Head(v) = New /\ v = <<New>>
  BY <1>6, OnlyTrack
<1>16. ~Camera(ts, New) /\ New # NoTrack /\ New \in 1 .. New
  BY <1>4, <1>7 DEF Camera, NoTrack
<1>17. \A t \in 1 .. New : ts[t].kind = "restored" /\ ts[t].live =>
           t \in 1 .. Len(tracks) /\ tracks[t].kind = "restored" /\ tracks[t].live
  BY <1>4, <1>7
<1>18. \A t \in 1 .. New : Camera(ts, t) => ~ts[t].live
  <2> SUFFICES ASSUME NEW t \in 1 .. New, Camera(ts, t), ts[t].live
               PROVE  FALSE
    OBVIOUS
  <2>1. t \in 1 .. Len(tracks) /\ Camera(tracks, t) /\ tracks[t].live
    BY <1>4, <1>7, <1>16 DEF Camera
  <2>2. page.video = <<t>>
    BY <1>1, <1>5, <2>1 DEF Whole, Sane, Orderly, Running
  <2> QED
    BY <1>7, <2>2, OnlyTrack
<1>19. OneVideo(i, ts) /\ NotYet(i, ts, flip) /\ Waiting(i)
  BY <1>5, <1>12, <1>14, <1>15, <1>16 DEF OneVideo, NotYet, Waiting
<1>20. Over(i, ts)
  <2>1. page.torn => page.video = <<>>
                     /\ \A t \in 1 .. Len(tracks) : tracks[t].kind = "restored" => ~tracks[t].live
    BY <1>1 DEF Whole, Sane, Orderly, Over
  <2> QED
    BY <1>7, <1>9, <1>12, <1>14, <1>17, <2>1 DEF Over
<1>21. Switching(i, ts, flip)
  BY <1>5 DEF Switching
<1>22. Running(i, ts, flip) /\ Muted(i, ts, On(past))
  BY <1>7, <1>9, <1>12, <1>14, <1>15, <1>16, <1>18 DEF Running, Muted
<1>23. Orderly([s EXCEPT !.share = Idle], ts, flip, On(past))
  BY <1>19, <1>20, <1>21, <1>22 DEF Orderly, i
<1>24. CASE s.pc
  <2>1. ~s.torn /\ s.senders = <<s.senders[1]>>
    BY <1>11, <1>24 DEF Whole, Sane, Sending
  <2>2. w.track = Shown(s)
    BY <1>8, <1>11, <1>15 DEF Shown
  <2>3. Sane([s EXCEPT !.share = w], ts, flip, On(past))
    BY <1>5, <1>7, <1>8, <1>13, <1>23, <1>24, <2>1, <2>2, StartReplacing
  <2> QED
    BY <1>1, <1>3, <1>24, <2>3 DEF Step
<1>25. CASE ~s.pc
  <2>1. Sane([s EXCEPT !.share = Idle], ts, flip, On(past))
    BY <1>11, <1>12, <1>23, <1>25 DEF Sane, Sending, i
  <2> QED
    BY <1>1, <1>3, <1>13, <1>25, <2>1, ShareEndsSane
<1> QED
  BY <1>11, <1>24, <1>25

\* A sane page that is rid of what it waited for.
LEMMA RestSane ==
    ASSUME NEW s, NEW ts, NEW fl, NEW c, Typed(s, ts), Sane(s, ts, fl, c),
           s.share.at = "restoring"
    PROVE  /\ Orderly([s EXCEPT !.share = Idle], ts, fl, c)
           /\ s.stream => ~s.torn
           /\ ~s.stream => s.torn /\ ~s.pc /\ Sane([s EXCEPT !.share = Idle], ts, fl, c)
           /\ s.video = <<>> /\ s.screen = NoTrack /\ s.started
           /\ s.pc => ~s.torn /\ s.senders = <<s.senders[1]>>
           /\ \A f \in Flips : fl[f].at = "idle" /\ ~fl[f].lost
           /\ \A t \in 1 .. Len(ts) : Camera(ts, t) => ~ts[t].live
           /\ s.torn => \A t \in 1 .. Len(ts) : ts[t].kind = "restored" => ~ts[t].live
<1>1. Orderly([s EXCEPT !.share = Idle], ts, fl, c)
  BY IdleOrderly DEF Sane
<1>2. /\ s.stream => ~s.torn
      /\ ~s.stream => s.torn
      /\ s.torn => \A t \in 1 .. Len(ts) : ts[t].kind = "restored" => ~ts[t].live
  BY Fields DEF Sane, Orderly, Over
<1>3. s.pc => ~s.torn /\ s.senders = <<s.senders[1]>>
  BY DEF Sane, Sending
<1>4. /\ s.video = <<>> /\ s.screen = NoTrack /\ s.started
      /\ \A f \in Flips : fl[f].at = "idle" /\ ~fl[f].lost
  BY DEF Sane, Orderly, Waiting, NotYet, Switching
<1>5. \A t \in 1 .. Len(ts) : Camera(ts, t) => ~ts[t].live
  <2>1. \A t : <<t>> # <<>>
    OBVIOUS
  <2> QED
    BY <1>4, <2>1 DEF Sane, Orderly, Running
<1>6. ASSUME ~s.stream
      PROVE  Sane([s EXCEPT !.share = Idle], ts, fl, c)
  BY <1>2, <1>3, <1>6, IdleSane
<1> QED
  BY <1>1, <1>2, <1>3, <1>4, <1>5, <1>6

LEMMA RestoreSane ==
    ASSUME TypeOK, Whole, Restore
    PROVE  Sane(page', tracks', flip', On(past'))
<1>1. /\ Typed(page, tracks) /\ page \in Pages(Len(tracks)) /\ Len(tracks) \in Nat
      /\ tracks \in Seq(Track) /\ \A t \in 1 .. Len(tracks) : tracks[t] \in Track
      /\ flip' = flip /\ past' = past /\ page.share.at = "restoring"
      /\ page.share.resume \in CamRestore
  BY TypesOfParts, Fields, ElementOfSeq DEF Restore, Typed
<1>2. /\ Orderly([page EXCEPT !.share = Idle], tracks, flip, On(past))
      /\ page.stream => ~page.torn
      /\ ~page.stream => /\ page.torn /\ ~page.pc
                         /\ Sane([page EXCEPT !.share = Idle], tracks, flip, On(past))
      /\ page.video = <<>> /\ page.screen = NoTrack /\ page.started
      /\ page.pc => ~page.torn /\ page.senders = <<page.senders[1]>>
      /\ \A f \in Flips : flip[f].at = "idle" /\ ~flip[f].lost
      /\ \A t \in 1 .. Len(tracks) : Camera(tracks, t) => ~tracks[t].live
      /\ page.torn => \A t \in 1 .. Len(tracks) : tracks[t].kind = "restored" => ~tracks[t].live
  BY <1>1, RestSane DEF Whole
<1>3. CASE page.stream /\ StopSends(page, tracks, NoTrack)
  <2>1. NoTrack = Shown(page) /\ NoTrack \in 0 .. Len(tracks)
    BY <1>1, <1>2 DEF Shown, NoTrack
  <2> QED
    BY <1>1, <1>2, <1>3, <2>1, StopSendsSane
<1>4. CASE ~page.stream /\ Step([page EXCEPT !.share = Idle], tracks)
  BY <1>1, <1>2, <1>4 DEF Step
<1>5. ASSUME NEW enabled \in page.share.resume, Restored(enabled)
      PROVE  Sane(page', tracks', flip', On(past'))
  <2> DEFINE us == Captured("restored", TRUE, enabled)
             v == Append(page.video, New)
             s == [page EXCEPT !.video = v]
             i == [s EXCEPT !.share = Idle]
             j == [page EXCEPT !.share = Idle]
             S == {New}
  <2>1. enabled \in BOOLEAN /\ enabled = On(past)
    BY <1>1, <1>5 DEF Whole, Sane, Orderly, Muted, CamRestore
  <2>2. /\ us \in Seq(Track) /\ Len(us) = New /\ New \in Nat \ {0} /\ New = Len(tracks) + 1
        /\ Len(tracks) <= New /\ 1 .. Len(tracks) \subseteq 1 .. New
        /\ \A t \in 1 .. Len(tracks) : us[t] = tracks[t]
        /\ us[New] = [kind |-> "restored", live |-> TRUE, enabled |-> enabled]
    BY <2>1, CapturedType
  <2>3. IF page.stream THEN StopSends(s, us, New) ELSE Step(j, Stopped(us, S))
    BY <1>5 DEF Restored
  <2>4. v = <<New>> /\ Head(v) = New /\ v # <<>>
    BY <1>2, OnlyTrack
  <2> HIDE DEF us, v
  <2>5. Typed(page, us)
    BY <2>2, StillTyped
  <2>6. New \in 0 .. New /\ New \in 1 .. New /\ New # NoTrack
    BY <2>2 DEF NoTrack
  <2>7. Idle.at = "idle" /\ ~Idle.lost
    BY DEF Idle
  <2>8. CASE page.stream
    <3>1. /\ s \in Pages(New) /\ s.video = v /\ s.torn = page.torn /\ s.started = page.started
          /\ s.stream = page.stream /\ s.screen = page.screen /\ s.pc = page.pc
          /\ s.senders = page.senders
      <4>1. \A x \in 1 .. New : <<x>> \in Seq(1 .. New)
        OBVIOUS
      <4>2. v \in Seq(1 .. New)
        BY <2>4, <2>6, <4>1
      <4> QED
        BY <2>2, <2>5, <4>2 DEF Typed, Pages
    <3>2. /\ i.share = Idle /\ i.video = v /\ i.torn = page.torn /\ i.started = page.started
          /\ i.stream = page.stream /\ i.screen = page.screen /\ i.pc = page.pc
      <4> HIDE DEF s
      <4> QED
        BY <3>1 DEF Pages
    <3> HIDE DEF s, i
    <3>3. Typed(s, us)
      BY <2>2, <2>5, <3>1 DEF Typed
    <3>4. /\ us[New].kind = "restored" /\ us[New].enabled = On(past) /\ Camera(us, New)
      BY <2>1, <2>2 DEF Camera
    <3>5. OneVideo(i, us) /\ NotYet(i, us, flip) /\ Waiting(i) /\ Over(i, us)
      BY <1>2, <2>4, <2>7, <2>8, <3>2, <3>4 DEF OneVideo, NotYet, Waiting, Over
    <3>6. Switching(i, us, flip)
      BY <1>2 DEF Switching
    <3>7. Running(i, us, flip)
      <4>1. \A t \in 1 .. New : t = New \/ t \in 1 .. Len(tracks)
        BY <2>2
      <4>2. \A t \in 1 .. Len(tracks) : Camera(us, t) => ~us[t].live
        BY <1>2, <2>2 DEF Camera
      <4> QED
        BY <2>2, <2>4, <3>2, <4>1, <4>2 DEF Running
    <3>8. Muted(i, us, On(past))
      BY <1>2, <2>4, <2>7, <3>2, <3>4 DEF Muted
    <3>9. Orderly([s EXCEPT !.share = Idle], us, flip, On(past))
      BY <3>5, <3>6, <3>7, <3>8 DEF Orderly, i
    <3>10. New = Shown(s)
      BY <2>4, <3>1 DEF Shown
    <3>11. StopSends(s, us, New) /\ New \in 0 .. Len(us)
      BY <2>2, <2>3, <2>6, <2>8
    <3> QED
      BY <1>1, <1>2, <3>1, <3>3, <3>9, <3>10, <3>11, StopSendsSane
  <2>9. CASE ~page.stream
    <3> DEFINE ts == Stopped(us, S)
    <3>1. New \in S
      OBVIOUS
    <3> HIDE DEF S
    <3>2. /\ ts \in Seq(Track) /\ Len(ts) = New
          /\ \A t \in 1 .. New : ts[t] = [us[t] EXCEPT !.live = @ /\ t \notin S]
      BY <2>2, StoppedType
    <3>3. \A t \in 1 .. New : us[t] \in Track
      BY <2>2, ElementOfSeq
    <3> HIDE DEF ts
    <3>4. \A t \in 1 .. New : ts[t].kind = us[t].kind /\ (ts[t].live => us[t].live /\ t \notin S)
      BY <3>2, <3>3 DEF Track
    <3>5. \A t \in 1 .. New : Camera(ts, t) => ~ts[t].live
      <4>1. \A t \in 1 .. New : t = New \/ t \in 1 .. Len(tracks)
        BY <2>2
      <4>2. \A t \in 1 .. Len(tracks) : Camera(us, t) => ~us[t].live
        BY <1>2, <2>2 DEF Camera
      <4> QED
        BY <3>1, <3>4, <4>1, <4>2 DEF Camera
    <3>6. /\ j.share = Idle /\ j.video = <<>> /\ j.torn = page.torn /\ j.started = page.started
          /\ j.screen = NoTrack /\ j.pc = page.pc
      BY <1>1, <1>2 DEF Pages
    <3> HIDE DEF j
    <3>7. OneVideo(j, ts) /\ NotYet(j, ts, flip) /\ Waiting(j)
      BY <1>2, <2>7, <3>6 DEF OneVideo, NotYet, Waiting
    <3>8. Over(j, ts)
      BY <1>2, <2>7, <2>9, <3>2, <3>5, <3>6 DEF Over, Camera
    <3>9. Switching(j, ts, flip)
      BY <1>2 DEF Switching
    <3>10. Running(j, ts, flip) /\ Muted(j, ts, On(past)) /\ Sending(j)
      BY <1>2, <2>7, <2>9, <3>2, <3>5, <3>6 DEF Running, Muted, Sending
    <3>11. page' = j /\ tracks' = ts
      BY <2>3, <2>9 DEF Step, ts
    <3> QED
      BY <1>1, <3>7, <3>8, <3>9, <3>10, <3>11 DEF Sane, Orderly
  <2> QED
    BY <2>8, <2>9
<1> QED
  BY <1>3, <1>4, <1>5 DEF Restore

LEMMA StartSane ==
    ASSUME TypeOK, Whole, Start
    PROVE  Sane(page', tracks', flip', On(past'))
<1>1. /\ Typed(page, tracks) /\ page \in Pages(Len(tracks)) /\ Len(tracks) \in Nat
      /\ past \in Pasts /\ flip' = flip /\ ~page.started
  BY TypesOfParts, Fields DEF Start, Typed, Pasts
<1>2. /\ page.screen = NoTrack /\ page.share.at = "idle" /\ ~page.pc /\ ~page.share.lost
      /\ Len(tracks) = 0 /\ \A f \in Flips : flip[f].at = "idle" /\ ~flip[f].lost
  BY <1>1 DEF Whole, Sane, Orderly, NotYet, Waiting, Switching
<1> DEFINE u(mic, video) == [page EXCEPT !.started = TRUE, !.stream = mic, !.mic = mic,
                                         !.video = video, !.cams = video # <<>>]
<1>3. \/ Step(Applied(u(TRUE, <<New>>)), Captured("camera", TRUE, TRUE)) /\ On(past') = TRUE
      \/ Step(Applied(u(TRUE, <<>>)), tracks) /\ past' = past
      \/ Step(Applied(u(FALSE, <<>>)), tracks) /\ past' = past
  <2>1. On([past EXCEPT !.choice = TRUE]) = TRUE
    BY <1>1 DEF Pasts, On
  <2> QED
    BY <2>1 DEF Start
<1> HIDE DEF u
<1>4. ASSUME NEW mic \in BOOLEAN, NEW v, NEW ts, NEW c,
             ts \in Seq(Track), v \in Seq(1 .. Len(ts)), Len(tracks) <= Len(ts),
             \/ Len(ts) = 0 /\ v = <<>>
             \/ Len(ts) = 1 /\ v = <<Len(ts)>> /\ mic /\ c = TRUE
                /\ ts[1] = [kind |-> "camera", live |-> TRUE, enabled |-> TRUE]
      PROVE  Sane(Applied(u(mic, v)), ts, flip, c)
  <2> DEFINE x == u(mic, v)
  <2>1. Typed(page, ts)
    BY <1>4, StillTyped
  <2>2. /\ x \in Pages(Len(ts)) /\ x.started = TRUE /\ x.stream = mic /\ x.video = v
        /\ x.torn = page.torn /\ x.screen = page.screen /\ x.share = page.share
        /\ x.pc = page.pc /\ x.senders = page.senders
    <3>1. (v # <<>>) \in BOOLEAN
      OBVIOUS
    <3> QED
      BY <1>4, <2>1, <3>1 DEF Typed, Pages, u
  <2> HIDE DEF x
  <2>3. Typed(x, ts)
    BY <1>4, <2>1, <2>2 DEF Typed
  <2>4. <<1>> # <<>> /\ Head(<<1>>) = 1
    OBVIOUS
  <2>5. ts[1] = [kind |-> "camera", live |-> TRUE, enabled |-> TRUE] =>
            ts[1].kind = "camera" /\ ts[1].enabled = TRUE /\ Camera(ts, 1)
    BY DEF Camera
  <2>6. OneVideo(x, ts) /\ NotYet(x, ts, flip) /\ Waiting(x) /\ Sending(x)
    BY <1>2, <1>4, <2>2, <2>4, <2>5 DEF OneVideo, NotYet, Waiting, Sending
  <2>7. Over(x, ts)
    BY <1>2, <1>4, <2>2, <2>4, <2>5 DEF Over
  <2>8. Switching(x, ts, flip)
    BY <1>2 DEF Switching
  <2>9. Running(x, ts, flip) /\ Muted(x, ts, c)
    <3>1. \A t \in 1 .. Len(ts) : v = <<t>>
      <4> DEFINE n == Len(ts)
      <4>0. n \in Nat
        BY <1>4, LenProperties
      <4> HIDE DEF n
      <4>1. \A t \in 1 .. n : n # 0 /\ (n = 1 => t = 1)
        BY <4>0
      <4> QED
        BY <1>4, <4>1 DEF n
    <3>2. Running(x, ts, flip)
      BY <2>2, <3>1 DEF Running
    <3>3. Muted(x, ts, c)
      BY <1>2, <1>4, <2>2, <2>4, <2>5 DEF Muted
    <3> QED
      BY <3>2, <3>3
  <2>10. Sane(x, ts, flip, c)
    BY <2>6, <2>7, <2>8, <2>9 DEF Sane, Orderly
  <2> QED
    BY <2>3, <2>10, AppliedSane DEF x
<1>5. tracks \in Seq(Track) /\ <<>> \in Seq(1 .. Len(tracks)) /\ Len(tracks) <= Len(tracks)
  BY <1>1, EmptySeq DEF Typed
<1>6. Sane(Applied(u(TRUE, <<>>)), tracks, flip, On(past))
      /\ Sane(Applied(u(FALSE, <<>>)), tracks, flip, On(past))
  BY <1>2, <1>4, <1>5
<1>7. Sane(Applied(u(TRUE, <<New>>)), Captured("camera", TRUE, TRUE), flip, TRUE)
  <2> DEFINE us == Captured("camera", TRUE, TRUE)
  <2>1. /\ us \in Seq(Track) /\ Len(us) = New /\ New = Len(tracks) + 1
        /\ us[New] = [kind |-> "camera", live |-> TRUE, enabled |-> TRUE]
    BY CapturedType
  <2>2. New = 1
    BY <1>2, <2>1
  <2> HIDE DEF us
  <2>3. <<1>> \in Seq(1 .. Len(us)) /\ Len(tracks) <= Len(us) /\ Len(us) = 1
    BY <1>2, <2>1, <2>2
  <2>4. Sane(Applied(u(TRUE, <<1>>)), us, flip, TRUE)
    BY <1>4, <2>1, <2>2, <2>3
  <2> QED
    BY <2>2, <2>4 DEF us
<1> QED
  BY <1>1, <1>3, <1>6, <1>7 DEF Step

\* The button means the camera of the stream, or the screen.
LEMMA ToggleSane ==
    ASSUME TypeOK, Switched(flip), Whole, ToggleCamera
    PROVE  Sane(page', tracks', flip', On(past'))
<1> DEFINE t == Head(page.video)
<1>1. /\ Typed(page, tracks) /\ Len(tracks) \in Nat /\ tracks \in Seq(Track)
      /\ past \in Pasts /\ page.video # <<>> /\ t \in 1 .. Len(tracks)
      /\ \A x \in 1 .. Len(tracks) : tracks[x] \in Track
      /\ page' = page /\ flip' = flip
      /\ flip \in [Flips -> Switch(Len(tracks))]
  BY TypesOfParts, Fields, ElementOfSeq DEF ToggleCamera, Typed, Pasts
<1>2. /\ tracks' = [tracks EXCEPT ![t].enabled = ~@]
      /\ past' = IF tracks[t].kind = "screen" THEN past
                 ELSE [past EXCEPT !.choice = ~tracks[t].enabled, !.unmuted = FALSE]
  BY DEF ToggleCamera
<1>3. /\ Len(tracks') = Len(tracks)
      /\ \A x \in 1 .. Len(tracks) : tracks'[x].kind = tracks[x].kind
                                     /\ tracks'[x].live = tracks[x].live
      /\ \A x \in (1 .. Len(tracks)) \ {t} : tracks'[x].enabled = tracks[x].enabled
      /\ tracks'[t].enabled = ~tracks[t].enabled
  <2>1. [tracks[t] EXCEPT !.enabled = ~@] \in Track
    BY <1>1 DEF Track
  <2>2. tracks' = [tracks EXCEPT ![t] = [tracks[t] EXCEPT !.enabled = ~@]]
    BY <1>2
  <2> DEFINE e == [tracks[t] EXCEPT !.enabled = ~@]
  <2>3. e.kind = tracks[t].kind /\ e.live = tracks[t].live /\ e.enabled = ~tracks[t].enabled
    BY <1>1 DEF Track
  <2> HIDE DEF e, t
  <2>4. /\ Len([tracks EXCEPT ![t] = e]) = Len(tracks)
        /\ \A x \in 1 .. Len(tracks) : [tracks EXCEPT ![t] = e][x] = IF x = t THEN e ELSE tracks[x]
    BY <1>1, <2>1, ExceptSeq DEF e
  <2> QED
    BY <1>1, <2>2, <2>3, <2>4 DEF e
<1>4. On(past') = IF tracks[t].kind = "screen" THEN On(past) ELSE ~tracks[t].enabled
  <2>1. CASE tracks[t].kind = "screen"
    BY <1>2, <2>1
  <2>2. CASE tracks[t].kind # "screen"
    <3>1. past' = [past EXCEPT !.choice = ~tracks[t].enabled, !.unmuted = FALSE]
      BY <1>2, <2>2
    <3>2. (~tracks[t].enabled) \in BOOLEAN
      OBVIOUS
    <3>3. past'.choice = (~tracks[t].enabled) /\ past'.unmuted = FALSE
      BY <1>1, <3>1 DEF Pasts
    <3> QED
      BY <2>2, <3>2, <3>3 DEF On
  <2> QED
    BY <2>1, <2>2
<1>5. page.video = <<t>> /\ page.screen \in 0 .. Len(tracks)
  BY <1>1, Fields DEF Whole, Sane, Orderly, OneVideo
<1> HIDE DEF t
<1>6. \A f \in Flips : flip[f].at = "replacing" => flip[f].new \in (1 .. Len(tracks)) \ {t}
  <2> SUFFICES ASSUME NEW f \in Flips, flip[f].at = "replacing"
               PROVE  flip[f].new \in (1 .. Len(tracks)) \ {t}
    OBVIOUS
  <2>1. /\ page.video = <<flip[f].old>> /\ flip[f].new # flip[f].old
    BY DEF Whole, Sane, Orderly, Switching
  <2>2. flip[f].old = t
    BY <1>5, <2>1, OnlyTrack
  <2>3. flip[f].new \in 1 .. Len(tracks)
    BY NewOfSwitch
  <2> QED
    BY <2>1, <2>2, <2>3
<1>7. OneVideo(page, tracks') /\ NotYet(page, tracks', flip) /\ Over(page, tracks')
  BY <1>1, <1>3, <1>5 DEF Whole, Sane, Orderly, OneVideo, NotYet, Over, Camera, NoTrack, t
<1>8. Switching(page, tracks', flip) /\ Waiting(page) /\ Sending(page)
  BY <1>3, <1>6 DEF Whole, Sane, Orderly, Switching, Camera
<1>9. Running(page, tracks', flip)
  BY <1>3 DEF Whole, Sane, Orderly, Running, Camera
<1>10. Muted(page, tracks', On(past'))
  <2>1. Head(page.video) = t
    BY DEF t
  <2>2. page.screen # NoTrack => t = page.screen /\ ~Camera(tracks, t)
    BY <1>5, OnlyTrack DEF Whole, Sane, Orderly, OneVideo
  <2>3. page.share.at # "restoring"
    BY <1>1 DEF Whole, Sane, Orderly, Waiting
  <2> QED
    BY <1>1, <1>3, <1>4, <2>1, <2>2, <2>3 DEF Whole, Sane, Orderly, Muted, Camera
<1> QED
  BY <1>1, <1>7, <1>8, <1>9, <1>10 DEF Sane, Orderly

-------------------------------------------------------------------------------
(* The switches of the camera, the connection and the end of the call      *)

\* What holds while one switch is under way.
LEMMA OneSwitch ==
    ASSUME TypeOK, Whole, NEW f \in Flips, flip[f].at # "idle"
    PROVE  /\ \A g \in Flips \ {f} : flip[g].at = "idle"
           /\ \A g \in Flips : ~flip[g].lost
           /\ page.share.at = "idle" /\ ~page.share.lost
           /\ page.screen = NoTrack /\ page.started
           /\ page.stream <=> ~page.torn
           /\ page.torn => ~page.pc /\ flip[f].at = "asking"
           /\ page.stream => page.video = <<flip[f].old>>
           /\ page.pc => page.senders = <<Shown(page)>> /\ page.sendrecv = (page.video # <<>>)
<1>1. /\ \A g \in Flips \ {f} : flip[g].at = "idle"
      /\ \A g \in Flips : ~flip[g].lost
      /\ page.share.at = "idle" /\ page.screen = NoTrack
      /\ IF page.torn THEN ~page.stream /\ flip[f].at = "asking"
         ELSE page.stream /\ page.video = <<flip[f].old>>
  BY DEF Whole, Sane, Orderly, Switching
<1>2. page.stream \in BOOLEAN /\ page.torn \in BOOLEAN /\ page.pc \in BOOLEAN
  BY TypesOfParts, Fields
<1>3. page.started /\ ~page.share.lost
  BY <1>1 DEF Whole, Sane, Orderly, NotYet, Waiting
<1>4. page.pc => /\ ~page.torn /\ page.senders = <<page.senders[1]>>
                 /\ page.senders[1] = Shown(page) /\ page.sendrecv = (page.video # <<>>)
  BY <1>1 DEF Whole, Sane, Sending
<1> QED
  BY <1>1, <1>2, <1>3, <1>4

\* The switch fails or is asked for.
LEMMA FlipAskedSane ==
    ASSUME TypeOK, Whole, NEW f \in Flips, ClickFlip(f) \/ FlipFails(f), ~past'.crossed
    PROVE  Sane(page', tracks', flip', On(past'))
<1>1. /\ Typed(page, tracks) /\ past \in Pasts /\ flip \in [Flips -> Switch(Len(tracks))]
      /\ page' = page /\ tracks' = tracks
  BY TypesOfParts DEF Pasts, ClickFlip, FlipFails
<1>2. On(past') = On(past)
  BY <1>1 DEF Pasts, On, ClickFlip, FlipFails
<1>3. CASE ClickFlip(f)
  <2>1. /\ ~page.torn /\ page.started /\ page.stream /\ page.video # <<>>
        /\ flip' = [flip EXCEPT ![f] = [NoFlip EXCEPT !.at = "asking",
                                                      !.old = Head(page.video)]]
        /\ past' = [past EXCEPT !.crossed = @ \/ FlipUnderWay \/ page.share.at # "idle"
                                              \/ page.screen # NoTrack]
    BY <1>3 DEF ClickFlip
  <2>2. ~FlipUnderWay /\ page.share.at = "idle" /\ page.screen = NoTrack
    BY <1>1, <2>1 DEF Pasts
  <2>3. /\ flip'[f].at = "asking" /\ flip'[f].old = Head(page.video) /\ ~flip'[f].lost
        /\ \A g \in Flips \ {f} : flip'[g].at = "idle" /\ ~flip'[g].lost
        /\ \A g \in Flips : flip[g].at = "idle"
    BY <1>1, <2>1, <2>2 DEF Whole, Sane, Orderly, Switching, FlipUnderWay, NoFlip
  <2>4. page.video = <<Head(page.video)>>
    BY <2>1 DEF Whole, Sane, Orderly, OneVideo
  <2>5. NotYet(page, tracks, flip')
    BY <2>1 DEF NotYet
  <2>6. Switching(page, tracks, flip')
    BY <2>1, <2>2, <2>3, <2>4 DEF Switching
  <2>7. Running(page, tracks, flip')
    BY <2>3 DEF Whole, Sane, Orderly, Running
  <2> QED
    BY <1>1, <1>2, <2>5, <2>6, <2>7 DEF Whole, Sane, Orderly
<1>4. CASE FlipFails(f)
  <2>1. flip[f].at = "asking" /\ flip' = [flip EXCEPT ![f] = NoFlip]
    BY <1>4 DEF FlipFails
  <2>2. /\ flip'[f].at = "idle" /\ ~flip'[f].lost
        /\ \A g \in Flips \ {f} : flip'[g] = flip[g]
    BY <1>1, <2>1 DEF NoFlip
  <2>3. \A g \in Flips : flip'[g].at = "idle" /\ ~flip'[g].lost
    BY <2>1, <2>2, OneSwitch
  <2>4. NotYet(page, tracks, flip')
    BY <2>3 DEF Whole, Sane, Orderly, NotYet
  <2>5. Switching(page, tracks, flip')
    BY <2>3 DEF Switching
  <2>6. Running(page, tracks, flip')
    <3>1. \A g \in Flips : flip[g].at # "replacing"
      BY <2>1, OneSwitch
    <3> QED
      BY <3>1 DEF Whole, Sane, Orderly, Running
  <2> QED
    BY <1>1, <1>2, <2>4, <2>5, <2>6 DEF Whole, Sane, Orderly
<1> QED
  BY <1>3, <1>4

\* The new camera takes the place of the old one.
LEMMA FlipEndsSane ==
    ASSUME TypeOK, NEW f \in Flips, NEW s, NEW ts, NEW new \in 1 .. Len(ts),
           Typed(s, ts), FlipEnds(f, s, ts, new),
           \A g \in Flips \ {f} : flip[g].at = "idle",
           \A g \in Flips : ~flip[g].lost,
           s.started, ~s.torn, s.stream, s.video = <<flip[f].old>>,
           s.screen = NoTrack, s.share.at = "idle", ~s.share.lost,
           s.pc => s.senders = <<new>> /\ s.sendrecv,
           Camera(ts, new), ts[new].enabled, new # flip[f].old,
           \A t \in 1 .. Len(ts) : Camera(ts, t) /\ ts[t].live => t \in {flip[f].old, new}
    PROVE  Sane(page', tracks', flip', On(past'))
<1> DEFINE old == flip[f].old
           S == {old}
           v == Append(Without(s.video, old), new)
           u == [s EXCEPT !.video = v]
           us == Stopped(ts, S)
<1>1. /\ past \in Pasts /\ flip \in [Flips -> Switch(Len(tracks))]
      /\ ts \in Seq(Track) /\ Len(ts) \in Nat
  BY TypesOfParts, LenProperties DEF Pasts, Typed
<1>2. /\ Step(Applied(u), us) /\ flip' = [flip EXCEPT ![f] = NoFlip]
      /\ past' = [past EXCEPT !.unmuted = ~past.choice]
  BY DEF FlipEnds
<1>3. /\ \A g \in Flips : flip'[g].at = "idle" /\ ~flip'[g].lost
      /\ On(past') = TRUE
  BY <1>1, <1>2 DEF NoFlip, Pasts, On
<1>4. v = <<new>>
  <2>1. s.video = <<old>>
    OBVIOUS
  <2> HIDE DEF old
  <2>2. Without(s.video, old) = <<>>
    BY <2>1, WithoutOnly
  <2> QED
    BY <2>2, OnlyTrack
<1>5. old \in S
  OBVIOUS
<1> HIDE DEF S, v
<1>6. /\ us \in Seq(Track) /\ Len(us) = Len(ts)
      /\ \A t \in 1 .. Len(ts) : us[t] = [ts[t] EXCEPT !.live = @ /\ t \notin S]
  BY <1>1, StoppedType
<1>7. \A t \in 1 .. Len(ts) : ts[t] \in Track
  BY <1>1, ElementOfSeq
<1> HIDE DEF us
<1>8. \A t \in 1 .. Len(ts) : us[t].kind = ts[t].kind /\ us[t].enabled = ts[t].enabled
                              /\ (us[t].live => ts[t].live /\ t \notin S)
  <2> TAKE t \in 1 .. Len(ts)
  <2>1. us[t] = [ts[t] EXCEPT !.live = @ /\ t \notin S] /\ ts[t] \in Track
    BY <1>6, <1>7
  <2> QED
    BY <2>1 DEF Track
<1>9. /\ u \in Pages(Len(ts)) /\ u.video = v /\ u.started = s.started /\ u.torn = s.torn
      /\ u.stream = s.stream /\ u.screen = s.screen /\ u.share = s.share
      /\ u.pc = s.pc /\ u.senders = s.senders /\ u.sendrecv = s.sendrecv
  <2>1. \A x \in 1 .. Len(ts) : <<x>> \in Seq(1 .. Len(ts))
    OBVIOUS
  <2>2. v \in Seq(1 .. Len(ts))
    BY <1>4, <2>1
  <2> QED
    BY <2>2 DEF Typed, Pages
<1> HIDE DEF u
<1>10. Typed(u, us)
  BY <1>6, <1>9 DEF Typed
<1>11. v = <<new>> /\ v # <<>> /\ Head(v) = new /\ <<new>>[1] = new
  BY <1>4, OnlyTrack
<1>12. Camera(us, new) /\ us[new].enabled
  BY <1>8 DEF Camera
<1>13. \A t \in 1 .. Len(us) : Camera(us, t) /\ us[t].live => t = new
  BY <1>5, <1>6, <1>8 DEF Camera
<1>14. OneVideo(u, us) /\ NotYet(u, us, flip') /\ Waiting(u) /\ Over(u, us)
  BY <1>9, <1>11, <1>12 DEF OneVideo, NotYet, Waiting, Over
<1>15. Sending(u)
  BY <1>9, <1>11 DEF Sending, Shown
<1>16. Switching(u, us, flip')
  BY <1>3 DEF Switching
<1>17. Running(u, us, flip')
  BY <1>9, <1>11, <1>13 DEF Running
<1>18. Muted(u, us, TRUE)
  <2>1. us[new].enabled \in BOOLEAN
    <3>1. us[new] \in Track
      BY <1>6, ElementOfSeq
    <3> QED
      BY <3>1 DEF Track
  <2> QED
    BY <1>9, <1>11, <1>12, <2>1 DEF Muted
<1>19. Sane(u, us, flip', TRUE)
  BY <1>14, <1>15, <1>16, <1>17, <1>18 DEF Sane, Orderly
<1> QED
  BY <1>2, <1>3, <1>10, <1>19, AppliedSane DEF Step

LEMMA FlipGotSane ==
    ASSUME TypeOK, Switched(flip), Whole, NEW f \in Flips, FlipGot(f)
    PROVE  Sane(page', tracks', flip', On(past'))
<1> DEFINE ts == Captured("flipped", TRUE, TRUE)
           old == flip[f].old
           sending == {i \in 1 .. Len(page.senders) : page.senders[i] # NoTrack}
<1>1. /\ Typed(page, tracks) /\ past \in Pasts /\ flip \in [Flips -> Switch(Len(tracks))]
      /\ tracks \in Seq(Track) /\ Len(tracks) \in Nat
      /\ page.video \in Seq(1 .. Len(tracks))
      /\ page.video # <<>> => Head(page.video) \in 1 .. Len(tracks)
      /\ page.screen \in 0 .. Len(tracks)
      /\ flip[f].at = "asking"
  BY TypesOfParts, Fields DEF Pasts, FlipGot, Typed
<1>2. /\ ts \in Seq(Track) /\ Len(ts) = New /\ New \in Nat \ {0} /\ New = Len(tracks) + 1
      /\ Len(tracks) <= New /\ 1 .. Len(tracks) \subseteq 1 .. New
      /\ \A t \in 1 .. Len(tracks) : ts[t] = tracks[t]
      /\ ts[New] = [kind |-> "flipped", live |-> TRUE, enabled |-> TRUE]
  BY CapturedType
<1>3. \/ sending = {} /\ FlipEnds(f, page, ts, New)
      \/ \E i \in sending :
            /\ \A j \in sending : i <= j
            /\ flip' = [flip EXCEPT ![f].at = "replacing", ![f].new = New, ![f].slot = i]
            /\ Step(page, ts)
            /\ UNCHANGED past
  BY DEF FlipGot
<1>4. /\ \A g \in Flips \ {f} : flip[g].at = "idle"
      /\ \A g \in Flips : ~flip[g].lost
      /\ page.share.at = "idle" /\ ~page.share.lost
      /\ page.screen = NoTrack /\ page.started
      /\ page.stream <=> ~page.torn
      /\ page.torn => ~page.pc
      /\ page.stream => page.video = <<old>>
      /\ page.pc => page.senders = <<Shown(page)>> /\ page.sendrecv = (page.video # <<>>)
  BY <1>1, OneSwitch
<1> HIDE DEF ts, old
<1>5. /\ ts[New].kind = "flipped" /\ ts[New].enabled /\ Camera(ts, New)
      /\ \A t \in 1 .. New : t = New \/ t \in 1 .. Len(tracks)
      /\ New \in 1 .. Len(ts)
  BY <1>2 DEF Camera
<1>6. Typed(page, ts)
  BY <1>2, StillTyped
<1>7. page.stream => page.video # <<>> /\ Shown(page) = old /\ old \in 1 .. Len(tracks)
  <2> SUFFICES ASSUME page.stream
               PROVE  page.video # <<>> /\ Shown(page) = old /\ old \in 1 .. Len(tracks)
    OBVIOUS
  <2>1. page.video = <<old>>
    BY <1>4
  <2>2. page.video # <<>> /\ Head(page.video) = old
    BY <2>1, OnlyTrack
  <2> QED
    BY <1>1, <2>2 DEF Shown
<1>8. page.pc => sending = {1}
  <2> SUFFICES ASSUME page.pc
               PROVE  sending = {1}
    OBVIOUS
  <2> DEFINE h == Shown(page)
  <2>1. page.senders = <<h>> /\ h # NoTrack
    BY <1>1, <1>4, <1>7 DEF NoTrack
  <2> HIDE DEF h
  <2>2. Len(<<h>>) = 1 /\ <<h>>[1] = h
    OBVIOUS
  <2>3. \A i \in 1 .. 1 : i = 1
    OBVIOUS
  <2> QED
    BY <2>1, <2>2, <2>3
<1>9. ~page.pc => sending = {}
  <2> SUFFICES ASSUME ~page.pc
               PROVE  sending = {}
    OBVIOUS
  <2>1. page.senders = <<>>
    BY <1>1, Fields
  <2>2. Len(<<>>) = 0 /\ 1 .. 0 = {}
    OBVIOUS
  <2> QED
    BY <2>1, <2>2
<1>10. \A t \in 1 .. Len(tracks) : Camera(tracks, t) /\ tracks[t].live =>
          page.video = <<t>> \/ page.torn
  BY <1>1, <1>4 DEF Whole, Sane, Orderly, Running
<1>11. page.pc \in BOOLEAN /\ page.torn \in BOOLEAN /\ page.stream \in BOOLEAN
  BY <1>1, Fields
<1> HIDE DEF sending
<1>12. CASE ~page.pc /\ page.stream /\ FlipEnds(f, page, ts, New)
  <2>1. New # old
    BY <1>2, <1>7, <1>12
  <2>2. \A t \in 1 .. Len(ts) : Camera(ts, t) /\ ts[t].live => t \in {old, New}
    <3> SUFFICES ASSUME NEW t \in 1 .. Len(ts), Camera(ts, t), ts[t].live, t # New
                 PROVE  t = old
      OBVIOUS
    <3>1. Camera(tracks, t) /\ tracks[t].live /\ t \in 1 .. Len(tracks)
      BY <1>2, <1>5 DEF Camera
    <3>2. <<t>> = <<old>>
      BY <1>4, <1>10, <1>12, <3>1
    <3> QED
      BY <3>2, OnlyTrack
  <2> QED
    BY <1>4, <1>5, <1>6, <1>12, <2>1, <2>2, FlipEndsSane DEF old
<1>13. CASE ~page.stream /\ FlipEnds(f, page, ts, New)
  <2>1. /\ Step(page, ts) /\ flip' = [flip EXCEPT ![f] = NoFlip] /\ past' = past
    BY <1>13 DEF FlipEnds
  <2>2. \A g \in Flips : flip'[g].at = "idle" /\ ~flip'[g].lost
    BY <1>1, <1>4, <2>1 DEF NoFlip
  <2>3. page.torn /\ ~page.pc
    BY <1>4, <1>13
  <2>4. OneVideo(page, ts)
    BY <1>1, <1>2, <1>4 DEF Whole, Sane, Orderly, OneVideo, Camera
  <2>5. NotYet(page, ts, flip') /\ Waiting(page) /\ Sending(page)
    BY <1>4 DEF Whole, Sane, Orderly, NotYet
  <2>6. Over(page, ts)
    <3>1. \A t \in 1 .. Len(tracks) : tracks[t].kind = "restored" => ~tracks[t].live
      BY <2>3 DEF Whole, Sane, Orderly, Over
    <3>2. \A t \in 1 .. Len(ts) : ts[t].kind = "restored" => ~ts[t].live
      BY <1>2, <1>5, <3>1
    <3> QED
      BY <1>4, <2>3, <3>2 DEF Over
  <2>7. Switching(page, ts, flip') /\ Running(page, ts, flip')
    BY <1>4, <2>2, <2>3 DEF Switching, Running
  <2>8. Muted(page, ts, On(past))
    BY <1>1, <1>2 DEF Whole, Sane, Orderly, Muted, Camera
  <2> QED
    BY <2>1, <2>4, <2>5, <2>6, <2>7, <2>8 DEF Sane, Orderly, Step
<1>14. ASSUME page.pc,
              flip' = [flip EXCEPT ![f].at = "replacing", ![f].new = New, ![f].slot = 1],
              Step(page, ts), past' = past
       PROVE  Sane(page', tracks', flip', On(past'))
  <2>1. /\ flip'[f].at = "replacing" /\ flip'[f].new = New /\ flip'[f].slot = 1
        /\ flip'[f].old = old /\ ~flip'[f].lost
        /\ \A g \in Flips \ {f} : flip'[g] = flip[g]
    BY <1>1, <1>4, <1>14 DEF Switch, old
  <2>2. page.stream /\ ~page.torn
    BY <1>4, <1>11, <1>14
  <2>3. New # old
    BY <1>2, <1>7, <2>2
  <2>4. OneVideo(page, ts)
    BY <1>1, <1>2, <1>4 DEF Whole, Sane, Orderly, OneVideo, Camera
  <2>5. NotYet(page, ts, flip') /\ Waiting(page) /\ Sending(page)
    BY <1>4 DEF Whole, Sane, Orderly, NotYet
  <2>6. Over(page, ts)
    BY <1>4, <2>2 DEF Whole, Sane, Orderly, Over
  <2>7. Switching(page, ts, flip')
    <3>1. \A g \in Flips \ {f} : flip'[g].at = "idle" /\ ~flip'[g].lost
      BY <1>4, <2>1
    <3>2. page.video = <<flip'[f].old>> /\ flip'[f].new # flip'[f].old
      BY <1>4, <2>1, <2>2, <2>3
    <3>3. Camera(ts, flip'[f].new) /\ ts[flip'[f].new].enabled
      BY <1>5, <2>1
    <3> QED
      BY <1>4, <1>14, <2>1, <2>2, <3>1, <3>2, <3>3 DEF Switching
  <2>8. Running(page, ts, flip')
    <3>1. \A t \in 1 .. Len(tracks) : Camera(ts, t) /\ ts[t].live => page.video = <<t>>
      BY <1>2, <1>10, <2>2 DEF Camera
    <3> QED
      BY <1>2, <1>5, <2>1, <3>1 DEF Running
  <2>9. Muted(page, ts, On(past))
    BY <1>1, <1>2 DEF Whole, Sane, Orderly, Muted, Camera
  <2> QED
    BY <1>14, <2>4, <2>5, <2>6, <2>7, <2>8, <2>9 DEF Sane, Orderly, Step
<1>15. CASE page.pc
  BY <1>3, <1>8, <1>14, <1>15
<1>16. CASE ~page.pc
  BY <1>3, <1>9, <1>11, <1>12, <1>13, <1>16
<1> QED
  BY <1>11, <1>15, <1>16

LEMMA FlipReplacedSane ==
    ASSUME TypeOK, Switched(flip), Whole, NEW f \in Flips, FlipReplaced(f) \/ FlipLost(f)
    PROVE  Sane(page', tracks', flip', On(past'))
<1> DEFINE new == flip[f].new
           old == flip[f].old
           s == [page EXCEPT !.senders[flip[f].slot] = new]
<1>1. /\ Typed(page, tracks) /\ page \in Pages(Len(tracks)) /\ tracks \in Seq(Track)
      /\ new \in 1 .. Len(tracks) /\ page.torn \in BOOLEAN /\ page.pc \in BOOLEAN
      /\ flip[f].at = "replacing" /\ FlipEnds(f, s, tracks, new)
  <2>1. FlipReplaced(f)
    BY DEF Whole, Sane, Orderly, Switching, FlipLost
  <2>2. flip[f].at = "replacing" /\ FlipEnds(f, s, tracks, new)
    BY <2>1 DEF FlipReplaced
  <2> QED
    BY <2>2, TypesOfParts, Fields, NewOfSwitch DEF Typed
<1>2. /\ \A g \in Flips \ {f} : flip[g].at = "idle"
      /\ \A g \in Flips : ~flip[g].lost
      /\ page.share.at = "idle" /\ ~page.share.lost
      /\ page.screen = NoTrack /\ page.started /\ ~page.torn /\ page.stream
      /\ page.video = <<old>>
      /\ page.pc => page.senders = <<Shown(page)>> /\ page.sendrecv = (page.video # <<>>)
  BY <1>1, OneSwitch
<1>3. /\ page.pc /\ flip[f].slot = 1 /\ new # old /\ Camera(tracks, new) /\ tracks[new].enabled
  BY <1>1 DEF Whole, Sane, Orderly, Switching
<1> HIDE DEF new, old
<1>4. [page.senders EXCEPT ![flip[f].slot] = new] = <<new>> /\ page.sendrecv = TRUE
  <2> DEFINE h == Shown(page)
             i == flip[f].slot
  <2>1. page.senders = <<h>> /\ i = 1
    BY <1>2, <1>3
  <2> HIDE DEF h, i
  <2>2. [page.senders EXCEPT ![i] = new] = <<new>>
    BY <2>1
  <2> QED
    BY <1>2, <1>3, <2>2, OnlyTrack DEF i
<1>5. /\ s \in Pages(Len(tracks)) /\ s.senders = <<new>> /\ s.started = page.started
      /\ s.torn = page.torn /\ s.stream = page.stream /\ s.video = page.video
      /\ s.screen = page.screen /\ s.share = page.share /\ s.pc = page.pc
      /\ s.sendrecv = page.sendrecv
  <2> DEFINE z == [page.senders EXCEPT ![flip[f].slot] = new]
  <2>1. s = [page EXCEPT !.senders = z]
    OBVIOUS
  <2>2. z = <<new>> /\ new \in 0 .. Len(tracks)
    BY <1>1, <1>4 DEF new
  <2>3. \A x \in 0 .. Len(tracks) : <<x>> \in Seq(0 .. Len(tracks))
    OBVIOUS
  <2>4. z \in Seq(0 .. Len(tracks))
    BY <2>2, <2>3
  <2> HIDE DEF s, z
  <2> QED
    BY <1>1, <2>1, <2>2, <2>4 DEF Pages
<1> HIDE DEF s
<1>6. Typed(s, tracks)
  <2>1. <<new>> # <<>>
    OBVIOUS
  <2> QED
    BY <1>1, <1>3, <1>5, <2>1 DEF Typed
<1>7. \A t \in 1 .. Len(tracks) : Camera(tracks, t) /\ tracks[t].live => t \in {old, new}
  <2> SUFFICES ASSUME NEW t \in 1 .. Len(tracks), Camera(tracks, t), tracks[t].live
               PROVE  t \in {old, new}
    OBVIOUS
  <2>1. page.video = <<t>> \/ \E g \in Flips : flip[g].at = "replacing" /\ flip[g].new = t
    BY <1>2 DEF Whole, Sane, Orderly, Running
  <2>2. CASE page.video = <<t>>
    BY <1>2, <2>2, OnlyTrack
  <2>3. CASE \E g \in Flips : flip[g].at = "replacing" /\ flip[g].new = t
    BY <1>2, <2>3 DEF new
  <2> QED
    BY <2>1, <2>2, <2>3
<1> QED
  BY <1>1, <1>2, <1>3, <1>4, <1>5, <1>6, <1>7, FlipEndsSane DEF new, old

LEMMA EnsurePCSane ==
    ASSUME TypeOK, Whole, EnsurePC
    PROVE  Sane(page', tracks', flip', On(past'))
<1> DEFINE senders == IF page.video = <<>> THEN <<NoTrack>> ELSE page.video
           u == [page EXCEPT !.pc = TRUE, !.sendrecv = page.video # <<>>,
                             !.senders = senders]
<1>1. Typed(page, tracks) /\ page \in Pages(Len(tracks))
  BY TypesOfParts DEF Typed
<1>2. page' = u /\ tracks' = tracks /\ flip' = flip /\ past' = past
      /\ page.started /\ ~page.torn /\ ~page.pc
  BY DEF EnsurePC
<1>3. senders = <<Shown(page)>>
  BY DEF Whole, Sane, Orderly, OneVideo, Shown
<1> HIDE DEF senders
<1>4. /\ u.pc = TRUE /\ u.sendrecv = (page.video # <<>>) /\ u.senders = <<Shown(page)>>
      /\ u.started = page.started /\ u.torn = page.torn /\ u.stream = page.stream
      /\ u.video = page.video /\ u.screen = page.screen /\ u.restore = page.restore
      /\ u.share = page.share
  BY <1>1, <1>3 DEF Pages
<1> HIDE DEF u
<1>5. OneVideo(u, tracks) /\ NotYet(u, tracks, flip) /\ Waiting(u) /\ Over(u, tracks)
  BY <1>2, <1>4 DEF Whole, Sane, Orderly, OneVideo, NotYet, Waiting, Over
<1>6. Sending(u)
  <2>1. page.share.at \in {"replacing", "offering"} => page.share.lost
    BY <1>2 DEF Whole, Sane, Orderly, Waiting
  <2>2. Shown(u) = Shown(page)
    BY <1>4 DEF Shown
  <2>3. u.senders[1] = Shown(page) /\ u.senders = <<u.senders[1]>>
    <3> DEFINE h == Shown(page)
    <3>1. u.senders = <<h>>
      BY <1>4
    <3> HIDE DEF h
    <3> QED
      BY <3>1, OnlyTrack DEF h
  <2> QED
    BY <1>2, <1>4, <2>1, <2>2, <2>3 DEF Sending
<1>7. Switching(u, tracks, flip)
  BY <1>2, <1>4 DEF Whole, Sane, Orderly, Switching
<1>8. Running(u, tracks, flip) /\ Muted(u, tracks, On(past))
  BY <1>4 DEF Whole, Sane, Orderly, Running, Muted
<1> QED
  BY <1>2, <1>5, <1>6, <1>7, <1>8 DEF Sane, Orderly

\* Unless a switch waits for its sender, the switches are left alone.
LEMMA CloseSane ==
    ASSUME TypeOK, Whole, CloseConnection, ~past'.crossed
    PROVE  /\ On(past') = On(past)
           /\ \A f \in Flips : /\ flip'[f].at = flip[f].at /\ flip'[f].at # "replacing"
                               /\ ~flip'[f].lost /\ flip'[f].old = flip[f].old
<1>1. past \in Pasts /\ flip \in [Flips -> Switch(Len(tracks))]
  BY TypesOfParts DEF Pasts
<1>2. On(past') = On(past) /\ \A f \in Flips : flip[f].at # "replacing"
  BY <1>1 DEF CloseConnection, Pasts, On
<1>3. \A f \in Flips : ~flip[f].lost
  BY DEF Whole, Sane, Orderly, Switching
<1>4. \A f \in Flips : flip'[f] = [flip[f] EXCEPT !.lost = @ \/ flip[f].at = "replacing"]
  BY DEF CloseConnection
<1>5. ASSUME NEW f \in Flips
      PROVE  /\ flip'[f].at = flip[f].at /\ flip'[f].at # "replacing"
             /\ ~flip'[f].lost /\ flip'[f].old = flip[f].old
  <2>1. flip[f] \in Switch(Len(tracks))
    BY <1>1
  <2> QED
    BY <1>2, <1>3, <1>4, <2>1 DEF Switch
<1> QED
  BY <1>2, <1>5

LEMMA ClosedFields ==
    ASSUME NEW s, NEW n, s \in Pages(n)
    PROVE  /\ Closed(s).pc = FALSE /\ Closed(s).started = s.started
           /\ Closed(s).torn = s.torn /\ Closed(s).stream = s.stream
           /\ Closed(s).video = s.video /\ Closed(s).screen = s.screen
           /\ Closed(s).restore = s.restore /\ Closed(s).share.at = s.share.at
           /\ Closed(s).share.resume = s.share.resume
           /\ Closed(s).share.lost = (s.share.lost \/ Awaited)
<1>1. s.share \in Shares(n)
  BY DEF Pages
<1> QED
  BY <1>1 DEF Closed, Pages, Shares

LEMMA PeerLeavesSane ==
    ASSUME TypeOK, Whole, PeerLeaves, ~past'.crossed
    PROVE  Sane(page', tracks', flip', On(past'))
<1> DEFINE u == Closed(page)
<1>1. page \in Pages(Len(tracks))
  BY TypesOfParts DEF Typed
<1>2. page' = u /\ tracks' = tracks /\ CloseConnection
  BY DEF PeerLeaves, Step
<1>3. /\ u.pc = FALSE /\ u.started = page.started /\ u.torn = page.torn
      /\ u.stream = page.stream /\ u.video = page.video /\ u.screen = page.screen
      /\ u.restore = page.restore /\ u.share.at = page.share.at
      /\ u.share.resume = page.share.resume /\ u.share.lost = (page.share.lost \/ Awaited)
  BY <1>1, ClosedFields
<1>4. /\ On(past') = On(past)
      /\ \A f \in Flips : /\ flip'[f].at = flip[f].at /\ flip'[f].at # "replacing"
                          /\ ~flip'[f].lost /\ flip'[f].old = flip[f].old
  BY <1>2, CloseSane
<1> HIDE DEF u
<1>5. OneVideo(u, tracks) /\ NotYet(u, tracks, flip') /\ Over(u, tracks)
  BY <1>3, <1>4 DEF Whole, Sane, Orderly, OneVideo, NotYet, Over
<1>6. Waiting(u) /\ Sending(u)
  BY <1>3 DEF Whole, Sane, Orderly, Waiting, Sending, Awaited
<1>7. Switching(u, tracks, flip')
  BY <1>3, <1>4 DEF Whole, Sane, Orderly, Switching
<1>8. Running(u, tracks, flip') /\ Muted(u, tracks, On(past))
  BY <1>3, <1>4 DEF Whole, Sane, Orderly, Running, Muted
<1> QED
  BY <1>2, <1>4, <1>5, <1>6, <1>7, <1>8 DEF Sane, Orderly

LEMMA TearDownSane ==
    ASSUME TypeOK, Whole, TearDown, ~past'.crossed
    PROVE  Sane(page', tracks', flip', On(past'))
<1> DEFINE s == [page EXCEPT !.torn = TRUE, !.stream = FALSE, !.mic = FALSE, !.video = <<>>,
                             !.screen = NoTrack, !.restore = {}]
           S == {page.video[i] : i \in DOMAIN page.video}
           u == Closed(s)
           us == Stopped(tracks, S)
<1>1. /\ Typed(page, tracks) /\ page \in Pages(Len(tracks)) /\ tracks \in Seq(Track)
      /\ Len(tracks) \in Nat /\ \A t \in 1 .. Len(tracks) : tracks[t] \in Track
  BY TypesOfParts, Fields, ElementOfSeq DEF Typed
<1>2. page' = u /\ tracks' = us /\ CloseConnection /\ ~page.torn
  BY DEF TearDown, Step
<1>3. \A t : page.video = <<t>> => t \in S
  <2> TAKE t
  <2>1. 1 \in DOMAIN <<t>> /\ <<t>>[1] = t
    OBVIOUS
  <2> QED
    BY <2>1
<1>4. /\ s \in Pages(Len(tracks)) /\ s.torn = TRUE /\ s.stream = FALSE /\ s.video = <<>>
      /\ s.screen = NoTrack /\ s.started = page.started /\ s.share = page.share
  <2>1. NoTrack \in 0 .. Len(tracks) /\ {} \in CamRestore /\ <<>> \in Seq(1 .. Len(tracks))
    BY <1>1, EmptySeq DEF NoTrack, CamRestore
  <2> QED
    BY <1>1, <2>1 DEF Pages
<1> HIDE DEF s, S
<1>5. /\ u.pc = FALSE /\ u.started = page.started /\ u.torn = TRUE
      /\ u.stream = FALSE /\ u.video = <<>> /\ u.screen = NoTrack
      /\ u.share.at = page.share.at
      /\ u.share.resume = page.share.resume /\ u.share.lost = (page.share.lost \/ Awaited)
  BY <1>4, ClosedFields
<1>6. /\ On(past') = On(past)
      /\ \A f \in Flips : /\ flip'[f].at = flip[f].at /\ flip'[f].at # "replacing"
                          /\ ~flip'[f].lost /\ flip'[f].old = flip[f].old
  BY <1>2, CloseSane
<1>7. /\ us \in Seq(Track) /\ Len(us) = Len(tracks)
      /\ \A t \in 1 .. Len(tracks) : us[t] = [tracks[t] EXCEPT !.live = @ /\ t \notin S]
  BY <1>1, StoppedType
<1> HIDE DEF u, us
<1>8. \A t \in 1 .. Len(tracks) : us[t].kind = tracks[t].kind
                                  /\ (us[t].live => tracks[t].live /\ t \notin S)
  <2> TAKE t \in 1 .. Len(tracks)
  <2>1. us[t] = [tracks[t] EXCEPT !.live = @ /\ t \notin S] /\ tracks[t] \in Track
    BY <1>1, <1>7
  <2> QED
    BY <2>1 DEF Track
<1>9. \A t \in 1 .. Len(us) : Camera(us, t) => ~us[t].live
  <2> SUFFICES ASSUME NEW t \in 1 .. Len(tracks), Camera(us, t), us[t].live
               PROVE  FALSE
    BY <1>7
  <2>1. Camera(tracks, t) /\ tracks[t].live /\ t \notin S
    BY <1>8 DEF Camera
  <2>2. page.video = <<t>> \/ \E f \in Flips : flip[f].at = "replacing"
    BY <1>2, <2>1 DEF Whole, Sane, Orderly, Running
  <2> QED
    BY <1>3, <1>6, <2>1, <2>2
<1>10. OneVideo(u, us) /\ NotYet(u, us, flip') /\ Over(u, us)
  BY <1>5, <1>6, <1>7, <1>9 DEF Whole, Sane, Orderly, OneVideo, NotYet, Over, Camera
<1>11. Waiting(u) /\ Sending(u)
  BY <1>5 DEF Whole, Sane, Orderly, Waiting, Sending, Awaited
<1>12. Switching(u, us, flip')
  <2>1. flip \in [Flips -> Switch(Len(tracks))]
    BY TypesOfParts
  <2>2. \A f \in Flips : flip[f].at \in {"idle", "asking", "replacing"}
    BY <2>1 DEF Switch
  <2> QED
    BY <1>5, <1>6, <2>2 DEF Whole, Sane, Orderly, Switching
<1>13. Running(u, us, flip') /\ Muted(u, us, On(past))
  BY <1>5, <1>9 DEF Whole, Sane, Orderly, Running, Muted
<1> QED
  BY <1>2, <1>6, <1>10, <1>11, <1>12, <1>13 DEF Sane, Orderly

-------------------------------------------------------------------------------
(* The theorems                                                            *)

LEMMA CrossedStays ==
    ASSUME TypeOK, Next, ~past'.crossed
    PROVE  ~past.crossed
<1>1. past \in Pasts
  BY TypesOfParts DEF Pasts
<1>2. CASE past' = past
  BY <1>2
<1>3. CASE CloseConnection
  BY <1>1, <1>3 DEF CloseConnection, Pasts
<1>4. CASE ClickShare \/ \E f \in Flips : ClickFlip(f)
  BY <1>1, <1>4 DEF ClickShare, ClickFlip, Pasts
<1>5. ASSUME NEW x, NEW y, \/ past' = [past EXCEPT !.choice = x]
                           \/ past' = [past EXCEPT !.unmuted = x]
                           \/ past' = [past EXCEPT !.choice = x, !.unmuted = y]
      PROVE  ~past.crossed
  BY <1>1, <1>5 DEF Pasts
<1>6. CASE ToggleCamera
  BY <1>2, <1>5, <1>6 DEF ToggleCamera
<1>7. CASE Start \/ \E f \in Flips : FlipGot(f) \/ FlipReplaced(f) \/ FlipLost(f)
  BY <1>2, <1>5, <1>7 DEF Start, FlipGot, FlipReplaced, FlipLost, FlipEnds
<1>8. CASE \/ Completes \/ LostReturns \/ PickCancelled \/ Picked \/ CaptureEnds
           \/ EnsurePC \/ \E f \in Flips : FlipFails(f)
  BY <1>2, <1>8 DEF Completes, Replaced, Offered, Restore, LostReturns, PickCancelled,
                    Picked, CaptureEnds, EnsurePC, FlipFails
<1> QED
  BY <1>3, <1>4, <1>6, <1>7, <1>8 DEF Next, PeerLeaves, TearDown

LEMMA StepSane ==
    ASSUME TypeOK, Switched(flip), Whole, Next, ~past'.crossed
    PROVE  Sane(page', tracks', flip', On(past'))
<1>1. CASE Completes \/ LostReturns \/ PickCancelled
  BY <1>1, ReplacedSane, ReturnsSane, RestoreSane DEF Completes
<1>2. CASE Start \/ ClickShare \/ Picked \/ CaptureEnds \/ ToggleCamera
  BY <1>2, StartSane, ClickShareSane, PickedSane, CaptureEndsSane, ToggleSane
<1>3. ASSUME NEW f \in Flips,
             ClickFlip(f) \/ FlipFails(f) \/ FlipGot(f) \/ FlipReplaced(f) \/ FlipLost(f)
      PROVE  Sane(page', tracks', flip', On(past'))
  BY <1>3, FlipAskedSane, FlipGotSane, FlipReplacedSane
<1>4. CASE EnsurePC \/ PeerLeaves \/ TearDown
  BY <1>4, EnsurePCSane, PeerLeavesSane, TearDownSane
<1> QED
  BY <1>1, <1>2, <1>3, <1>4 DEF Next

LEMMA InitIInv == Init => IInv
<1> SUFFICES ASSUME Init PROVE IInv
  OBVIOUS
<1>1. /\ page.started = FALSE /\ page.torn = FALSE /\ page.stream = FALSE
      /\ page.video = <<>> /\ page.screen = NoTrack /\ page.restore = {}
      /\ page.share = Idle /\ page.pc = FALSE /\ tracks = <<>> /\ Len(tracks) = 0
      /\ \A f \in Flips : flip[f] = NoFlip
      /\ past = [crossed |-> FALSE, dropped |-> FALSE, choice |-> TRUE, unmuted |-> FALSE]
  BY DEF Init
<1>2. NoFlip.at = "idle" /\ ~NoFlip.lost /\ NoFlip \in Switch(0)
  BY DEF NoFlip, Switch, NoTrack
<1>3. Idle.at = "idle" /\ ~Idle.lost
  BY DEF Idle
<1>4. TypeOK
  <2>1. /\ <<>> \in Seq(Track) /\ <<>> \in Seq(1 .. 0) /\ <<>> \in Seq(0 .. 0)
        /\ NoTrack \in 0 .. 0 /\ {} \in CamRestore /\ Idle \in Shares(0)
    BY EmptySeq, IdleShare DEF NoTrack, CamRestore
  <2>2. page \in Pages(0) /\ page.senders = <<>>
    BY <2>1 DEF Init, Pages
  <2>3. Typed(page, tracks)
    BY <1>1, <2>1, <2>2 DEF Typed
  <2>4. flip \in [Flips -> Switch(Len(tracks))]
    BY <1>1, <1>2 DEF Init
  <2>5. past \in Pasts
    BY <1>1 DEF Pasts
  <2> QED
    BY <2>3, <2>4, <2>5, TypesOfParts
<1>5. Switched(flip)
  BY <1>1, <1>2 DEF Switched
<1>6. OneVideo(page, tracks) /\ NotYet(page, tracks, flip) /\ Waiting(page)
      /\ Over(page, tracks) /\ Sending(page)
  BY <1>1, <1>2, <1>3 DEF OneVideo, NotYet, Waiting, Over, Sending
<1>7. Switching(page, tracks, flip)
  BY <1>1, <1>2 DEF Switching
<1>8. Running(page, tracks, flip) /\ Muted(page, tracks, On(past))
  BY <1>1, <1>3 DEF Running, Muted
<1> QED
  BY <1>4, <1>5, <1>6, <1>7, <1>8 DEF IInv, Sane, Orderly

LEMMA NextIInv == IInv /\ [Next]_vars => IInv'
<1> SUFFICES ASSUME IInv, [Next]_vars PROVE IInv'
  OBVIOUS
<1>1. TypeOK' /\ Switched(flip')
  BY StepTypes, SwitchedKept DEF IInv
<1>2. ASSUME ~past'.crossed
      PROVE  Sane(page', tracks', flip', On(past'))
  <2>1. CASE Next
    BY <1>2, <2>1, CrossedStays, StepSane DEF IInv, Whole
  <2>2. CASE UNCHANGED vars
    <3>1. page' = page /\ tracks' = tracks /\ flip' = flip /\ past' = past
      BY <2>2 DEF vars
    <3> QED
      BY <1>2, <3>1 DEF IInv
  <2> QED
    BY <2>1, <2>2
<1> QED
  BY <1>1, <1>2 DEF IInv, Switched, Sane, Orderly, OneVideo, NotYet, Waiting, Over, Switching,
                    Running, Muted, Sending, Shown, Camera

\* The inductive invariant of the page: whatever is awaited, and whatever
\* happens meanwhile, the stream, the senders, the tracks that run and whether the
\* camera is on fit together, as long as requests do not cross.
THEOREM InductiveInvariant == Spec => []IInv
<1>1. Init => IInv
  BY InitIInv
<1>2. IInv /\ [Next]_vars => IInv'
  BY NextIInv
<1> QED
  BY <1>1, <1>2, PTL DEF Spec

\* The variables stay in their types, and a page has a connection exactly while
\* it has senders.
THEOREM TypeCorrectness == Spec => []TypeOK
<1>1. IInv => TypeOK
  BY DEF IInv
<1> QED
  BY <1>1, InductiveInvariant, PTL

\* startScreenShare, stopScreenShare, switchCamera and ensurePC together: at rest,
\* the only sender of video carries the track that the page shows, and asks for a
\* direction that fits, whatever ended, left or came back meanwhile.
THEOREM SendersFollowTheStream == Spec => []SentIsShown
<1>1. IInv => SentIsShown
  <2> SUFFICES ASSUME IInv, Quiet, page.pc, ~past.crossed
               PROVE  /\ page.senders = IF page.video = <<>> THEN <<NoTrack>> ELSE page.video
                      /\ page.sendrecv = (page.video # <<>>)
                      /\ Len(page.video) <= 1
    BY DEF SentIsShown
  <2>1. /\ page.senders = <<page.senders[1]>> /\ page.senders[1] = Shown(page)
        /\ page.sendrecv = (page.video # <<>>)
        /\ page.video = <<>> \/ page.video = <<Head(page.video)>>
    BY DEF IInv, Quiet, Sane, Orderly, Sending, OneVideo
  <2>2. Len(<<>>) <= 1 /\ \A t : Len(<<t>>) <= 1
    OBVIOUS
  <2>3. Len(page.video) <= 1
    <3> DEFINE h == Head(page.video)
    <3>1. page.video = <<>> \/ page.video = <<h>>
      BY <2>1
    <3> HIDE DEF h
    <3> QED
      BY <2>2, <3>1
  <2> QED
    BY <2>1, <2>3 DEF Shown
<1> QED
  BY <1>1, InductiveInvariant, PTL

\* startScreenShare turns the camera off, and nothing turns one on before the
\* share has ended.
THEOREM SharingTurnsTheCameraOff == Spec => []NoCameraWhileSharing
<1>1. IInv => NoCameraWhileSharing
  <2> SUFFICES ASSUME IInv, page.screen # NoTrack, ~past.crossed,
                      NEW t \in Tracks, IsCamera(t), tracks[t].live
               PROVE  FALSE
    BY DEF NoCameraWhileSharing
  <2>1. Camera(tracks, t) /\ t \in 1 .. Len(tracks)
    BY DEF Camera, IsCamera, Tracks
  <2>2. page.video = <<page.screen>> /\ ~Camera(tracks, page.screen)
    BY DEF IInv, Sane, Orderly, OneVideo
  <2>3. \A f \in Flips : flip[f].at = "idle"
    BY DEF IInv, Sane, Orderly, Switching
  <2>4. page.video = <<t>>
    BY <2>1, <2>3 DEF IInv, Sane, Orderly, Running
  <2>5. t = page.screen
    BY <2>2, <2>4, OnlyTrack
  <2> QED
    BY <2>1, <2>2, <2>5
<1> QED
  BY <1>1, InductiveInvariant, PTL

\* stopScreenShare checks after its await whether the call is over: the camera it
\* was waiting for does not stay on in a call that was torn down.
THEOREM TornDownStaysDark == Spec => []NoResurrection
<1>1. IInv => NoResurrection
  BY DEF IInv, Sane, Orderly, Over, NoResurrection, Tracks
<1> QED
  BY <1>1, InductiveInvariant, PTL

\* camRestore remembers whether the camera was muted, so no share changes that: the
\* camera is on if its user left it on, or if a switch has turned a muted one on,
\* which switchCamera does; otherwise it is off.
THEOREM MutedStaysMuted == Spec => []MuteSurvivesShare
<1>1. IInv => MuteSurvivesShare
  BY DEF IInv, Sane, Orderly, Muted, MuteSurvivesShare, IsCamera, Camera, On
<1> QED
  BY <1>1, InductiveInvariant, PTL

===============================================================================
