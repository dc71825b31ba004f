------------------------------- MODULE ScreenShare -------------------------------
(***************************************************************************)
(* What one page captures and sends: start, switchCamera, startScreenShare,*)
(* stopScreenShare, setOutgoingVideo and cleanup of web/app.js.            *)
(*                                                                         *)
(* All of them work on one localStream and wait, in their middle, for the  *)
(* user's consent, for a camera or for the connection.  Each such await    *)
(* ends a step of the model; meanwhile buttons are clicked, the captured   *)
(* window closes, the other side comes and goes, and the call is hung up.  *)
(*                                                                         *)
(* Whatever is awaited of a connection that is closed meanwhile may be     *)
(* refused, succeed late, or never complete.                               *)
(***************************************************************************)
EXTENDS Naturals, Sequences, SequencesExt

CONSTANTS
    Flips,       \* switches of the camera that may be under way at once
    MaxTracks    \* bound: video tracks captured

ASSUME MaxTracksAssumption == MaxTracks \in Nat

VARIABLES
    page,      \* what the page remembers, its connection and its buttons
    tracks,    \* the video tracks captured so far; a track is its index
    flip,      \* the calls of switchCamera
    past       \* history the properties refer to

vars == <<page, tracks, flip, past>>

-------------------------------------------------------------------------------
(* Data                                                                    *)

NoTrack == 0
Tracks == 1 .. Len(tracks)
Idle == [at |-> "idle", track |-> NoTrack, resume |-> {}, stopping |-> FALSE, lost |-> FALSE]
NoFlip == [at |-> "idle", old |-> NoTrack, new |-> NoTrack, slot |-> 0, lost |-> FALSE]

\* A stopped or ended track is no longer live.
Captured(kind, live, enabled) ==
    Append(tracks, [kind |-> kind, live |-> live, enabled |-> enabled])
Stopped(ts, s) == [t \in DOMAIN ts |-> [ts[t] EXCEPT !.live = @ /\ t \notin s]]
\* MediaStream.removeTrack; a stream holds a track once.
Without(s, t) ==
    IF t \in ToSet(s) THEN RemoveAt(s, CHOOSE i \in DOMAIN s : s[i] = t) ELSE s
CanCapture == Len(tracks) < MaxTracks
New == Len(tracks) + 1

Init ==
    /\ page = [started |-> FALSE, torn |-> FALSE,
               stream |-> FALSE, mic |-> FALSE, video |-> <<>>,
               screen |-> NoTrack, restore |-> {}, share |-> Idle,
               pc |-> FALSE, senders |-> <<>>, sendrecv |-> FALSE,
               flipOff |-> TRUE, camOff |-> FALSE, cams |-> FALSE]
    /\ tracks = <<>>
    /\ flip = [f \in Flips |-> NoFlip]
    /\ past = [crossed |-> FALSE, dropped |-> FALSE, choice |-> TRUE, unmuted |-> FALSE]

\* applyLocalStream, as far as it enables and disables buttons.
Applied(s) ==
    LET sharing == s.screen # NoTrack
    IN  [s EXCEPT !.flipOff = sharing \/ ~s.cams,
                  !.camOff = IF s.stream /\ s.video # <<>> THEN sharing ELSE TRUE]

-------------------------------------------------------------------------------
(* Pointing the outgoing video at a track.  Step(s, ts) makes s and ts the *)
(* page and the tracks.                                                    *)

Step(s, ts) == page' = s /\ tracks' = ts

\* The end of stopScreenShare; a stream without tracks is given up.
StopEnds(s, ts) ==
    Step(Applied([s EXCEPT !.share = Idle,
                           !.stream = @ /\ (s.video # <<>> \/ s.mic)]), ts)

\* Mutant: the sender keeps what it had.
MutantStopSends(s, ts, t) == StopEnds(s, ts)

\* setOutgoingVideo in stopScreenShare: with no connection there is nothing to
\* wait for.
StopSends(s, ts, t) ==
    IF s.pc
    THEN Step([s EXCEPT !.share = [Idle EXCEPT !.at = "replacing", !.track = t,
                                               !.stopping = TRUE]], ts)
    ELSE StopEnds(s, ts)

\* stopScreenShare up to its first await.
StopShare(s, ts) ==
    LET t == [s EXCEPT !.screen = NoTrack, !.restore = {},
                       !.video = Without(@, s.screen)]
        us == Stopped(ts, {s.screen})
    IN  IF s.restore = {} THEN StopSends(t, us, NoTrack)
        ELSE Step([t EXCEPT !.share = [Idle EXCEPT !.at = "restoring",
                                                   !.resume = s.restore]], us)

\* Mutant: a capture that died during the set-up is not looked for.
MutantShareEnds(s, ts) == Step(Applied([s EXCEPT !.share = Idle]), ts)

\* The end of startScreenShare: buttons, then the check whether the capture
\* died during the set-up.
ShareEnds(s, ts) ==
    LET t == Applied([s EXCEPT !.share = Idle])
    IN  IF t.screen # NoTrack /\ ~ts[t.screen].live THEN StopShare(t, ts) ELSE Step(t, ts)

Return(s, ts) == IF s.share.stopping THEN StopEnds(s, ts) ELSE ShareEnds(s, ts)

\* replaceTrack is done; a change of direction is negotiated.
Replaced ==
    LET s == [page EXCEPT !.senders[1] = page.share.track,
                          !.sendrecv = page.share.track # NoTrack]
    IN  /\ page.share.at = "replacing" /\ ~page.share.lost
        /\ IF s.sendrecv = page.sendrecv THEN Return(s, tracks)
           ELSE Step([s EXCEPT !.share.at = "offering"], tracks)
        /\ UNCHANGED <<flip, past>>

Offered ==
    /\ page.share.at = "offering" /\ ~page.share.lost
    /\ Return(page, tracks)
    /\ UNCHANGED <<flip, past>>

\* The connection was closed meanwhile.  A refusal is caught, or (setting the
\* direction) leaves the function by way of its finally clause.
LostReturns ==
    /\ page.share.lost
    /\ Return(page, tracks) \/ Step([page EXCEPT !.share = Idle], tracks)
    /\ UNCHANGED <<flip, past>>

-------------------------------------------------------------------------------
(* The start of the page                                                   *)

\* getUserMedia in start has ended: camera and microphone, microphone only, or
\* nothing.  What localStream held before is overwritten.
Start ==
    LET got(mic, video) ==
            Applied([page EXCEPT !.started = TRUE, !.stream = mic, !.mic = mic,
                                 !.video = video, !.cams = video # <<>>])
    IN  /\ ~page.started
        /\ \/ /\ CanCapture
              /\ Step(got(TRUE, <<New>>), Captured("camera", TRUE, TRUE))
              /\ past' = [past EXCEPT !.choice = TRUE]
           \/ Step(got(TRUE, <<>>), tracks) /\ UNCHANGED past
           \/ Step(got(FALSE, <<>>), tracks) /\ UNCHANGED past
        /\ UNCHANGED flip

-------------------------------------------------------------------------------
(* Sharing                                                                 *)

FlipUnderWay == \E f \in Flips : flip[f].at # "idle"

ClickShare ==
    /\ ~page.torn /\ page.share.at = "idle"
    /\ \/ /\ page.screen # NoTrack
          /\ StopShare(page, tracks)
       \/ /\ page.screen = NoTrack
          /\ Step([page EXCEPT !.share.at = "picking"], tracks)
    /\ past' = [past EXCEPT !.crossed = @ \/ ~page.started \/ FlipUnderWay]
    /\ UNCHANGED flip

PickCancelled ==
    /\ page.share.at = "picking"
    /\ Step([page EXCEPT !.share = Idle], tracks)
    /\ UNCHANGED <<flip, past>>

\* Mutant: the displaced camera is taken out of the stream but not stopped.
MutantDisplaced(ts) == ts

\* The camera that the share displaces is stopped.
Displaced(ts) ==
    IF page.video = <<>> THEN ts ELSE Stopped(ts, {Head(page.video)})

\* Mutant: the camera is remembered, but not that it was muted.
MutantRemembered == IF page.video = <<>> THEN {} ELSE {TRUE}

\* camRestore, empty for null.
Remembered == IF page.video = <<>> THEN {} ELSE {tracks[Head(page.video)].enabled}

\* getDisplayMedia has a track, which may have ended already.
Picked ==
    /\ page.share.at = "picking" /\ CanCapture
    /\ \E live \in BOOLEAN :
          LET rest == IF page.video = <<>> THEN <<>> ELSE Tail(page.video)
              s == [page EXCEPT !.screen = New, !.stream = TRUE, !.restore = Remembered,
                                !.video = Append(rest, New)]
              ts == Displaced(Captured("screen", live, TRUE))
          IN  IF s.pc
              THEN Step([s EXCEPT !.share = [Idle EXCEPT !.at = "replacing",
                                                         !.track = New]], ts)
              ELSE ShareEnds(s, ts)
    /\ UNCHANGED <<flip, past>>

\* The browser's own stop bar, or the captured window closes: the listener calls
\* stopScreenShare, which does nothing while shareBusy.
CaptureEnds ==
    /\ \E t \in Tracks :
          /\ tracks[t].kind = "screen" /\ tracks[t].live
          /\ LET ts == Stopped(tracks, {t})
             IN  IF page.screen # NoTrack /\ page.share.at = "idle"
                 THEN StopShare(page, ts) ELSE Step(page, ts)
    /\ UNCHANGED <<flip, past>>

\* Mutant: a call that was torn down is not noticed.
MutantRestored(enabled) ==
    LET ts == Captured("restored", TRUE, enabled)
        s == [page EXCEPT !.video = Append(@, New)]
    IN  IF page.stream THEN StopSends(s, ts, New)
        ELSE Step([page EXCEPT !.share = Idle], ts)

\* The camera is back, as muted as it was, unless the call is over.
Restored(enabled) ==
    LET ts == Captured("restored", TRUE, enabled)
        s == [page EXCEPT !.video = Append(@, New)]
    IN  IF page.stream THEN StopSends(s, ts, New)
        ELSE Step([page EXCEPT !.share = Idle], Stopped(ts, {New}))

\* getUserMedia in stopScreenShare has ended.
Restore ==
    /\ page.share.at = "restoring"
    /\ \/ /\ CanCapture
          /\ \E enabled \in page.share.resume : Restored(enabled)
       \/ /\ page.stream
          /\ StopSends(page, tracks, NoTrack)
       \/ /\ ~page.stream
          /\ Step([page EXCEPT !.share = Idle], tracks)
    /\ UNCHANGED <<flip, past>>

-------------------------------------------------------------------------------
(* The camera                                                              *)

\* The camera button: it means the first video track, whatever that is.  Only the
\* button says whether the user wants the camera on (past.choice).
ToggleCamera ==
    LET t == Head(page.video)
    IN  /\ ~page.torn /\ page.stream /\ ~page.camOff /\ page.video # <<>>
        /\ tracks' = [tracks EXCEPT ![t].enabled = ~@]
        /\ past' = IF tracks[t].kind = "screen" THEN past
                   ELSE [past EXCEPT !.choice = ~tracks[t].enabled, !.unmuted = FALSE]
        /\ UNCHANGED <<page, flip>>

ClickFlip(f) ==
    /\ ~page.torn /\ page.started /\ ~page.flipOff
    /\ page.stream /\ page.video # <<>> /\ flip[f].at = "idle"
    /\ flip' = [flip EXCEPT ![f] = [NoFlip EXCEPT !.at = "asking",
                                                  !.old = Head(page.video)]]
    /\ past' = [past EXCEPT !.crossed = @ \/ FlipUnderWay \/ page.share.at # "idle"
                                          \/ page.screen # NoTrack]
    /\ UNCHANGED <<page, tracks>>

FlipFails(f) ==
    /\ flip[f].at = "asking"
    /\ flip' = [flip EXCEPT ![f] = NoFlip]
    /\ UNCHANGED <<page, tracks, past>>

\* The new track takes the old one's place in the stream.  It is on, also when the
\* user had muted the old one: switchCamera does not ask (past.unmuted).  If there
\* is no stream any more, switchCamera fails, and the new track stays as it is.
FlipEnds(f, s, ts, new) ==
    LET old == flip[f].old
    IN  /\ flip' = [flip EXCEPT ![f] = NoFlip]
        /\ IF s.stream
           THEN /\ Step(Applied([s EXCEPT !.video = Append(Without(@, old), new)]),
                        Stopped(ts, {old}))
                /\ past' = [past EXCEPT !.unmuted = ~past.choice]
           ELSE Step(s, ts) /\ UNCHANGED past

\* getUserMedia in switchCamera has a track; a sender of video gets it first.
FlipGot(f) ==
    LET sending == {i \in 1 .. Len(page.senders) : page.senders[i] # NoTrack}
        ts == Captured("flipped", TRUE, TRUE)
    IN  /\ flip[f].at = "asking" /\ CanCapture
        /\ \/ /\ sending = {}
              /\ FlipEnds(f, page, ts, New)
           \/ \E i \in sending :
                 /\ \A j \in sending : i <= j
                 /\ flip' = [flip EXCEPT ![f].at = "replacing", ![f].new = New,
                                         ![f].slot = i]
                 /\ Step(page, ts)
                 /\ UNCHANGED past

FlipReplaced(f) ==
    /\ flip[f].at = "replacing" /\ ~flip[f].lost
    /\ FlipEnds(f, [page EXCEPT !.senders[flip[f].slot] = flip[f].new], tracks, flip[f].new)

FlipLost(f) ==
    /\ flip[f].lost
    /\ FlipEnds(f, page, tracks, flip[f].new)

-------------------------------------------------------------------------------
(* The connection and the end of the call                                  *)

\* ensurePC: a sender for each video track, or one that sends nothing yet.
EnsurePC ==
    /\ page.started /\ ~page.torn /\ ~page.pc
    /\ page' = [page EXCEPT !.pc = TRUE, !.sendrecv = page.video # <<>>,
                            !.senders = IF page.video = <<>> THEN <<NoTrack>>
                                        ELSE page.video]
    /\ UNCHANGED <<tracks, flip, past>>

Awaited == page.share.at \in {"replacing", "offering"}

\* Mutant: the senders of the closed connection are kept.
MutantClosed(s) == [s EXCEPT !.pc = FALSE, !.share.lost = @ \/ Awaited]

\* cleanupPC
Closed(s) ==
    [s EXCEPT !.pc = FALSE, !.senders = <<>>, !.sendrecv = FALSE,
              !.share.lost = @ \/ Awaited]

CloseConnection ==
    /\ flip' = [f \in Flips |-> [flip[f] EXCEPT !.lost = @ \/ flip[f].at = "replacing"]]
    /\ past' = [past EXCEPT !.dropped = @ \/ Awaited,
                            !.crossed = @ \/ \E f \in Flips : flip[f].at = "replacing"]

\* The other page left, or the socket was closed.
PeerLeaves ==
    /\ page.pc
    /\ Step(Closed(page), tracks)
    /\ CloseConnection

\* cleanup: the call is hung up, or the page is being unloaded.
TearDown ==
    LET s == [page EXCEPT !.torn = TRUE, !.stream = FALSE, !.mic = FALSE, !.video = <<>>,
                          !.screen = NoTrack, !.restore = {}]
    IN  /\ ~page.torn
        /\ Step(Closed(s), Stopped(tracks, {page.video[i] : i \in DOMAIN page.video}))
        /\ CloseConnection

-------------------------------------------------------------------------------

\* Completions the browser owes the page.
Completes == Replaced \/ Offered \/ Restore

Next ==
    \/ Completes \/ LostReturns
    \/ Start \/ ClickShare \/ PickCancelled \/ Picked \/ CaptureEnds \/ ToggleCamera
    \/ \E f \in Flips :
          ClickFlip(f) \/ FlipFails(f) \/ FlipGot(f) \/ FlipReplaced(f) \/ FlipLost(f)
    \/ EnsurePC \/ PeerLeaves \/ TearDown

Spec == Init /\ [][Next]_vars

\* The browser completes what was asked of an open connection or of a camera;
\* nobody has to click, to pick a screen or to stay.
FairSpec == Spec /\ WF_vars(Completes)

-------------------------------------------------------------------------------
(* Properties                                                              *)

TypeOK ==
    LET track == 0 .. Len(tracks)
    IN  /\ tracks \in Seq([kind : {"camera", "screen", "restored", "flipped"},
                           live : BOOLEAN, enabled : BOOLEAN])
        /\ page \in [started : BOOLEAN, torn : BOOLEAN, stream : BOOLEAN, mic : BOOLEAN,
                     video : Seq(Tracks), screen : track, restore : {{}, {TRUE}, {FALSE}},
                     share : [at : {"idle", "picking", "replacing", "offering", "restoring"},
                              track : track, resume : {{}, {TRUE}, {FALSE}},
                              stopping : BOOLEAN, lost : BOOLEAN],
                     pc : BOOLEAN, senders : Seq(track), sendrecv : BOOLEAN,
                     flipOff : BOOLEAN, camOff : BOOLEAN, cams : BOOLEAN]
        /\ page.pc <=> page.senders # <<>>
        /\ flip \in [Flips -> [at : {"idle", "asking", "replacing"}, old : track, new : track,
                               slot : Nat, lost : BOOLEAN]]
        /\ past \in [crossed : BOOLEAN, dropped : BOOLEAN, choice : BOOLEAN, unmuted : BOOLEAN]

IsCamera(t) == tracks[t].kind # "screen"
Quiet == page.share.at = "idle" /\ ~FlipUnderWay

\* At rest the page sends what it shows, and asks for a direction that fits: a
\* share that starts, stops or dies while the other page comes, leaves or comes
\* back is never sent to nobody, nor is a stopped track left behind at a sender.
\* Crossed: a share was asked for during the start or a switch of the camera, a
\* switch during another one or during a share, or the connection was closed in
\* the middle of a switch.
SentIsShown ==
    (Quiet /\ page.pc /\ ~past.crossed) =>
        /\ page.senders = IF page.video = <<>> THEN <<NoTrack>> ELSE page.video
        /\ page.sendrecv = (page.video # <<>>)
        /\ Len(page.video) <= 1

\* While a screen is shared, no camera runs, unless requests crossed.
NoCameraWhileSharing ==
    (page.screen # NoTrack /\ ~past.crossed) =>
        \A t \in Tracks : IsCamera(t) => ~tracks[t].live

\* app.js:382: a call torn down while a share was being stopped does not bring
\* the camera back to life, whatever completes afterwards.  This is about
\* stopScreenShare alone: start, switchCamera and startScreenShare do not look
\* whether the call is over, and what they were waiting for then stays live.
NoResurrection ==
    (page.torn /\ ~past.crossed) => \A t \in Tracks : tracks[t].kind = "restored" => ~tracks[t].live

\* No share changes whether the camera is on: it is as its user left it, also when
\* it was muted while the screen to share was being picked.  Unmuted: a switch has
\* put a camera that is on in the place of a muted one, and the button was not
\* pressed since; then the camera is on against the user's choice, and a share
\* leaves that as it is, too.
MuteSurvivesShare ==
    (page.video # <<>> /\ IsCamera(Head(page.video)) /\ ~past.crossed) =>
        tracks[Head(page.video)].enabled = (past.choice \/ past.unmuted)

\* A capture that ended, be it during the set-up when stopScreenShare does
\* nothing, is unwound; a connection closed at that moment may prevent it.
EndedIsUnwound ==
    (page.screen # NoTrack /\ ~tracks[page.screen].live)
        ~> (page.screen = NoTrack \/ past.dropped \/ past.crossed)

===============================================================================
