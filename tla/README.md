# A TLA+ model of pinTalk

pinTalk is a self-hosted one-to-one video call: a Go server that keeps rooms,
passes signaling messages between the two browsers of a room and obtains its own
TLS certificate, and a page (`web/app.js`) that negotiates a WebRTC connection
with the page at the other end. This directory models the parts of it whose
correctness depends on the order of events, checks the models with TLC on small
instances and proves the central facts about the signaling server, the sessions, the
certificates and the life of the process with TLAPS.

Sources are cited as `file:line`, relative to `src/`.

## 1. Inventory

| Component | State | Operations | Talks to |
|---|---|---|---|
| Room registry, `internal/room/room.go` | `Registry.rooms` under `Registry.mu`; per room `peers` under `Room.mu`; per peer the channel `Send` (64 messages), `closed`, `closeOnce` | `Create`, `Get`, `Delete`, `ListByHost`, `gcLoop`; `AddPeer`, `RemovePeer`, `Snapshot`, `PeerCount`; `Peer.Close` | called by the HTTP routes and by every WebSocket handler |
| WebSocket handler, `internal/signal/ws.go` | one handler and one writer goroutine per connection: the room it holds, its initiator flag, its copies of the peer list | `ServeHTTP`: look up, accept, add, welcome, announce, read loop (`signal`, `bye`), notify, deferred removal; the writer: deliver, ping, stop | pushes to the channels of other peers without a lock |
| Page, `web/app.js` 427-610 | `ws`, `pc`, `remotePeerId`, `initiator`, `pendingICE`, `makingOffer`, `needsRenegotiation` | message handler, `ensurePC`, `renegotiate`, `handleSignal`, `cleanupPC` | server messages, `RTCPeerConnection` |
| Page, `web/app.js` 142-425 | `localStream`, `screenTrack`, `camRestore`, `shareBusy`, `currentFacing` | `start`, `switchCamera`, `startScreenShare`, `stopScreenShare`, `setOutgoingVideo`, `cleanup` | the browser's media devices, `renegotiate` |
| Page, tiles and buttons | which tile shows what | `applyLocalStream`, `swapTiles` | |
| Self-signed certificates, `internal/tlscert/selfsigned.go` | three files in the cache directory; the certificate in memory | `LoadOrCreateSelfSigned` | `main.go` serves the leaf and offers the CA |
| Let's Encrypt for an address, `internal/tlscert/acmeip.go`, `cmd/pintalk/leip.go` | three files in the cache directory; `current`; the HTTP-01 tokens | `Start`, `renewLoop`, `obtain`, `GetCertificate` | the certificate authority |
| Sessions, `internal/auth/auth.go` | `sessions` under `mu` | `Login`, `Logout`, `Get`, `gcLoop` | the routes |
| Routes, `internal/server/server.go` | none of its own | login, logout, rooms, call page, ICE configuration, CA | sessions, registry, TURN credentials |
| TURN, `internal/turn/turn.go` | listeners | `Start`, `Close`, `EphemeralCredentials`, `credKey` | pion/turn |
| Configuration, `internal/config/config.go` | the configuration | `Load`, `validate`, `resolveTLSMode`, `CertIP` | everything |
| Start and shutdown, `cmd/pintalk/main.go` | context, listeners | `cmdServe`, the four `serve...` functions, `signalContext`, `shutdown` | everything |
| Wizard, `cmd/pintalk/init.go` | `config.yaml` | `cmdInit`, `renderConfig` | the next start |
| Scripts, documentation | | | |

How they interact: a host logs in and creates a room over HTTP; both browsers
open `/ws`; each handler adds its peer to the room, tells the newcomer who is
there and the others who came; from then on it passes `signal` messages on
through the bounded channels that the writers drain. The pages exchange offers,
answers and candidates that way, and either user may start a share at any time.
A host deletes a room over HTTP; a collector removes old empty ones.

What is hard, and what makes each part correct:

* **Rooms and handlers.** Everything runs concurrently, lists are copied under a
  lock and used without it, channels are closed by one goroutine and written by
  others, `Delete` reads a list without its lock, buffers fill up, sockets die at
  any point. Correct means: a list names exactly the peers that are there, never
  more than two; a listed peer's channel is open while the room is registered; a
  room does not disappear under a call; a dead connection gives its place back.
* **What the pages are told.** Each page's view of its partner and of its role is
  assembled from messages that were composed at different moments. Correct means:
  once everything has been delivered, the latecomer names the other page, the
  other one names somebody, and the two are not both impolite.
* **Negotiation.** Every `await` lets messages, clicks and connection events in.
  Correct means: answers meet the offers they answer, an impolite page's offer is
  never rolled back, and what the pages settle on is what they send.
* **Certificates.** Files are written one by one, the process may die between and
  during writes, certificates age, the authority refuses. Correct means: what is
  served belongs together, nothing is replaced or ordered without need, and what
  is due is renewed.
* **Camera and screen sharing.** Four procedures work on one stream and wait for
  people, devices and the connection in their middle. Correct means: the page sends
  what it shows, the camera is off during a share, and stopping a share brings it back
  as muted as it was, and not when the call is over.
* **Sessions.** A session is read under a lock and judged without it, and the request
  acts later; rooms are looked up, compared and deleted in three steps; the page was
  rendered for somebody who may be nobody when it opens its socket; collectors and
  restarts come in between. Correct means: a session that is over opens nothing, rooms
  go through their owners only, what somebody was told of a room stays true, and whoever
  comes with the host's cookie gets into the call.
* **Configuration.** The wizard, `Load` and `cmdServe` each decide what a mode needs.
  Correct means: what is accepted can be served, and means the same to all three.
* **Start and shutdown.** Listeners are opened by goroutines and may fail, the signal may
  come before they are, requests may never end. Correct means: a process runs with all
  it promised or not at all, stops for a reason only, ends after a signal, and shows in
  its exit status what it cut off.

## 2. Modules

| Module | Models | Composes |
|---|---|---|
| `Signaling` | `room.go` and `ws.go` | refines `CallRoom` |
| `CallRoom` | what the registry promises: an abstract specification without locks, handlers or messages | |
| `CallSignaling` | the signaling server and what each page makes of its messages | extends `Signaling` |
| `Negotiation` | two pages, their `RTCPeerConnection`s and an orderly server | |
| `ScreenShare` | what one page captures and sends | |
| `Certificates` | both certificate sources over one cache directory | |
| `Sessions` | `auth.go`, and the routes of `server.go` that ask it | |
| `Configuration` | what `config.go` accepts and what `init.go` writes: operators only | |
| `Lifecycle` | `cmdServe`, `shutdown`, the wizard as the writer of the file | extends `Configuration` |
| `Signaling_proofs`, `Negotiation_proofs`, `ScreenShare_proofs`, `Certificates_proofs`, `Sessions_proofs`, `Lifecycle_proofs` | theorems | each extends its module |
| `CallSignaling_proofs` | theorems about what pages believe | extends `CallSignaling`, `Signaling_proofs` |
| `NegotiationMedia_proofs` | theorems about offers and answers | extends `Negotiation_proofs` |
| `MC_Signaling`, `MC_CallSignaling`, `MC_Negotiation`, `MC_Sessions`, `MC_Lifecycle` | symmetry sets, state constraints and inputs for TLC | |

### Signaling

One variable per field of the code: `peers[r]` is `Room.peers`, `send[h]` is
`Peer.Send`, `closed[h]` says that `Peer.Close` ran, `snap[h]` is what is left of
a handler's copy, `second[h]` its initiator flag, `pc[h]` its position,
`writer[h]` the writer goroutine, `alive[h]` the socket. `status[r]` stands for
the registry's entry; an identifier is drawn at random and never reused, so a
room that is gone stays gone. `lost` is history: a message met a full buffer.

A handler takes a step per critical section and per push to a channel, because
those are the points between which others run:

    Lookup - AcceptFails | JoinFull | JoinBegin - JoinEnd
           - CopyForWelcome - SendWelcome - CopyForAnnounce - Announce*
           - StartLoop - (ReadSignal - Forward | ReadBye)* - ReadError
           - CopyForLeave - Notify* - Finish - RemovePeer

The append of `AddPeer` has a beginning and an end because `Registry.Delete`
reads the list without `Room.mu` (room.go:168): in between it may see the old
list, the new one, or a length whose last element is not stored yet. In the last
case `Close` dereferences nil, the request panics and `Registry.mu` is never
unlocked (`stuck`). A push to a closed channel panics with a `default` case or
without: `TrySend` then sends the handler to its deferred calls. In a read loop
`break` inside the `switch` leaves the switch, not the loop, so `bye` only closes
the socket.

`CallRoom` is the abstract room: rooms open once and close once, a connection
enters one room once, at most `MaxPeers` are in. The mapping takes a room's
members from its list and the connections that ever entered from the handlers'
positions. A connection that found a room may enter it after it was retired
(ws.go:50 and ws.go:85 are apart); `CallRoom` says so instead of hiding it.

### CallSignaling

Adds `remote[h]` and `impolite[h]`, the page's `remotePeerId` and `initiator`. A
page's assignments precede the first `await` of its message handler, so they
happen in the order of delivery: `Receive` is `Deliver` of `Signaling` with the
page's reaction, `PageEnds` is `RemovePeer` with the end of the page.

What a page relies on without checking it is stated here, too. `handleSignal`
(app.js:565) takes a signal from anybody: it does not compare the sender with
`remotePeerId`, and the server forwards to whoever the client names, if it is in
the room. `MailInOrder` says in which order the channel of a page holds messages,
whatever clients send. It does not say that the sender of a signal is the page's remote
peer: the welcome of a page may list a partner that left after the copy was taken and be
put behind the announcement of the next one.

### Negotiation

`page[p]` is a record of what the page remembers (`making`, `needs`, `peer`,
`impolite`, `held` candidates) and of its connection: signaling state `sig`, the
description last `heard`, and `chain`, the operations requested from the
connection and not finished. A connection runs its operations one at a time in the
order of request; each `await` in the code is one, and the action that completes
it runs the code up to the next `await`. `cleanupPC` drops the chain: an operation
awaited on a closed connection never completes. `createOffer` while a remote offer
is pending is refused or left to the check behind it, whichever the browser does.

A description carries the direction of the video (`sendrecv` with a camera or a
share, `recvonly` without) and a number that ties an answer to its offer. One
candidate stands for all.

The server of this module is the orderly one: joins and departures are single
steps and messages arrive in order. What happens when it is not is the subject of
the two modules above.

### ScreenShare

`page.stream`, `video` and `mic` are `localStream`, `screen` is `screenTrack`,
`restore` is `camRestore`, and `page.share` says where the one call of
`startScreenShare` or `stopScreenShare` that `shareBusy` admits is waiting:

    ClickShare - PickCancelled | Picked - Replaced - Offered - (end of the start)
    ClickShare | CaptureEnds - Restore - Replaced - Offered - (end of the stop)

`Replaced` and `Offered` are the two awaits of `setOutgoingVideo`; without a
connection there are none, and the steps collapse as they do in the code. The check
at the end of the start (app.js:352) is part of the step that ends it
(`ShareEnds`). `flip[f]` is a call of `switchCamera`. A track is live until it is
stopped or its capture ends; `senders` are the video senders of the connection.

If the connection is closed during an await, the code behind it may go on, leave by
an exception (setting the direction of a closed transceiver throws, and only the
`finally` clause runs) or never run: `LostReturns` and `FlipLost` are possible and
not fair. Waiting for the list of cameras and for the ICE configuration is folded
into `Start`: nothing that the stream depends on happens in between.

`past.crossed` records that requests crossed in a way the page does not guard
against: a share asked for before `start` has its camera, or during a switch of the
camera; a switch during another one or during a share; a connection closed in the
middle of a switch. Then the page may show one thing and send another, and the camera
may run during a share, against app.js:329 ("camera light goes off while sharing");
dropping `past.crossed` from `NoCameraWhileSharing` shows the trace. The properties say what
holds otherwise. `past.dropped` records that the connection was closed while a share
awaited it: then the check at the end of the start may be skipped.

`past.choice` is what the user last said with the camera button, and nothing else. The
camera does not always obey: `switchCamera` (app.js:289-300) puts a track that is on in the
place of a muted one and never touches the button, which goes on saying muted.
`past.unmuted` keeps that until the button is pressed again. `MuteSurvivesShare` is about shares: they leave the camera
on or off as the button, or such a switch, left it. Without `past.unmuted` it fails: mute,
switch. A press of the button while a share is being set up means the screen, which is the
first video track by then.

`NoResurrection` is the check at app.js:382, which only `stopScreenShare` makes. A
camera that `switchCamera` or `start` was waiting for when the call was hung up, or a
screen that was still being picked, stays live: the model reaches all three, and no text
of the repository speaks of them. `replaceTrack` on an open connection succeeds in the
model; a refusal, which the page only logs, is modelled for closed ones.

### Certificates

A certificate and its key are a pair with a number; a file holds the number of
the pair it belongs to, or is missing, or torn. In self-signed mode a pair and its
CA are minted together, so the CA file holds a number too. `WriteFile` completes,
fails, or is cut short together with the process. `life` is `good`, `due` (less
than the renewal margin left) or `over` (an hour left, or less). A run starts with
a mode and the names it is to be reached at (`want`), chosen freely: the operator
may have changed both. A shutdown that begins while an order is under way lets
the order run on for a while (acmeip.go:215-220); in the model that is a `Stop` which
comes later.

### Sessions

`sessions[t]` is the session drawn with token `t` and `stored` the keys of the map: a
session never changes, so a request that has read it under the lock (`ReadSession`)
knows it for good, and what is left to go wrong is that it was logged out, collected or
forgotten by a restart before it is judged (`CheckExpiry`) or used. Rooms are kept the
same way (`rooms`, `listed`). A `visit` is a request or the page it brought up:

    Request - ReadSession - CheckExpiry - CreateRoom | FindRoom - DeleteRoom
                                        - page - OpenWS - ReadSession - CheckExpiry - host | guest

`visit.late` is history: the session was over when the request arrived. A page survives
a restart, as its browser does. With the socket (`OpenWS`) goes the cookie the browser has
by then, which may be any it was ever given, or none. So `HostsAreAdmitted` does not say
that a host's page gets in while the session it was rendered with is alive, which is not so:
after a login as another host in a second tab (server.go:98-124) the page comes with that
host's cookie and, sending no name, is turned away. It says that a cookie that is good for
the host opens the call. `NewestFirst` is the sort that `ListByHost` does by
hand (`Pass` is one round of its outer loop); `ListsNewestFirst` tries it on every order
in which the map can be walked.
Passwords are left out (a wrong one changes nothing), and so is what a room does with
the peers in it, which is the subject of `Signaling`.

### Configuration and Lifecycle

`Configuration` keeps of a file what decides something: the mode or none, whether there
is a domain, what kind of address each address is, TURN with its secret and realm, the
kinds of accounts. `ModeAccepted` and `Accepted` are `resolveTLSMode` and `validate`,
`Loaded` what `Load` writes back, `Choices`, `Writable` and `Written` the three parts
of the wizard.

In `Lifecycle`, `pc` is where `cmdServe` stands:

    Start - TurnBinds - TurnBinds - Prepare [- Obtained] - serving
          - Shutdown - DrainApp [- DrainHTTP] - Finish

The goroutines that listen are `todo` until they have bound (`Bind`); `ListenerFails`
covers both a bind that fails and a listener that is lost later, and passes it on by
`cancel` where the mode cannot do without (`Indispensable`: in self-signed mode port 80
is optional, main.go:228). Shutdown of the first server closes its listener and waits
for its requests; the second one goes on accepting meanwhile, and both share one
deadline. A WebSocket is taken over (`Hijack`) and nobody waits for it. Of TURN the
bind is modelled, not a later loss of its listeners.
`Exit` forgets everything but the file and how the process ended.

Some things the model shows that no run claims anything about: the wizard writes a
"ready-to-use config.yaml" (init.go:18) for any address it is given, but in mode
letsencrypt-ip the next start takes a public one only (`WizardFilesLoad` says exactly
when); and of these no text of the repository speaks: a listener that is lost later ends the process with status
0, and `Restart=on-failure` (deploy/systemd/pintalk.service:14) leaves it down; only the
first signal is received, a second one does not hurry the drain; calls under way are cut
without a trace in the status.

## 3. Runs

| Run | Instance | Asks |
|---|---|---|
| `signaling_safety` | 3 connections, 1 room, 2 places, buffers of 1 | roster, capacity, retirement, refinement of `CallRoom` |
| `signaling_progress` | 2 connections, 1 room, buffers of 1, fair handlers | a dead connection leaves |
| `call_views` | 3 pages over time, buffers of 2 | what waits for a page, in which order, and what the pages of a settled room believe |
| `negotiation` | 2 seats, 3 page loads, 2 share changes, fair pages | settled media, matching answers, roles, the impolite page is heard |
| `screen_share` | 1 page, 5 tracks, 1 switch at a time, a fair browser | what is captured, shown and sent |
| `certificates` | 1 name, 3 pairs, 2 faults, 3 tries, fair process | what is served, kept, ordered and renewed |
| `sessions` | 2 hosts, 2 tokens, 2 rooms, 2 visits, clock 0 to 1 | who is let in, who deletes, what answers are worth |
| `lifecycle` | every mode with every address, TURN or not; no limit on requests | what is listened to, why and how a process ends, which files are good |
| `handler_panics` | 2 connections | refuted: room.go:96 |
| `deletion_evicts` | 2 connections, everything on the server fair | refuted: web/app.html:105 |
| `glare_stuck` | 2 pages, 3 share changes | refuted: app.js:454-455 and 569-571 |
| `wrong_address` | 2 addresses | refuted: acmeip.go:85-86 |

The first eight show that the properties hold. The other four each check one
statement of the repository's own comments and texts, which the code does not
keep; the findings in `PROJECT.json` tell the shortest story of each:

* *handler_panics.* A handler copies the list, the other peer leaves and closes
  its channel, the push panics. `net/http` recovers, the deferred calls remove the
  peer, nobody is told.
* *deletion_evicts.* Deleting a room ends the writers, not the readers.
* *glare_stuck.* An offer sent right behind an answer is taken for a collision
  while the answer is being applied, and ignored for good.
* *wrong_address.* A cached certificate is not compared with the address.

Two more stories of `CallSignaling` are the reason why `call_views` asks no more than it
does. A page that joins beside a leaving connection, and a third page that joins before
the first one's announcement: both may demote themselves, so a settled pair may have no
impolite page (the opposite mistake, two of them, cannot happen). And a page that joins
between a departure's notification and its removal is welcomed with a partner that is
gone, and hears of it from nobody.

**Bounds.** Two places and a third connection give a full room, a competitor and
a reload; rooms share nothing but `Registry.mu`, so one is enough.
`signaling_safety` identifies states that differ only in which messages a buffer
holds (`SafetyView`), since no guard and none of its properties can tell. With buffers of
one message a full buffer is common; with two, welcome and announcement can wait
together, which is what the views depend on. `Call_views.cfg` takes one signal at a time, to
another page (`OneSignal`, `NoSelfSignal`), and leaves out deletions, which
`signaling_safety` explores, ages and mute pages; the theorems about pages and channels
know none of these bounds. Three page loads let
the roles swap once with a partner that stayed; two share changes put one into the
middle of an exchange and one behind it; the collision that gets stuck needs
three. Five tracks are a camera, two shares and two restored cameras, or fewer shares
and a switch in between. Three pairs are the first certificate, its renewal and one more; two faults
tear a file in one run and refuse an order in the next. With one name a run asks
for none or for it, which is all that covering can tell apart. Two visits are a request
and whoever gets in its way; a lifetime of 0 and a clock of two readings make a session
end between any two steps of a request, and a room old enough to be collected while a
request knows it. In `Lifecycle`, an operator writes a file only while there is none
(the wizard may replace it), and `SmallEdits` leaves out files that differ in what
`validate` does not tell apart; requests, calls, starts and signals are not bounded.

**Fairness.** Handlers and writers get weak fairness per goroutine: the Go
scheduler runs what can run and mutexes are handed to waiters. `HandlerFairSpec`
leaves the writers out on purpose: departures must not depend on them. Nothing is
assumed of clients, users, the network or whoever deletes rooms. In `Negotiation`
the pages' event loops serve messages and finished operations
(`WF(Receive)`, `WF(Complete)`); in `ScreenShare` the browser completes what was
asked of an open connection or of a camera (`WF(Completes)`); in `Certificates` the process goes on
(`WF(Process)`), faults are finite, nobody has to restart it, and time need not
pass; in `Lifecycle` main goes on, goroutines come to bind and the deadline of the
shutdown expires, but no request has to end, no user has to hang up and no signal has
to come. `Sessions` states safety only. `ImpoliteIsHeard` is claimed for the impolite page only: for the other one
it is what `glare_stuck` refutes.

**Deadlock** is checked for `Certificates` and `Lifecycle`. The other models may stop: every
request was made, every page was loaded.

**Mutants.** Each property is paired with a plausible slip in a definition of the
model (a dropped guard, a wrong index, a forgotten reset), written beside the
definition; with the slip in place TLC finds the property violated under the same
configuration.

## 4. Proofs

**Signaling.** `Signaling_proofs` proves, for every set of rooms and connections, every room size
and every buffer size (assumed positive; `NoRoom` is not a room):

* `InductiveInvariant`: `Spec => []IInv`,
* `TypeCorrectness`, `RosterCorrect`, `RegisteredPeersOpen`, `CapacityRespected`,
* `RetirementClosesPeers`, an action property,
* `ServerImplementsCallRoom`: the refinement that `signaling_safety` checks.

The argument. That a list names exactly the running handlers is not inductive by
itself: a handler could hold no room, or two appends could share the last place.
`IInv` adds `HandlerRooms` (a handler holds a room exactly while it runs, that room
was created, and a closed channel belongs to a handler that is on its way out or
whose room is gone), `AppendsExclude` (one append per room, with a place for it)
and `PlacesRespected` (nobody twice, at most `MaxPeers`). Most steps change only
positions, copies and channels: `StepKinds` sorts the steps, and one lemma per kind
(`WalkKeepsCore`, `RegistryKeepsCore`, `OutsideKeepsCore`, `JoinEndKeepsCore`,
`RemovePeerKeepsCore`) shows that the invariant survives; types are dealt with
once, in `TypeStep`. About lists two lemmas suffice: what an append adds
(`AppendToRoster`) and what the removal of the only occurrence takes away
(`RemoveFromRoster`). The refinement follows the same split: `QuietSteps` stutter,
`RegistryImplements`, `JoinImplements` and `RemovalImplements` take the step of
`CallRoom`; that a room has a place needs the size of a list without repetitions
(`RosterSize`). For an action property and the refinement the invariant is used at
both ends of a step.

**CallSignaling** (`CallSignaling_proofs`). A step of the system is a step of `Signaling` or
leaves the server alone (`ServerSteps`), so the server's `IInv` holds here, too. What a page
believes changes with every message; what it *will* believe when it has read its channel
empty does not, and that is what the invariants speak of: `EndsPolite` (behind every message
that makes the page impolite comes one that makes it polite), `EndsNamed` (there will be a
remote peer). Reading keeps both, and so does a message put last unless it is a welcome or
a farewell.

* `OffersAreNotIgnoredByBoth` (`NotBothImpolite`), for every room size and buffer size. A page is
  impolite only if the server's flag for it is set (`FlagsGiven`). If the flags of two pages
  are set, `OneGivesWay`: one of them has yet to announce itself to the other (`Owes`), or one
  of them ends polite. No order of the two joins is needed: a handler that enters the room or
  copies its list owes everyone in it an announcement, and whoever announces itself last
  does so behind both welcomes, except to a page whose own welcome is still to come, which
  then owes an announcement itself. `Snapshots` and `Newcomers` say whom a handler can send to.
* `LatecomerNamesTheFirst` (`LatecomerNamesFirst`), for rooms of two, as `MaxPeersPerRoom` has
  it, and every buffer size: with three, the departure of the third page leaves the second
  without a remote peer. `PairsNamed` follows the two peers a list holds: the last one is welcomed
  with the name of the first (`Copied`) and told of nobody else (`ToldOf`), so it names the
  first from then on (`LastNames`); the first is told of the last, and no farewell comes after
  that (`FirstNames`), though its own belated welcome may.
* `SendersKeepOrder`, `MessagesKeepToTheirRoom` (`SendersInOrder`, `MessagesStayInRoom`), for
  every room size and buffer size, lost messages, deletions and panics included. `Genuine`
  says of a message in a channel that those it concerns came into the receiver's
  room (`Acquainted`), and that its sender stands where it can have sent it and will not send
  what may no longer follow (`Told`: past the announcement to this page, or past the
  farewell to it). Handlers only move on (`Onward`), so both last. A push goes to the channel
  of somebody in the room: a copied peer that has left has a closed channel
  (`DepartedClosed`), and the push panics. `StepChannel` says what a step makes of a channel
  (nothing, empty, its tail, one message more), and `PairedStep` that a relation between
  earlier and later messages need be checked for the new one only.
* `MailComesInOrder` (`MailInOrder`), for rooms of two: whoever pushes, the page it pushes
  to and a sender that is still there would be three in the room (`RoomForTwo`).

The invariants were checked with TLC before they were proved: those about beliefs on the
instance of `Call_views.cfg`, deletions included, those about channels with any signals, too, and
with two rooms.

**Negotiation**, for any number of page loads and share changes, in five layers. Every part
of the invariant is about a page `s`, the messages `c` on their way to it, the other page
`o` and the messages `d` to that one, and holds of both pages.

* *Acquaintance* (`Negotiation_proofs`): messages introduce whoever they come from, so
  `Believes` can say whom a page will talk to once it has read its first `n` messages;
  having read all of them it talks to the page that is there. Ids grow. An operation of the
  connection is for the page that `s` talks to.
* *Roles*: who is impolite will be decided by the introductions still to be read; the younger
  page of a pair is the impolite one (`OneSideYields`).
* *Steadfast*: an impolite page has no offer to apply while its own is made or pending
  (`ImpoliteOffersStand`, an action property).
* *Exchanges* (`NegotiationMedia_proofs`): that an answer in the queue fits the pending offer
  is true because an offer on its way, or one that is being answered, is the offer its page
  waits for (`Offered`, `Owed`), and because nobody answers twice (`Answering`, `Answered`).
  One case breaks that: the older page takes its offer back for the younger one's, and its
  offer is still on the way. `Offered` says that the younger page then has an offer of its
  own pending, and that the answer to it comes behind the orphaned offer, which is dropped as a
  collision. That order in turn needs to know which messages a polite page has in front of
  it (`AnswerFirst`, `OneOffer`) and what a page that `s` has not heard of may send
  (`Strangers`, `Mutual`). The result is `AnswersMeetTheirOffers`.
* *Media* (same module): that a change of direction is not forgotten. A page that is at
  rest with its partner has told the direction it has (`Settled`); otherwise one of the two
  is busy, and what is under way says the current direction or a further offer is queued
  (`Stands`, of an offer on its way in `Pending`, of one being answered in `Heeded`, of one
  that has been answered in `Agreed`; `Replying` says the same of the answer). `Ready` is what a
  page must see to by itself: a request is queued only while something will replay it, and
  what it has prepared to send is up to date. The younger page of a pair begins
  (`Awaited`). The result is `MediaSettles`.

The steps of the first three layers are sorted once by what they do to a page and its
messages (`Read*`, `CreatedOffer` and so on); for the last two, a page that works on its own
idles, offers, proceeds, replies or settles, and each kind has one lemma for the near side and one
for the far side. `Exchanges` was checked with TLC at three page loads and two share changes
and at four and three before it was proved, `Media` at three and two.

**ScreenShare** (`ScreenShare_proofs`), for any number of tracks and switches:
`SendersFollowTheStream`, `SharingTurnsTheCameraOff`, `TornDownStaysDark`, `MutedStaysMuted`.
What the page shows, what it sends and what runs differ during every await, so the invariant
says by how much: `OneVideo` (the stream has at most one track, and a shared screen is it),
`Waiting` (what each await of a share knows when it returns), `Sending` (the sender lags
behind the stream exactly while a replacement is awaited), `Switching` (the same for a
switch of the camera, which excludes a share), `Running` (a track that is live is shown, or is
just about to be), `Muted` (whether the camera that is shown, or will come back, is on:
`On`, the user's choice or a switch that overruled it) and `Over`. All of it is claimed as long as requests do not
cross, and a crossing is not forgotten (`CrossedStays`); only `Switched` holds without
that.

**Sessions** (`Sessions_proofs`), for any hosts, tokens, identifiers, visits and
lifetimes: `LateRequestsRefused`, `AnswersAboutRoomsHold`, `HostsGetIn`,
`OwnersDelete`. What has to be shown is that a request cannot be overtaken. `Persists`
says that no step takes back what a visit may know: tokens and identifiers are not drawn
twice, sessions and rooms do not change, and what is not valid or not listed does not
become so again. `Sound(v)` collects what holds of a visit (what it has is real, what it
has proved is true, what was over is over, and who was turned away had no cookie of the
host); a step of somebody else keeps it because of
`Persists`, and a step of its own is checked action by action (`OwnStepSound`). The
assumption that an identifier is never drawn twice stands for 16 random bytes.

`HostsSeeNewestFirst` (`ListsNewestFirst`) is about the two loops of `ListByHost`, for
any number of rooms and any order of the map. The prover has no induction over
data, but it has the well-foundedness of the naturals: a statement about a loop that
failed for some number of rounds would fail for a least one (`Counting`), and one round
more is a step it can check. `LoopRuns` gets from it that the loops are what their defining
equations say. What they keep: an exchange loses no room (`ExchangeOrders`), and after
round `i` place `i` leads all that comes behind it (`Leads`, `ExchangeLeads`, `PassSettles`),
so the list is in order when the last place is settled (`NewestFirstSorts`). That the
registry is finite is an invariant of its own (`FiniteListed`); `WalkIsOrder` shows that
what the map yields names every room once.

**Certificates** (`Certificates_proofs`), for any addresses, any number of key pairs,
tries and faults: `PairsBelongTogether`, `CacheIsWhatIsServed`, `CAKept`,
`OrdersNeeded`. The files do not say where they come from, so the invariant says what
they can be at each step: no file is of a pair that is yet to come and the pair that was
just made is in none that is still to be written (`Fresh`), a process of one mode is at
steps of that mode (`Places`), on the way to a new CA the cached leaf will not do
(`CreateNeeded`), and on the way to a new certificate a matching pair is due, while
between the two writes there is none (`OrderNeeded`). The two action properties follow
from the last two.

**Lifecycle** (`Lifecycle_proofs`), for any files an operator may write:
`ProcessRunsWhole`, `ProcessStopsForAReason`, `CutRequestsShow`. `Stages` says by where
main stands which servers there can be, which still accept and whose requests can be
left; `Relay` that TURN is there once main is past it. The end of a process is dealt with
once (`EndKeeps`). `AcceptedFilesServe` and `WizardAndLoadAgree` rest on facts about the
operators of `Configuration` (`LoadedOnce`, `WrittenLoads`) and on `Wizardry`: the file
of the wizard is one it can write.

Only model-checked: what needs fairness (TLAPS has no ENABLED here), that is
`DeadConnectionsLeave`, `ImpoliteIsHeard`, `DueIsRenewed`, `EndedIsUnwound` and
`SignalEndsIt`, and what the four refuting runs find.

## 5. Not modelled, and the plan

Of the parts that are modelled, these operations are left out, because they read and
answer or compare once: issuing a TURN credential and checking it, the ICE
configuration, the CA download, static files, the HTTP-01 token table, which the client
of the authority fills and reads within one order, and prompts, the generated password
and the detected address of the wizard.

Every safety property of a passing run is a theorem now. What could
still be proved is the step to a longer call: that `Negotiation` with its orderly server is
what `CallSignaling` gives a pair of pages as long as nothing is lost or closed.

Left out for good: the domain mode (the work is done by autocert), relaying (done
by pion/turn), the wizard's dialogue, rendering, scripts.
