# Verification of Wizzeye

Wizzeye lets somebody who wears Iristick smart glasses, connected to a phone,
make a video call to a remote observer in a web browser.  Both enter a *room* by
its name.  A signalling server seats at most one glass wearer and one observer in
a room and relays their WebRTC messages; the video itself goes from phone to
browser.

This directory holds TLA+ models of the system's own logic, the TLC
configurations that check them on small instances, and proofs that TLAPS checks.
`PROJECT.json` is the index: components, runs, mutants (a plausible bug for each
checked property, which its run must catch), the source lines every definition
stands for, findings, hazards and theorems.  Source lines below are of the
repository under `src/`.

To check a module: `tlc -config Router.cfg MCRouter`; to check the proofs:
`tlapm ServerProofs.tla`, and likewise for `SiftProofs`, `CallProofs`, `CapturerProofs`,
`CallServiceProofs`, `SessionProofs`, `EdgePeerCalls` and `EdgePeerProofs`.

## Inventory

| Component | Source | State | Operations | Model |
|---|---|---|---|---|
| Room router | `server/router.go` | `rooms` (name -> Room), `clients` (client -> Room), each Room's seats and waiters | handlers of join, leave, ping, offer/answer/ice-candidate/reset, unknown types, liveness requests; `putRoom` | `Router`, `ServerProofs` |
| Client connection | `server/client.go` | socket, outgoing queue (5), ping request (1), `done` | reader, writing loop, pong handler, `Send`, `Ping`, deferred clean-up | `Server`, `ServerProofs` |
| Signalling messages | `server/message.go` | none | types, roles, error codes, JSON | in `Router`, `Server`, `Messages` |
| Front end, configuration | `server/main.go`, `config.go` | none after start | upgrade, read the TOML file | not modelled |
| Call state machine | `service/Call.java` | state, error, message queue, delayed restart, one reference per resource, parameters | `handleMessage` (every message in every state), `gotoState`, the callbacks, the UI's calls | `Call`, `CallProofs`; its signalling states also `Phone` |
| Phone signalling | `Call.java`, inner `SignalingProtocol` | the websocket | messages in and out, `close` | in `Call`, `Phone` |
| Camera capturer | `service/IristickCapturer.java` | session, device, failure count, zoom, the camera thread's queue | start, stop, zoom, the device's callbacks, retries | `Capturer`, `CapturerProofs` |
| Call service | `service/CallService.java` | the call, listeners, the notification | creation and end, start and hang-up intents, the call's state messages | `CallService`, `CallServiceProofs` |
| Activities, fragments | `MainActivity.java`, `fragments/` | the bound service, the fragment shown | come and go, ask for a call, hang up, restart, parameters, call view | requests in `Call`, `CallService` |
| Browser room page | `server/webroot/s/js/room.js` | state, websocket, promise of a peer connection, promise of the microphone | message handlers, ICE callbacks, `die` | `Browser`, `Session`, `SessionProofs`; its connection also `Jsep` |
| Vendored scripts | `server/webroot/s/js/webrtc-adapter.js` | of a connection in Edge: descriptions, transceivers, ORTC objects, buffers, timers | offer, answer, descriptions, candidates, close, the browser's events | `EdgePeer`, `EdgePeerCalls`, `EdgePeerProofs` (the Edge connection only) |
| Settings, logs, home page, build | | | | not modelled |

**How they interact.** Every connection of the server has a reader goroutine that
pushes what it read to the router's queue and a writer that drains the client's
outgoing queue; the router is one goroutine, so its handlers are atomic, but it
blocks on a client's full queue.  The phone's call runs on one handler thread with
a message queue; the network monitor, the websocket, the Iristick services, the
peer connection and the user interface post to it from their own threads.  The
capturer shares a lock between that thread and the camera thread, which runs
posted tasks and the headset's callbacks.  Phone and browser see each other only
through the relay: `join` tells each that the other is there, the phone makes an
offer, the browser answers, either resets.  A page can also be opened as the glass
wearer; then it makes the offer.  The service lives on the phone's main thread, hears
of the call by messages, and tells the activity bound to it and the notification; the
system starts and stops it.  In Edge the page's connection is a shim over several
transports of the browser, which report independently.

**What is hard.** Queues that fill while their reader waits for their writer; the
final `leave` of a connection against what its reader still pushes; a waiter that
must be seated exactly when its predecessor goes; messages that stay queued when
the object they are about is gone, or overtake its end; a switch that falls through
its states and must release exactly what the lower state does not need; a delayed
restart against a hang-up; a wait that somebody else must end; offers that cross
resets; a prompt that the user answers after the session it was for has gone; a
service that stops itself while it is asked to start.  The list is `hazards` in
`PROJECT.json`, each at its line, each with the properties that would catch it or the
reason why none does.

**What makes each component correct.**

- Router: its two maps and the seats agree; nobody loses a seat or a turn but by
  its own request, or without being told; a client knows about its peer exactly when
  there is one; no room outlives its users.  A room *name* should have one pair of
  seats (it does not).
- Connection: forwarded messages stay in order; a connection that ended holds
  nothing; nobody waits for ever; a ping is answered.
- Call: every resource exists exactly in the states that need it; what was taken
  down is never heard of again; the lights go out; the user's choices are applied; an
  error is retried and a hang-up ends the call from everywhere.
- Capturer: one camera at a time, none left on; it shows the zoom chosen last;
  failures are retried, then reported; `stopCapture` returns.
- Browser, with its peer: neither end stays in a call that the other has not got; at most
  one connection is open; two that are in a room end in a call or in an error that a
  page shows.
- Call service: screen and notification say how the call is; nothing lingers after it;
  a call can be left to go on in the background.
- The Edge connection: to the page it is one connection, with one description of each
  end, every candidate surfaced once, and one ICE state, that of the whole.

## The plan

1. `Router` - done.  Nobody else decides who talks to whom, and its handlers call
   each other (`leave` inside `join`, `join` inside `leave`).
2. `Server` - done.  `EXTENDS Router`: the same handlers behind bounded channels.
3. `Call` - done: the phone's state machine against everybody who posts to it.
4. `Capturer` - done, but for pictures, auto focus and the end of its thread.
5. `Browser`, `Phone`, `Session` - done: the page with its promises as explicit
   continuations, the phone's signalling states, and the room between them.
6. `Jsep`, `EdgePeer` - done: what the page relies on in a connection, and the
   connection of the shim that implements it.
7. `CallService` - done: the service against a call that is ending, the activity and
   the system.
8. `ServerProofs` - done: the router's invariants for any number of clients, alone and in
   the running server; nothing is left behind; the order of forwarded messages.
9. `Sift`, `SiftProofs` - done: what is left of a queue when messages are removed.
10. `CallProofs`, `CapturerProofs`, `CallServiceProofs` - done: every safety property of
    the phone's parts.
11. `EdgePeerCalls`, `EdgePeerProofs` - done: every property of the Edge connection, and
    the refinement `IsJsep` step by step.
12. `SessionProofs` - done: every safety property of a session: its types, the one
    connection of a page, and that a call is with the other end.
13. `Relay`, not done: an abstract specification of a room name (at most one of each role, told
    of each other, messages in order), which `Server` refines outside the
    promotion defect; the refinement mapping reads the channels as in-flight messages.

None of the modules has a RECURSIVE operator, so all can be proved about.

## The models

### Router

A Room of the code is an object, and two objects can have the same name, so rooms
are pairs `<<name, slot>>` and `rooms` maps a name to the registered one.
`getRoom` takes a free slot; a slot is free when nothing refers to it.
`Canonical` stands for lower-casing and the pattern of `joinRoom`: it maps what a
client writes to a name or to `BadName`.  Handlers call handlers, so each is an operator on a
record of the six variables (`Whole`): `LeaveRoom`, `Promote`, `JoinRoom`, `PutRoom`,
`Forget`, `Greet`; an action applies one to the current state.  The two actions
`Ping` and `BadType`, of which only packets come, and `Alive`, of which nothing
comes, are there because `Server` needs them.  `out` holds the packets of the last
handler in the order of the code's sends; `told` is history, what a client
was last told about its peer.

### Server

`Server` keeps the router's state and puts its actions behind channels with the
code's blocking: `TakeMessage` handles the queue's head when `out`
is empty, `Deliver` moves one packet to its client's queue and blocks when
that is full and the connection is not done.  `reader` and `writer` are program counters
of the two goroutines of `HandleClient`; messages read before the socket's
end can still be handed in after the writer has gone, because they are buffered.  The
clean-up pushes the final `leave` and then closes `done`, in the order of the
deferred calls.  Deadlines are errors that may happen.

### Call

One record `call`, one queue.  Each message of `handleMessage` is an action with the
code's state conditions; `Drop` is the message no state takes.  `GotoState` is
`gotoState`: it fires, tears down what is above the new state by the levels of the
switch (`CloseSession`, `Unregister`, `CloseSignal`, `StopMonitor`), removes the
queued messages that the code removes, and constructs one resource.
Each resource is counted in `held`, so that a second construction or a
second release shows.  The
outside state of each resource (`network`, `socket`, `glasses`, `rtc`) restricts the
callbacks that can come to those the platform can send.  Callbacks check `alive` or
`mClosed` without a lock and then post, so one that has passed the check can post
after the owner's end: `LateCallback`.  A message carries in `age` (history)
whether its sender was gone when it was posted, or has gone since.  `removeMessages` is
`Only` of module `Sift`, which keeps the messages whose kinds are in a set; it takes the set
as a value, and so can be reasoned about, where `SelectSeq` takes a predicate.

### Capturer

One record `cap`; `tasks` is the camera thread's queue, with what the code
posts and what the headset reports.  `StopCapture` and
`StopCaptureWakes` are `stopCapture` up to and after its wait; `dispose`, which the
call uses after it, is a second round.  `HandleFailure` is `handleFailure` with the
`stopCapture` it calls.  Every opening has a device of its own.  Assumed of the headset: a
device it accepted opens or fails, reports one failure and then nothing; a
refusal is an exception, which the code catches.

### Messages, Browser, Phone, Session

`Browser` is `room.js` as operators from a page to the page after one task of the
browser, with the microtasks it leaves.  A connection is a record of `pcs` with how far
its own description is, the peer's connection whose description it has and its ICE state;
`promise` is the connection that resolved `RTC.pc`, or `Pending`; `held` and `waiting`
are the continuations that wait for that promise and for the microphone.  `Settle`
ends a task: a promise rejected in it ends in `die`.  `Phone` has the states of `Call`
from `WAITING_FOR_OBSERVER` on, with one, `AWAY`, for those below, and keeps what
`Call` keeps: the messages a closed connection has posted.  `Session` composes the
observer's page with a phone or with a wearer's page.  The room is two queues and two seats;
`Handle` is what `Router` does with a message when there is one room, and a task and the
forwarding of what it sends are one step, because what is on its way to the server could
as well be sent later.  A page that is loaded again numbers its connections behind those of the
old one, which are closed: a description of an old connection is none of a new one's.  `overlapped` and `misled` are history: they mark the two
defects below after which a property no longer holds, and once set they stay set.

### Jsep, EdgePeer

`Jsep` is abstract: six variables say what the page relies on.  `EdgePeer` is
the shim's `RTCPeerConnection`: an action per call of the page (`makeOffer`,
`makeAnswer`, the descriptions, `addIceCandidate`, `close`) and per event of the browser
(a gatherer finds a candidate, a timer fires, a transport changes).  The mapping of
`J == INSTANCE Jsep WITH ...` reads `signaling`, `surfaced` and `told` off the
connection, `local` and `remote` off the presence of descriptions, `described` off
the candidates written into the local one.  The page's promise chain is split into its
calls and the browser's events come between any two of them; the page runs a chain in one
task, so this admits more than it does.  ORTC objects are modelled from how the shim
uses them.  Two things the model shows that look odd and are so in the code: the
shim's filter is called once without a version (:4280), so that Edge is never given a STUN url;
and a gatherer that is done before its buffer is replayed reports the end of the candidates
early or more than once, which the page ignores.

### CallService

One record per concern: the calls, the service object, the activity, the notification, the
main thread's queue, and `system`, what Android knows of the service.  Each step of
the main thread handles the head of the queue or what the user does.  A call is its thread
and the messages it takes; of its states IDLE, ERROR and ROOM are told apart
(`Call` has the others).  Starting, stopping and binding follow Android's documentation: a
service lives as long as it is started or bound, `stopSelf()` undoes every start, queued
ones too.  `overrun` is history: a `stopSelf()` has met a start that was queued.  It stays set.
The model assumes that the work of a call ends (`Capturer` is about when it does not) and
that a fragment is attached by a later task of the main thread.

## What is checked

Bounds are constants of the modules, given in the `.cfg`.

| Run | Instance | Shows |
|---|---|---|
| `Router` | 3 clients, 2 names (one in two spellings), one bad name, 4 objects per name | the maps and the rooms agree (`Placed`, `OnePlace`, `WaitingBehindSeat`, `RegisteredInUse`), presence is told truly (`PeerKnown`), nobody is evicted or refused in silence (`NoEviction`, `NoSilentRefusal`) |
| `Server` | a connection with 3 messages of all types, one with 1 whose writes can fail | channels within their capacity, `InOrder`, `LeftUnlessLost`; no deadlock |
| `ServerLive` | the same without failing writes, fair | `WaiterServed`, `PingAnswered` |
| `CallSignal` | network, websocket, server, headset, hang-up, restart; late callbacks; fair | no message of a network, socket or headset that was taken down is left to the next (`Purged`), the retry of an error is armed while it should be (`RetryArmed`), the phone goes on with the observer that is there (`ObserverBelieved`), a hang-up ends the call (`StopHonoured`) |
| `CallTalk` | calls made, disturbed and made again; torch, laser, zoom, view | every resource exists exactly in the states that need it and the lights go out with it (`Ladder`); `ParametersApplied` |
| `Capturer` | 2 zooms over 3 levels, 2 failures while opening or streaming, 1 retry, refusals; fair | `NoOrphan`, `OneCamera`, `ZoomShown`; `StopReturnsIfOpened`, `VideoOrVerdict` |
| `CallService` | 2 requests, 1 hang-up from the notification, 2 visits of the activity, 1 error | screen and notification agree with the call (`StateIsShown`), no call or service is left over (`NothingLingers`), a call is kept in the background but for one defect (`KeptUnlessOverrun`) |
| `Session` | a phone or a page as wearer, 3 connections, 1 fault, 1 reload, 1 waiting event; fair | `OneConnection`; nobody is in a call with nobody (`PageCallIsMatched`, `PhoneCallIsMatched`); `CallOrVerdict` |
| `EdgePeer` | offer and answer, 2 m-lines with or without BUNDLE, 2 sets of the peer's codecs (one refuses the video), 1 candidate after the description, Edge 17134 | `LinesAgree`, `ToldTheWorst`, `NoCandidateLost`; it implements `Jsep` (`IsJsep`) |
| `RouterOneSeat`, `ServerFull`, `CapturerHang` | | violations, see below |

Each module has a type invariant, checked in a passing run (`TypeOK` and the like).

**Why the bounds are enough.** `Router`: two clients that compete for a seat and their peer, or
three for one seat, the longest line the code has (a second waiter displaces
the first).  A client can be in one room, so three clients need no more than three
objects beside the one being made.  One case needs a fourth client: a waiter that is
promoted while its room has lost its name to a namesake.  Four clients with one name
were checked once (27,809 states up to symmetry), and the theorem `NobodyWaitsInSilence` covers
every number.  `Server`: capacities of one
reach every full and empty channel but the router's queue, whose limit is the
subject of `ServerFull`; three messages are a join and what follows it, or two joins, and
two forwarded messages are enough to be out of order.  `Call`: a bound of two
on the messages others have posted leaves one that is handled and one
that is stale by then; what the call has posted itself, the delayed restart, comes on
top.  `Capturer`: the limit of retries is a constant; with one retry, two failures reach the
report; two zooms cross between the cameras and back, or change the level on one of them.
`CallService`: two requests are a call that ends and one that begins; two visits of the
activity are one that leaves a call and one that comes back to it.  `Session`: three
connections are the one in use, the one that a reset makes and the one that a crossing
reset makes; with two waiting events of the phone, instead of one, it passes too (231,000
states).  `EdgePeer`: an offer of the code has two lines; the order in which two lines
give up, share and keep their transports is what can go wrong, and one remote candidate is
before, between or after the descriptions of both; with candidates inside the offers it
passes too (447,000 states).

**Fairness.** `Server`: a goroutine that is not blocked runs; a socket need not deliver
anything, and a reader that waits for its socket ends when the pong deadline
passes.  `Call`: the handler thread takes what is queued and the delay
of a retry ends; nothing is assumed of callbacks or the user.  `Capturer`: both threads run, the
200 ms pass, the headset answers a request it accepted.  `Session`: each page and the phone
have their next event, and the server notices a socket that ended; the microphone prompt is
answered, one way or the other; no fault has to happen, no user has to reload, and a
connection that is paired comes up or is reported failed.  `CallService` and `EdgePeer` assume nothing: their
properties are about what a step may do.

`CHECK_DEADLOCK FALSE` stands where the system may stop: a call that is idle is over
and its thread quits, a capturer that is disposed has nothing to do, a page that shows
an error, a phone without a call and a closed connection rest, and the
server of `ServerFull` really blocks, which is what that run is about.

### Where code and text disagree

Each is a run that TLC refutes.

- `RouterOneSeat`: when the occupant of a room leaves and nobody but a
  waiter remains, `leave` (router.go:205) promotes the waiter by `join`, whose own
  `leave` and the outer deferred `putRoom` delete the *name*, although the promoted
  client was just seated in a new object of that name.  The next who joins gets
  another object, and the two are never told of each other.  README.md:24-29 promises
  that the two are connected, and that there is only one of each.
- `ServerFull`: a full router queue and a connection whose clean-up waits for room in
  it block the router, and with it every other connection, for ever.
- `CapturerHang`: if the headset refuses to open a camera, `mSessionOpening` stays set
  and `stopCapture` waits for ever, on the thread that should show the error, retry and
  hang up.

### Known defects

These have no run of their own.  The models have them; where a property holds only up to
such a defect, a history variable marks the state and the property names it.

- *Ghost seat* (client.go:86): after a write error the reader can still push a join
  it has read behind the final `leave`; a connection that is gone then holds a seat.
  `LeftUnlessLost` excepts connections with a failed write, so no property catches this.
- *Stale events* (Call.java:607): `gotoState` leaves the peer connection's messages in the
  queue, and IRISTICK_ERROR (:880), which no `removeMessages` names; `Purged` excepts
  both.  A stale `PC_ICE_FAILED` ends the next attempt with an
  error; a stale `PC_ICE_CONNECTED` takes the phone to CALL_IN_PROGRESS, where
  the offer of its new connection is ignored, and phone and page wait for each other for
  good (`misled` in `Phone`; once it is set, `PhoneCallIsMatched` and `CallOrVerdict` say no
  more of that phone, so they do not catch this).
- *Late callbacks* (Call.java:1015): a callback that has passed its check of `mClosed` posts
  after the handler thread has closed its socket and purged the queue, and the next socket
  takes the message as its own.  `Purged` is about what was posted in time, and
  `ObserverBelieved` excepts a call that has handled such a message, until its socket is
  closed (`misled` in `Call`).
- *No new offer* (room.js:360): a wearer's *page* answers a reset by `establish`, which makes
  an offer only in GET_USER_MEDIA; the reset has gone to ESTABLISHING, so no offer comes,
  although a reset means "as if everyone has just joined" (message.go:66; `Astray`).
- *Two offers at the prompt* (room.js:411): two offers that wait for the microphone
  each make a connection; the promise holds the first, and the second, that of the newer offer,
  is never closed and gets no candidates (`overlapped`
  in `Browser`).  A microphone granted after the page has gone back to waiting also makes
  a connection, which the next event closes.
- *The wrong error* (room.js:231): `closePC` rejects the promise of a connection that was never
  made.  A candidate that waits on it while the microphone prompt is open ends in
  `die(Err.WEBRTC)` when the phone leaves, although a leave means to go back to waiting and
  the text says "An error occurred while establishing the video communication"
  (room.js:115).
- *Errors while connecting* (room.js:310): `die` sends before it closes; while the socket is
  connecting the send throws and no error is shown.
- *A call lost in the background* (CallService.java:167, 190): `stopSelf()` without a startId
  undoes a start that is queued.  The service of the next call is then only bound and
  is destroyed when the user leaves, although strings.xml:61 offers to "continue the
  call in the background" (`overrun`).  `KeptUnlessOverrun` excepts everything after the first
  `stopSelf()` of that kind: it says that nothing else takes the service from a call.
- *A request ignored* (CallService.java:161): a start that comes while the last call is
  still ending is ignored.  A call object is also given up when IDLE is told, before
  its take-down (Call.java:593), so that the next one can find its predecessor still in
  the room; and the EGL context is released under a thread that still works (:121).
- *A sink that stays* (Call.java:505): REMOVE_VIDEO_SINK adds the sink.
- *Overlapping openings* (IristickCapturer.java:411, 422): a retry opens a camera
  although another opening goes on, because a zoom came in the 200 ms, or because the queued
  failure of a device that is being switched away was taken for one of the new device.
  Two devices may then be in use and the video may not come back.  The properties of
  `Capturer` are stated up to that point (`overlapped`).
- *Retries* (IristickCapturer.java:299, 442): `mFailureCount` is not reset by a session that opens,
  so four unrelated failures over a long call end it; `removeCallbacks` is given a new method
  reference and removes nothing.
- *Refused lines in Edge* (webrtc-adapter.js:1294): once a line is refused, the update of the
  state looks up a transport that is not there and throws; the page stays in ESTABLISHING
  (`Broken`; `ToldTheWorst` excepts it).

## What is proved

Each theorem holds for all values of the constants that satisfy the assumptions below: any
set of clients, names, spellings and room objects, every capacity of the channels and
number of messages, any kinds of message that others post to a call and any bound on its
queue, any number of cameras, zoom levels, retries and failures, of requests, hang-ups and
visits, any number of connections, faults and reloads of a session, any list of ICE servers, any candidates and codecs of the other end and any version
of Edge.

| Module | Theorem | Property |
|---|---|---|
| `ServerProofs` | `TypeCorrectness` | `TypeOK` |
| | `PlacementIsUnique` | `Placed`: the maps and the rooms agree |
| | `OneSeatOrTurn` | `OnePlace`: nobody has two places in a room |
| | `SeatsAreHandedOver` | `WaitingBehindSeat` |
| | `RoomsDoNotLeak` | `RegisteredInUse` |
| | `PresenceIsTrue` | `PeerKnown` |
| | `NobodyIsEvicted` | `NoEviction` |
| | `NobodyWaitsInSilence` | `NoSilentRefusal` |
| | `ChannelsKeepTheirBounds` | `ServerTypeOK` |
| | `RouterKeptByServer` | the router's invariants, of the running server |
| | `PlacesKeptByServer` | `NoEviction` and `NoSilentRefusal`, of the running server |
| | `NothingLeftBehind` | `LeftUnlessLost` |
| | `SignallingInOrder` | `InOrder`: nothing forwarded is reordered or duplicated |
| `CallProofs` | `CallTypeOK` | `TypeOK` |
| | `CallLadder` | `Ladder`: resources exist exactly where they are needed |
| | `CallPurged` | `Purged`: what was taken down is not heard of again, but for the peer connection and IRISTICK_ERROR |
| | `CallParametersApplied` | `ParametersApplied` |
| | `CallRetryArmed` | `RetryArmed` |
| | `CallObserverBelieved` | `ObserverBelieved` |
| `CapturerProofs` | `CapturerTypes` | `CapturerTypeOK` |
| | `CapturerLeavesNoneOn` | `NoOrphan`, until `overlapped` |
| | `CapturerOpensOne` | `OneCamera`, until `overlapped` |
| | `CapturerShowsChoice` | `ZoomShown`, until `overlapped` |
| `CallServiceProofs` | `ServiceTypes` | `ServiceTypeOK` |
| | `ServiceShowsCall` | `StateIsShown` |
| | `ServiceLeavesNothing` | `NothingLingers` |
| | `ServiceKeepsCall` | `KeptUnlessOverrun` |
| `SessionProofs` | `SessionTypes` | `SessionTypeOK` |
| | `PageHasOneConnection` | `OneConnection`, unless two offers waited |
| | `PageCalls` | `PageCallIsMatched`, unless two offers waited |
| | `PhoneCalls` | `PhoneCallIsMatched`, until `misled` |
| `EdgePeerProofs` | `TypeCorrect` | `EdgeTypeOK` |
| | `LinesAlwaysAgree` | `LinesAgree`: transports are shared exactly by bundled lines |
| | `PageIsToldTheWorst` | `ToldTheWorst` |
| | `CandidatesAreKept` | `NoCandidateLost` |
| | `ShimIsJsep` | `IsJsep`: the shim's connection refines `Jsep` |

**Assumptions.** `CanonicalType` (the canonical form is a name or bad), `Sentinels` (the null
values are none of the clients and rooms) and `SlotSupply` (an unused
object can always be had, as an allocation can); `Capacities` (a channel holds at least one)
and `PayloadType` (a payload is named by its sender and its place in the stream);
`Bounds` (what can overtake is among what is posted, a queue
holds at least one message); `CapturerAssumption` (there is a camera, zoom levels are
numbers, the kinds of failure), `ServiceAssumption` and `SessionBounds` (the counts are
numbers, and the wearer is a phone or a page).  `EdgePeer`
assumes nothing of its constants.  TLC evaluates each assumption in the runs.

**The router.** No single property is inductive.  A client is told that it has a peer
because of the seats, so `PeerKnown` needs that seats and `clients` agree; a handler
finds the client's room by `clients`, so eviction is impossible only if nobody is in two
places; a room is deleted when it is empty, so `RegisteredInUse` needs that who waits
does so behind a seat.  The inductive invariant is `Good(Whole)`: the types, `Placed`,
`OnePlace`, the presence, the names of registered rooms, `RegisteredInUse` and
`WaitingBehindSeat`.  Inside a handler the last two are broken for
one room: it may be registered and empty until the deferred `putRoom`, and its free seat
may have a waiter until the promotion.  `InUseBut` and `BehindBut` name the room and
the role exempted; each operator of `Router` has a lemma that says which
exemption it needs and which it leaves, and each handler's proof composes them.

`NoSilentRefusal` relates a state to the next, so it is no invariant.  `Answered(t, s, c)`
says that everybody but `c`, whose message is handled, who has a place in `s` has it or one
in a room of the same name in `t`, or is refused by then.
It composes (`AnsweredTrans`), and each operator of `Router` has a lemma that states it.

In the running server a handler is one step of the router's goroutine and the router's state is
unchanged by all others, so `IInv` carries over.  `SInv` adds the channels' types and
bounds and that each goroutine's counter fits its client's `done` and socket.
`LeftUnlessLost` needs `LeftInv`: of a connection that is over, the last message in the router's queue
is its `leave`, or the `leave` has been handled and it is in no room.  That holds
because the reader ends before the writer's clean-up unless a write failed (`PairOK`),
so nothing can be pushed behind the `leave`.

**The order of messages.** A forwarded message carries its sender and its number.  On
its way it is in the reader's hand, the router's queue, the handler's packets or
the outgoing queue of its receiver, and numbers fall along that way: `QueueFits` says that its later
messages in the queue have higher numbers, `ReadingFits` that what is in the reader's hand is
newer than all of the queue, `PacketFits` that a packet is older than both, and
`LinesFit` that an outgoing queue followed by the packets for it rises.  `InOrder` is one line of
this, and no action keeps it without the other three.

**What is left of a queue.** `gotoState` removes messages by their kind.  `SiftProofs` shows for
a queue of any length that what is left is a rising selection (`OnlyLeft`) of all that
is not of these kinds, once each.  These facts need induction; it
goes by the least element of a set of naturals, which the library's theorem on well-founded
relations yields without an operator as a parameter (`LeastNatural`, `SetInduction`).

**The call.** `CallInv` ties the state to the resources and to the queue, as any of
its messages can be the next one handled.  `Rungs` and `HeadsetKnown` say what exists in which
state; `PurgedIn` what can still be queued of a sender that is gone; `NothingHeard` that below
`WAITING_FOR_OBSERVER` no word of the server is left; `Believed` that the
phone agrees with the last word on the observer, be it queued or handled; `Shown` that
the lights and the zoom agree with what was chosen unless a message about them is queued;
`Retrying` that the delayed restart, or its message, is there exactly in an error that is
retried; `Sized` bounds the queue.  `gotoState` is proved once (`GotoFacts`): going down, the
switch releases what is above the new state; going up, the code never skips a state that
would construct something (`OneUp`), and each action's proof shows that of its own step.

**The capturer.** The invariant is that an opening is on its way in exactly one place: as a
task, as a device that is opening or configuring, or as the report of that (`OneOpening`).
With it, and because `openCamera` queues the closing of the last device before the task that
opens the next (`Known`), at most one device is on (`OneOn`).  `Wished` and `Chosen` say
that the zoom, or the last task that sets it, is the user's choice, and which camera an
opening is for.  After `overlapped` there are two openings and the types, `Wished`,
`Exclusive` and `Applied` are what remains; that is the defect described above, and TLC finds
`OneCamera` violated if the exception is dropped.

**The call service.** The invariant `Sound` is about the main thread's queue, from which
every later state of the service follows.  `Turns`: services are made and destroyed in turn,
each new one with a higher number, so that every queued start finds one.  `Supplied`: it also
finds an unused call, however many are queued.  `Upheld` and `Purposeful`: a service is up
as long as it is started or bound, and started as long as it has a call or an item that
asked for it is queued.  `Held`: a call that nobody hung up has a
started service, but for `overrun`.  `Newest`, `Noticed`, `Viewed`: of the messages about
the call, the last brings its state; when there is none, the notification and the last
fragment have it.  `Binding` and `Owned` say who knows whom.  `NothingLingers` is what
`Purposeful`, `Upheld` and `Binding` say when the queue is empty.  A `stopSelf()` while a start is
queued would break `Held`, because the service that makes that call is then only bound; that
is the case `overrun` marks.

**The session.** The invariant `SInv` is about each end, then about the room.  A page is `Sound`:
while it connects, the promise of its connection is unused (`Fresh`), because a connection
is opened only once the microphone is granted (`Connected`), and only an observer is
given offers (`OffersToObserver`).  A phone is `Working`.  `RoomSound` says that no offer is on
its way to a wearer.  `OneConnection` needs all of this: a page makes a connection
only for a promise that is unused, and which one it has made before depends on what waited for
the microphone.  A task of a page runs a chain of operators, three of which fold over the
pending tasks, the connections and the messages that waited; each operator has a lemma that
it keeps a page `Sound`, and the folds, which `Browser` writes as recursive functions, are
unfolded by `SetInduction`.

That a call is with the other end is about both ends and what is on its way between them. The
invariant `DInv` adds, for each end and the other, `Between`:

- `Link`: what the other end knows, or is to read, of this end's connections was made here
  (`Numbered`), and behind the description of the session's connection there is no news to read
  (`Heard`), news being a reset, a leave or an offer. That is the heart of it: an end which
  reads the description after the news would be with a connection that is given up. `Heard`
  needs that an observer has decided on its state before it answers (`Answered`) and that the
  phone says nothing of a connection before its one offer (`Unsaid`, `Once`).
- `Placed`: an end that is online has a seat, one that is not has nothing to read.
- `Matched`: an end in a call, or a phone with the event of one in its queue, has the other end
  of its connection, or news to read or a leave to come.
- `Present`: a phone alone in the room waits for an observer, or has a leave to read. This is
  what makes a reload safe after the server has given up the seat of the old page.

What a task does to an end, as the other can tell, is `Moves`: it keeps what was known of its
connections (`Advances`), says so when it gives up one that was engaged (`Tells`), says nothing
of the kind while it keeps it (`Stays`), and speaks only of connections that were there
(`Says`). Every operator of `Browser` and `Phone` has a lemma for it (`Does`, `PhoneDoes`).
`TurnKeeps` shows once that a turn of one end keeps `Between` in both directions, and each
action of `Session` is shown to be a turn: tasks by `PassesKeeps`, joins by `JoinsKeep`, the
server's notice of a lost socket and the reload by themselves.

**The Edge connection.** `EInv` says that nothing was called yet (`Bare`), or that the
connection is `Live` with the calls that are left of the page's chain.  How far a connection has
come is told by those calls and its role, so `Live` has a stage for each (`AnswerStage`,
`OfferStage`): which descriptions are there, what the second line may have been given.
`LinesAgree` needs the stages, because a line that sends before its description says so is
wrong only if the description is already made; with them, `Lined` and `Written` say which ORTC
objects the lines have and what the descriptions say of them.  `ToldTheWorst` follows from
`Running`: a transport is started once both ends are described, and every report
that the page misses is one of a transport that is detached, which only the bundled second is.
`NoCandidateLost` is `Kept`, and needs `Gathering`: a gatherer buffers exactly until the local
description is set, its buffer is a prefix of what it has found, and from then on
one timer at most replays it, so that a candidate found meanwhile can be neither overtaken
for good nor lost with its timer.

`ShimIsJsep` maps each step by itself.  `Steps(p, q)` lists what a step may be: nothing the
page can see, a description of either end in its turn, candidates that are new and
told once, a report, a close.  `PageSteps` and `BrowserSteps` show it of each action from
`EInv`, `StepsAreJsep` that each of them is a step of `Jsep` or a stutter.  That a candidate
is told once is the hard part: the replay and the gatherer tell of candidates in turn, and the
invariant has it that what is written down was found and is no longer to be replayed.

## What is only model-checked, and what is not modelled

- Liveness (all `~>` properties) is TLC's: the provers used handle neither fairness nor
  ENABLED.
- Left out of the models: JSON and the wording of errors; the ICE server list beyond
  whether it is valid and, for Edge, its kinds of url; SDP and media; frames, auto focus
  and pictures; clocks (a time-out is an error that may happen at any time); the end of the
  camera thread, which is up to WebRTC's SurfaceTextureHelper.  Of the page: its layout, the
  turbulence notice, and the pings, of which only that a pong may fail to come.  Of the service: permissions
  and the death of the process.  Of webrtc-adapter.js: renegotiation, `removeTrack`, statistics, data
  channels, the DTLS state, the events of streams, and the shims of the other browsers, which
  wrap a native connection.
- Not modelled: the home page with its form, the server's configuration, preferences, logs,
  layouts, jQuery and Bootstrap, build files.  They keep no state that two actors share.
