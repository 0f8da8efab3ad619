-------------------------------- MODULE Call --------------------------------
(***************************************************************************)
(* The call state machine of the Android app (service/Call.java) with its  *)
(* websocket (the inner class SignalingProtocol).                          *)
(*                                                                         *)
(* One handler thread takes messages from one queue; callbacks of the      *)
(* network monitor, the websocket, the headset and the peer connection,    *)
(* and the user interface, post to it from other threads.  gotoState takes *)
(* down what a lower state does not need and builds one thing for a higher *)
(* one.  What is taken down has its listener silenced and, for most kinds, *)
(* its messages removed from the queue.                                    *)
(*                                                                         *)
(* `call' holds the fields of the Call object, its message queue, and the  *)
(* outside state that decides which callback can come next.                *)
(***************************************************************************)
EXTENDS Naturals, Sequences, Sift

CONSTANTS
    Posted,     \* the kinds of message others post in this instance
    Overtaking, \* bound: the kinds that are modelled to be posted late
    MaxQueue    \* bound: others post only while the queue is shorter

\* The ordinals of CallState.
IDLE == 0
ERROR == 1
WAITING_FOR_NETWORK == 2
CONNECTING_TO_SERVER == 3
WAITING_FOR_OBSERVER == 4
WAITING_FOR_HEADSET == 5
ESTABLISHING == 6
CALL_IN_PROGRESS == 7
State == IDLE .. CALL_IN_PROGRESS
From(s) == {t \in State : t >= s}

\* The errors, and those with a retryTimeout.
RetriedError == {"SERVER_UNREACHABLE", "SERVICES_UNKNOWN", "SIGNALING", "WEBRTC",
                 "ICE", "CAMERA"}
CallError == RetriedError \cup
    {"WIZZEYE_OUTDATED", "INVALID_ICE_SERVERS", "SERVICES_NOT_INSTALLED",
     "SERVICES_OUTDATED", "INVALID_ROOM", "ROOM_BUSY"}
NoError == "none"

\* What handleMessage answers to an error of the server and of the services.
SignalingErrors == {"ROOM_BUSY", "INVALID_ROOM", "SIGNALING"}
ServicesErrors == {"SERVICES_NOT_INSTALLED", "SERVICES_OUTDATED",
                   "WIZZEYE_OUTDATED", "SERVICES_UNKNOWN"}

\* The kinds of message, by who posts them.
NetworkWhat == {"NETWORK_AVAILABLE", "NETWORK_LOST"}
SocketWhat == {"WEBSOCKET_CONNECTED", "WEBSOCKET_CLOSED"}
ServerWhat == {"SIGNALING_ERROR", "SIGNALING_OBSERVER_JOINED", "SIGNALING_LEAVE",
               "SIGNALING_RESET", "SIGNALING_ANSWER", "SIGNALING_ICE_CANDIDATE"}
HeadsetWhat == {"HEADSET_CONNECTED", "HEADSET_DISCONNECTED"}
SessionWhat == {"PC_ICE_CONNECTED", "PC_ICE_DISCONNECTED", "PC_ICE_FAILED",
                "PC_ICE_CANDIDATE", "SDP_CREATE_SUCCESS", "SDP_CREATE_FAILURE",
                "SDP_SET_FAILURE", "CAMERA_ERROR"}
UserWhat == {"START", "STOP", "RESTART", "PARAMETERS_CHANGED", "ADD_VIDEO_SINK",
             "REMOVE_VIDEO_SINK", "TRIGGER_AF", "TAKE_PICTURE"}
What == NetworkWhat \cup SocketWhat \cup ServerWhat \cup HeadsetWhat
        \cup {"IRISTICK_ERROR"} \cup SessionWhat \cup UserWhat

\* What is posted by a listener that is silenced with its owner.
Listener == [monitor |-> NetworkWhat,
             signal |-> SocketWhat \cup ServerWhat,
             iristick |-> HeadsetWhat \cup {"IRISTICK_ERROR"},
             session |-> SessionWhat]
Resource == DOMAIN Listener

\* The lowest state that needs the resource.
NeededFrom == [monitor |-> WAITING_FOR_NETWORK, signal |-> CONNECTING_TO_SERVER,
               iristick |-> WAITING_FOR_HEADSET, session |-> ESTABLISHING]

ASSUME Bounds == Overtaking \subseteq Posted /\ Posted \subseteq What /\ MaxQueue \in Nat \ {0}

\* age is history: "left" if the sender was taken down after it posted the
\* message, "late" if it was taken down between its check and its post.
Message == [what : What, arg : CallError \cup {NoError}, age : {"current", "left", "late"}]
Msg(what) == [what |-> what, arg |-> NoError, age |-> "current"]

VARIABLE call

\* The resources' outside state while there is none of them.
NoNetwork == [online |-> FALSE]
NoSocket == [at |-> "none", joined |-> FALSE, observer |-> FALSE]
NoGlasses == [docked |-> FALSE]
NoSession == [offer |-> "none", ice |-> "none"]

Init ==
    \E laser \in {"AUTO", "OFF"} :
      call = [state |-> IDLE,
              error |-> NoError,
              queue |-> <<Msg("START")>>,
              delayed |-> 0,                             \* delayed RESTARTs
              held |-> [r \in Resource |-> 0],           \* how many exist
              headset |-> FALSE,                         \* mHeadset # null
              want |-> [torch |-> FALSE, laser |-> laser, zoomed |-> FALSE],
              lit |-> [torch |-> FALSE, laser |-> FALSE],  \* the headset's lights
              zoomed |-> FALSE,                          \* the capturer's zoom
              sink |-> FALSE,                            \* on the video track
              view |-> FALSE,                            \* fragment started
              network |-> NoNetwork, socket |-> NoSocket,
              glasses |-> NoGlasses, rtc |-> NoSession,
              overtaken |-> {},      \* what silenced listeners may yet post
              out |-> <<>>,          \* what the last handler sent, in order
              misled |-> FALSE]      \* history: took a late message of a websocket

-----------------------------------------------------------------------------
(* What a listener can be called with next, and what that means outside.   *)

Possible(s, r) ==
    CASE r = "monitor" ->
           {IF s.network.online THEN "NETWORK_LOST" ELSE "NETWORK_AVAILABLE"}
      [] r = "signal" ->
           (IF s.socket.at = "opening" THEN SocketWhat ELSE {})
           \cup (IF s.socket.at = "open" THEN {"WEBSOCKET_CLOSED"} ELSE {})
           \cup (IF s.socket.at = "open" /\ s.socket.joined
                 THEN ServerWhat \ {IF s.socket.observer THEN "SIGNALING_OBSERVER_JOINED"
                                    ELSE "SIGNALING_LEAVE"}
                 ELSE {})
      [] r = "iristick" ->
           IF s.glasses.docked THEN {"HEADSET_DISCONNECTED"}
           ELSE {"HEADSET_CONNECTED", "IRISTICK_ERROR"}
      [] r = "session" ->
           {"CAMERA_ERROR"}
           \cup (IF s.rtc.offer = "creating" THEN {"SDP_CREATE_SUCCESS", "SDP_CREATE_FAILURE"}
                 ELSE {"SDP_SET_FAILURE", "PC_ICE_CANDIDATE"})
           \cup (CASE s.rtc.ice = "checking" -> {"PC_ICE_CONNECTED", "PC_ICE_FAILED"}
                   [] s.rtc.ice = "connected" -> {"PC_ICE_DISCONNECTED"}
                   [] s.rtc.ice = "disconnected" -> {"PC_ICE_CONNECTED", "PC_ICE_FAILED"}
                   [] OTHER -> {})

Outside(s, what) ==
    CASE what \in NetworkWhat -> [s EXCEPT !.network.online = (what = "NETWORK_AVAILABLE")]
      [] what = "WEBSOCKET_CONNECTED" -> [s EXCEPT !.socket.at = "open"]
      [] what = "WEBSOCKET_CLOSED" -> [s EXCEPT !.socket.at = "closed"]
      [] what = "SIGNALING_OBSERVER_JOINED" -> [s EXCEPT !.socket.observer = TRUE]
      [] what = "SIGNALING_LEAVE" -> [s EXCEPT !.socket.observer = FALSE]
      [] what \in HeadsetWhat -> [s EXCEPT !.glasses.docked = (what = "HEADSET_CONNECTED")]
      [] what = "SDP_CREATE_SUCCESS" -> [s EXCEPT !.rtc.offer = "created"]
      [] what = "SDP_CREATE_FAILURE" -> [s EXCEPT !.rtc.offer = "failed"]
      [] what = "PC_ICE_CONNECTED" -> [s EXCEPT !.rtc.ice = "connected"]
      [] what = "PC_ICE_DISCONNECTED" -> [s EXCEPT !.rtc.ice = "disconnected"]
      [] what = "PC_ICE_FAILED" -> [s EXCEPT !.rtc.ice = "failed"]
      [] OTHER -> s

Arguments(what) == CASE what = "SIGNALING_ERROR" -> SignalingErrors
                     [] what = "IRISTICK_ERROR" -> ServicesErrors
                     [] OTHER -> {NoError}

Post(s, what) == [s EXCEPT !.queue = Append(@, Msg(what))]
Say(s, type) == [s EXCEPT !.out = Append(@, type)]

RemoveMessages(s, whats) ==
    [s EXCEPT !.queue = Only(@, {m \in Message : m.what \notin whats}),
              !.delayed = IF "RESTART" \in whats THEN 0 ELSE @]

-----------------------------------------------------------------------------
(* gotoState: take down, from the top, what newState does not need.        *)

\* The owner of the listener is closed; the listener is silenced, but a callback
\* that has passed its check may still post.
Release(s, r) ==
    [s EXCEPT !.held[r] = @ - 1,
              !.overtaken = @ \cup (Possible(s, r) \cap Overtaking),
              !.queue = [i \in DOMAIN @ |-> IF @[i].what \in Listener[r]
                                            THEN [@[i] EXCEPT !.age = "left"] ELSE @[i]]]

CloseSession(s) ==
    [Release(Say(s, "reset"), "session") EXCEPT
        !.lit = [torch |-> FALSE, laser |-> FALSE],
        !.zoomed = FALSE, !.sink = FALSE, !.rtc = NoSession]

\* Mutant of Unregister: the headset is not forgotten.
UnregisterKeeping(s) ==
    RemoveMessages([Release(s, "iristick") EXCEPT !.glasses = NoGlasses], HeadsetWhat)

Unregister(s) ==
    RemoveMessages([Release(s, "iristick") EXCEPT !.headset = FALSE, !.glasses = NoGlasses],
                   HeadsetWhat)

\* Mutant of CloseSignal: the messages of the websocket itself are not removed.
CloseSignalButSocket(s) ==
    RemoveMessages([Release(Say(s, "leave"), "signal") EXCEPT
                       !.socket = NoSocket, !.misled = FALSE],
                   ServerWhat)

CloseSignal(s) ==
    RemoveMessages([Release(Say(s, "leave"), "signal") EXCEPT
                       !.socket = NoSocket, !.misled = FALSE],
                   ServerWhat \cup SocketWhat)

StopMonitor(s) ==
    RemoveMessages([Release(s, "monitor") EXCEPT !.network = NoNetwork], NetworkWhat)

\* Mutant of Teardown: what the new state builds again is not taken down.
TeardownBelow(s, new) ==
    LET Drops(r) == s.state >= NeededFrom[r] /\ new < NeededFrom[r]
        a == IF Drops("session") THEN CloseSession(s) ELSE s
        b == IF Drops("iristick") THEN Unregister(a) ELSE a
        c == IF Drops("signal") THEN CloseSignal(b) ELSE b
        d == IF Drops("monitor") THEN StopMonitor(c) ELSE c
    IN IF s.state >= ERROR /\ new <= ERROR THEN RemoveMessages(d, {"RESTART"}) ELSE d

Teardown(s, new) ==
    LET Drops(r) == s.state >= NeededFrom[r] /\ new <= NeededFrom[r]
        a == IF Drops("session") THEN CloseSession(s) ELSE s
        b == IF Drops("iristick") THEN Unregister(a) ELSE a
        c == IF Drops("signal") THEN CloseSignal(b) ELSE b
        d == IF Drops("monitor") THEN StopMonitor(c) ELSE c
    IN IF s.state >= ERROR /\ new <= ERROR THEN RemoveMessages(d, {"RESTART"}) ELSE d

\* applyParameters; the laser's AUTO follows the zoom.
LaserOn(want) == want.laser = "ON" \/ (want.laser = "AUTO" /\ want.zoomed)
\* Mutant of ApplyParameters: the torch is left as it is.
ApplyParametersButTorch(s) ==
    [s EXCEPT !.zoomed = s.want.zoomed, !.lit.laser = LaserOn(s.want)]

ApplyParameters(s) ==
    [s EXCEPT !.zoomed = s.want.zoomed,
              !.lit = [torch |-> s.want.torch, laser |-> LaserOn(s.want)]]

\* ... and build one step up.
Construct(s, old, new) ==
    CASE new = ERROR ->
           IF s.error \in RetriedError THEN [s EXCEPT !.delayed = @ + 1] ELSE s
      [] new = WAITING_FOR_NETWORK -> [s EXCEPT !.held.monitor = @ + 1]
      [] new = CONNECTING_TO_SERVER ->
           [s EXCEPT !.held.signal = @ + 1, !.socket.at = "opening"]
      [] new = WAITING_FOR_OBSERVER ->
           IF old < WAITING_FOR_OBSERVER
           THEN Say([s EXCEPT !.socket.joined = TRUE], "join") ELSE s
      [] new = WAITING_FOR_HEADSET -> [s EXCEPT !.held.iristick = @ + 1]
      [] new = ESTABLISHING ->
           [s EXCEPT !.held.session = @ + 1, !.zoomed = s.want.zoomed,
                     !.rtc = [offer |-> "creating", ice |-> "new"]]
      [] new = CALL_IN_PROGRESS -> ApplyParameters(s)
      [] OTHER -> s

GotoState(s, new) ==
    Construct([Teardown(s, new) EXCEPT !.state = new], s.state, new)

GotoError(s, error) == GotoState([s EXCEPT !.error = error], ERROR)

-----------------------------------------------------------------------------
(* handleMessage: the states in which each kind of message is handled.     *)

HandledIn ==
    [START |-> {IDLE}, STOP |-> State, RESTART |-> {ERROR},
     NETWORK_AVAILABLE |-> {WAITING_FOR_NETWORK},
     NETWORK_LOST |-> From(CONNECTING_TO_SERVER),
     WEBSOCKET_CONNECTED |-> {CONNECTING_TO_SERVER},
     WEBSOCKET_CLOSED |-> From(CONNECTING_TO_SERVER),
     SIGNALING_ERROR |-> From(WAITING_FOR_OBSERVER),
     SIGNALING_OBSERVER_JOINED |-> {WAITING_FOR_OBSERVER},
     SIGNALING_LEAVE |-> From(WAITING_FOR_HEADSET),
     SIGNALING_RESET |-> From(ESTABLISHING),
     SIGNALING_ANSWER |-> {ESTABLISHING},
     SIGNALING_ICE_CANDIDATE |-> From(ESTABLISHING),
     HEADSET_CONNECTED |-> {WAITING_FOR_HEADSET},
     HEADSET_DISCONNECTED |-> From(ESTABLISHING),
     IRISTICK_ERROR |-> {WAITING_FOR_HEADSET},
     PC_ICE_CONNECTED |-> From(ESTABLISHING),
     PC_ICE_DISCONNECTED |-> {CALL_IN_PROGRESS},
     PC_ICE_FAILED |-> From(ESTABLISHING),
     PC_ICE_CANDIDATE |-> From(ESTABLISHING),
     SDP_CREATE_SUCCESS |-> {ESTABLISHING},
     SDP_CREATE_FAILURE |-> {ESTABLISHING},
     SDP_SET_FAILURE |-> {ESTABLISHING},
     CAMERA_ERROR |-> From(ESTABLISHING),
     ADD_VIDEO_SINK |-> {CALL_IN_PROGRESS}, REMOVE_VIDEO_SINK |-> {CALL_IN_PROGRESS},
     PARAMETERS_CHANGED |-> {CALL_IN_PROGRESS},
     TRIGGER_AF |-> {CALL_IN_PROGRESS}, TAKE_PICTURE |-> {CALL_IN_PROGRESS}]

\* The call as the handler of its first message finds it.
Taken == [call EXCEPT !.queue = Tail(@), !.out = <<>>,
                      !.misled = @ \/ /\ Head(call.queue).age = "late"
                                      /\ Head(call.queue).what \in Listener["signal"]]

Take(what) == /\ call.queue # <<>> /\ Head(call.queue).what = what
              /\ call.state \in HandledIn[what]

\* What no state handles is logged and dropped.
Drop == /\ call.queue # <<>> /\ call.state \notin HandledIn[Head(call.queue).what]
        /\ call' = Taken

\* buildIceServers, from settings that can change at any time, may fail.
StartUp(s) == \/ call' = GotoState(s, WAITING_FOR_NETWORK)
              \/ call' = GotoError(s, "INVALID_ICE_SERVERS")

Start == Take("START") /\ StartUp(Taken)

\* Mutant of Restart: the retry that is under way is not removed.
RestartKeeping == Take("RESTART") /\ StartUp(Taken)

Restart == Take("RESTART") /\ StartUp(RemoveMessages(Taken, {"RESTART"}))

\* Mutant of Stop: an error is not left.
StopButInError == /\ Take("STOP")
                  /\ call' = IF call.state <= ERROR THEN Taken ELSE GotoState(Taken, IDLE)

Stop == /\ Take("STOP")
        /\ call' = IF call.state = IDLE THEN Taken ELSE GotoState(Taken, IDLE)

Goes(what, new) == Take(what) /\ call' = GotoState(Taken, new)

NetworkAvailable == Goes("NETWORK_AVAILABLE", CONNECTING_TO_SERVER)
NetworkLost == Goes("NETWORK_LOST", WAITING_FOR_NETWORK)
WebsocketConnected == Goes("WEBSOCKET_CONNECTED", WAITING_FOR_OBSERVER)

WebsocketClosed ==
    /\ Take("WEBSOCKET_CLOSED")
    /\ call' = IF call.state = CONNECTING_TO_SERVER
               THEN GotoError(Taken, "SERVER_UNREACHABLE")
               ELSE GotoState(Taken, CONNECTING_TO_SERVER)

Fails(what, error) == Take(what) /\ call' = GotoError(Taken, error)

SignalingError == Fails("SIGNALING_ERROR", Head(call.queue).arg)
ObserverJoined == Goes("SIGNALING_OBSERVER_JOINED", WAITING_FOR_HEADSET)
\* Mutant of ObserverLeft: the phone goes on waiting for the headset.
ObserverLeftKept == Goes("SIGNALING_LEAVE", WAITING_FOR_HEADSET)

ObserverLeft == Goes("SIGNALING_LEAVE", WAITING_FOR_OBSERVER)
SignalingReset == Goes("SIGNALING_RESET", ESTABLISHING)

HeadsetConnected ==
    /\ Take("HEADSET_CONNECTED")
    /\ call' = GotoState([Taken EXCEPT !.headset = TRUE], ESTABLISHING)

HeadsetDisconnected == Goes("HEADSET_DISCONNECTED", WAITING_FOR_HEADSET)
IristickError == Fails("IRISTICK_ERROR", Head(call.queue).arg)

\* The offer of an earlier session does not fit the peer connection.
OfferCreated ==
    /\ Take("SDP_CREATE_SUCCESS")
    /\ call' = Say([Taken EXCEPT !.rtc.offer =
                       IF Head(call.queue).age = "current" THEN "set" ELSE @], "offer")

Answered ==
    /\ Take("SIGNALING_ANSWER")
    /\ call' = [Taken EXCEPT !.rtc.ice =
                   IF call.rtc = [offer |-> "set", ice |-> "new"] THEN "checking" ELSE @]

SdpFails == Fails("SDP_CREATE_FAILURE", "WEBRTC") \/ Fails("SDP_SET_FAILURE", "WEBRTC")

LocalCandidate == Take("PC_ICE_CANDIDATE") /\ call' = Say(Taken, "ice-candidate")

IceConnected ==
    /\ Take("PC_ICE_CONNECTED")
    /\ call' = IF call.state = ESTABLISHING THEN GotoState(Taken, CALL_IN_PROGRESS)
               ELSE Taken

IceFailed ==
    /\ Take("PC_ICE_FAILED")
    /\ call' = IF call.state = ESTABLISHING THEN GotoError(Taken, "ICE")
               ELSE GotoState(Taken, ESTABLISHING)

CameraFails == Fails("CAMERA_ERROR", "CAMERA")

AddVideoSink == Take("ADD_VIDEO_SINK") /\ call' = [Taken EXCEPT !.sink = TRUE]

\* As the code has it: the sink is added.
RemoveVideoSink == Take("REMOVE_VIDEO_SINK") /\ call' = [Taken EXCEPT !.sink = TRUE]

ParametersChanged == Take("PARAMETERS_CHANGED") /\ call' = ApplyParameters(Taken)

\* Passed on to the peer connection, the capturer or the screen.
PassOn == /\ \E what \in {"SIGNALING_ICE_CANDIDATE", "PC_ICE_DISCONNECTED", "TRIGGER_AF",
                          "TAKE_PICTURE"} : Take(what)
          /\ call' = Taken

HandleMessage ==
    \/ Drop \/ Start \/ Restart \/ Stop
    \/ NetworkAvailable \/ NetworkLost \/ WebsocketConnected \/ WebsocketClosed
    \/ SignalingError \/ ObserverJoined \/ ObserverLeft \/ SignalingReset
    \/ HeadsetConnected \/ HeadsetDisconnected \/ IristickError
    \/ OfferCreated \/ Answered \/ SdpFails \/ LocalCandidate
    \/ IceConnected \/ IceFailed \/ CameraFails
    \/ AddVideoSink \/ RemoveVideoSink \/ ParametersChanged \/ PassOn

-----------------------------------------------------------------------------
(* What the other threads post.                                            *)

Room == Len(call.queue) < MaxQueue

Callback ==
    /\ Room
    /\ \E r \in Resource :
          /\ call.held[r] > 0
          /\ \E what \in Possible(call, r) \cap Posted : \E arg \in Arguments(what) :
                call' = [Outside(call, what) EXCEPT
                            !.queue = Append(@, [Msg(what) EXCEPT !.arg = arg])]

\* A callback that had passed its check of `alive' or `mClosed' when its owner
\* was taken down; each owner calls back from one thread, so once.
LateCallback ==
    /\ Room
    /\ \E r \in Resource, what \in call.overtaken :
          /\ what \in Listener[r]
          /\ \E arg \in Arguments(what) :
                call' = [call EXCEPT
                            !.queue = Append(@, [what |-> what, arg |-> arg, age |-> "late"]),
                            !.overtaken = @ \ Listener[r]]

\* The delay of the retry is over.
RetryDue == /\ call.delayed > 0
            /\ call' = [Post(call, "RESTART") EXCEPT !.delayed = @ - 1]

\* stop, restart, triggerAF and takePicture.
UserPosts == /\ Room
             /\ \E what \in {"STOP", "RESTART", "TRIGGER_AF", "TAKE_PICTURE"} \cap Posted :
                   call' = Post(call, what)

SetParameters ==
    /\ Room /\ "PARAMETERS_CHANGED" \in Posted
    /\ \/ call' = [Post(call, "PARAMETERS_CHANGED") EXCEPT !.want.torch = ~@]
       \/ call' = [Post(call, "PARAMETERS_CHANGED") EXCEPT !.want.zoomed = ~@]
       \/ call' = [Post(call, "PARAMETERS_CHANGED") EXCEPT !.want.laser =
                      CASE @ = "OFF" -> "ON" [] @ = "ON" -> "AUTO" [] @ = "AUTO" -> "OFF"]

\* The call fragment starts while there is a call to show, and stops.
ViewStarts == /\ Room /\ "ADD_VIDEO_SINK" \in Posted
              /\ call.state = CALL_IN_PROGRESS /\ ~call.view
              /\ call' = [Post(call, "ADD_VIDEO_SINK") EXCEPT !.view = TRUE]
ViewStops == /\ Room /\ call.view
             /\ call' = [Post(call, "REMOVE_VIDEO_SINK") EXCEPT !.view = FALSE]

Next == \/ HandleMessage \/ RetryDue
        \/ Callback \/ LateCallback \/ UserPosts \/ SetParameters \/ ViewStarts \/ ViewStops

Spec == Init /\ [][Next]_call

\* HandleMessage, seen on the queue: it takes a message whenever there is one and
\* nothing else shortens the queue.  (The first disjunct is a case of the second;
\* it shows TLC that the action is enabled.)
MessageTaken ==
    /\ call.queue # <<>>
    /\ \/ call' = [call EXCEPT !.queue = Tail(@)]
       \/ Len(call'.queue) < Len(call.queue)

\* The handler thread takes what is queued and a delay ends.
FairSpec == Spec /\ WF_call(MessageTaken) /\ WF_call(RetryDue)

-----------------------------------------------------------------------------
(* Properties                                                              *)

\* The fields are well formed and no counter runs away.
TypeOK ==
    /\ call.state \in State /\ call.error \in CallError \cup {NoError}
    /\ call.queue \in Seq(Message) /\ Len(call.queue) <= MaxQueue + 1
    /\ call.delayed \in 0 .. 1
    /\ call.held \in [Resource -> 0 .. 1]
    /\ {call.headset, call.zoomed, call.sink, call.view, call.misled} \subseteq BOOLEAN
    /\ call.want \in [torch : BOOLEAN, laser : {"OFF", "ON", "AUTO"}, zoomed : BOOLEAN]
    /\ call.lit \in [torch : BOOLEAN, laser : BOOLEAN]
    /\ call.overtaken \subseteq What

\* Whatever the order of messages, each thing a state needs exists exactly once
\* in that state and in the states above, and not below: no handler meets a
\* null reference, no listener, socket or session is leaked, gotoState has no step
\* to skip (its exception), and flashlight and laser are never left on.
Ladder ==
    /\ \A r \in Resource : call.held[r] = IF call.state >= NeededFrom[r] THEN 1 ELSE 0
    /\ call.headset <=> call.state >= ESTABLISHING
    /\ call.socket.at # "none" <=> call.state >= CONNECTING_TO_SERVER
    /\ call.socket.joined <=> call.state >= WAITING_FOR_OBSERVER
    /\ call.lit.torch \/ call.lit.laser => call.state = CALL_IN_PROGRESS

\* Taking something down leaves none of its queued messages to the next one of
\* its kind, except those of the peer connection and IRISTICK_ERROR.
Purged ==
    \A i \in DOMAIN call.queue :
        call.queue[i].age = "left"
            => call.queue[i].what \in SessionWhat \cup {"IRISTICK_ERROR"}

\* During a call the headset shows the latest choices of the user as soon as no
\* change is on its way, whenever they were made.
ParametersApplied ==
    /\ call.state = CALL_IN_PROGRESS
    /\ \A i \in DOMAIN call.queue : call.queue[i].what # "PARAMETERS_CHANGED"
    => /\ call.zoomed = call.want.zoomed
       /\ call.lit = [torch |-> call.want.torch, laser |-> LaserOn(call.want)]

\* The automatic retry runs exactly while an error that has one is shown: it is
\* never lost, and never left to cut short a later error.
RetryArmed ==
    /\ call.delayed > 0 => call.state = ERROR /\ call.error \in RetriedError
    /\ call.state = ERROR /\ call.error \in RetriedError
       => \/ call.delayed = 1
          \/ \E i \in DOMAIN call.queue : call.queue[i].what = "RESTART"

\* Once the messages of the server are taken, the machine is past waiting for
\* the observer exactly when the server's last word is that it is there, unless
\* it has been misled by a callback of a closed socket.
ObserverBelieved ==
    /\ call.state >= WAITING_FOR_OBSERVER /\ ~call.misled
    /\ \A i \in DOMAIN call.queue : call.queue[i].what \notin ServerWhat
    => (call.state > WAITING_FOR_OBSERVER <=> call.socket.observer)

\* Hanging up works from every state: a STOP that is posted ends the call (if
\* stopCapture returns, which is the matter of module Capturer).
StopHonoured ==
    (\E i \in DOMAIN call.queue : call.queue[i].what = "STOP") ~> call.state = IDLE

=============================================================================
