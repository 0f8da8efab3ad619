------------------------------ MODULE Browser -------------------------------
(***************************************************************************)
(* The page of a room (server/webroot/s/js/room.js), for both roles: its   *)
(* state, its promises and its connections.                                *)
(*                                                                         *)
(* Every operator maps a page to the page after one task of the browser: a *)
(* callback of the websocket, of the microphone prompt or of a peer        *)
(* connection, with the microtasks it leaves behind.  What the task sends  *)
(* is in `outbox', for the composition to take.                            *)
(*                                                                         *)
(* An RTCPeerConnection is a record of `pcs'; the promise RTC.pc is the    *)
(* index of the connection that resolved it, or Pending.                   *)
(***************************************************************************)
EXTENDS Integers, Messages, Sequences

ERROR == -1
WEBSOCKET_CONNECT == 1
WAITING_FOR_JOIN == 2
GET_USER_MEDIA == 3
ESTABLISHING == 4
CALL_IN_PROGRESS == 5
PageState == {ERROR} \cup WEBSOCKET_CONNECT .. CALL_IN_PROGRESS

Err == {"WEBSOCKET_ERROR", "INVALID_ROOM", "ROOM_BUSY", "SIGNALING", "MEDIA_DENIED",
        "WEBRTC", "ICE"}
NoErr == "none"

Pending == 0

\* The page once the script has run: the websocket is connecting and closePC has
\* made the first promise.
Loaded(role) ==
    [role |-> role, state |-> WEBSOCKET_CONNECT, err |-> NoErr, ws |-> "connecting",
     mic |-> "unasked", waiting |-> <<>>,
     promise |-> Pending, held |-> <<>>, rejected |-> FALSE, pcs |-> <<>>,
     outbox |-> <<>>,
     overlapped |-> FALSE]  \* history: two offers waited for the microphone

SetState(p, s) == IF p.state = ERROR THEN p ELSE [p EXCEPT !.state = s]

\* On a socket that is closed a message is dropped; Die alone may be called while
\* it is still connecting.
SendTo(p, m) == IF p.ws = "open" THEN [p EXCEPT !.outbox = Append(@, m)] ELSE p

-----------------------------------------------------------------------------
(* RTC                                                                     *)

\* Mutant of ClosePC: a new promise is made, and the connection kept.
ClosePCKeeping(p) ==
    [p EXCEPT !.promise = Pending, !.rejected = @ \/ p.held # <<>>, !.held = <<>>]

\* The connection of the promise is closed; what was held for a promise that no
\* connection resolved is rejected, which the page sees at the end of the task.
ClosePC(p) ==
    [p EXCEPT !.pcs = [i \in DOMAIN @ |-> IF i = p.promise THEN ClosedPC ELSE @[i]],
              !.promise = Pending,
              !.rejected = @ \/ p.held # <<>>,
              !.held = <<>>]

\* A page that is already in ERROR keeps its first error.  Before the socket is
\* open, the send of "leave" throws and nothing behind it is done.
Die(p, e) ==
    LET closed == ClosePC(p)
        left == [SendTo(closed, Msg("leave")) EXCEPT !.ws = "closed", !.rejected = FALSE]
    IN IF p.ws = "connecting" THEN closed
       ELSE IF p.state = ERROR THEN left
       ELSE [left EXCEPT !.state = ERROR, !.err = e]

Fail(p) == Die(p, "WEBRTC")

\* setRemoteDescription(answer) and addIceCandidate on the connection of the
\* promise.  A candidate is refused unless a remote description is set or about
\* to be.
Apply(p, m) ==
    LET pc == p.pcs[p.promise]
    IN IF m.type = "answer"
       THEN IF TakesAnswer(pc)
            THEN [p EXCEPT !.pcs[p.promise].peer = m.of]
            ELSE Fail(p)
       ELSE IF pc.peer = NoPeer THEN Fail(p) ELSE p

\* The same through the promise: held until it is resolved.
Through(p, m) ==
    IF p.promise = Pending THEN [p EXCEPT !.held = Append(@, m)] ELSE Apply(p, m)

\* What was held goes through, until one of it kills the page.
Release(p, held) ==
    LET upTo[n \in 0 .. Len(held)] ==
            IF n = 0 THEN p
            ELSE LET q == upTo[n - 1]
                 IN IF q.promise = Pending THEN q ELSE Apply(q, held[n])
    IN upTo[Len(held)]

\* Only the first connection resolves a promise.
CreatePC(p, peer) ==
    LET made == [p EXCEPT !.pcs = Append(@, PC(peer))]
    IN IF p.promise # Pending THEN made
       ELSE Release([made EXCEPT !.promise = Len(made.pcs), !.held = <<>>], p.held)

-----------------------------------------------------------------------------
(* What waits for the microphone                                           *)

\* The continuation of establish().
Establish(p) ==
    IF p.state # GET_USER_MEDIA THEN p
    ELSE LET q == SetState(p, ESTABLISHING)
         IN IF p.role = "glass-wearer" THEN CreatePC(q, NoPeer) ELSE q

\* The continuation of an offer makes the answer whatever the state has become.
MakeAnswer(p, offer) ==
    CreatePC(IF p.state >= GET_USER_MEDIA THEN SetState(p, ESTABLISHING) ELSE p, offer)

Continue(p, offer) == IF offer = NoPeer THEN Establish(p) ELSE MakeAnswer(p, offer)

ContinueAll(p, offers) ==
    LET upTo[n \in 0 .. Len(offers)] ==
            IF n = 0 THEN p ELSE Continue(upTo[n - 1], offers[n])
    IN upTo[Len(offers)]

\* requestLocalMedia().then(...): the prompt is shown once, its answer is kept.
RequestLocalMedia(p, offer) ==
    CASE p.mic = "granted" -> Continue(p, offer)
      [] p.mic = "denied" -> Die(p, "MEDIA_DENIED")
      [] OTHER -> [p EXCEPT !.mic = "asked", !.waiting = Append(@, offer)]

\* The end of the task: the rejections of closePC reach their die(Err.WEBRTC).
Settle(p) == IF p.rejected THEN Die(p, "WEBRTC") ELSE p

\* Mutant of MicGranted: what has run is run again by the next grant.
MicGrantedKeeping(p) ==
    Settle(ContinueAll([p EXCEPT !.mic = "granted"], p.waiting))

TwoOffers(waiting) ==
    \E i, j \in DOMAIN waiting : i # j /\ waiting[i] # NoPeer /\ waiting[j] # NoPeer

\* The user answers the prompt, and everything that waits for it runs.
MicGranted(p) ==
    Settle(ContinueAll([p EXCEPT !.mic = "granted", !.waiting = <<>>,
                                 !.overlapped = @ \/ TwoOffers(p.waiting)],
                       p.waiting))

MicDenied(p) == Die([p EXCEPT !.mic = "denied", !.waiting = <<>>], "MEDIA_DENIED")

-----------------------------------------------------------------------------
(* The websocket                                                           *)

\* ws.onopen.
Opened(p) ==
    LET q == [p EXCEPT !.ws = "open"]
    IN IF p.state # WEBSOCKET_CONNECT THEN q
       ELSE SendTo(SetState(q, WAITING_FOR_JOIN), Msg("join"))

\* ws.onerror and ws.onclose: the server or the network closed the socket.
Lost(p) == Die([p EXCEPT !.ws = "closed"], "WEBSOCKET_ERROR")

\* ws.onerror without that: no pong came between two ticks.
PingTimeout(p) == Die(p, "WEBSOCKET_ERROR")

OnJoin(p) ==
    IF p.state # WAITING_FOR_JOIN THEN p
    ELSE RequestLocalMedia(SetState(p, GET_USER_MEDIA), NoPeer)

OnLeave(p) ==
    IF p.state <= WAITING_FOR_JOIN THEN p ELSE SetState(ClosePC(p), WAITING_FOR_JOIN)

\* establish() waits for the microphone too, but finds the state ESTABLISHING.
OnReset(p) ==
    IF p.state < ESTABLISHING THEN p
    ELSE RequestLocalMedia(SetState(ClosePC(p), ESTABLISHING), NoPeer)

\* Mutant of OnOffer: an offer that comes before the microphone is dropped.
OnOfferEstablished(p, m) ==
    IF p.state < ESTABLISHING THEN p
    ELSE RequestLocalMedia(SetState(ClosePC(p), ESTABLISHING), m.of)

OnOffer(p, m) ==
    IF p.state < GET_USER_MEDIA THEN p
    ELSE LET q == ClosePC(p)
         IN RequestLocalMedia(IF p.state > ESTABLISHING THEN SetState(q, ESTABLISHING) ELSE q,
                              m.of)

OnAnswer(p, m) == IF p.state # ESTABLISHING THEN p ELSE Through(p, m)

OnIceCandidate(p, m) == IF p.state < GET_USER_MEDIA THEN p ELSE Through(p, m)

\* What the page makes of the server's error codes.
ErrOf(code) == CASE code = 4 -> "ROOM_BUSY"
                 [] code = 5 -> "INVALID_ROOM"
                 [] OTHER -> "SIGNALING"

\* ws.onmessage.
Received(p, m) ==
    Settle(CASE m.type = "error" -> Die(p, ErrOf(m.of))
             [] m.type = "join" -> OnJoin(p)
             [] m.type = "leave" -> OnLeave(p)
             [] m.type = "reset" -> OnReset(p)
             [] m.type = "offer" -> OnOffer(p, m)
             [] m.type = "answer" -> OnAnswer(p, m)
             [] m.type = "ice-candidate" -> OnIceCandidate(p, m))

-----------------------------------------------------------------------------
(* The connections                                                         *)

\* The chain of makeOffer or makeAnswer ends: the description is set and sent.
Described(p, i) ==
    LET q == [p EXCEPT !.pcs[i].desc = "made"]
    IN IF p.role = "glass-wearer" THEN SendTo(q, Offer(i))
       ELSE IF p.state >= ESTABLISHING THEN SendTo(q, Answer(i, p.pcs[i].peer))
       ELSE q

\* RTC.onIceCandidate.
Gathered(p, i) == SendTo([p EXCEPT !.pcs[i].gathers = FALSE], Candidate(i))

\* RTC.onIceConnected.
IceConnected(p, i) ==
    LET q == [p EXCEPT !.pcs[i].ice = "connected"]
    IN IF p.state = ESTABLISHING THEN SetState(q, CALL_IN_PROGRESS) ELSE q

\* RTC.onIceFailed: the connection closed is that of the promise.
IceFailed(p, i) ==
    LET q == ClosePC([p EXCEPT !.pcs[i].ice = "failed"])
    IN Settle(CASE p.state = ESTABLISHING -> Die(q, "ICE")
                [] p.state = CALL_IN_PROGRESS ->
                        SendTo(SetState(q, ESTABLISHING), Msg("reset"))
                [] OTHER -> q)

=============================================================================
