------------------------------- MODULE Phone --------------------------------
(***************************************************************************)
(* The phone's part in a session with the page (service/Call.java), as far *)
(* as the room and the peer connection go: module Call has the whole state *)
(* machine.  What Call tells apart below WAITING_FOR_OBSERVER is one state *)
(* here, AWAY: not in the room, and on the way back to it.                 *)
(*                                                                         *)
(* Messages of the websocket are handled as they arrive; what the listener *)
(* of a peer connection posts waits in `events', and stays there when the  *)
(* connection is closed.                                                   *)
(***************************************************************************)
EXTENDS Messages, Sequences

AWAY == 3
WAITING_FOR_OBSERVER == 4
WAITING_FOR_HEADSET == 5
ESTABLISHING == 6
CALL_IN_PROGRESS == 7
PhoneState == AWAY .. CALL_IN_PROGRESS

\* The session's connection is the last of `pcs'; `creating' until createOffer
\* has called back.
Idle == [role |-> "phone", state |-> AWAY, ws |-> "closed", pcs |-> <<>>,
         creating |-> FALSE, events |-> <<>>, outbox |-> <<>>,
         misled |-> FALSE]      \* history: handled an event of a closed connection

Session(ph) == Len(ph.pcs)
SendTo(ph, m) == IF ph.ws = "open" THEN [ph EXCEPT !.outbox = Append(@, m)] ELSE ph
Post(ph, what) == [ph EXCEPT !.events = Append(@, [what |-> what, of |-> Session(ph)])]

\* Mutant of CloseSession: the page is not told.
CloseSessionSilently(ph) ==
    IF ph.state < ESTABLISHING THEN ph
    ELSE [ph EXCEPT !.pcs[Session(ph)] = ClosedPC, !.creating = FALSE]

\* Taking a session down sends a reset, whoever asked for it.
CloseSession(ph) ==
    IF ph.state < ESTABLISHING THEN ph
    ELSE [SendTo(ph, Msg("reset")) EXCEPT !.pcs[Session(ph)] = ClosedPC, !.creating = FALSE]

GoDown(ph, s) == [CloseSession(ph) EXCEPT !.state = s]

\* gotoState(ESTABLISHING): the new connection is asked for an offer at once.
OpenSession(ph) ==
    [GoDown(ph, ESTABLISHING) EXCEPT !.pcs = Append(@, PC(NoPeer)), !.creating = TRUE]

\* gotoError, STOP and the losses that end in AWAY.
GoAway(ph) == [SendTo(GoDown(ph, AWAY), Msg("leave")) EXCEPT !.ws = "closed"]

\* WEBSOCKET_CONNECTED: the room is joined as soon as the socket is open.
Connected(ph) ==
    SendTo([ph EXCEPT !.ws = "open", !.state = WAITING_FOR_OBSERVER], Msg("join"))

\* WEBSOCKET_CLOSED and NETWORK_LOST.
Lost(ph) == GoAway([ph EXCEPT !.ws = "closed"])

HeadsetConnected(ph) == OpenSession(ph)
HeadsetDisconnected(ph) == GoDown(ph, WAITING_FOR_HEADSET)

-----------------------------------------------------------------------------
(* Messages of the websocket                                               *)

OnJoin(ph) ==
    IF ph.state = WAITING_FOR_OBSERVER THEN [ph EXCEPT !.state = WAITING_FOR_HEADSET] ELSE ph

OnLeave(ph) ==
    IF ph.state > WAITING_FOR_OBSERVER THEN GoDown(ph, WAITING_FOR_OBSERVER) ELSE ph

\* Mutant of OnReset: a call in progress is not reset.
OnResetEstablishing(ph) == IF ph.state = ESTABLISHING THEN OpenSession(ph) ELSE ph

OnReset(ph) == IF ph.state >= ESTABLISHING THEN OpenSession(ph) ELSE ph

\* An answer the connection refuses is an SDP_SET_FAILURE, posted by the listener.
OnAnswer(ph, m) ==
    IF ph.state # ESTABLISHING THEN ph
    ELSE IF TakesAnswer(ph.pcs[Session(ph)]) THEN [ph EXCEPT !.pcs[Session(ph)].peer = m.of]
    ELSE Post(ph, "SDP_SET_FAILURE")

\* A candidate too early or too late is refused without a word.
Received(ph, m) ==
    CASE m.type = "join" -> OnJoin(ph)
      [] m.type = "leave" -> OnLeave(ph)
      [] m.type = "reset" -> OnReset(ph)
      [] m.type = "answer" -> OnAnswer(ph, m)
      [] m.type = "ice-candidate" -> ph

-----------------------------------------------------------------------------
(* Messages of the peer connection                                         *)

\* SDP_CREATE_SUCCESS carries the offer it is about, whichever connection is
\* the current one.
OnCreated(ph, i) ==
    IF ph.state # ESTABLISHING THEN ph
    ELSE SendTo([ph EXCEPT !.pcs[Session(ph)].desc = "made"], Offer(i))

OnCandidate(ph, i) == IF ph.state >= ESTABLISHING THEN SendTo(ph, Candidate(i)) ELSE ph

OnConnected(ph) ==
    IF ph.state = ESTABLISHING THEN [ph EXCEPT !.state = CALL_IN_PROGRESS] ELSE ph

OnIceFailed(ph) ==
    CASE ph.state = ESTABLISHING -> GoAway(ph)
      [] ph.state = CALL_IN_PROGRESS -> OpenSession(ph)
      [] OTHER -> ph

OnSdpFailure(ph) == IF ph.state = ESTABLISHING THEN GoAway(ph) ELSE ph

OnCameraError(ph) == IF ph.state >= ESTABLISHING THEN GoAway(ph) ELSE ph

Handled(ph) ==
    LET e == Head(ph.events)
        stale == ph.state >= ESTABLISHING /\ e.of # Session(ph)
        q == [ph EXCEPT !.events = Tail(@), !.misled = @ \/ stale]
    IN CASE e.what = "SDP_CREATE_SUCCESS" -> OnCreated(q, e.of)
         [] e.what = "PC_ICE_CANDIDATE" -> OnCandidate(q, e.of)
         [] e.what = "PC_ICE_CONNECTED" -> OnConnected(q)
         [] e.what = "PC_ICE_FAILED" -> OnIceFailed(q)
         [] e.what = "SDP_SET_FAILURE" -> OnSdpFailure(q)
         [] e.what = "CAMERA_ERROR" -> OnCameraError(q)

\* What the listener posts: createOffer has ended, a candidate was found, ICE has
\* made up its mind, the camera failed.
Created(ph) == Post([ph EXCEPT !.creating = FALSE], "SDP_CREATE_SUCCESS")
Gathered(ph) == Post([ph EXCEPT !.pcs[Session(ph)].gathers = FALSE], "PC_ICE_CANDIDATE")
IceConnected(ph) == Post([ph EXCEPT !.pcs[Session(ph)].ice = "connected"], "PC_ICE_CONNECTED")
IceFailed(ph) == Post([ph EXCEPT !.pcs[Session(ph)].ice = "failed"], "PC_ICE_FAILED")
CameraFailed(ph) == Post(ph, "CAMERA_ERROR")

=============================================================================
