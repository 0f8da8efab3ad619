-------------------------------- MODULE Jsep --------------------------------
(***************************************************************************)
(* What the page of a room (server/webroot/s/js/room.js) relies on in an   *)
(* RTCPeerConnection with which it makes one offer or one answer: the      *)
(* order of the two descriptions, when local candidates are surfaced, and  *)
(* when the ICE state is reported.                                         *)
(***************************************************************************)
EXTENDS SequencesExt

CONSTANTS Candidates  \* the local candidates that may be found

IceStates ==
    {"new", "checking", "connected", "completed", "disconnected", "failed"}

VARIABLES
    signaling,  \* signalingState
    local,      \* whether a local description is set
    remote,     \* whether a remote description is set
    described,  \* the candidates written into the local description
    surfaced,   \* the candidates of the icecandidate events, in order
    told        \* the state of the last iceconnectionstatechange event

vars == <<signaling, local, remote, described, surfaced, told>>

Init ==
    /\ signaling = "stable"
    /\ local = FALSE
    /\ remote = FALSE
    /\ described = {}
    /\ surfaced = <<>>
    /\ told = "new"

\* The local description is an offer, or the answer to the remote one.
SetLocal ==
    /\ ~local
    /\ \/ signaling = "stable" /\ signaling' = "have-local-offer"
       \/ signaling = "have-remote-offer" /\ signaling' = "stable"
    /\ local' = TRUE
    /\ UNCHANGED <<remote, described, surfaced, told>>

SetRemote ==
    /\ ~remote
    /\ \/ signaling = "stable" /\ signaling' = "have-remote-offer"
       \/ signaling = "have-local-offer" /\ signaling' = "stable"
    /\ remote' = TRUE
    /\ UNCHANGED <<local, described, surfaced, told>>

Batches == {cs \in SeqOf(Candidates, 3) : cs # <<>> /\ IsInjective(cs)}

\* Candidates are found once the local description says where.  Each is written
\* into it once and surfaced in the same step; a closed connection surfaces none.
Trickle ==
    /\ local
    /\ UNCHANGED <<signaling, local, remote, told>>
    /\ \E cs \in Batches :
        /\ described \cap ToSet(cs) = {}
        /\ described' = described \cup ToSet(cs)
        /\ surfaced' = IF signaling = "closed" THEN surfaced ELSE surfaced \o cs

\* The transports run when both ends have described themselves.  The page closes
\* a connection that is reported failed at once.
Report ==
    /\ local /\ remote
    /\ signaling = "stable"
    /\ told' \in IceStates \ {told}
    /\ signaling' = IF told' = "failed" THEN "closed" ELSE "stable"
    /\ UNCHANGED <<local, remote, described, surfaced>>

Close ==
    /\ signaling # "closed"
    /\ signaling' = "closed"
    /\ UNCHANGED <<local, remote, described, surfaced, told>>

Next == SetLocal \/ SetRemote \/ Trickle \/ Report \/ Close

Spec == Init /\ [][Next]_vars
=============================================================================
