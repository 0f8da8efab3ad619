------------------------------ MODULE Messages ------------------------------
(***************************************************************************)
(* What the two ends of a room say to each other (server/message.go) and   *)
(* the peer connection as both of them see it.  A description or candidate *)
(* is the number of the connection it is of.                               *)
(***************************************************************************)
EXTENDS Naturals

NoPeer == 0

\* `of' is the sender's connection, `re' for an answer that of the offer it
\* answers; an error has its code in `of'.
Msg(type) == [type |-> type, of |-> 0, re |-> 0]
Offer(i) == [Msg("offer") EXCEPT !.of = i]
Answer(i, j) == [Msg("answer") EXCEPT !.of = i, !.re = j]
Candidate(i) == [Msg("ice-candidate") EXCEPT !.of = i]
Error(code) == [Msg("error") EXCEPT !.of = code]

\* One connection: how far its own description is, the peer's connection whose
\* description it has, what ICE says, and whether its candidate is still to come.
PC(peer) == [desc |-> "making", peer |-> peer, ice |-> "new", gathers |-> TRUE]
ClosedPC == [desc |-> "closed", peer |-> NoPeer, ice |-> "closed", gathers |-> FALSE]
IsOpen(pc) == pc.desc # "closed"

\* setRemoteDescription(answer) is refused unless the own offer is set and has no
\* answer yet.
TakesAnswer(pc) == pc.desc = "made" /\ pc.peer = NoPeer

=============================================================================
