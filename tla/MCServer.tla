------------------------------ MODULE MCServer ------------------------------
(* Small instances of Server: the constants that a .cfg cannot write.       *)
EXTENDS Server, TLC

\* One room, written one way.
MCCanonical == "lab_1" :> "lab_1"
MCPayload == UNION {{c} \X (1 .. MaxSent[c]) : c \in Client}

\* One client talks, the others only join.
OneTalker == LET talker == CHOOSE c \in Client : TRUE
             IN [c \in Client |-> IF c = talker THEN 3 ELSE 1]

\* What they send.
EveryType == [c \in Client |-> {"ping", "join", "leave", "unknown", "offer"}]
JoinsOffersAndPings == [c \in Client |-> {"join", "offer", "ping"}]

\* The others lose their connection at any moment.
Listeners == {c \in Client : OneTalker[c] = 1}
Nobody == {}

=============================================================================
