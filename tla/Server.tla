------------------------------- MODULE Server -------------------------------
(***************************************************************************)
(* The signalling server at run time: the router goroutine of module       *)
(* Router and, for every connection, the two goroutines of HandleClient    *)
(* (server/client.go), which share bounded channels.                       *)
(*                                                                         *)
(* The reader pushes what it reads to the router's queues and blocks while *)
(* they are full.  The router blocks on a client whose outgoing queue is   *)
(* full until `done' is closed.  The writer drains that queue; when it     *)
(* returns, its deferred calls push the final leave and then close `done'. *)
(* A Client is one connection: reconnecting makes another Client.          *)
(*                                                                         *)
(* Time is left out: a deadline that may expire is an error that may       *)
(* happen, and one that must expire is a fairness assumption.              *)
(***************************************************************************)
EXTENDS Router, Sift

CONSTANTS
    QueueCap,       \* capacity of Router.queue (100 in the code)
    AliveCap,       \* capacity of Router.alive (100)
    SendCap,        \* capacity of a client's outgoing queue (5)
    MaxSent,        \* bound on the messages read from each connection
    MsgTypes,       \* the message types each client sends in this instance
    WriteErrors     \* the connections to which writing can fail

ASSUME Capacities == /\ {QueueCap, AliveCap, SendCap} \subseteq Nat \ {0}
                     /\ MaxSent \in [Client -> Nat]
                     /\ WriteErrors \subseteq Client
\* A forwarded payload is identified by its sender and its place in the stream.
ASSUME PayloadType == Payload = UNION {{c} \X (1 .. MaxSent[c]) : c \in Client}

VARIABLES
    queue,      \* Router.queue
    alive,      \* Router.alive
    reader,     \* where each reader goroutine is
    reading,    \* the message a reader has read and not yet pushed
    writer,     \* where each HandleClient loop is; "done" once it has returned
    outgoing,   \* Client.sendqueue
    pingqueue,  \* whether the ping channel (capacity 1) holds a request
    pinged,     \* whether a liveness check of the connection is outstanding
    sent        \* number of messages read from each connection

channels == <<queue, alive, outgoing, pingqueue, pinged>>
threads == <<reader, reading, writer, sent>>
serverVars == <<vars, channels, threads>>

NoMessage == [type |-> "none"]

\* The messages the n-th read of connection c can return.
Readable(c, n) ==
    [type : MsgTypes[c] \cap {"ping", "leave", "unknown"}, origin : {c}]
    \cup [type : MsgTypes[c] \cap {"join"}, origin : {c},
          room : Spelling, role : Role]
    \cup [type : MsgTypes[c] \cap ForwardedType, origin : {c}, payload : {<<c, n>>}]

-----------------------------------------------------------------------------
(* The router goroutine: run, handle and the blocking Send and Ping.       *)

Handle(m) ==
    \/ m.type = "ping" /\ Ping(m.origin)
    \/ m.type = "join" /\ Join(m.origin, m.room, m.role)
    \/ m.type = "leave" /\ Leave(m.origin)
    \/ m.type \in ForwardedType /\ Forward(m.origin, m.type, m.payload)
    \/ m.type = "unknown" /\ BadType(m.origin)

\* The router takes its next message when the last handler's sends are over.
TakeMessage ==
    /\ out = <<>> /\ queue # <<>>
    /\ Handle(Head(queue))
    /\ queue' = Tail(queue)
    /\ UNCHANGED <<alive, outgoing, pingqueue, pinged, threads>>

TakeAlive ==
    /\ out = <<>> /\ alive # <<>>
    /\ Alive(Head(alive))
    /\ alive' = Tail(alive)
    /\ UNCHANGED <<queue, outgoing, pingqueue, pinged, threads>>

Sent == /\ out' = Tail(out)
        /\ UNCHANGED <<rooms, clients, seats, waiting, told, queue, alive, pinged,
                       threads>>

\* Mutant of DeliverSend: the outgoing queue has no bound.
DeliverSendUnbounded ==
    /\ out # <<>> /\ Head(out).type # "ws-ping"
    /\ outgoing' = [outgoing EXCEPT ![Head(out).to] = Append(@, Head(out))]
    /\ Sent /\ UNCHANGED pingqueue

DeliverSend ==
    /\ out # <<>> /\ Head(out).type # "ws-ping"
    /\ LET c == Head(out).to
       IN /\ Len(outgoing[c]) < SendCap
          /\ outgoing' = [outgoing EXCEPT ![c] = Append(@, Head(out))]
    /\ Sent /\ UNCHANGED pingqueue

DeliverPing ==
    /\ out # <<>> /\ Head(out).type = "ws-ping"
    /\ ~pingqueue[Head(out).to]
    /\ pingqueue' = [pingqueue EXCEPT ![Head(out).to] = TRUE]
    /\ Sent /\ UNCHANGED outgoing

\* The case <-c.done of Send and Ping.
DeliverNowhere ==
    /\ out # <<>> /\ writer[Head(out).to] = "done"
    /\ Sent /\ UNCHANGED <<outgoing, pingqueue>>

Deliver == DeliverSend \/ DeliverPing \/ DeliverNowhere

-----------------------------------------------------------------------------
(* The reader goroutine of a connection.                                   *)

Reads(c, at, msg) == /\ reader' = [reader EXCEPT ![c] = at]
                     /\ reading' = [reading EXCEPT ![c] = msg]
                     /\ UNCHANGED <<vars, writer, outgoing, pingqueue>>

\* A message also answers an outstanding liveness check.  Messages that are
\* already buffered can be read after the connection is closed.
ReadMessage(c) ==
    /\ reader[c] = "read" /\ sent[c] < MaxSent[c]
    /\ \E m \in Readable(c, sent[c] + 1) :
          Reads(c, IF pinged[c] THEN "alive" ELSE "push", m)
    /\ pinged' = [pinged EXCEPT ![c] = FALSE]
    /\ sent' = [sent EXCEPT ![c] = @ + 1]
    /\ UNCHANGED <<queue, alive>>

\* The pong handler runs inside ReadJSON, which goes on reading.  A pong
\* that answers no check changes nothing and is left out.
ReadPong(c) ==
    /\ reader[c] = "read" /\ pinged[c]
    /\ Reads(c, "alive-pong", NoMessage)
    /\ pinged' = [pinged EXCEPT ![c] = FALSE]
    /\ UNCHANGED <<queue, alive, sent>>

PushAlive(c) ==
    /\ reader[c] \in {"alive", "alive-pong"} /\ Len(alive) < AliveCap
    /\ alive' = Append(alive, c)
    /\ Reads(c, IF reader[c] = "alive" THEN "push" ELSE "read", reading[c])
    /\ UNCHANGED <<queue, pinged, sent>>

\* Mutant of PushMessage: what is pushed last is taken first.
PushMessageAhead(c) ==
    /\ reader[c] = "push" /\ Len(queue) < QueueCap
    /\ queue' = <<reading[c]>> \o queue
    /\ Reads(c, "read", NoMessage)
    /\ UNCHANGED <<alive, pinged, sent>>

PushMessage(c) ==
    /\ reader[c] = "push" /\ Len(queue) < QueueCap
    /\ queue' = Append(queue, reading[c])
    /\ Reads(c, "read", NoMessage)
    /\ UNCHANGED <<alive, pinged, sent>>

\* The connection is lost, or the read deadline passes, or the writer has
\* returned and the connection is closed: the reader closes eof.
ReadError(c) ==
    /\ reader[c] = "read"
    /\ Reads(c, "eof", NoMessage)
    /\ UNCHANGED <<queue, alive, pinged, sent>>

-----------------------------------------------------------------------------
(* HandleClient: set-up, the writing loop and its deferred calls.          *)

Connect(c) ==
    /\ writer[c] = "new"
    /\ writer' = [writer EXCEPT ![c] = "loop"]
    /\ reader' = [reader EXCEPT ![c] = "read"]
    /\ UNCHANGED <<vars, channels, reading, sent>>

Writes(c) == /\ writer[c] = "loop"
             /\ UNCHANGED <<vars, queue, alive, reader, reading, sent>>

\* After an error the loop returns.
WriteOrFail(c) == \/ UNCHANGED writer
                  \/ c \in WriteErrors /\ writer' = [writer EXCEPT ![c] = "cleanup"]

WriteNext(c) ==
    /\ Writes(c) /\ outgoing[c] # <<>>
    /\ outgoing' = [outgoing EXCEPT ![c] = Tail(@)]
    /\ WriteOrFail(c)
    /\ UNCHANGED <<pingqueue, pinged>>

\* Mutant of WritePing: the ping is sent but no check is recorded.
WritePingUnchecked(c) ==
    /\ Writes(c) /\ pingqueue[c]
    /\ pingqueue' = [pingqueue EXCEPT ![c] = FALSE]
    /\ WriteOrFail(c)
    /\ UNCHANGED <<outgoing, pinged>>

\* No ping is written while one is outstanding.
WritePing(c) ==
    /\ Writes(c) /\ pingqueue[c]
    /\ pingqueue' = [pingqueue EXCEPT ![c] = FALSE]
    /\ pinged' = [pinged EXCEPT ![c] = TRUE]
    /\ IF pinged[c] THEN UNCHANGED writer ELSE WriteOrFail(c)
    /\ UNCHANGED outgoing

\* The periodic ping has an effect on the server's state only when it fails.
TickerFails(c) ==
    /\ Writes(c) /\ c \in WriteErrors
    /\ writer' = [writer EXCEPT ![c] = "cleanup"]
    /\ UNCHANGED <<outgoing, pingqueue, pinged>>

SeeEof(c) ==
    /\ Writes(c) /\ reader[c] = "eof"
    /\ writer' = [writer EXCEPT ![c] = "cleanup"]
    /\ UNCHANGED <<outgoing, pingqueue, pinged>>

\* Mutant of Cleanup: done is closed and the leave is not pushed.
CleanupWithoutLeave(c) ==
    /\ writer[c] = "cleanup"
    /\ writer' = [writer EXCEPT ![c] = "done"]
    /\ UNCHANGED <<vars, channels, reader, reading, sent>>

\* The deferred calls run last first: the leave is pushed, then done is closed.
Cleanup(c) ==
    /\ writer[c] = "cleanup" /\ Len(queue) < QueueCap
    /\ queue' = Append(queue, [type |-> "leave", origin |-> c])
    /\ writer' = [writer EXCEPT ![c] = "done"]
    /\ UNCHANGED <<vars, alive, outgoing, pingqueue, pinged, reader, reading, sent>>

-----------------------------------------------------------------------------
ServerInit ==
    /\ Init
    /\ queue = <<>> /\ alive = <<>>
    /\ reader = [c \in Client |-> "new"]
    /\ reading = [c \in Client |-> NoMessage]
    /\ writer = [c \in Client |-> "new"]
    /\ outgoing = [c \in Client |-> <<>>]
    /\ pingqueue = [c \in Client |-> FALSE]
    /\ pinged = [c \in Client |-> FALSE]
    /\ sent = [c \in Client |-> 0]

\* Every connection of the instance has come and gone, and the router idles.
AllGone == /\ \A c \in Client : writer[c] = "done" /\ reader[c] = "eof"
           /\ queue = <<>> /\ alive = <<>> /\ out = <<>>
           /\ UNCHANGED serverVars

ServerNext ==
    \/ TakeMessage \/ TakeAlive \/ Deliver
    \/ \E c \in Client :
          \/ Connect(c)
          \/ ReadMessage(c) \/ ReadPong(c) \/ ReadError(c)
          \/ PushAlive(c) \/ PushMessage(c)
          \/ WriteNext(c) \/ WritePing(c) \/ TickerFails(c) \/ SeeEof(c) \/ Cleanup(c)
    \/ AllGone

ServerSpec == ServerInit /\ [][ServerNext]_serverVars

\* A read that must return: the check's short deadline, or a closed connection.
ReadReturns(c) == /\ pinged[c] \/ writer[c] = "done"
                  /\ ReadMessage(c) \/ ReadPong(c) \/ ReadError(c)

ReaderRuns(c) == PushAlive(c) \/ PushMessage(c) \/ ReadReturns(c)
WriterRuns(c) == WriteNext(c) \/ WritePing(c) \/ SeeEof(c) \/ Cleanup(c)

\* TakeMessage and TakeAlive, seen on the queue they take from: a handler is
\* enabled as soon as its message is taken.
MessageTaken == out = <<>> /\ queue # <<>> /\ queue' = Tail(queue)
AliveTaken == out = <<>> /\ alive # <<>> /\ alive' = Tail(alive)

\* A goroutine that is not blocked runs.  Nothing is assumed of which ready case
\* a select takes, nor of the clients.
ServerFairness ==
    /\ WF_queue(MessageTaken) /\ WF_alive(AliveTaken) /\ WF_out(Deliver)
    /\ \A c \in Client : WF_serverVars(ReaderRuns(c)) /\ WF_serverVars(WriterRuns(c))

FairServerSpec == ServerSpec /\ ServerFairness

-----------------------------------------------------------------------------
(* Properties                                                              *)

\* Every channel keeps to its capacity and every goroutine to its program.
ServerTypeOK ==
    /\ TypeOK
    /\ Len(queue) <= QueueCap
    /\ \A i \in DOMAIN queue : queue[i].origin \in Client
    /\ alive \in Seq(Client) /\ Len(alive) <= AliveCap
    /\ outgoing \in [Client -> Seq(Packet)]
    /\ \A c \in Client : Len(outgoing[c]) <= SendCap
    /\ pingqueue \in [Client -> BOOLEAN] /\ pinged \in [Client -> BOOLEAN]
    /\ reader \in [Client -> {"new", "read", "alive", "alive-pong", "push", "eof"}]
    /\ \A c \in Client : reading[c] # NoMessage <=> reader[c] \in {"alive", "push"}
    /\ writer \in [Client -> {"new", "loop", "cleanup", "done"}]
    /\ \A c \in Client : sent[c] \in 0 .. MaxSent[c]

\* The numbers of c's forwarded messages on their way to d, first to arrive first.
OnTheWay(c, d) ==
    LET numbers == {c} \X (1 .. MaxSent[c])
        packets == Only(outgoing[d] \o out, [to : {d}, type : ForwardedType, arg : numbers])
        messages == Only(Append(queue, reading[c]),
                         [type : ForwardedType, origin : {c}, payload : numbers])
    IN [i \in DOMAIN packets |-> packets[i].arg[2]]
       \o [i \in DOMAIN messages |-> messages[i].payload[2]]

\* Signalling is never reordered or duplicated on its way through the reader,
\* the queue, the handler and the outgoing queue: an ICE candidate cannot
\* overtake the offer it belongs to.
InOrder ==
    \A c, d \in Client :
        c # d => LET way == OnTheWay(c, d)
                 IN \A i \in 1 .. Len(way) - 1 : way[i] < way[i + 1]

LeaveQueued(c) ==
    \E i \in DOMAIN queue : queue[i] = [type |-> "leave", origin |-> c]

\* Once HandleClient has returned for c, and its final leave is handled, c holds no
\* seat and no turn to wait: whatever the other connections do, and though the reader
\* ends before the leave is pushed, nothing of c is left behind.  Of a connection to
\* which a write has failed this is not so: its reader may push one more message,
\* a join, behind the leave (client.go:86).
LeftUnlessLost ==
    \A c \in Client \ WriteErrors :
        writer[c] = "done" /\ ~LeaveQueued(c) => clients[c] = NoRoom

Waits(c) == \E r \in Room, role \in Role : waiting[r][role] = c

\* Nobody waits for ever: whatever the holder of the seat does, and if it falls
\* silent, a waiter is seated, refused or gone.
WaiterServed == \A c \in Client : Waits(c) ~> ~Waits(c)

\* A client that hands in a ping gets a pong, or its connection is at an end.
PingAnswered ==
    \A c \in Client :
        (\E i \in DOMAIN queue : queue[i] = [type |-> "ping", origin |-> c])
        ~> (\/ writer[c] # "loop"
            \/ \E i \in DOMAIN outgoing[c] : outgoing[c][i].type = "pong")

=============================================================================
