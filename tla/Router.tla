------------------------------- MODULE Router -------------------------------
(***************************************************************************)
(* The room router of the Wizzeye server (server/router.go).               *)
(*                                                                         *)
(* The router is one goroutine that owns `rooms' and `clients' and handles *)
(* one message at a time, so a handler is one action here.  What a handler *)
(* sends is left, in sending order, in `out'; module Server delivers it    *)
(* packet by packet through the clients' bounded queues.                   *)
(*                                                                         *)
(* A Room is a heap object of the code, with an identity: two rooms of the *)
(* same name can be alive at once, one in the `rooms' map and others that  *)
(* only `clients' still points to.  Room <<n, k>> is the k-th object that  *)
(* can carry the name n.  An object is allocated again only when no map    *)
(* refers to it, which is when the garbage collector may have freed it.    *)
(***************************************************************************)
EXTENDS Naturals, Sequences

CONSTANTS
    Client,     \* connections, each one a *Client
    Name,       \* room names that match roomNameRegexp
    Spelling,   \* what clients write in the "room" field of a join
    Canonical,  \* [Spelling -> Name \cup {BadName}]: ToLower, then the regexp
    BadName,    \* the name is refused
    Slot,       \* bound on the Room objects of one name alive at once
    Payload,    \* contents of forwarded messages, opaque to the server
    NoClient,   \* nil *Client
    NoRoom      \* nil *Room

GlassWearer == "glass-wearer"
Observer == "observer"
Role == {GlassWearer, Observer}
NoRole == ""

Room == Name \X Slot
NameOf(r) == r[1]

Opposite(role) == IF role = GlassWearer THEN Observer ELSE GlassWearer

\* The message types handed to forward, which does not tell them apart.
ForwardedType == {"offer", "answer", "ice-candidate", "reset"}

ErrorCode == {"BadMessage", "NoRoom", "RoleTaken", "BadRoom"}

\* What the router asks a connection to send; "ws-ping" is Client.Ping.
PacketType == {"join", "leave", "error", "pong", "ws-ping"} \cup ForwardedType
Packet == [to : Client, type : PacketType,
           arg : Role \cup {NoRole} \cup ErrorCode \cup Payload]

ASSUME CanonicalType == Canonical \in [Spelling -> Name \cup {BadName}]
ASSUME Sentinels == /\ NoClient \notin Client
                    /\ NoRoom \notin Room
                    /\ BadName \notin Name
\* There are more slots than clients: an allocation always finds a free one.
ASSUME SlotSupply ==
    /\ Slot # {}
    /\ \A use \in [Client -> Slot] : \E k \in Slot : \A c \in Client : use[c] # k

VARIABLES
    rooms,      \* Router.rooms: [Name -> Room or nil]
    clients,    \* Router.clients: [Client -> Room or nil]
    seats,      \* Room.Seats of every object: [Room -> [Role -> Client or nil]]
    waiting,    \* Room.Waiting of every object
    told,       \* history: the last "join"/"leave" sent to a client since it
                \* last left says that its peer is present
    out         \* what the last handler sent, in order

vars == <<rooms, clients, seats, waiting, told, out>>

-----------------------------------------------------------------------------
(* A handler is a function of the state the router works on.               *)

Current == [rooms |-> rooms, clients |-> clients, seats |-> seats,
            waiting |-> waiting, told |-> told, out |-> <<>>]

Become(s) == /\ rooms' = s.rooms
             /\ clients' = s.clients
             /\ seats' = s.seats
             /\ waiting' = s.waiting
             /\ told' = s.told
             /\ out' = s.out

NobodyIn == [role \in Role |-> NoClient]

Send(s, c, type, arg) ==
    [s EXCEPT !.out = Append(@, [to |-> c, type |-> type, arg |-> arg])]

\* A presence message: what it makes its receiver believe is recorded.
Announce(s, c, type, role) ==
    [Send(s, c, type, role) EXCEPT !.told[c] = (type = "join")]

FreeSlot(s, name) ==
    CHOOSE k \in Slot : \A c \in Client : s.clients[c] # <<name, k>>

\* getRoom: the registered room of that name, or a new one.
RoomOf(s, name) ==
    IF s.rooms[name] = NoRoom THEN <<name, FreeSlot(s, name)>> ELSE s.rooms[name]

GetRoom(s, name) ==
    IF s.rooms[name] # NoRoom THEN s
    ELSE LET room == RoomOf(s, name)
         IN [s EXCEPT !.rooms[name] = room,
                      !.seats[room] = NobodyIn,
                      !.waiting[room] = NobodyIn]

\* putRoom: drops by NAME, whichever object is registered under it.
PutRoom(s, room) ==
    IF room # NoRoom /\ s.seats[room] = NobodyIn
    THEN [s EXCEPT !.rooms[NameOf(room)] = NoRoom]
    ELSE s

-----------------------------------------------------------------------------
(* join, from the call of leave on.  c is in no room.                      *)

\* Mutant of Greet: the newcomer is not told of the peer it finds.
GreetPeerOnly(s, c, room, role) ==
    LET peer == s.seats[room][Opposite(role)]
    IN IF peer \in {NoClient, c} THEN s ELSE Announce(s, peer, "join", role)

\* The new occupant and its peer are told of each other.
Greet(s, c, room, role) ==
    LET peer == s.seats[room][Opposite(role)]
    IN IF peer \in {NoClient, c} THEN s
       ELSE Announce(Announce(s, peer, "join", role), c, "join", Opposite(role))

TakeSeat(s, c, room, role) ==
    Greet([s EXCEPT !.seats[room][role] = c], c, room, role)

\* Mutant of QueueBehind: a nil waiter is sent the error as well.
QueueBehindNil(s, c, room, role) ==
    LET refused == Send(s, s.waiting[room][role], "error", "RoleTaken")
    IN Send([refused EXCEPT !.waiting[room][role] = c],
            s.seats[room][role], "ws-ping", NoRole)

\* Mutant of QueueBehind: the displaced waiter is not told.
QueueBehindSilently(s, c, room, role) ==
    Send([s EXCEPT !.waiting[room][role] = c], s.seats[room][role], "ws-ping", NoRole)

\* A second waiter displaces the first; the holder is checked for life.
QueueBehind(s, c, room, role) ==
    LET waiter == s.waiting[room][role]
        refused == IF waiter = NoClient THEN s
                   ELSE Send(s, waiter, "error", "RoleTaken")
    IN Send([refused EXCEPT !.waiting[room][role] = c],
            s.seats[room][role], "ws-ping", NoRole)

\* Mutant of EnterRoom: the seat is taken whoever sits in it.
EnterRoomRegardless(s, c, name, role) ==
    LET room == RoomOf(s, name)
    IN TakeSeat([GetRoom(s, name) EXCEPT !.clients[c] = room], c, room, role)

EnterRoom(s, c, name, role) ==
    LET room == RoomOf(s, name)
        in == [GetRoom(s, name) EXCEPT !.clients[c] = room]
    IN PutRoom(IF in.seats[room][role] = NoClient
               THEN TakeSeat(in, c, room, role)
               ELSE QueueBehind(in, c, room, role),
               room)

-----------------------------------------------------------------------------
(* leave                                                                   *)

Without(c, occupants) ==
    [role \in Role |-> IF occupants[role] = c THEN NoClient ELSE occupants[role]]

SeatOf(s, c, room) ==
    IF \E role \in Role : s.seats[room][role] = c
    THEN CHOOSE role \in Role : s.seats[room][role] = c
    ELSE NoRole

\* c gives up its place in room, and the other occupant is told so.
Vacate(s, c, room) ==
    LET role == SeatOf(s, c, room)
        gone == [s EXCEPT !.waiting[room] = Without(c, @),
                          !.seats[room] = Without(c, @),
                          !.told[c] = FALSE]
        peer == gone.seats[room][Opposite(role)]
    IN IF role = NoRole \/ peer = NoClient THEN gone
       ELSE Announce(gone, peer, "leave", role)

\* Mutant of Forget: the deferred putRoom is missing.
ForgetOnly(s, c, room) == [s EXCEPT !.clients[c] = NoRoom]

Forget(s, c, room) == PutRoom([s EXCEPT !.clients[c] = NoRoom], room)

\* The leave that starts the join of a promoted waiter.  A waiter holds no
\* seat (OnePlace), so this leave promotes nobody and the recursion ends.
LeaveWaiter(s, w, room) == Forget(Vacate(s, w, room), w, room)

\* Mutant of Promote: the waiter is left where it is.
PromoteNobody(s, room, role) == s

\* The seat that c left goes to the client that waits for it.  The waiter
\* is looked up after c's own entries are gone.
Promote(s, room, role) ==
    IF role = NoRole \/ s.waiting[room][role] = NoClient THEN s
    ELSE LET w == s.waiting[room][role]
         IN EnterRoom(LeaveWaiter(s, w, room), w, NameOf(room), role)

LeaveRoom(s, c) ==
    LET room == s.clients[c]
    IN IF room = NoRoom THEN s
       ELSE Forget(Promote(Vacate(s, c, room), room, SeatOf(s, c, room)), c, room)

-----------------------------------------------------------------------------
(* The message handlers and handleAlive.                                   *)

\* Mutant of JoinRoom: the leave that starts it is missing.
JoinRoomStaying(s, c, spelling, role) ==
    IF role \notin Role THEN Send(s, c, "error", "BadMessage")
    ELSE IF Canonical[spelling] = BadName THEN Send(s, c, "error", "BadRoom")
    ELSE EnterRoom(s, c, Canonical[spelling], role)

\* Mutant of JoinRoom: who is in the room already changes role without leaving.
JoinRoomInside(s, c, spelling, role) ==
    IF role \notin Role THEN Send(s, c, "error", "BadMessage")
    ELSE IF Canonical[spelling] = BadName THEN Send(s, c, "error", "BadRoom")
    ELSE LET name == Canonical[spelling]
         IN EnterRoom(IF s.clients[c] # NoRoom /\ s.clients[c] = s.rooms[name]
                      THEN s ELSE LeaveRoom(s, c),
                      c, name, role)

JoinRoom(s, c, spelling, role) ==
    IF role \notin Role THEN Send(s, c, "error", "BadMessage")
    ELSE IF Canonical[spelling] = BadName THEN Send(s, c, "error", "BadRoom")
    ELSE EnterRoom(LeaveRoom(s, c), c, Canonical[spelling], role)

\* Seats is a Go map: `first' is the role the iteration visits first.
ForwardFrom(s, c, type, payload, first) ==
    LET room == s.clients[c]
        to(role) == s.seats[room][role]
        Pass(t, role) == IF to(role) \in {NoClient, c} THEN t
                         ELSE Send(t, to(role), type, payload)
    IN IF room = NoRoom THEN Send(s, c, "error", "NoRoom")
       ELSE PutRoom(Pass(Pass(s, first), Opposite(first)), room)

\* c is alive: whoever waits for its seat is refused.
RefuseWaiter(s, c) ==
    LET room == s.clients[c]
        role == SeatOf(s, c, room)
        waiter == s.waiting[room][role]
    IN IF room = NoRoom THEN s
       ELSE PutRoom(IF role = NoRole \/ waiter = NoClient THEN s
                    ELSE [Send(s, waiter, "error", "RoleTaken")
                             EXCEPT !.waiting[room][role] = NoClient],
                    room)

\* Mutant of Ping: the pong is not sent.
PingUnanswered(c) == Become(Current)

Ping(c) == Become(Send(Current, c, "pong", NoRole))

Join(c, spelling, role) == Become(JoinRoom(Current, c, spelling, role))

Leave(c) == Become(LeaveRoom(Current, c))

Forward(c, type, payload) ==
    \E first \in Role : Become(ForwardFrom(Current, c, type, payload, first))

BadType(c) == Become(Send(Current, c, "error", "BadMessage"))

Alive(c) == Become(RefuseWaiter(Current, c))

-----------------------------------------------------------------------------
Init == /\ rooms = [n \in Name |-> NoRoom]
        /\ clients = [c \in Client |-> NoRoom]
        /\ seats = [r \in Room |-> NobodyIn]
        /\ waiting = [r \in Room |-> NobodyIn]
        /\ told = [c \in Client |-> FALSE]
        /\ out = <<>>

\* Every connection may have any message handled next.  "other" stands for
\* every value of the role field that is not a role.
Next == \E c \in Client :
            \/ Ping(c)
            \/ \E sp \in Spelling, role \in Role \cup {"other"} : Join(c, sp, role)
            \/ Leave(c)
            \/ \E type \in ForwardedType, p \in Payload : Forward(c, type, p)
            \/ BadType(c)
            \/ Alive(c)

Spec == Init /\ [][Next]_vars

-----------------------------------------------------------------------------
(* Properties                                                              *)


\* The state is well formed; in particular every packet of every handler is
\* addressed to a client, never to a nil seat or waiter.
TypeOK ==
    /\ rooms \in [Name -> Room \cup {NoRoom}]
    /\ clients \in [Client -> Room \cup {NoRoom}]
    /\ seats \in [Room -> [Role -> Client \cup {NoClient}]]
    /\ waiting \in [Room -> [Role -> Client \cup {NoClient}]]
    /\ told \in [Client -> BOOLEAN]
    /\ out \in Seq(Packet)

\* A client's entry in `clients' is the only room object it appears in: after
\* any sequence of joins, takeovers and promotions no other room still lists it.
Placed ==
    \A r \in Room, role \in Role, c \in Client :
        c \in {seats[r][role], waiting[r][role]} => clients[c] = r

\* Within its room a client has one place: one seat, or one turn to wait, never
\* both.  (That waiters are unseated is why leave's recursion through join is
\* finite.)
OnePlace ==
    \A r \in Room, c \in Client :
        /\ \A role \in Role : seats[r][role] = c =>
              seats[r][Opposite(role)] # c /\ waiting[r][role] # c
              /\ waiting[r][Opposite(role)] # c
        /\ \A role \in Role : waiting[r][role] = c => waiting[r][Opposite(role)] # c

\* Nobody waits for a free seat: whenever the router is between two messages, a
\* waiter is behind an occupied seat, so a leave always hands the seat over.
WaitingBehindSeat ==
    \A r \in Room, role \in Role :
        waiting[r][role] # NoClient => seats[r][role] # NoClient

\* The map of rooms does not leak: a registered room is registered under its
\* own name and somebody is seated in it.
RegisteredInUse ==
    \A n \in Name : rooms[n] # NoRoom =>
        NameOf(rooms[n]) = n /\ seats[rooms[n]] # NobodyIn

\* What the join and leave messages have told a client is true: the seated
\* clients, and only they, have been told that their peer is present exactly
\* when the opposite seat of their room is occupied.
PeerKnown ==
    \A c \in Client :
        told[c] <=> \E r \in Room, role \in Role :
                        seats[r][role] = c /\ seats[r][Opposite(role)] # NoClient

\* Nobody is put off a seat: a client stops holding a seat of a room only in
\* the handling of its own leave or join, whatever others send, and whether or
\* not the connection is still the one registered under the name.
NoEviction ==
    [][\A r \in Room, role \in Role, c \in Client :
          seats[r][role] = c /\ seats'[r][role] # c
            => \/ Leave(c)
               \/ \E sp \in Spelling, ro \in Role : Join(c, sp, ro)]_vars

\* Nobody is left to wait in silence: a client that stops waiting behind a seat has
\* moved itself, or is sent RoleTaken in the same step, or in a room of the same name
\* has the role it waited for or waits for it again.  (It waits again when its room
\* was dropped from the map and another of that name has been made.)
NoSilentRefusal ==
    [][\A r \in Room, role \in Role, c \in Client :
          waiting[r][role] = c /\ waiting'[r][role] # c
            => \/ Leave(c)
               \/ \E sp \in Spelling, ro \in Role : Join(c, sp, ro)
               \/ \E q \in Room : NameOf(q) = NameOf(r)
                                /\ c \in {seats'[q][role], waiting'[q][role]}
               \/ \E i \in DOMAIN out' :
                     out'[i] = [to |-> c, type |-> "error", arg |-> "RoleTaken"]]_vars

\* README.md: only one glass wearer and one remote observer can be in the same
\* room, a room being what a name denotes.
OneSeatPerRole ==
    \A r, q \in Room, role \in Role :
        /\ NameOf(r) = NameOf(q)
        /\ NoClient \notin {seats[r][role], seats[q][role]}
        => r = q

=============================================================================
