---------------------------- MODULE ServerProofs ----------------------------
(***************************************************************************)
(* First of the router alone (module Router's Spec): its invariants, for   *)
(* any number of clients, names and rooms, and that nobody waits in        *)
(* silence.                                                                *)
(*                                                                         *)
(* Every handler is a composition of operators on a state record, so each  *)
(* operator has a lemma.  Between the steps of a handler two parts of the  *)
(* invariant do not hold: the room being left may be registered and empty, *)
(* and its free seat may still have a waiter.  The lemmas name the room and*)
(* the role exempted.                                                      *)
(*                                                                         *)
(* Then of the server of module Server, for any connections, names and     *)
(* capacities: the channels keep to their bounds, the router behind them   *)
(* keeps the invariants shown of the router alone, a connection that could *)
(* be written to leaves nothing behind, and what is forwarded keeps its    *)
(* order.                                                                  *)
(***************************************************************************)
EXTENDS Server, SiftProofs

State == [rooms : [Name -> Room \cup {NoRoom}],
          clients : [Client -> Room \cup {NoRoom}],
          seats : [Room -> [Role -> Client \cup {NoClient}]],
          waiting : [Room -> [Role -> Client \cup {NoClient}]],
          told : [Client -> BOOLEAN],
          out : Seq(Packet)]

PlacedIn(s) ==
    \A r \in Room, role \in Role, c \in Client :
        s.seats[r][role] = c \/ s.waiting[r][role] = c => s.clients[c] = r

OnePlaceIn(s) ==
    \A r \in Room, role \in Role, c \in Client :
        /\ s.seats[r][role] = c => s.seats[r][Opposite(role)] # c
                                   /\ s.waiting[r][role] # c
                                   /\ s.waiting[r][Opposite(role)] # c
        /\ s.waiting[r][role] = c => s.waiting[r][Opposite(role)] # c

\* PeerKnown without a quantifier over rooms: Placed names the only candidate.
ToldIn(s) ==
    /\ \A r \in Room, role \in Role, c \in Client :
          s.seats[r][role] = c
             => (s.told[c] <=> s.seats[r][Opposite(role)] # NoClient)
    /\ \A c \in Client : s.told[c] =>
          s.clients[c] # NoRoom /\ \E role \in Role : s.seats[s.clients[c]][role] = c

NamedIn(s) == \A n \in Name : s.rooms[n] # NoRoom => NameOf(s.rooms[n]) = n

Core(s) == s \in State /\ PlacedIn(s) /\ OnePlaceIn(s) /\ ToldIn(s) /\ NamedIn(s)

\* Registered rooms are in use, room excepted.
InUseBut(s, room) ==
    \A n \in Name : s.rooms[n] \notin {NoRoom, room} => s.seats[s.rooms[n]] # NobodyIn

\* Waiters are behind an occupied seat, except for the role of room.
BehindBut(s, room, exempt) ==
    \A r \in Room, role \in Role :
        (r = room /\ role = exempt) \/ s.waiting[r][role] = NoClient
        \/ s.seats[r][role] # NoClient

InUse(s) == \A n \in Name : s.rooms[n] # NoRoom => s.seats[s.rooms[n]] # NobodyIn

Behind(s) == \A r \in Room, role \in Role :
                 s.waiting[r][role] = NoClient \/ s.seats[r][role] # NoClient

Good(s) == Core(s) /\ InUse(s) /\ Behind(s)

\* Whoever is seated in s, c excepted, has the same seat in t.
KeepsBut(t, s, c) ==
    \A r \in Room, role \in Role, d \in Client :
        d # c /\ s.seats[r][role] = d => t.seats[r][role] = d

\* Whoever is in no room in s, c excepted, is in none in t.
OutBut(t, s, c) ==
    \A d \in Client : d # c /\ s.clients[d] = NoRoom => t.clients[d] = NoRoom

NoPlace(s, c) ==
    \A r \in Room, role \in Role : s.seats[r][role] # c /\ s.waiting[r][role] # c

-----------------------------------------------------------------------------
\* Two states that differ in what has been sent only.
SameBut(t, s) == /\ t \in State
                 /\ t.rooms = s.rooms /\ t.clients = s.clients
                 /\ t.seats = s.seats /\ t.waiting = s.waiting
                 /\ t.told = s.told

\* Sending an error, a pong, a ping or a forwarded message disturbs nothing.
LEMMA SendSame ==
    ASSUME NEW s \in State, NEW c \in Client, NEW type \in PacketType,
           NEW arg \in Role \cup {NoRole} \cup ErrorCode \cup Payload
    PROVE  SameBut(Send(s, c, type, arg), s)
<1>1. [to |-> c, type |-> type, arg |-> arg] \in Packet
  BY DEF Packet
<1>2. Append(s.out, [to |-> c, type |-> type, arg |-> arg]) \in Seq(Packet)
  BY <1>1 DEF State
<1> QED
  BY <1>2 DEF Send, State, SameBut

LEMMA SameCore ==
    ASSUME NEW s, NEW t, Core(s), SameBut(t, s)
    PROVE  /\ Core(t)
           /\ InUse(s) => InUse(t)
           /\ Behind(s) => Behind(t)
           /\ \A c : NoPlace(s, c) => NoPlace(t, c)
           /\ \A room : InUseBut(s, room) => InUseBut(t, room)
BY DEF SameBut, Core, PlacedIn, OnePlaceIn, ToldIn, NamedIn, InUse, Behind, NoPlace,
       InUseBut

LEMMA PutRoomGood ==
    ASSUME NEW s, NEW room \in Room, Core(s), InUseBut(s, room)
    PROVE  /\ Core(PutRoom(s, room))
           /\ InUse(PutRoom(s, room))
           /\ PutRoom(s, room).clients = s.clients
           /\ PutRoom(s, room).seats = s.seats
           /\ PutRoom(s, room).waiting = s.waiting
           /\ PutRoom(s, room).told = s.told
           /\ PutRoom(s, room).out = s.out
<1> DEFINE t == PutRoom(s, room)
<1>0. room # NoRoom
  BY Sentinels
<1>1. CASE s.seats[room] = NobodyIn
  <2>0. NameOf(room) \in Name
    BY DEF Room, NameOf
  <2>1. t = [s EXCEPT !.rooms[NameOf(room)] = NoRoom]
    BY <1>0, <1>1 DEF PutRoom
  <2>a. s \in State
    BY DEF Core
  <2>b. [s.rooms EXCEPT ![NameOf(room)] = NoRoom] \in [Name -> Room \cup {NoRoom}]
    BY <2>a DEF State
  <2>2. /\ t \in State
        /\ t.rooms = [s.rooms EXCEPT ![NameOf(room)] = NoRoom]
        /\ t.clients = s.clients /\ t.seats = s.seats /\ t.waiting = s.waiting
        /\ t.told = s.told /\ t.out = s.out
    BY <2>a, <2>b, <2>1 DEF State
  <2>3. Core(t)
    BY <2>0, <2>2 DEF Core, PlacedIn, OnePlaceIn, ToldIn, NamedIn, State
  <2>4. InUse(t)
    BY <2>0, <2>2 DEF InUse, InUseBut, Core, NamedIn, State
  <2> QED
    BY <2>2, <2>3, <2>4
<1>2. CASE s.seats[room] # NobodyIn
  BY <1>0, <1>2 DEF PutRoom, InUse, InUseBut
<1> QED
  BY <1>1, <1>2

-----------------------------------------------------------------------------
(* leave: giving up a place.                                               *)

LEMMA RoleFacts ==
    /\ \A role \in Role : /\ Opposite(role) \in Role /\ Opposite(role) # role
                          /\ Opposite(Opposite(role)) = role
                          /\ \A other \in Role : other \in {role, Opposite(role)}
    /\ NoRole \notin Role
BY DEF Role, NoRole, Opposite, GlassWearer, Observer

LEMMA SeatOfFacts ==
    ASSUME NEW s, NEW c, NEW room
    PROVE  /\ SeatOf(s, c, room) \in Role \cup {NoRole}
           /\ SeatOf(s, c, room) # NoRole => s.seats[room][SeatOf(s, c, room)] = c
           /\ SeatOf(s, c, room) = NoRole => \A role \in Role : s.seats[room][role] # c
BY RoleFacts DEF SeatOf

\* The places of room without c, before anybody is told.
Gone(s, c, room) == [s EXCEPT !.waiting[room] = Without(c, @),
                              !.seats[room] = Without(c, @),
                              !.told[c] = FALSE]

\* g is s with c removed from room.
IsGone(g, s, c, room) ==
    /\ g \in State
    /\ g.rooms = s.rooms /\ g.clients = s.clients
    /\ \A d \in Client : g.told[d] = IF d = c THEN FALSE ELSE s.told[d]
    /\ \A r \in Room : r # room => g.seats[r] = s.seats[r]
    /\ \A r \in Room, role \in Role :
          /\ g.seats[r][role] = IF r = room /\ s.seats[r][role] = c THEN NoClient
                                ELSE s.seats[r][role]
          /\ g.waiting[r][role] = IF r = room /\ s.waiting[r][role] = c THEN NoClient
                                  ELSE s.waiting[r][role]

LEMMA GoneFields ==
    ASSUME NEW s \in State, NEW c \in Client, NEW room \in Room
    PROVE  IsGone(Gone(s, c, room), s, c, room)
<1> DEFINE g == Gone(s, c, room)
           seats1 == [s.seats EXCEPT ![room] = Without(c, s.seats[room])]
           waiting1 == [s.waiting EXCEPT ![room] = Without(c, s.waiting[room])]
           told1 == [s.told EXCEPT ![c] = FALSE]
<1>1. /\ Without(c, s.seats[room]) \in [Role -> Client \cup {NoClient}]
      /\ Without(c, s.waiting[room]) \in [Role -> Client \cup {NoClient}]
  BY DEF Without, State
<1>2. /\ seats1 \in [Room -> [Role -> Client \cup {NoClient}]]
      /\ waiting1 \in [Room -> [Role -> Client \cup {NoClient}]]
      /\ told1 \in [Client -> BOOLEAN]
  BY <1>1 DEF State
<1>3. g = [s EXCEPT !.waiting = waiting1, !.seats = seats1, !.told = told1]
  BY DEF Gone, State
<1>4. /\ g \in State
      /\ g.rooms = s.rooms /\ g.clients = s.clients /\ g.out = s.out
      /\ g.told = told1 /\ g.seats = seats1 /\ g.waiting = waiting1
  BY <1>2, <1>3 DEF State
<1>5. /\ s.seats \in [Room -> [Role -> Client \cup {NoClient}]]
      /\ s.waiting \in [Room -> [Role -> Client \cup {NoClient}]]
  BY DEF State
<1> HIDE DEF g
<1>6. ASSUME NEW r \in Room, NEW role \in Role
      PROVE  /\ g.seats[r][role] = IF r = room /\ s.seats[r][role] = c THEN NoClient
                                   ELSE s.seats[r][role]
             /\ g.waiting[r][role] = IF r = room /\ s.waiting[r][role] = c THEN NoClient
                                     ELSE s.waiting[r][role]
  BY <1>4, <1>5 DEF Without
<1>7. \A r \in Room : r # room => g.seats[r] = s.seats[r]
  BY <1>4, <1>5
<1>8. \A d \in Client : g.told[d] = IF d = c THEN FALSE ELSE s.told[d]
  BY <1>4 DEF State
<1> QED
  BY <1>4, <1>6, <1>7, <1>8 DEF g, IsGone

LEMMA GoneCore ==
    ASSUME NEW s, Core(s), NEW c \in Client, NEW room \in Room, s.clients[c] = room
    PROVE  LET g == Gone(s, c, room)
               role == SeatOf(s, c, room)
           IN /\ g \in State /\ PlacedIn(g) /\ OnePlaceIn(g) /\ NamedIn(g)
              /\ role = NoRole => Core(g)
              /\ role # NoRole /\ g.seats[room][Opposite(role)] = NoClient => Core(g)
<1> DEFINE g == Gone(s, c, room)
           role == SeatOf(s, c, room)
<1>1. s \in State
  BY DEF Core
<1>g. IsGone(g, s, c, room)
  BY <1>1, GoneFields
<1>2. /\ g \in State
      /\ g.rooms = s.rooms /\ g.clients = s.clients
      /\ \A d \in Client : g.told[d] = IF d = c THEN FALSE ELSE s.told[d]
      /\ \A r \in Room, ro \in Role :
            /\ g.seats[r][ro] = IF r = room /\ s.seats[r][ro] = c THEN NoClient
                                ELSE s.seats[r][ro]
            /\ g.waiting[r][ro] = IF r = room /\ s.waiting[r][ro] = c THEN NoClient
                                  ELSE s.waiting[r][ro]
  BY <1>g DEF IsGone
<1>3. role \in Role \cup {NoRole} /\ (role # NoRole => s.seats[room][role] = c)
      /\ (role = NoRole => \A ro \in Role : s.seats[room][ro] # c)
  BY SeatOfFacts
<1>4. s.told \in [Client -> BOOLEAN] /\ s.clients \in [Client -> Room \cup {NoRoom}]
  BY <1>1 DEF State
<1> HIDE DEF g, role
<1>5. PlacedIn(g)
  BY <1>2, Sentinels DEF PlacedIn, Core
<1>6. OnePlaceIn(g)
  BY <1>2, Sentinels, RoleFacts DEF OnePlaceIn, Core
<1>7. NamedIn(g)
  BY <1>2 DEF NamedIn, Core
<1>8. ASSUME role = NoRole \/ g.seats[room][Opposite(role)] = NoClient
      PROVE  ToldIn(g)
  <2>1. ASSUME NEW r \in Room, NEW ro \in Role, NEW d \in Client, g.seats[r][ro] = d
        PROVE  g.told[d] <=> g.seats[r][Opposite(ro)] # NoClient
    <3>1. s.seats[r][ro] = d
      BY <1>2, <2>1, Sentinels
    <3>2. d # c
      BY <1>2, <2>1, <3>1, Sentinels DEF Core, PlacedIn
    <3>3. g.told[d] = s.told[d]
      BY <1>2, <1>4, <3>2
    <3>4. s.told[d] <=> s.seats[r][Opposite(ro)] # NoClient
      BY <3>1 DEF Core, ToldIn
    <3>5. s.seats[r][Opposite(ro)] # c \/ r # room
      BY <1>2, <1>3, <1>8, <2>1, <3>1, <3>2, RoleFacts, Sentinels DEF Core, OnePlaceIn
    <3> QED
      BY <1>2, <3>3, <3>4, <3>5, RoleFacts
  <2>2. ASSUME NEW d \in Client, g.told[d]
        PROVE  g.clients[d] # NoRoom /\ \E ro \in Role : g.seats[g.clients[d]][ro] = d
    <3>1. d # c /\ s.told[d]
      BY <1>2, <1>4, <2>2
    <3>2. s.clients[d] # NoRoom /\ \E ro \in Role : s.seats[s.clients[d]][ro] = d
      BY <3>1 DEF Core, ToldIn
    <3> QED
      BY <1>2, <1>4, <3>1, <3>2
  <2> QED
    BY <2>1, <2>2 DEF ToldIn
<1> QED
  BY <1>2, <1>5, <1>6, <1>7, <1>8 DEF Core, g, role

\* t is s after a presence message to c.
IsAnnounced(t, s, c, type) ==
    /\ t \in State
    /\ t.rooms = s.rooms /\ t.clients = s.clients
    /\ t.seats = s.seats /\ t.waiting = s.waiting
    /\ \A d \in Client : t.told[d] <=> IF d = c THEN type = "join" ELSE s.told[d]

LEMMA AnnounceFields ==
    ASSUME NEW s \in State, NEW c \in Client, NEW type \in {"join", "leave"},
           NEW role \in Role
    PROVE  IsAnnounced(Announce(s, c, type, role), s, c, type)
<1>1. SameBut(Send(s, c, type, role), s)
  BY SendSame DEF PacketType
<1>2. [s.told EXCEPT ![c] = (type = "join")] \in [Client -> BOOLEAN]
  BY DEF State
<1> QED
  BY <1>1, <1>2 DEF Announce, SameBut, State, IsAnnounced

LEMMA VacateCore ==
    ASSUME NEW s, Core(s), NEW c \in Client, NEW room \in Room, s.clients[c] = room
    PROVE  LET v == Vacate(s, c, room)
           IN /\ Core(v) /\ NoPlace(v, c)
              /\ v.rooms = s.rooms /\ v.clients = s.clients
              /\ v.seats = Gone(s, c, room).seats
              /\ v.waiting = Gone(s, c, room).waiting
<1> DEFINE g == Gone(s, c, room)
           role == SeatOf(s, c, room)
           peer == g.seats[room][Opposite(role)]
           v == Vacate(s, c, room)
<1>1. s \in State
  BY DEF Core
<1>g. IsGone(g, s, c, room)
  BY <1>1, GoneFields
<1>2. /\ g \in State
      /\ g.rooms = s.rooms /\ g.clients = s.clients
      /\ \A d \in Client : g.told[d] = IF d = c THEN FALSE ELSE s.told[d]
      /\ \A r \in Room, ro \in Role :
            /\ g.seats[r][ro] = IF r = room /\ s.seats[r][ro] = c THEN NoClient
                                ELSE s.seats[r][ro]
            /\ g.waiting[r][ro] = IF r = room /\ s.waiting[r][ro] = c THEN NoClient
                                  ELSE s.waiting[r][ro]
  BY <1>g DEF IsGone
<1>3. /\ PlacedIn(g) /\ OnePlaceIn(g) /\ NamedIn(g)
      /\ role = NoRole => Core(g)
      /\ role # NoRole /\ peer = NoClient => Core(g)
  BY GoneCore
<1>4. NoPlace(g, c)
  BY <1>2, Sentinels DEF NoPlace, Core, PlacedIn
<1>5. v = IF role = NoRole \/ peer = NoClient THEN g ELSE Announce(g, peer, "leave", role)
  BY DEF Vacate, Gone
<1>6. role \in Role \cup {NoRole} /\ (role # NoRole => s.seats[room][role] = c)
  BY SeatOfFacts
<1>p. peer = g.seats[room][Opposite(role)]
  OBVIOUS
<1> HIDE DEF g, role, peer, v
<1>7. CASE role = NoRole \/ peer = NoClient
  <2>1. Core(g) /\ v = g
    BY <1>3, <1>5, <1>7
  <2> QED
    BY <1>2, <1>4, <2>1 DEF g, v
<1>8. CASE role # NoRole /\ peer # NoClient
  <2>1. role \in Role /\ Opposite(role) \in Role
    BY <1>6, <1>8, RoleFacts
  <2>2. peer \in Client
    BY <1>2, <1>8, <1>p, <2>1 DEF State
  <2>3. v = Announce(g, peer, "leave", role)
    BY <1>5, <1>8
  <2>4. /\ v \in State
        /\ v.rooms = g.rooms /\ v.clients = g.clients
        /\ v.seats = g.seats /\ v.waiting = g.waiting
        /\ \A d \in Client : v.told[d] <=> d # peer /\ g.told[d]
    <3>1. g \in State /\ "leave" \in {"join", "leave"}
      BY <1>2
    <3>2. IsAnnounced(v, g, peer, "leave")
      BY <2>1, <2>2, <2>3, <3>1, AnnounceFields
    <3> QED
      BY <3>2 DEF IsAnnounced
  <2>5. g.told \in [Client -> BOOLEAN] /\ s.told \in [Client -> BOOLEAN]
        /\ s.clients \in [Client -> Room \cup {NoRoom}]
    BY <1>1, <1>2 DEF State
  <2>6. g.seats[room][role] = NoClient
    BY <1>2, <1>6, <1>8, <2>1
  <2>7. s.seats[room][Opposite(role)] = peer /\ peer # c
    BY <1>2, <1>8, <1>p, <2>1
  <2>8. ASSUME NEW r \in Room, NEW ro \in Role, NEW d \in Client, v.seats[r][ro] = d
        PROVE  v.told[d] <=> v.seats[r][Opposite(ro)] # NoClient
    <3>0. g.seats[r][ro] = d /\ d # c /\ s.seats[r][ro] = d
      BY <1>2, <1>4, <2>4, <2>8, Sentinels DEF NoPlace
    <3>1. CASE d = peer
      <4>1. r = room
        BY <1>3, <1>p, <2>1, <2>2, <3>0, <3>1 DEF PlacedIn
      <4>2. ro = Opposite(role)
        BY <1>3, <1>p, <2>1, <2>2, <3>0, <3>1, <4>1, RoleFacts DEF OnePlaceIn
      <4>3. Opposite(ro) = role
        BY <2>1, <4>2, RoleFacts
      <4>4. v.told[d] = FALSE
        BY <2>2, <2>4, <2>5, <3>1
      <4> QED
        BY <2>1, <2>4, <2>6, <2>8, <3>0, <4>1, <4>3, <4>4
    <3>2. CASE d # peer
      <4>1. v.told[d] <=> s.told[d]
        BY <1>2, <2>4, <3>0, <3>2
      <4>2. r # room
        BY <1>p, <2>1, <2>6, <3>0, <3>2, RoleFacts, Sentinels
      <4>3. s.told[d] <=> s.seats[r][Opposite(ro)] # NoClient
        BY <3>0 DEF Core, ToldIn
      <4> QED
        BY <1>2, <2>4, <4>1, <4>2, <4>3, RoleFacts
    <3> QED
      BY <3>1, <3>2
  <2>9. ASSUME NEW d \in Client, v.told[d]
        PROVE  v.clients[d] # NoRoom /\ \E ro \in Role : v.seats[v.clients[d]][ro] = d
    <3>1. d # peer /\ d # c /\ s.told[d]
      BY <1>2, <2>4, <2>5, <2>9
    <3>2. s.clients[d] # NoRoom /\ \E ro \in Role : s.seats[s.clients[d]][ro] = d
      BY <3>1 DEF Core, ToldIn
    <3> QED
      BY <1>2, <2>4, <2>5, <3>1, <3>2
  <2>10. ToldIn(v)
    BY <2>8, <2>9 DEF ToldIn
  <2>11. PlacedIn(v) /\ OnePlaceIn(v) /\ NamedIn(v) /\ NoPlace(v, c)
    BY <1>3, <1>4, <2>4 DEF PlacedIn, OnePlaceIn, NamedIn, NoPlace
  <2> QED
    BY <1>2, <2>4, <2>10, <2>11 DEF Core, g, v
<1> QED
  BY <1>7, <1>8 DEF v

\* What leaving a place does to the other rooms and to the other clients.
LEMMA VacateRest ==
    ASSUME NEW s, Core(s), NEW c \in Client, NEW room \in Room, s.clients[c] = room
    PROVE  LET v == Vacate(s, c, room)
           IN /\ InUse(s) \/ InUseBut(s, room) => InUseBut(v, room)
              /\ \A d \in Client : NoPlace(s, d) => NoPlace(v, d)
              /\ KeepsBut(v, s, c)
              /\ Behind(s) => BehindBut(v, room, SeatOf(s, c, room))
              /\ \A role \in Role :
                    BehindBut(s, room, role) /\ SeatOf(s, c, room) = NoRole
                       => BehindBut(v, room, role)
<1> DEFINE v == Vacate(s, c, room)
           g == Gone(s, c, room)
<1>0. s \in State
  BY DEF Core
<1>1. v.rooms = s.rooms /\ v.seats = g.seats /\ v.waiting = g.waiting
  BY VacateCore
<1> HIDE DEF v
<1>g. IsGone(g, s, c, room)
  BY <1>0, GoneFields
<1>2. \A r \in Room, ro \in Role :
         /\ g.seats[r][ro] = IF r = room /\ s.seats[r][ro] = c THEN NoClient
                             ELSE s.seats[r][ro]
         /\ g.waiting[r][ro] = IF r = room /\ s.waiting[r][ro] = c THEN NoClient
                               ELSE s.waiting[r][ro]
  BY <1>g DEF IsGone
<1>2a. \A r \in Room : r # room => g.seats[r] = s.seats[r]
  BY <1>g DEF IsGone
<1>3. SeatOf(s, c, room) = NoRole => \A ro \in Role : s.seats[room][ro] # c
  BY SeatOfFacts
<1>4. SeatOf(s, c, room) # NoRole => \A ro \in Role :
         s.seats[room][ro] = c => ro = SeatOf(s, c, room)
  BY SeatOfFacts, RoleFacts DEF Core, OnePlaceIn
<1>5. s.rooms \in [Name -> Room \cup {NoRoom}]
  BY <1>0 DEF State
<1> HIDE DEF g
<1>6. InUse(s) \/ InUseBut(s, room) => InUseBut(v, room)
  BY <1>1, <1>2a, <1>5 DEF InUse, InUseBut
<1>7. \A d \in Client : NoPlace(s, d) => NoPlace(v, d)
  BY <1>1, <1>2, Sentinels DEF NoPlace
<1>7a. KeepsBut(v, s, c)
  BY <1>1, <1>2 DEF KeepsBut
<1>8. Behind(s) => BehindBut(v, room, SeatOf(s, c, room))
  BY <1>1, <1>2, <1>3, <1>4 DEF Behind, BehindBut
<1>9. \A role \in Role : BehindBut(s, room, role) /\ SeatOf(s, c, room) = NoRole
                            => BehindBut(v, room, role)
  BY <1>1, <1>2, <1>3 DEF BehindBut
<1> QED
  BY <1>6, <1>7, <1>7a, <1>8, <1>9 DEF v

\* The end of a leave: c is in no room, and an empty room is dropped.
LEMMA ForgetCore ==
    ASSUME NEW s, Core(s), NEW c \in Client, NEW room \in Room,
           InUseBut(s, room), NoPlace(s, c)
    PROVE  LET t == Forget(s, c, room)
           IN /\ Core(t) /\ InUse(t)
              /\ t.clients = [s.clients EXCEPT ![c] = NoRoom]
              /\ t.seats = s.seats /\ t.waiting = s.waiting
<1> DEFINE u == [s EXCEPT !.clients[c] = NoRoom]
<1>1. s \in State /\ s.clients \in [Client -> Room \cup {NoRoom}]
      /\ s.rooms \in [Name -> Room \cup {NoRoom}]
  BY DEF Core, State
<1>2. [s.clients EXCEPT ![c] = NoRoom] \in [Client -> Room \cup {NoRoom}]
  BY <1>1
<1>3. /\ u \in State
      /\ u.rooms = s.rooms /\ u.seats = s.seats /\ u.waiting = s.waiting
      /\ u.told = s.told /\ u.clients = [s.clients EXCEPT ![c] = NoRoom]
  BY <1>1, <1>2 DEF State
<1> HIDE DEF u
<1>4. \A d \in Client : d # c => u.clients[d] = s.clients[d]
  BY <1>1, <1>3
<1>5. ASSUME NEW d \in Client, s.told[d]
      PROVE  d # c
  BY <1>1, <1>5 DEF Core, ToldIn, NoPlace
<1>6. PlacedIn(u)
  BY <1>3, <1>4 DEF Core, PlacedIn, NoPlace
<1>7. OnePlaceIn(u) /\ NamedIn(u)
  BY <1>3 DEF Core, OnePlaceIn, NamedIn
<1>8. ToldIn(u)
  BY <1>3, <1>4, <1>5 DEF Core, ToldIn
<1>9. Core(u) /\ InUseBut(u, room)
  BY <1>3, <1>6, <1>7, <1>8 DEF Core, InUseBut
<1>10. /\ Core(PutRoom(u, room)) /\ InUse(PutRoom(u, room))
       /\ PutRoom(u, room).clients = u.clients
       /\ PutRoom(u, room).seats = u.seats
       /\ PutRoom(u, room).waiting = u.waiting
  BY <1>9, PutRoomGood
<1>11. Forget(s, c, room) = PutRoom(u, room)
  BY DEF Forget, u
<1> QED
  BY <1>3, <1>10, <1>11

-----------------------------------------------------------------------------
(* join: entering a room.                                                  *)

\* There are more slots than clients.
LEMMA FreeSlotIsFree ==
    ASSUME NEW s \in State, NEW name \in Name
    PROVE  /\ FreeSlot(s, name) \in Slot
           /\ \A c \in Client : s.clients[c] # <<name, FreeSlot(s, name)>>
<1>1. s.clients \in [Client -> Room \cup {NoRoom}]
  BY DEF State
<1> DEFINE use == [c \in Client |-> IF s.clients[c] \in Room THEN s.clients[c][2]
                                    ELSE CHOOSE k \in Slot : TRUE]
<1>2. \A c \in Client : s.clients[c] \in Room => s.clients[c][2] \in Slot
  BY DEF Room
<1>3. (CHOOSE k \in Slot : TRUE) \in Slot
  BY SlotSupply
<1>4. use \in [Client -> Slot]
  BY <1>2, <1>3
<1>5. PICK k \in Slot : \A c \in Client : use[c] # k
  BY <1>4, SlotSupply
<1>6. ASSUME NEW c \in Client, s.clients[c] = <<name, k>>
      PROVE  FALSE
  <2>1. <<name, k>> \in Room
    BY DEF Room
  <2>2. use[c] = s.clients[c][2]
    BY <1>6, <2>1
  <2> QED
    BY <1>5, <1>6, <2>2
<1> QED
  BY <1>5, <1>6 DEF FreeSlot

LEMMA GetRoomCore ==
    ASSUME NEW s, Core(s), InUse(s), Behind(s), NEW name \in Name
    PROVE  LET room == RoomOf(s, name)
               t == GetRoom(s, name)
           IN /\ room \in Room /\ NameOf(room) = name
              /\ Core(t) /\ InUseBut(t, room) /\ Behind(t)
              /\ t.clients = s.clients
              /\ \A c \in Client : NoPlace(s, c) => NoPlace(t, c)
              /\ \A c : KeepsBut(t, s, c)
              /\ \A r \in Room, role \in Role, c \in Client :
                    s.waiting[r][role] = c => t.waiting[r][role] = c
              /\ t.out = s.out
<1> DEFINE room == RoomOf(s, name)
           t == GetRoom(s, name)
<1>1. s \in State
  BY DEF Core
<1>2. /\ s.rooms \in [Name -> Room \cup {NoRoom}]
      /\ s.clients \in [Client -> Room \cup {NoRoom}]
      /\ s.seats \in [Room -> [Role -> Client \cup {NoClient}]]
      /\ s.waiting \in [Room -> [Role -> Client \cup {NoClient}]]
  BY <1>1 DEF State
<1>3. CASE s.rooms[name] # NoRoom
  <2>1. room = s.rooms[name] /\ t = s
    BY <1>3 DEF RoomOf, GetRoom
  <2>2. room \in Room /\ NameOf(room) = name
    BY <1>2, <1>3, <2>1 DEF Core, NamedIn
  <2>3. InUseBut(s, room)
    BY DEF InUse, InUseBut
  <2>4. \A c : KeepsBut(s, s, c)
    BY DEF KeepsBut
  <2> QED
    BY <2>1, <2>2, <2>3, <2>4
<1>4. CASE s.rooms[name] = NoRoom
  <2>1. room = <<name, FreeSlot(s, name)>>
    BY <1>4 DEF RoomOf
  <2>2. room \in Room /\ NameOf(room) = name /\ \A c \in Client : s.clients[c] # room
    BY <1>1, <2>1, FreeSlotIsFree DEF Room, NameOf
  <2> DEFINE rooms1 == [s.rooms EXCEPT ![name] = room]
             seats1 == [s.seats EXCEPT ![room] = NobodyIn]
             waiting1 == [s.waiting EXCEPT ![room] = NobodyIn]
  <2>3. t = [s EXCEPT !.rooms = rooms1, !.seats = seats1, !.waiting = waiting1]
    BY <1>1, <1>4 DEF GetRoom, State
  <2> HIDE DEF room
  <2>4. /\ rooms1 \in [Name -> Room \cup {NoRoom}]
        /\ seats1 \in [Room -> [Role -> Client \cup {NoClient}]]
        /\ waiting1 \in [Room -> [Role -> Client \cup {NoClient}]]
    BY <1>2, <2>2 DEF NobodyIn
  <2>5. /\ t \in State
        /\ t.rooms = rooms1 /\ t.clients = s.clients
        /\ t.seats = seats1 /\ t.waiting = waiting1 /\ t.told = s.told
        /\ t.out = s.out
    BY <1>1, <2>3, <2>4 DEF State
  <2> HIDE DEF t
  <2>6. \A r \in Room, role \in Role :
            /\ t.seats[r][role] = IF r = room THEN NoClient ELSE s.seats[r][role]
            /\ t.waiting[r][role] = IF r = room THEN NoClient ELSE s.waiting[r][role]
    BY <1>2, <2>2, <2>5 DEF NobodyIn
  <2>7. \A r \in Room : r # room => t.seats[r] = s.seats[r]
    BY <1>2, <2>2, <2>5
  <2>8. \A n \in Name : t.rooms[n] = IF n = name THEN room ELSE s.rooms[n]
    BY <1>2, <2>5
  <2>9. PlacedIn(t)
    BY <2>5, <2>6, Sentinels DEF Core, PlacedIn
  <2>10. OnePlaceIn(t)
    BY <2>6, RoleFacts, Sentinels DEF Core, OnePlaceIn
  <2>11. NamedIn(t)
    BY <2>2, <2>8 DEF Core, NamedIn
  <2>12. ToldIn(t)
    <3>1. ASSUME NEW r \in Room, NEW role \in Role, NEW c \in Client,
                 t.seats[r][role] = c
          PROVE  t.told[c] <=> t.seats[r][Opposite(role)] # NoClient
      BY <2>5, <2>6, <3>1, RoleFacts, Sentinels DEF Core, ToldIn
    <3>2. ASSUME NEW c \in Client, t.told[c]
          PROVE  t.clients[c] # NoRoom /\ \E role \in Role : t.seats[t.clients[c]][role] = c
      <4>1. s.clients[c] # NoRoom /\ \E role \in Role : s.seats[s.clients[c]][role] = c
        BY <2>5, <3>2 DEF Core, ToldIn
      <4> QED
        BY <1>2, <2>2, <2>5, <2>6, <4>1
    <3> QED
      BY <3>1, <3>2 DEF ToldIn
  <2>13. InUseBut(t, room)
    BY <1>2, <2>7, <2>8 DEF InUse, InUseBut
  <2>14. Behind(t)
    BY <2>6 DEF Behind
  <2>15. \A c \in Client : NoPlace(s, c) => NoPlace(t, c)
    BY <2>6, Sentinels DEF NoPlace
  <2>16. \A c : KeepsBut(t, s, c)
    BY <2>2, <2>6 DEF KeepsBut, Core, PlacedIn
  <2>17. ASSUME NEW r \in Room, NEW role \in Role, NEW c \in Client,
                s.waiting[r][role] = c
         PROVE  t.waiting[r][role] = c
    BY <2>2, <2>6, <2>17 DEF Core, PlacedIn
  <2> QED
    BY <2>2, <2>5, <2>9, <2>10, <2>11, <2>12, <2>13, <2>14, <2>15, <2>16, <2>17
       DEF Core, room, t
<1> QED
  BY <1>3, <1>4

\* t is s with c in the free seat (room, role) and whatever told it implies.
IsSeated(t, s, c, room, role) ==
    /\ t.rooms = s.rooms /\ t.clients = s.clients /\ t.waiting = s.waiting
    /\ \A r \in Room : r # room => t.seats[r] = s.seats[r]
    /\ \A r \in Room, ro \in Role :
          t.seats[r][ro] = IF r = room /\ ro = role THEN c ELSE s.seats[r][ro]

LEMMA TakeSeatCore ==
    ASSUME NEW s, Core(s), NEW c \in Client, NEW room \in Room, NEW role \in Role,
           s.clients[c] = room, NoPlace(s, c), s.seats[room][role] = NoClient
    PROVE  LET t == TakeSeat(s, c, room, role)
           IN Core(t) /\ IsSeated(t, s, c, room, role)
<1> DEFINE u == [s EXCEPT !.seats[room][role] = c]
           other == Opposite(role)
           peer == u.seats[room][other]
           t == TakeSeat(s, c, room, role)
<1>1. s \in State
  BY DEF Core
<1>2. /\ s.seats \in [Room -> [Role -> Client \cup {NoClient}]]
      /\ s.clients \in [Client -> Room \cup {NoRoom}]
      /\ s.told \in [Client -> BOOLEAN]
  BY <1>1 DEF State
<1> DEFINE seats1 == [s.seats EXCEPT ![room][role] = c]
<1>3. seats1 \in [Room -> [Role -> Client \cup {NoClient}]]
  BY <1>2
<1>4. u = [s EXCEPT !.seats = seats1]
  BY <1>1 DEF State
<1>5. /\ u \in State
      /\ u.rooms = s.rooms /\ u.clients = s.clients /\ u.waiting = s.waiting
      /\ u.told = s.told /\ u.seats = seats1
  BY <1>1, <1>3, <1>4 DEF State
<1>6. /\ \A r \in Room : r # room => u.seats[r] = s.seats[r]
      /\ \A r \in Room, ro \in Role :
            u.seats[r][ro] = IF r = room /\ ro = role THEN c ELSE s.seats[r][ro]
  BY <1>2, <1>5
<1>7. other \in Role /\ other # role /\ Opposite(other) = role
      /\ \A ro \in Role : ro \in {role, other}
  BY RoleFacts
<1>8. peer = s.seats[room][other] /\ peer \in Client \cup {NoClient} /\ peer # c
  BY <1>2, <1>6, <1>7 DEF NoPlace
<1>9. t = IF peer = NoClient THEN u
          ELSE Announce(Announce(u, peer, "join", role), c, "join", other)
  BY <1>8 DEF TakeSeat, Greet
<1>p. peer = u.seats[room][other]
  OBVIOUS
<1> HIDE DEF u, peer, other, t
<1>10. /\ t \in State
       /\ t.rooms = s.rooms /\ t.clients = s.clients /\ t.waiting = s.waiting
       /\ t.seats = u.seats
       /\ \A d \in Client : t.told[d] <=> IF peer # NoClient /\ d \in {c, peer} THEN TRUE
                                          ELSE s.told[d]
  <2>1. CASE peer = NoClient
    BY <1>5, <1>9, <2>1
  <2>2. CASE peer # NoClient
    <3> DEFINE a == Announce(u, peer, "join", role)
               b == Announce(a, c, "join", other)
    <3>0. peer \in Client /\ "join" \in {"join", "leave"}
      BY <1>8, <2>2
    <3>1. IsAnnounced(a, u, peer, "join")
      BY <1>5, <3>0, AnnounceFields
    <3>a. a \in State
      BY <3>1 DEF IsAnnounced
    <3> HIDE DEF a
    <3>2. IsAnnounced(b, a, c, "join")
      BY <1>7, <3>0, <3>a, AnnounceFields
    <3>3. t = b
      BY <1>9, <2>2 DEF a
    <3> QED
      BY <1>5, <2>2, <3>1, <3>2, <3>3 DEF IsAnnounced
  <2> QED
    BY <2>1, <2>2
<1>11. IsSeated(t, s, c, room, role)
  BY <1>6, <1>10 DEF IsSeated
<1>12. PlacedIn(t)
  BY <1>6, <1>10 DEF Core, PlacedIn
<1>13. OnePlaceIn(t)
  BY <1>6, <1>10, RoleFacts DEF Core, OnePlaceIn, NoPlace
<1>14. NamedIn(t)
  BY <1>10 DEF Core, NamedIn
<1>15. ~s.told[c]
  BY <1>2 DEF Core, ToldIn, NoPlace
<1>16. ASSUME NEW r \in Room, NEW ro \in Role, NEW d \in Client, t.seats[r][ro] = d
       PROVE  t.told[d] <=> t.seats[r][Opposite(ro)] # NoClient
  <2>1. CASE d = c
    <3>1. r = room /\ ro = role
      BY <1>6, <1>10, <1>16, <2>1 DEF NoPlace
    <3>2. t.seats[r][Opposite(ro)] = peer
      BY <1>10, <1>p, <3>1 DEF other
    <3> QED
      BY <1>10, <1>15, <2>1, <3>2
  <2>2. CASE d = peer
    <3>1. peer # c /\ s.seats[r][ro] = peer
      BY <1>6, <1>8, <1>10, <1>16, <2>2
    <3>2. r = room /\ ro = other
      BY <1>7, <1>8, <2>2, <3>1 DEF Core, PlacedIn, OnePlaceIn, other
    <3>3. t.seats[r][Opposite(ro)] = c
      BY <1>6, <1>7, <1>10, <3>2
    <3> QED
      BY <1>10, <2>2, <3>3, Sentinels
  <2>3. CASE d # c /\ d # peer
    <3>1. r # room
      BY <1>6, <1>7, <1>8, <1>10, <1>16, <2>3
    <3>2. s.told[d] <=> s.seats[r][Opposite(ro)] # NoClient
      BY <1>6, <1>10, <1>16, <3>1 DEF Core, ToldIn
    <3>3. t.seats[r][Opposite(ro)] = s.seats[r][Opposite(ro)]
      BY <1>6, <1>10, <3>1
    <3> QED
      BY <1>10, <2>3, <3>2, <3>3
  <2> QED
    BY <2>1, <2>2, <2>3
<1>17. ASSUME NEW d \in Client, t.told[d]
       PROVE  t.clients[d] # NoRoom /\ \E ro \in Role : t.seats[t.clients[d]][ro] = d
  <2>1. CASE d = c
    BY <1>6, <1>10, <2>1, Sentinels
  <2>2. CASE d = peer
    BY <1>6, <1>7, <1>8, <1>10, <2>2, Sentinels DEF Core, PlacedIn
  <2>3. CASE d # c /\ d # peer
    <3>1. s.clients[d] # NoRoom /\ \E ro \in Role : s.seats[s.clients[d]][ro] = d
      BY <1>10, <1>17, <2>3 DEF Core, ToldIn
    <3>2. PICK ro \in Role : s.seats[s.clients[d]][ro] = d
      BY <3>1
    <3>3. s.clients[d] \in Room /\ ~(s.clients[d] = room /\ ro = role)
      BY <1>2, <3>1, <3>2, Sentinels
    <3> QED
      BY <1>6, <1>10, <3>1, <3>2, <3>3
  <2> QED
    BY <2>1, <2>2, <2>3
<1> QED
  BY <1>10, <1>11, <1>12, <1>13, <1>14, <1>16, <1>17 DEF Core, ToldIn, t

\* t is s with c waiting for the taken seat (room, role).
IsQueued(t, s, c, room, role) ==
    /\ t \in State
    /\ t.rooms = s.rooms /\ t.clients = s.clients /\ t.seats = s.seats
    /\ t.told = s.told
    /\ \A r \in Room, ro \in Role :
          t.waiting[r][ro] = IF r = room /\ ro = role THEN c ELSE s.waiting[r][ro]

LEMMA QueueBehindCore ==
    ASSUME NEW s, Core(s), NEW c \in Client, NEW room \in Room, NEW role \in Role,
           s.clients[c] = room, NoPlace(s, c), s.seats[room][role] # NoClient
    PROVE  LET t == QueueBehind(s, c, room, role)
           IN Core(t) /\ IsQueued(t, s, c, room, role)
<1> DEFINE waiter == s.waiting[room][role]
           refused == IF waiter = NoClient THEN s ELSE Send(s, waiter, "error", "RoleTaken")
           waiting1 == [refused.waiting EXCEPT ![room][role] = c]
           u == [refused EXCEPT !.waiting[room][role] = c]
           t == QueueBehind(s, c, room, role)
<1>1. s \in State
  BY DEF Core
<1>2. /\ s.seats \in [Room -> [Role -> Client \cup {NoClient}]]
      /\ s.waiting \in [Room -> [Role -> Client \cup {NoClient}]]
  BY <1>1 DEF State
<1>3. SameBut(refused, s)
  <2>1. CASE waiter = NoClient
    BY <1>1, <2>1 DEF SameBut
  <2>2. CASE waiter # NoClient
    BY <1>1, <1>2, <2>2, SendSame DEF PacketType, ErrorCode
  <2> QED
    BY <2>1, <2>2
<1>4. t = Send(u, s.seats[room][role], "ws-ping", NoRole)
  BY DEF QueueBehind
<1> HIDE DEF refused
<1>5. waiting1 \in [Room -> [Role -> Client \cup {NoClient}]]
  BY <1>2, <1>3 DEF SameBut
<1>6. u = [refused EXCEPT !.waiting = waiting1]
  BY <1>3 DEF SameBut, State
<1>7. /\ u \in State
      /\ u.rooms = s.rooms /\ u.clients = s.clients /\ u.seats = s.seats
      /\ u.told = s.told /\ u.waiting = waiting1
  BY <1>3, <1>5, <1>6 DEF SameBut, State
<1>8. \A r \in Room, ro \in Role :
          u.waiting[r][ro] = IF r = room /\ ro = role THEN c ELSE s.waiting[r][ro]
  BY <1>2, <1>3, <1>7 DEF SameBut
<1> HIDE DEF u
<1>9. SameBut(t, u)
  BY <1>2, <1>4, <1>7, SendSame DEF PacketType
<1>10. IsQueued(t, s, c, room, role)
  BY <1>7, <1>8, <1>9 DEF SameBut, IsQueued
<1>11. Core(t)
  <2>1. PlacedIn(t)
    BY <1>10 DEF IsQueued, Core, PlacedIn
  <2>2. OnePlaceIn(t)
    BY <1>10, RoleFacts DEF IsQueued, Core, OnePlaceIn, NoPlace
  <2>3. ToldIn(t) /\ NamedIn(t)
    BY <1>10 DEF IsQueued, Core, ToldIn, NamedIn
  <2> QED
    BY <1>10, <2>1, <2>2, <2>3 DEF IsQueued, Core
<1> QED
  BY <1>10, <1>11

LEMMA EnterRoomGood ==
    ASSUME NEW s, Good(s), NEW c \in Client, NoPlace(s, c),
           NEW name \in Name, NEW role \in Role
    PROVE  LET t == EnterRoom(s, c, name, role)
           IN /\ Good(t)
              /\ \A d \in Client : d # c => t.clients[d] = s.clients[d]
              /\ \A d \in Client : d # c /\ NoPlace(s, d) => NoPlace(t, d)
              /\ KeepsBut(t, s, c)
<1> DEFINE room == RoomOf(s, name)
           g == GetRoom(s, name)
           in == [g EXCEPT !.clients[c] = room]
           clients1 == [g.clients EXCEPT ![c] = room]
           placed == IF in.seats[room][role] = NoClient
                     THEN TakeSeat(in, c, room, role)
                     ELSE QueueBehind(in, c, room, role)
           t == EnterRoom(s, c, name, role)
<1>1. t = PutRoom(placed, room)
  BY DEF EnterRoom
<1>2. /\ room \in Room
      /\ Core(g) /\ InUseBut(g, room) /\ Behind(g)
      /\ g.clients = s.clients
      /\ \A d \in Client : NoPlace(s, d) => NoPlace(g, d)
      /\ KeepsBut(g, s, c)
  BY GetRoomCore DEF Good
<1> HIDE DEF room, g, t
<1>3. g \in State /\ g.clients \in [Client -> Room \cup {NoRoom}]
  BY <1>2 DEF Core, State
<1>4. clients1 \in [Client -> Room \cup {NoRoom}]
  BY <1>2, <1>3
<1>5. /\ in \in State
      /\ in.rooms = g.rooms /\ in.seats = g.seats /\ in.waiting = g.waiting
      /\ in.told = g.told /\ in.clients = clients1
  BY <1>3, <1>4 DEF State
<1>6. in.clients[c] = room /\ \A d \in Client : d # c => in.clients[d] = s.clients[d]
  BY <1>2, <1>3, <1>5
<1> HIDE DEF in
<1>7. NoPlace(g, c) /\ NoPlace(in, c)
  BY <1>2, <1>5 DEF NoPlace
<1>8. Core(in)
  <2>1. PlacedIn(in)
    BY <1>2, <1>5, <1>6, <1>7 DEF Core, PlacedIn, NoPlace
  <2>2. OnePlaceIn(in) /\ NamedIn(in)
    BY <1>2, <1>5 DEF Core, OnePlaceIn, NamedIn
  <2>3. ~g.told[c]
    BY <1>2, <1>3, <1>7 DEF Core, ToldIn, NoPlace
  <2>4. ToldIn(in)
    BY <1>2, <1>5, <1>6, <2>3 DEF Core, ToldIn
  <2> QED
    BY <1>5, <2>1, <2>2, <2>4 DEF Core
<1>9. InUseBut(in, room) /\ Behind(in)
      /\ \A d \in Client : NoPlace(s, d) => NoPlace(in, d)
      /\ KeepsBut(in, s, c)
  BY <1>2, <1>5 DEF InUseBut, Behind, NoPlace, KeepsBut
<1>10. in.rooms \in [Name -> Room \cup {NoRoom}]
  BY <1>5 DEF State
<1>11. /\ Core(placed) /\ InUseBut(placed, room) /\ Behind(placed)
       /\ placed.clients = in.clients
       /\ \A d \in Client : d # c /\ NoPlace(s, d) => NoPlace(placed, d)
       /\ KeepsBut(placed, s, c)
  <2>1. CASE in.seats[room][role] = NoClient
    <3>1. placed = TakeSeat(in, c, room, role)
      BY <2>1
    <3>2. Core(placed) /\ IsSeated(placed, in, c, room, role)
      BY <1>2, <1>6, <1>7, <1>8, <2>1, <3>1, TakeSeatCore
    <3> HIDE DEF placed
    <3>3. InUseBut(placed, room)
      BY <1>9, <1>10, <3>2 DEF InUseBut, IsSeated
    <3>4. Behind(placed)
      BY <1>9, <3>2, Sentinels DEF Behind, IsSeated
    <3>5. ASSUME NEW d \in Client, d # c, NoPlace(s, d)
          PROVE  NoPlace(placed, d)
      BY <1>9, <3>2, <3>5 DEF NoPlace, IsSeated
    <3>6. KeepsBut(placed, s, c)
      BY <1>9, <2>1, <3>2, Sentinels DEF KeepsBut, IsSeated
    <3> QED
      BY <3>2, <3>3, <3>4, <3>5, <3>6 DEF IsSeated
  <2>2. CASE in.seats[room][role] # NoClient
    <3>1. placed = QueueBehind(in, c, room, role)
      BY <2>2
    <3>2. Core(placed) /\ IsQueued(placed, in, c, room, role)
      BY <1>2, <1>6, <1>7, <1>8, <2>2, <3>1, QueueBehindCore
    <3> HIDE DEF placed
    <3>3. InUseBut(placed, room) /\ Behind(placed)
      BY <1>9, <2>2, <3>2 DEF InUseBut, Behind, IsQueued
    <3>5. ASSUME NEW d \in Client, d # c, NoPlace(s, d)
          PROVE  NoPlace(placed, d)
      BY <1>9, <3>2, <3>5 DEF NoPlace, IsQueued
    <3>6. KeepsBut(placed, s, c)
      BY <1>9, <3>2 DEF KeepsBut, IsQueued
    <3> QED
      BY <3>2, <3>3, <3>5, <3>6 DEF IsQueued
  <2> QED
    BY <2>1, <2>2
<1> HIDE DEF placed
<1>12. /\ Core(t) /\ InUse(t)
       /\ t.clients = placed.clients
       /\ t.seats = placed.seats /\ t.waiting = placed.waiting
  BY <1>1, <1>2, <1>11, PutRoomGood
<1> QED
  BY <1>6, <1>11, <1>12 DEF Good, Behind, NoPlace, KeepsBut, t

-----------------------------------------------------------------------------
(* leave and the message handlers.                                         *)

LEMMA LeaveRoomGood ==
    ASSUME NEW s, Good(s), NEW c \in Client
    PROVE  /\ Good(LeaveRoom(s, c)) /\ NoPlace(LeaveRoom(s, c), c)
           /\ KeepsBut(LeaveRoom(s, c), s, c)
           /\ LeaveRoom(s, c).clients[c] = NoRoom /\ OutBut(LeaveRoom(s, c), s, c)
<1> DEFINE room == s.clients[c]
           role == SeatOf(s, c, room)
           v == Vacate(s, c, room)
           p == Promote(v, room, role)
<1>1. s \in State /\ room \in Room \cup {NoRoom}
  BY DEF Good, Core, State
<1>2. CASE room = NoRoom
  <2>1. LeaveRoom(s, c) = s
    BY <1>2 DEF LeaveRoom
  <2>2. NoPlace(s, c)
    BY <1>2, Sentinels DEF Good, Core, PlacedIn, NoPlace
  <2> QED
    BY <1>2, <2>1, <2>2 DEF KeepsBut, OutBut
<1>3. CASE room \in Room
  <2>1. LeaveRoom(s, c) = Forget(p, c, room)
    BY <1>3, Sentinels DEF LeaveRoom
  <2>2. /\ Core(v) /\ NoPlace(v, c) /\ v.clients = s.clients
    BY <1>3, VacateCore DEF Good
  <2>3. InUseBut(v, room) /\ BehindBut(v, room, role) /\ KeepsBut(v, s, c)
    BY <1>3, VacateRest DEF Good
  <2>4. role \in Role \cup {NoRole}
    BY SeatOfFacts
  <2>5. v \in State /\ v.waiting \in [Room -> [Role -> Client \cup {NoClient}]]
    BY <2>2 DEF Core, State
  <2>r. room = v.clients[c]
    BY <2>2
  <2> HIDE DEF v, role, room
  <2>6. /\ Core(p) /\ InUseBut(p, room) /\ Behind(p) /\ NoPlace(p, c)
        /\ KeepsBut(p, s, c) /\ OutBut(p, s, c)
    <3>1. CASE role = NoRole \/ v.waiting[room][role] = NoClient
      <4>1. p = v
        BY <3>1 DEF Promote
      <4> QED
        BY <2>2, <2>3, <3>1, <4>1, RoleFacts DEF BehindBut, Behind, OutBut
    <3>2. CASE role # NoRole /\ v.waiting[room][role] # NoClient
      <4> DEFINE w == v.waiting[room][role]
                 x == Vacate(v, w, room)
                 y == LeaveWaiter(v, w, room)
      <4>1. p = EnterRoom(y, w, NameOf(room), role)
        BY <3>2 DEF Promote
      <4>2. role \in Role /\ w \in Client /\ w # c
        BY <1>3, <2>2, <2>4, <2>5, <3>2 DEF NoPlace
      <4>3. v.clients[w] = room
        BY <1>3, <2>2, <4>2 DEF Core, PlacedIn
      <4>4. SeatOf(v, w, room) = NoRole
        <5>1. \A ro \in Role : v.seats[room][ro] # w
          BY <1>3, <2>2, <4>2, RoleFacts DEF Core, OnePlaceIn
        <5> QED
          BY <5>1, SeatOfFacts
      <4>w. w = v.waiting[room][role]
        OBVIOUS
      <4> HIDE DEF w
      <4>5. /\ Core(x) /\ NoPlace(x, w) /\ x.clients = v.clients
            /\ x.waiting = Gone(v, w, room).waiting
        BY <1>3, <2>2, <4>2, <4>3, VacateCore
      <4>6. /\ InUseBut(x, room) /\ BehindBut(x, room, role)
            /\ \A d \in Client : NoPlace(v, d) => NoPlace(x, d)
            /\ KeepsBut(x, v, w)
        BY <1>3, <2>2, <2>3, <4>2, <4>3, <4>4, VacateRest
      <4>g. IsGone(Gone(v, w, room), v, w, room)
        BY <1>3, <2>5, <4>2, GoneFields
      <4>7. x.waiting[room][role] = NoClient
        BY <1>3, <4>2, <4>5, <4>g, <4>w DEF IsGone
      <4>8. Behind(x)
        BY <4>6, <4>7 DEF BehindBut, Behind
      <4>9. y = Forget(x, w, room)
        BY DEF LeaveWaiter
      <4> HIDE DEF x, y
      <4>10. /\ Core(y) /\ InUse(y)
             /\ y.clients = [x.clients EXCEPT ![w] = NoRoom]
             /\ y.seats = x.seats /\ y.waiting = x.waiting
        BY <1>3, <4>2, <4>5, <4>6, <4>9, ForgetCore
      <4>11. Good(y) /\ NoPlace(y, w) /\ NoPlace(y, c)
        BY <2>2, <4>5, <4>6, <4>8, <4>10 DEF Good, Behind, NoPlace
      <4>12. NameOf(room) \in Name
        BY <1>3 DEF Room, NameOf
      <4>13. /\ Good(p) /\ NoPlace(p, c) /\ KeepsBut(p, y, w)
             /\ \A d \in Client : d # w => p.clients[d] = y.clients[d]
        BY <4>1, <4>2, <4>11, <4>12, EnterRoomGood
      <4>14. \A r \in Room, ro \in Role : v.seats[r][ro] # w
        BY <2>2, <4>2, <4>3, <4>4, SeatOfFacts DEF Core, PlacedIn
      <4>15. KeepsBut(p, s, c)
        BY <2>3, <4>6, <4>10, <4>13, <4>14 DEF KeepsBut
      <4>16. s.clients \in [Client -> Room \cup {NoRoom}] /\ s.clients[w] # NoRoom
        BY <1>1, <1>3, <2>2, <4>3, Sentinels DEF State
      <4>17. OutBut(p, s, c)
        BY <2>2, <4>5, <4>10, <4>13, <4>16 DEF OutBut
      <4> QED
        BY <4>13, <4>15, <4>17 DEF Good, InUse, InUseBut
    <3> QED
      BY <3>1, <3>2
  <2> HIDE DEF p
  <2>7. LET t == Forget(p, c, room)
        IN /\ Core(t) /\ InUse(t)
           /\ t.seats = p.seats /\ t.waiting = p.waiting
           /\ t.clients = [p.clients EXCEPT ![c] = NoRoom]
    BY <1>3, <2>6, ForgetCore
  <2>8. DOMAIN p.clients = Client
    BY <2>6 DEF Core, State
  <2>9. LeaveRoom(s, c).clients[c] = NoRoom /\ OutBut(LeaveRoom(s, c), s, c)
    BY <2>1, <2>6, <2>7, <2>8 DEF OutBut
  <2> QED
    BY <2>1, <2>6, <2>7, <2>9 DEF Good, Behind, NoPlace, KeepsBut
<1> QED
  BY <1>1, <1>2, <1>3

LEMMA SendGood ==
    ASSUME NEW s, Good(s), NEW c \in Client, NEW type \in PacketType,
           NEW arg \in Role \cup {NoRole} \cup ErrorCode \cup Payload
    PROVE  /\ Good(Send(s, c, type, arg)) /\ Send(s, c, type, arg).seats = s.seats
           /\ Send(s, c, type, arg).clients = s.clients
           /\ Send(s, c, type, arg).waiting = s.waiting
<1>1. s \in State
  BY DEF Good, Core
<1>2. SameBut(Send(s, c, type, arg), s)
  BY <1>1, SendSame
<1> QED
  BY <1>2, SameCore DEF Good, SameBut

LEMMA PutRoomKeeps ==
    ASSUME NEW s, Good(s), NEW room \in Room
    PROVE  /\ Good(PutRoom(s, room)) /\ PutRoom(s, room).seats = s.seats
           /\ PutRoom(s, room).clients = s.clients
           /\ PutRoom(s, room).waiting = s.waiting /\ PutRoom(s, room).out = s.out
<1>1. Core(s) /\ InUseBut(s, room)
  BY DEF Good, InUse, InUseBut
<1> QED
  BY <1>1, PutRoomGood DEF Good, Behind

LEMMA JoinRoomGood ==
    ASSUME NEW s, Good(s), NEW c \in Client, NEW spelling \in Spelling, NEW role
    PROVE  /\ Good(JoinRoom(s, c, spelling, role))
           /\ KeepsBut(JoinRoom(s, c, spelling, role), s, c)
           /\ OutBut(JoinRoom(s, c, spelling, role), s, c)
<1>0. s \in State
  BY DEF Good, Core
<1>1. CASE role \notin Role \/ Canonical[spelling] = BadName
  <2>1. PICK code \in ErrorCode : JoinRoom(s, c, spelling, role) = Send(s, c, "error", code)
    BY <1>1 DEF JoinRoom, ErrorCode
  <2>2. SameBut(Send(s, c, "error", code), s)
    BY <1>0, SendSame DEF PacketType
  <2> QED
    BY <2>1, <2>2, SendGood DEF PacketType, SameBut, KeepsBut, OutBut
<1>2. CASE role \in Role /\ Canonical[spelling] # BadName
  <2>1. Canonical[spelling] \in Name
    BY <1>2, CanonicalType
  <2> DEFINE l == LeaveRoom(s, c)
             t == EnterRoom(l, c, Canonical[spelling], role)
  <2>2. Good(l) /\ NoPlace(l, c) /\ KeepsBut(l, s, c) /\ OutBut(l, s, c)
    BY LeaveRoomGood
  <2>3. Good(t) /\ KeepsBut(t, l, c) /\ OutBut(t, l, c)
    BY <1>2, <2>1, <2>2, EnterRoomGood DEF OutBut
  <2>4. KeepsBut(t, s, c) /\ OutBut(t, s, c)
    BY <2>2, <2>3 DEF KeepsBut, OutBut
  <2> QED
    BY <1>2, <2>3, <2>4 DEF JoinRoom
<1> QED
  BY <1>1, <1>2

LEMMA ForwardGood ==
    ASSUME NEW s, Good(s), NEW c \in Client, NEW type \in ForwardedType,
           NEW payload \in Payload, NEW first \in Role
    PROVE  /\ Good(ForwardFrom(s, c, type, payload, first))
           /\ ForwardFrom(s, c, type, payload, first).seats = s.seats
           /\ ForwardFrom(s, c, type, payload, first).clients = s.clients
           /\ ForwardFrom(s, c, type, payload, first).waiting = s.waiting
<1> DEFINE room == s.clients[c]
           Pass(t, role) == IF s.seats[room][role] \in {NoClient, c} THEN t
                            ELSE Send(t, s.seats[room][role], type, payload)
<1>1. /\ room \in Room \cup {NoRoom}
      /\ s.seats \in [Room -> [Role -> Client \cup {NoClient}]]
  BY DEF Good, Core, State
<1>2. CASE room = NoRoom
  <2>1. ForwardFrom(s, c, type, payload, first) = Send(s, c, "error", "NoRoom")
    BY <1>2 DEF ForwardFrom
  <2> QED
    BY <2>1, SendGood DEF PacketType, ErrorCode
<1>3. CASE room \in Room
  <2>1. ASSUME NEW t, Good(t), NEW role \in Role
        PROVE  /\ Good(Pass(t, role)) /\ Pass(t, role).seats = t.seats
               /\ Pass(t, role).clients = t.clients
               /\ Pass(t, role).waiting = t.waiting
    <3>1. CASE s.seats[room][role] \in {NoClient, c}
      BY <2>1, <3>1
    <3>2. CASE s.seats[room][role] \notin {NoClient, c}
      <4>1. s.seats[room][role] \in Client
        BY <1>1, <1>3, <3>2
      <4>2. type \in PacketType
        BY DEF PacketType
      <4>3. Pass(t, role) = Send(t, s.seats[room][role], type, payload)
        BY <3>2
      <4> HIDE DEF Pass
      <4> QED
        BY <2>1, <4>1, <4>2, <4>3, SendGood
    <3> QED
      BY <3>1, <3>2
  <2> HIDE DEF Pass
  <2>2. /\ Good(Pass(Pass(s, first), Opposite(first)))
        /\ Pass(Pass(s, first), Opposite(first)).seats = s.seats
        /\ Pass(Pass(s, first), Opposite(first)).clients = s.clients
        /\ Pass(Pass(s, first), Opposite(first)).waiting = s.waiting
    BY <2>1, RoleFacts
  <2>3. ForwardFrom(s, c, type, payload, first)
           = PutRoom(Pass(Pass(s, first), Opposite(first)), room)
    BY <1>3, Sentinels DEF ForwardFrom, Pass
  <2> QED
    BY <1>3, <2>2, <2>3, PutRoomKeeps
<1> QED
  BY <1>1, <1>2, <1>3

LEMMA RefuseWaiterGood ==
    ASSUME NEW s, Good(s), NEW c \in Client
    PROVE  /\ Good(RefuseWaiter(s, c)) /\ RefuseWaiter(s, c).seats = s.seats
           /\ RefuseWaiter(s, c).clients = s.clients
<1> DEFINE room == s.clients[c]
           role == SeatOf(s, c, room)
           waiter == s.waiting[room][role]
           u == Send(s, waiter, "error", "RoleTaken")
           waiting1 == [u.waiting EXCEPT ![room][role] = NoClient]
           x == [u EXCEPT !.waiting[room][role] = NoClient]
<1>1. /\ s \in State /\ room \in Room \cup {NoRoom}
      /\ s.waiting \in [Room -> [Role -> Client \cup {NoClient}]]
  BY DEF Good, Core, State
<1>2. role \in Role \cup {NoRole}
  BY SeatOfFacts
<1>3. CASE room = NoRoom
  BY <1>3 DEF RefuseWaiter
<1>4. CASE room \in Room /\ (role = NoRole \/ waiter = NoClient)
  <2>1. RefuseWaiter(s, c) = PutRoom(s, room)
    BY <1>4, Sentinels DEF RefuseWaiter
  <2> QED
    BY <1>4, <2>1, PutRoomKeeps
<1>5. CASE room \in Room /\ role # NoRole /\ waiter # NoClient
  <2>1. RefuseWaiter(s, c) = PutRoom(x, room)
    BY <1>5, Sentinels DEF RefuseWaiter
  <2>2. role \in Role /\ waiter \in Client
    BY <1>1, <1>2, <1>5
  <2>3. SameBut(u, s)
    BY <1>1, <2>2, SendSame DEF PacketType, ErrorCode
  <2> HIDE DEF u, role, room
  <2>4. waiting1 \in [Room -> [Role -> Client \cup {NoClient}]]
    BY <1>1, <2>3 DEF SameBut
  <2>5. x = [u EXCEPT !.waiting = waiting1]
    BY <2>3 DEF SameBut, State
  <2>6. /\ x \in State
        /\ x.rooms = s.rooms /\ x.clients = s.clients /\ x.seats = s.seats
        /\ x.told = s.told /\ x.waiting = waiting1
    BY <2>3, <2>4, <2>5 DEF SameBut, State
  <2>7. \A r \in Room, ro \in Role :
            x.waiting[r][ro] = IF r = room /\ ro = role THEN NoClient
                               ELSE s.waiting[r][ro]
    BY <1>1, <2>3, <2>6 DEF SameBut
  <2> HIDE DEF x
  <2>8. PlacedIn(x) /\ OnePlaceIn(x)
    BY <2>6, <2>7, RoleFacts, Sentinels DEF Good, Core, PlacedIn, OnePlaceIn
  <2>9. ToldIn(x) /\ NamedIn(x)
    BY <2>6 DEF Good, Core, ToldIn, NamedIn
  <2>10. InUse(x) /\ Behind(x)
    BY <2>6, <2>7 DEF Good, InUse, Behind
  <2>11. Good(x)
    BY <2>6, <2>8, <2>9, <2>10 DEF Good, Core
  <2> QED
    BY <1>5, <2>1, <2>6, <2>11, PutRoomKeeps
<1> QED
  BY <1>1, <1>3, <1>4, <1>5

-----------------------------------------------------------------------------
(* The specification.                                                      *)

Whole == [Current EXCEPT !.out = out]

\* The inductive invariant: the checked invariants, on the state as a record.
IInv == Good(Whole)

LEMMA WholeFields ==
    /\ Whole = [rooms |-> rooms, clients |-> clients, seats |-> seats,
                waiting |-> waiting, told |-> told, out |-> out]
    /\ Whole.rooms = rooms /\ Whole.clients = clients /\ Whole.seats = seats
    /\ Whole.waiting = waiting /\ Whole.told = told /\ Whole.out = out
BY DEF Whole, Current

LEMMA CurrentGood ==
    ASSUME IInv
    PROVE  Good(Current)
<1>1. SameBut(Current, Whole)
  BY WholeFields DEF IInv, Good, Core, State, SameBut, Current
<1> QED
  BY <1>1, SameCore DEF IInv, Good

LEMMA BecomeGood ==
    ASSUME NEW s, Good(s), Become(s)
    PROVE  IInv'
<1>1. s \in State
  BY DEF Good, Core
<1>2. Whole' = s
  BY <1>1, WholeFields DEF Become, State, Whole, Current
<1> QED
  BY <1>2 DEF IInv

LEMMA InitGood == Init => IInv
<1> SUFFICES ASSUME Init PROVE IInv
  OBVIOUS
<1>1. Whole \in State
  BY WholeFields DEF Init, State, NobodyIn
<1>2. \A r \in Room, role \in Role :
          seats[r][role] = NoClient /\ waiting[r][role] = NoClient
  BY DEF Init, NobodyIn
<1>3. PlacedIn(Whole) /\ OnePlaceIn(Whole) /\ Behind(Whole)
  BY <1>2, WholeFields, Sentinels DEF PlacedIn, OnePlaceIn, Behind
<1>4. ToldIn(Whole) /\ NamedIn(Whole) /\ InUse(Whole)
  BY <1>2, WholeFields, Sentinels DEF Init, ToldIn, NamedIn, InUse
<1> QED
  BY <1>1, <1>3, <1>4 DEF IInv, Good, Core

LEMMA NextGood == IInv /\ [Next]_vars => IInv'
<1> SUFFICES ASSUME IInv, [Next]_vars PROVE IInv'
  OBVIOUS
<1>0. Good(Current)
  BY CurrentGood
<1>1. ASSUME NEW c \in Client, Ping(c)
      PROVE  IInv'
  BY <1>0, <1>1, SendGood, BecomeGood DEF Ping, PacketType
<1>2. ASSUME NEW c \in Client, NEW sp \in Spelling, NEW role, Join(c, sp, role)
      PROVE  IInv'
  BY <1>0, <1>2, JoinRoomGood, BecomeGood DEF Join
<1>3. ASSUME NEW c \in Client, Leave(c)
      PROVE  IInv'
  BY <1>0, <1>3, LeaveRoomGood, BecomeGood DEF Leave
<1>4. ASSUME NEW c \in Client, NEW type \in ForwardedType, NEW p \in Payload,
             Forward(c, type, p)
      PROVE  IInv'
  BY <1>0, <1>4, ForwardGood, BecomeGood DEF Forward
<1>5. ASSUME NEW c \in Client, BadType(c)
      PROVE  IInv'
  BY <1>0, <1>5, SendGood, BecomeGood DEF BadType, PacketType, ErrorCode
<1>6. ASSUME NEW c \in Client, Alive(c)
      PROVE  IInv'
  BY <1>0, <1>6, RefuseWaiterGood, BecomeGood DEF Alive
<1>7. CASE UNCHANGED vars
  <2>1. Whole' = Whole
    BY <1>7 DEF vars, Whole, Current
  <2> QED
    BY <2>1 DEF IInv
<1> QED
  BY <1>1, <1>2, <1>3, <1>4, <1>5, <1>6, <1>7 DEF Next

\* IInv is the conjunction of the invariants that the runs check.
LEMMA IInvMeans ==
    IInv => TypeOK /\ Placed /\ OnePlace /\ WaitingBehindSeat
            /\ RegisteredInUse /\ PeerKnown
<1> SUFFICES ASSUME IInv
             PROVE  TypeOK /\ Placed /\ OnePlace /\ WaitingBehindSeat
                    /\ RegisteredInUse /\ PeerKnown
  OBVIOUS
<1>1. TypeOK
  BY WholeFields DEF IInv, Good, Core, State, TypeOK
<1>2. Placed
  BY WholeFields DEF IInv, Good, Core, PlacedIn, Placed
<1>3. OnePlace
  BY WholeFields DEF IInv, Good, Core, OnePlaceIn, OnePlace
<1>4. WaitingBehindSeat
  BY WholeFields DEF IInv, Good, Behind, WaitingBehindSeat
<1>5. RegisteredInUse
  BY WholeFields DEF IInv, Good, Core, NamedIn, InUse, RegisteredInUse
<1>6. PeerKnown
  <2>1. ASSUME NEW c \in Client, told[c]
        PROVE  \E r \in Room, role \in Role :
                   seats[r][role] = c /\ seats[r][Opposite(role)] # NoClient
    <3>1. clients[c] # NoRoom /\ \E role \in Role : seats[clients[c]][role] = c
      BY <2>1, WholeFields DEF IInv, Good, Core, ToldIn
    <3>2. clients[c] \in Room
      BY <1>1, <3>1 DEF TypeOK
    <3> QED
      BY <2>1, <3>1, <3>2, WholeFields DEF IInv, Good, Core, ToldIn
  <2>2. ASSUME NEW c \in Client, NEW r \in Room, NEW role \in Role,
               seats[r][role] = c, seats[r][Opposite(role)] # NoClient
        PROVE  told[c]
    BY <2>2, WholeFields DEF IInv, Good, Core, ToldIn
  <2> QED
    BY <2>1, <2>2 DEF PeerKnown
<1> QED
  BY <1>1, <1>2, <1>3, <1>4, <1>5, <1>6

\* One step takes a seat only from the client whose own join or leave it is.
LEMMA NextKeeps ==
    ASSUME IInv, [Next]_vars, NEW r \in Room, NEW role \in Role, NEW c \in Client,
           seats[r][role] = c, seats'[r][role] # c
    PROVE  Leave(c) \/ \E sp \in Spelling, ro \in Role : Join(c, sp, ro)
<1>0. Good(Current) /\ Current.seats = seats
  BY CurrentGood DEF Current
<1>1. ASSUME NEW d \in Client, Ping(d)
      PROVE  FALSE
  BY <1>0, <1>1, SendGood DEF Ping, PacketType, Become
<1>2. ASSUME NEW d \in Client, NEW sp \in Spelling, NEW ro \in Role \cup {"other"},
             Join(d, sp, ro)
      PROVE  d = c /\ ro \in Role
  <2>1. KeepsBut(JoinRoom(Current, d, sp, ro), Current, d)
    BY <1>0, JoinRoomGood
  <2>2. d = c
    BY <1>0, <1>2, <2>1 DEF Join, Become, KeepsBut
  <2>3. ASSUME ro \notin Role
        PROVE  FALSE
    BY <1>0, <1>2, <2>3, SendGood DEF Join, JoinRoom, Become, PacketType, ErrorCode
  <2> QED
    BY <2>2, <2>3
<1>3. ASSUME NEW d \in Client, Leave(d)
      PROVE  d = c
  <2>1. KeepsBut(LeaveRoom(Current, d), Current, d)
    BY <1>0, LeaveRoomGood
  <2> QED
    BY <1>0, <1>3, <2>1 DEF Leave, Become, KeepsBut
<1>4. ASSUME NEW d \in Client, NEW type \in ForwardedType, NEW p \in Payload,
             Forward(d, type, p)
      PROVE  FALSE
  BY <1>0, <1>4, ForwardGood DEF Forward, Become
<1>5. ASSUME NEW d \in Client, BadType(d)
      PROVE  FALSE
  <2>1. Send(Current, d, "error", "BadMessage").seats = Current.seats
    <3>1. "error" \in PacketType /\ "BadMessage" \in ErrorCode
      BY DEF PacketType, ErrorCode
    <3> QED
      BY <1>0, <3>1, SendGood
  <2> QED
    BY <1>0, <1>5, <2>1 DEF BadType, Become
<1>6. ASSUME NEW d \in Client, Alive(d)
      PROVE  FALSE
  <2>1. RefuseWaiter(Current, d).seats = Current.seats
    BY <1>0, RefuseWaiterGood
  <2> QED
    BY <1>0, <1>6, <2>1 DEF Alive, Become
<1>7. ~ UNCHANGED vars
  BY DEF vars
<1> QED
  BY <1>1, <1>2, <1>3, <1>4, <1>5, <1>6, <1>7 DEF Next

LEMMA AlwaysGood == Spec => []IInv
  BY InitGood, NextGood, PTL DEF Spec

\* Every handler keeps the state well formed and addresses its packets to
\* clients (router.go never sends through a nil seat or waiter).
THEOREM TypeCorrectness == Spec => []TypeOK
  BY AlwaysGood, IInvMeans, PTL

\* A client is listed in the room that `clients' gives for it and in no other,
\* whatever joins, leaves, takeovers and promotions came before.
THEOREM PlacementIsUnique == Spec => []Placed
  BY AlwaysGood, IInvMeans, PTL

\* Within its room a client has one seat or one turn to wait, so that the leave
\* of a promoted waiter promotes nobody and leave's recursion ends.
THEOREM OneSeatOrTurn == Spec => []OnePlace
  BY AlwaysGood, IInvMeans, PTL

\* Only its own join or leave takes a client's seat: what others send never does.
THEOREM NobodyIsEvicted == Spec => NoEviction
<1>1. IInv /\ [Next]_vars =>
         [\A r \in Room, role \in Role, c \in Client :
            seats[r][role] = c /\ seats'[r][role] # c
              => \/ Leave(c)
                 \/ \E sp \in Spelling, ro \in Role : Join(c, sp, ro)]_vars
  BY NextKeeps
<1> QED
  BY <1>1, AlwaysGood, PTL DEF Spec, NoEviction

\* Between two messages nobody waits for a free seat (leave promotes, and
\* handleAlive and join never free a seat they leave a waiter behind).
THEOREM SeatsAreHandedOver == Spec => []WaitingBehindSeat
  BY AlwaysGood, IInvMeans, PTL

\* The map of rooms does not leak: putRoom is called wherever a room may empty.
THEOREM RoomsDoNotLeak == Spec => []RegisteredInUse
  BY AlwaysGood, IInvMeans, PTL

\* The join and leave messages tell each seated client the truth about its peer.
THEOREM PresenceIsTrue == Spec => []PeerKnown
  BY AlwaysGood, IInvMeans, PTL

-----------------------------------------------------------------------------
(* Nobody waits in silence: what becomes of a waiter is followed through  *)
(* the operators that the handlers are made of.  Of a client it is followed*)
(* whether it is seated or waits, so that the operators can be put one    *)
(* behind the other.                                                      *)

Refused(s, d) ==
    \E i \in DOMAIN s.out : s.out[i] = [to |-> d, type |-> "error", arg |-> "RoleTaken"]

\* d has the role, or waits for it, in a room with the name of r.
Near(s, r, role, d) ==
    \E q \in Room : NameOf(q) = NameOf(r) /\ d \in {s.seats[q][role], s.waiting[q][role]}

\* What is sent in s is sent in t.
MoreSaid(t, s) == \A d \in Client : Refused(s, d) => Refused(t, d)

\* Between s and t everybody but c stays near its place or is refused.
Answered(t, s, c) ==
    /\ MoreSaid(t, s)
    /\ \A r \in Room, role \in Role, d \in Client :
          d # c /\ d \in {s.seats[r][role], s.waiting[r][role]}
             => Near(t, r, role, d) \/ Refused(t, d)

LEMMA AnsweredTrans ==
    ASSUME NEW s, NEW t, NEW u, NEW c, Answered(t, s, c), Answered(u, t, c)
    PROVE  Answered(u, s, c)
<1>1. MoreSaid(u, s)
  BY DEF Answered, MoreSaid
<1>2. ASSUME NEW r \in Room, NEW role \in Role, NEW d \in Client,
             d # c, d \in {s.seats[r][role], s.waiting[r][role]}, ~Refused(u, d)
      PROVE  Near(u, r, role, d)
  <2>1. ~Refused(t, d)
    BY <1>2 DEF Answered, MoreSaid
  <2>2. Near(t, r, role, d)
    BY <1>2, <2>1 DEF Answered
  <2>3. PICK q \in Room : NameOf(q) = NameOf(r)
                          /\ d \in {t.seats[q][role], t.waiting[q][role]}
    BY <2>2 DEF Near
  <2>4. Near(u, q, role, d)
    BY <1>2, <2>3 DEF Answered
  <2> QED
    BY <2>3, <2>4 DEF Near
<1> QED
  BY <1>1, <1>2 DEF Answered

\* Everybody but c keeps its place.
LEMMA KeptAnswered ==
    ASSUME NEW s, NEW t, NEW c, MoreSaid(t, s),
           \A r \in Room, role \in Role, d \in Client :
              d # c => /\ s.seats[r][role] = d => t.seats[r][role] = d
                       /\ s.waiting[r][role] = d => t.waiting[r][role] = d
    PROVE  Answered(t, s, c)
BY DEF Answered, Near

LEMMA SendSaid ==
    ASSUME NEW s \in State, NEW c \in Client, NEW type \in PacketType,
           NEW arg \in Role \cup {NoRole} \cup ErrorCode \cup Payload
    PROVE  /\ MoreSaid(Send(s, c, type, arg), s)
           /\ type = "error" /\ arg = "RoleTaken" => Refused(Send(s, c, type, arg), c)
<1> DEFINE p == [to |-> c, type |-> type, arg |-> arg]
<1>1. p \in Packet /\ s.out \in Seq(Packet)
  BY DEF Packet, State
<1>2. Send(s, c, type, arg).out = Append(s.out, p)
  BY DEF Send, State
<1>3. /\ \A i \in DOMAIN s.out : i \in DOMAIN Append(s.out, p) /\ Append(s.out, p)[i] = s.out[i]
      /\ Len(s.out) + 1 \in DOMAIN Append(s.out, p)
      /\ Append(s.out, p)[Len(s.out) + 1] = p
  BY <1>1
<1> QED
  BY <1>2, <1>3 DEF MoreSaid, Refused

LEMMA AnnounceSaid ==
    ASSUME NEW s \in State, NEW c \in Client, NEW type \in {"join", "leave"},
           NEW role \in Role
    PROVE  MoreSaid(Announce(s, c, type, role), s)
<1>1. MoreSaid(Send(s, c, type, role), s)
  BY SendSaid DEF PacketType
<1>2. Announce(s, c, type, role).out = Send(s, c, type, role).out
  BY DEF Announce, Send, State
<1> QED
  BY <1>1, <1>2 DEF MoreSaid, Refused

-----------------------------------------------------------------------------
(* leave                                                                   *)

LEMMA VacateAnswered ==
    ASSUME NEW s, Core(s), NEW c \in Client, NEW room \in Room, s.clients[c] = room
    PROVE  Answered(Vacate(s, c, room), s, c)
<1> DEFINE g == Gone(s, c, room)
           role == SeatOf(s, c, room)
           peer == g.seats[room][Opposite(role)]
           v == Vacate(s, c, room)
<1>1. s \in State /\ IsGone(g, s, c, room)
  BY GoneFields DEF Core
<1>2. g.out = s.out /\ g \in State
  BY <1>1 DEF Gone, State, IsGone
<1>3. v.seats = g.seats /\ v.waiting = g.waiting
  BY VacateCore
<1>4. MoreSaid(v, s)
  <2>1. CASE role = NoRole \/ peer = NoClient
    <3>1. v = g
      BY <2>1 DEF Vacate, Gone
    <3> QED
      BY <1>2, <3>1 DEF MoreSaid, Refused
  <2>2. CASE role # NoRole /\ peer # NoClient
    <3>1. role \in Role /\ Opposite(role) \in Role
      BY <2>2, SeatOfFacts, RoleFacts
    <3>2. peer \in Client
      BY <1>2, <2>2, <3>1 DEF State
    <3>3. v = Announce(g, peer, "leave", role)
      BY <2>2 DEF Vacate, Gone
    <3> HIDE DEF g, peer, role, v
    <3>4. MoreSaid(v, g)
      BY <1>2, <3>1, <3>2, <3>3, AnnounceSaid
    <3> QED
      BY <1>2, <3>4 DEF MoreSaid, Refused
  <2> QED
    BY <2>1, <2>2
<1>5. ASSUME NEW r \in Room, NEW ro \in Role, NEW d \in Client, d # c
      PROVE  /\ s.seats[r][ro] = d => v.seats[r][ro] = d
             /\ s.waiting[r][ro] = d => v.waiting[r][ro] = d
  BY <1>1, <1>3, <1>5 DEF IsGone
<1> HIDE DEF v
<1> QED
  BY <1>4, <1>5, KeptAnswered DEF v

LEMMA ForgetAnswered ==
    ASSUME NEW s, Core(s), NEW c \in Client, NEW room \in Room,
           InUseBut(s, room), NoPlace(s, c), NEW d
    PROVE  Answered(Forget(s, c, room), s, d)
<1>1. Forget(s, c, room).seats = s.seats /\ Forget(s, c, room).waiting = s.waiting
  BY ForgetCore
<1>2. Forget(s, c, room).out = s.out
  BY DEF Forget, PutRoom, Core, State
<1> QED
  BY <1>1, <1>2, KeptAnswered DEF MoreSaid, Refused

-----------------------------------------------------------------------------
(* join                                                                    *)

LEMMA TakeSeatAnswered ==
    ASSUME NEW s, Core(s), NEW c \in Client, NEW room \in Room, NEW role \in Role,
           s.clients[c] = room, NoPlace(s, c), s.seats[room][role] = NoClient
    PROVE  LET t == TakeSeat(s, c, room, role)
           IN Answered(t, s, c) /\ t.seats[room][role] = c
<1> DEFINE u == [s EXCEPT !.seats[room][role] = c]
           other == Opposite(role)
           peer == u.seats[room][other]
           t == TakeSeat(s, c, room, role)
<1>1. s \in State /\ other \in Role
  BY RoleFacts DEF Core
<1>2. u \in State /\ u.out = s.out
  <2>1. [s.seats EXCEPT ![room][role] = c] \in [Room -> [Role -> Client \cup {NoClient}]]
    BY <1>1 DEF State
  <2>2. u = [s EXCEPT !.seats = [s.seats EXCEPT ![room][role] = c]]
    BY <1>1 DEF State
  <2> QED
    BY <1>1, <2>1, <2>2 DEF State
<1>3. IsSeated(t, s, c, room, role)
  BY TakeSeatCore
<1>4. MoreSaid(t, u)
  <2>1. CASE peer \in {NoClient, c}
    BY <2>1 DEF TakeSeat, Greet, MoreSaid
  <2>2. CASE peer \notin {NoClient, c}
    <3> DEFINE a == Announce(u, peer, "join", role)
    <3>1. peer \in Client
      BY <1>1, <1>2, <2>2 DEF State
    <3>2. t = Announce(a, c, "join", other)
      BY <2>2 DEF TakeSeat, Greet
    <3> HIDE DEF u, peer, t
    <3>3. a \in State /\ MoreSaid(a, u)
      BY <1>2, <3>1, AnnounceFields, AnnounceSaid DEF IsAnnounced
    <3> HIDE DEF a, other
    <3>4. MoreSaid(t, a)
      BY <1>1, <3>2, <3>3, AnnounceSaid
    <3> QED
      BY <3>3, <3>4 DEF MoreSaid
  <2> QED
    BY <2>1, <2>2
<1>5. MoreSaid(t, s)
  BY <1>2, <1>4 DEF MoreSaid, Refused
<1> HIDE DEF t
<1>6. ASSUME NEW r \in Room, NEW ro \in Role, NEW d \in Client, d # c
      PROVE  /\ s.seats[r][ro] = d => t.seats[r][ro] = d
             /\ s.waiting[r][ro] = d => t.waiting[r][ro] = d
  BY <1>3, <1>6, Sentinels DEF IsSeated
<1> QED
  BY <1>3, <1>5, <1>6, KeptAnswered DEF IsSeated, t

LEMMA QueueBehindAnswered ==
    ASSUME NEW s, Core(s), NEW c \in Client, NEW room \in Room, NEW role \in Role,
           s.clients[c] = room, NoPlace(s, c), s.seats[room][role] # NoClient
    PROVE  LET t == QueueBehind(s, c, room, role)
           IN Answered(t, s, c) /\ t.waiting[room][role] = c
<1> DEFINE waiter == s.waiting[room][role]
           holder == s.seats[room][role]
           refused == IF waiter = NoClient THEN s ELSE Send(s, waiter, "error", "RoleTaken")
           u == [refused EXCEPT !.waiting[room][role] = c]
           t == QueueBehind(s, c, room, role)
<1>1. s \in State
  BY DEF Core
<1>2. holder \in Client /\ waiter \in Client \cup {NoClient}
  BY <1>1 DEF State
<1>3. /\ refused \in State /\ MoreSaid(refused, s)
      /\ waiter # NoClient => Refused(refused, waiter)
  <2>1. CASE waiter = NoClient
    BY <1>1, <2>1 DEF MoreSaid
  <2>2. CASE waiter # NoClient
    <3>1. waiter \in Client /\ refused = Send(s, waiter, "error", "RoleTaken")
      BY <1>2, <2>2
    <3> HIDE DEF waiter, refused
    <3> QED
      BY <1>1, <3>1, SendSame, SendSaid DEF PacketType, ErrorCode, SameBut
  <2> QED
    BY <2>1, <2>2
<1>4. t = Send(u, holder, "ws-ping", NoRole)
  BY DEF QueueBehind
<1>5. IsQueued(t, s, c, room, role)
  BY QueueBehindCore
<1> HIDE DEF refused, t, holder
<1>6. u \in State /\ u.out = refused.out
  <2>1. [refused.waiting EXCEPT ![room][role] = c]
           \in [Room -> [Role -> Client \cup {NoClient}]]
    BY <1>3 DEF State
  <2>2. u = [refused EXCEPT !.waiting = [refused.waiting EXCEPT ![room][role] = c]]
    BY <1>3 DEF State
  <2> QED
    BY <1>3, <2>1, <2>2 DEF State
<1> HIDE DEF u
<1>7. MoreSaid(t, u)
  BY <1>2, <1>4, <1>6, SendSaid DEF PacketType
<1>8. MoreSaid(t, s) /\ (waiter # NoClient => Refused(t, waiter))
  BY <1>2, <1>3, <1>6, <1>7 DEF MoreSaid, Refused
<1>9. ASSUME NEW r \in Room, NEW ro \in Role, NEW d \in Client,
             d # c, d \in {s.seats[r][ro], s.waiting[r][ro]}
      PROVE  Near(t, r, ro, d) \/ Refused(t, d)
  <2>1. CASE r = room /\ ro = role /\ d = waiter
    BY <1>8, <2>1, Sentinels
  <2>2. CASE ~(r = room /\ ro = role /\ d = waiter)
    <3>1. d \in {t.seats[r][ro], t.waiting[r][ro]}
      BY <1>5, <1>9, <2>2 DEF IsQueued
    <3> QED
      BY <3>1 DEF Near
  <2> QED
    BY <2>1, <2>2
<1> QED
  BY <1>5, <1>8, <1>9 DEF Answered, IsQueued, t

LEMMA EnterAnswered ==
    ASSUME NEW s, Good(s), NEW c \in Client, NoPlace(s, c),
           NEW name \in Name, NEW role \in Role
    PROVE  LET t == EnterRoom(s, c, name, role)
           IN /\ Answered(t, s, c)
              /\ \E q \in Room : NameOf(q) = name
                                 /\ c \in {t.seats[q][role], t.waiting[q][role]}
<1> DEFINE room == RoomOf(s, name)
           g == GetRoom(s, name)
           in == [g EXCEPT !.clients[c] = room]
           clients1 == [g.clients EXCEPT ![c] = room]
           placed == IF in.seats[room][role] = NoClient
                     THEN TakeSeat(in, c, room, role)
                     ELSE QueueBehind(in, c, room, role)
           t == EnterRoom(s, c, name, role)
<1>1. t = PutRoom(placed, room)
  BY DEF EnterRoom
<1>2. /\ room \in Room /\ NameOf(room) = name
      /\ Core(g) /\ g.clients = s.clients /\ g.out = s.out
      /\ NoPlace(g, c) /\ KeepsBut(g, s, c)
      /\ \A r \in Room, ro \in Role, d \in Client :
            s.waiting[r][ro] = d => g.waiting[r][ro] = d
  BY GetRoomCore DEF Good
<1> HIDE DEF room, g, t
<1>3. g \in State /\ g.clients \in [Client -> Room \cup {NoRoom}]
  BY <1>2 DEF Core, State
<1>4. clients1 \in [Client -> Room \cup {NoRoom}]
  BY <1>2, <1>3
<1>5. /\ in \in State
      /\ in.rooms = g.rooms /\ in.seats = g.seats /\ in.waiting = g.waiting
      /\ in.told = g.told /\ in.clients = clients1 /\ in.out = g.out
  BY <1>3, <1>4 DEF State
<1>6. in.clients[c] = room /\ \A d \in Client : d # c => in.clients[d] = s.clients[d]
  BY <1>2, <1>3, <1>5
<1> HIDE DEF in
<1>7. Core(in) /\ NoPlace(in, c)
  <2>1. PlacedIn(in)
    BY <1>2, <1>5, <1>6 DEF Core, PlacedIn, NoPlace
  <2>2. OnePlaceIn(in) /\ NamedIn(in) /\ NoPlace(in, c)
    BY <1>2, <1>5 DEF Core, OnePlaceIn, NamedIn, NoPlace
  <2>3. ~g.told[c]
    BY <1>2, <1>3 DEF Core, ToldIn, NoPlace
  <2>4. ToldIn(in)
    BY <1>2, <1>5, <1>6, <2>3 DEF Core, ToldIn
  <2> QED
    BY <1>5, <2>1, <2>2, <2>4 DEF Core
<1>8. Answered(in, s, c)
  <2>1. MoreSaid(in, s)
    BY <1>2, <1>5 DEF MoreSaid, Refused
  <2> QED
    BY <1>2, <1>5, <2>1, KeptAnswered DEF KeepsBut
<1>9. /\ Answered(placed, in, c)
      /\ c \in {placed.seats[room][role], placed.waiting[room][role]}
  <2>1. CASE in.seats[room][role] = NoClient
    BY <1>2, <1>6, <1>7, <2>1, TakeSeatAnswered
  <2>2. CASE in.seats[room][role] # NoClient
    BY <1>2, <1>6, <1>7, <2>2, QueueBehindAnswered
  <2> QED
    BY <2>1, <2>2
<1>10. placed \in State
  BY <1>2, <1>6, <1>7, TakeSeatCore, QueueBehindCore DEF Core
<1> HIDE DEF placed
<1>11. t.seats = placed.seats /\ t.waiting = placed.waiting /\ t.out = placed.out
  BY <1>1, <1>10 DEF PutRoom, State
<1>12. Answered(t, placed, c)
  BY <1>11, KeptAnswered DEF MoreSaid, Refused
<1>13. Answered(t, s, c)
  BY <1>8, <1>9, <1>12, AnsweredTrans
<1> QED
  BY <1>2, <1>9, <1>11, <1>13 DEF t

-----------------------------------------------------------------------------
(* The handlers.                                                           *)

LEMMA LeaveAnswered ==
    ASSUME NEW s, Good(s), NEW c \in Client
    PROVE  Answered(LeaveRoom(s, c), s, c)
<1> DEFINE room == s.clients[c]
           role == SeatOf(s, c, room)
           v == Vacate(s, c, room)
           p == Promote(v, room, role)
<1>1. s \in State /\ room \in Room \cup {NoRoom}
  BY DEF Good, Core, State
<1>2. CASE room = NoRoom
  <2>1. LeaveRoom(s, c) = s
    BY <1>2 DEF LeaveRoom
  <2> QED
    BY <2>1, KeptAnswered DEF MoreSaid
<1>3. CASE room \in Room
  <2>1. LeaveRoom(s, c) = Forget(p, c, room)
    BY <1>3, Sentinels DEF LeaveRoom
  <2>2. /\ Core(v) /\ NoPlace(v, c) /\ v.clients = s.clients
        /\ Answered(v, s, c)
    BY <1>3, VacateCore, VacateAnswered DEF Good
  <2>3. InUseBut(v, room) /\ BehindBut(v, room, role)
    BY <1>3, VacateRest DEF Good
  <2>4. role \in Role \cup {NoRole}
    BY SeatOfFacts
  <2>5. v \in State /\ v.waiting \in [Room -> [Role -> Client \cup {NoClient}]]
    BY <2>2 DEF Core, State
  <2>r. room = v.clients[c]
    BY <2>2
  <2> HIDE DEF v, role, room
  <2>6. /\ Core(p) /\ InUseBut(p, room) /\ NoPlace(p, c)
        /\ Answered(p, v, c)
    <3>1. CASE role = NoRole \/ v.waiting[room][role] = NoClient
      <4>1. p = v
        BY <3>1 DEF Promote
      <4> QED
        BY <2>2, <2>3, <4>1, KeptAnswered DEF MoreSaid
    <3>2. CASE role # NoRole /\ v.waiting[room][role] # NoClient
      <4> DEFINE w == v.waiting[room][role]
                 x == Vacate(v, w, room)
                 y == LeaveWaiter(v, w, room)
      <4>1. p = EnterRoom(y, w, NameOf(room), role)
        BY <3>2 DEF Promote
      <4>2. role \in Role /\ w \in Client /\ w # c
        BY <1>3, <2>2, <2>4, <2>5, <3>2 DEF NoPlace
      <4>3. v.clients[w] = room
        BY <1>3, <2>2, <4>2 DEF Core, PlacedIn
      <4>4. \A ro \in Role : v.seats[room][ro] # w
        BY <1>3, <2>2, <4>2, RoleFacts DEF Core, OnePlaceIn
      <4>4a. SeatOf(v, w, room) = NoRole
        BY <4>4, SeatOfFacts
      <4>w. w = v.waiting[room][role]
        OBVIOUS
      <4> HIDE DEF w
      <4>5. /\ Core(x) /\ NoPlace(x, w) /\ x.clients = v.clients
            /\ x.waiting = Gone(v, w, room).waiting
            /\ Answered(x, v, w)
        BY <1>3, <2>2, <4>2, <4>3, VacateCore, VacateAnswered
      <4>6. /\ InUseBut(x, room) /\ BehindBut(x, room, role)
            /\ \A d \in Client : NoPlace(v, d) => NoPlace(x, d)
        BY <1>3, <2>2, <2>3, <4>2, <4>3, <4>4a, VacateRest
      <4>g. IsGone(Gone(v, w, room), v, w, room)
        BY <1>3, <2>5, <4>2, GoneFields
      <4>7. x.waiting[room][role] = NoClient
        BY <1>3, <4>2, <4>5, <4>g, <4>w DEF IsGone
      <4>8. Behind(x)
        BY <4>6, <4>7 DEF BehindBut, Behind
      <4>9. y = Forget(x, w, room)
        BY DEF LeaveWaiter
      <4> HIDE DEF x, y
      <4>10. /\ Core(y) /\ InUse(y)
             /\ y.seats = x.seats /\ y.waiting = x.waiting
             /\ Answered(y, x, w)
        BY <1>3, <4>2, <4>5, <4>6, <4>9, ForgetCore, ForgetAnswered
      <4>11. Good(y) /\ NoPlace(y, w) /\ NoPlace(y, c)
        BY <2>2, <4>5, <4>6, <4>8, <4>10 DEF Good, Behind, NoPlace
      <4>12. NameOf(room) \in Name
        BY <1>3 DEF Room, NameOf
      <4>13. /\ Good(p) /\ NoPlace(p, c)
             /\ Answered(p, y, w)
             /\ \E q \in Room : NameOf(q) = NameOf(room)
                                /\ w \in {p.seats[q][role], p.waiting[q][role]}
        BY <4>1, <4>2, <4>11, <4>12, EnterRoomGood, EnterAnswered
      <4>14. Answered(p, v, w)
        BY <4>5, <4>10, <4>13, AnsweredTrans
      <4>15. ASSUME NEW r \in Room, NEW ro \in Role,
                    w \in {v.seats[r][ro], v.waiting[r][ro]}
             PROVE  Near(p, r, ro, w)
        <5>1. r = room
          BY <2>2, <4>2, <4>3, <4>15 DEF Core, PlacedIn
        <5>2. v.waiting[room][ro] = w
          BY <4>4, <4>15, <5>1
        <5>3. ro = role
          BY <1>3, <2>2, <4>2, <4>w, <5>2, RoleFacts DEF Core, OnePlaceIn
        <5> QED
          BY <4>13, <5>1, <5>3 DEF Near
      <4>16. Answered(p, v, c)
        BY <4>14, <4>15 DEF Answered
      <4> QED
        BY <4>13, <4>16 DEF Good, InUse, InUseBut
    <3> QED
      BY <3>1, <3>2
  <2> HIDE DEF p
  <2>7. Answered(Forget(p, c, room), p, c)
    BY <1>3, <2>6, ForgetAnswered
  <2> QED
    BY <2>1, <2>2, <2>6, <2>7, AnsweredTrans
<1> QED
  BY <1>1, <1>2, <1>3

LEMMA JoinAnswered ==
    ASSUME NEW s, Good(s), NEW c \in Client, NEW spelling \in Spelling, NEW role
    PROVE  Answered(JoinRoom(s, c, spelling, role), s, c)
<1>0. s \in State
  BY DEF Good, Core
<1>1. CASE role \notin Role \/ Canonical[spelling] = BadName
  <2>1. PICK code \in ErrorCode : JoinRoom(s, c, spelling, role) = Send(s, c, "error", code)
    BY <1>1 DEF JoinRoom, ErrorCode
  <2>2. /\ MoreSaid(Send(s, c, "error", code), s)
        /\ SameBut(Send(s, c, "error", code), s)
    BY <1>0, SendSaid, SendSame DEF PacketType
  <2> QED
    BY <2>1, <2>2, KeptAnswered DEF SameBut
<1>2. CASE role \in Role /\ Canonical[spelling] # BadName
  <2> DEFINE l == LeaveRoom(s, c)
             t == EnterRoom(l, c, Canonical[spelling], role)
  <2>1. Canonical[spelling] \in Name
    BY <1>2, CanonicalType
  <2>2. Good(l) /\ NoPlace(l, c) /\ Answered(l, s, c)
    BY LeaveRoomGood, LeaveAnswered
  <2>3. Answered(t, l, c)
    BY <1>2, <2>1, <2>2, EnterAnswered
  <2>4. Answered(t, s, c)
    BY <2>2, <2>3, AnsweredTrans
  <2> QED
    BY <1>2, <2>4 DEF JoinRoom
<1> QED
  BY <1>1, <1>2

LEMMA RefuseAnswered ==
    ASSUME NEW s, Good(s), NEW c \in Client
    PROVE  Answered(RefuseWaiter(s, c), s, NoClient)
<1> DEFINE room == s.clients[c]
           role == SeatOf(s, c, room)
           waiter == s.waiting[room][role]
           u == Send(s, waiter, "error", "RoleTaken")
           x == [u EXCEPT !.waiting[room][role] = NoClient]
           t == RefuseWaiter(s, c)
<1>1. /\ s \in State /\ room \in Room \cup {NoRoom}
      /\ s.waiting \in [Room -> [Role -> Client \cup {NoClient}]]
  BY DEF Good, Core, State
<1>2. role \in Role \cup {NoRole}
  BY SeatOfFacts
<1>3. CASE room = NoRoom
  BY <1>3, KeptAnswered DEF RefuseWaiter, MoreSaid
<1>4. CASE room \in Room /\ (role = NoRole \/ waiter = NoClient)
  <2>1. t = PutRoom(s, room)
    BY <1>4, Sentinels DEF RefuseWaiter
  <2>2. t.seats = s.seats /\ t.waiting = s.waiting /\ t.out = s.out
    BY <1>4, <2>1, PutRoomKeeps
  <2> QED
    BY <2>2, KeptAnswered DEF MoreSaid, Refused
<1>5. CASE room \in Room /\ role # NoRole /\ waiter # NoClient
  <2>1. t = PutRoom(x, room)
    BY <1>5, Sentinels DEF RefuseWaiter
  <2>2. role \in Role /\ waiter \in Client
    BY <1>1, <1>2, <1>5
  <2>3. SameBut(u, s) /\ MoreSaid(u, s) /\ Refused(u, waiter)
    BY <1>1, <2>2, SendSame, SendSaid DEF PacketType, ErrorCode
  <2>w. waiter = s.waiting[room][role]
    OBVIOUS
  <2> HIDE DEF u, role, room, waiter, t
  <2>4. x = [u EXCEPT !.waiting = [u.waiting EXCEPT ![room][role] = NoClient]]
    BY <2>3 DEF SameBut, State
  <2>5. /\ x.seats = s.seats /\ x.out = u.out /\ x.rooms = s.rooms
        /\ x.waiting = [s.waiting EXCEPT ![room][role] = NoClient]
        /\ t.seats = x.seats /\ t.waiting = x.waiting /\ t.out = x.out
    BY <2>1, <2>3, <2>4 DEF SameBut, State, PutRoom
  <2>6. \A r \in Room, ro \in Role :
            t.waiting[r][ro] = IF r = room /\ ro = role THEN NoClient
                               ELSE s.waiting[r][ro]
    BY <1>1, <2>5
  <2>7. MoreSaid(t, s) /\ Refused(t, waiter)
    BY <2>3, <2>5 DEF MoreSaid, Refused
  <2>8. ASSUME NEW r \in Room, NEW ro \in Role, NEW d \in Client,
               d \in {s.seats[r][ro], s.waiting[r][ro]}
        PROVE  Near(t, r, ro, d) \/ Refused(t, d)
    <3>1. CASE r = room /\ ro = role /\ d = waiter
      BY <2>7, <3>1
    <3>2. CASE ~(r = room /\ ro = role /\ d = waiter)
      <4>1. d \in {t.seats[r][ro], t.waiting[r][ro]}
        BY <2>5, <2>6, <2>8, <2>w, <3>2
      <4> QED
        BY <4>1 DEF Near
    <3> QED
      BY <3>1, <3>2
  <2> QED
    BY <2>7, <2>8 DEF Answered, t
<1> QED
  BY <1>1, <1>3, <1>4, <1>5

\* One step moves a waiter only as NoSilentRefusal allows.
LEMMA NextAnswers ==
    ASSUME IInv, [Next]_vars, NEW r \in Room, NEW role \in Role, NEW c \in Client,
           waiting[r][role] = c, waiting'[r][role] # c,
           ~Leave(c), ~ \E sp \in Spelling, ro \in Role : Join(c, sp, ro)
    PROVE  \/ \E q \in Room : NameOf(q) = NameOf(r)
                              /\ c \in {seats'[q][role], waiting'[q][role]}
           \/ \E i \in DOMAIN out' :
                 out'[i] = [to |-> c, type |-> "error", arg |-> "RoleTaken"]
<1>0. Good(Current) /\ Current.waiting = waiting
  BY CurrentGood DEF Current
<1>1. ASSUME NEW t, NEW d, Become(t), Answered(t, Current, d), d # c
      PROVE  Near(t, r, role, c) \/ Refused(t, c)
  BY <1>0, <1>1 DEF Answered
<1>2. ASSUME NEW t, Become(t), Near(t, r, role, c) \/ Refused(t, c)
      PROVE  \/ \E q \in Room : NameOf(q) = NameOf(r)
                                /\ c \in {seats'[q][role], waiting'[q][role]}
             \/ \E i \in DOMAIN out' :
                   out'[i] = [to |-> c, type |-> "error", arg |-> "RoleTaken"]
  BY <1>2 DEF Become, Near, Refused
<1>3. ASSUME NEW d \in Client, Ping(d)
      PROVE  FALSE
  BY <1>0, <1>3, SendGood DEF Ping, PacketType, Become
<1>4. ASSUME NEW d \in Client, NEW sp \in Spelling, NEW ro \in Role \cup {"other"},
             Join(d, sp, ro)
      PROVE  /\ Become(JoinRoom(Current, d, sp, ro))
             /\ Answered(JoinRoom(Current, d, sp, ro), Current, d) /\ d # c
  <2>1. ASSUME ro \notin Role
        PROVE  FALSE
    BY <1>0, <1>4, <2>1, SendGood DEF Join, JoinRoom, Become, PacketType, ErrorCode
  <2>2. d # c
    BY <1>4, <2>1
  <2> QED
    BY <1>0, <1>4, <2>2, JoinAnswered DEF Join
<1>5. ASSUME NEW d \in Client, Leave(d)
      PROVE  /\ Become(LeaveRoom(Current, d))
             /\ Answered(LeaveRoom(Current, d), Current, d) /\ d # c
  BY <1>0, <1>5, LeaveAnswered DEF Leave
<1>6. ASSUME NEW d \in Client, NEW type \in ForwardedType, NEW p \in Payload,
             Forward(d, type, p)
      PROVE  FALSE
  BY <1>0, <1>6, ForwardGood DEF Forward, Become
<1>7. ASSUME NEW d \in Client, BadType(d)
      PROVE  FALSE
  <2>1. Send(Current, d, "error", "BadMessage").waiting = waiting
    <3>1. "error" \in PacketType /\ "BadMessage" \in ErrorCode
      BY DEF PacketType, ErrorCode
    <3> QED
      BY <1>0, <3>1, SendGood
  <2> QED
    BY <1>7, <2>1 DEF BadType, Become
<1>8. ASSUME NEW d \in Client, Alive(d)
      PROVE  /\ Become(RefuseWaiter(Current, d))
             /\ Answered(RefuseWaiter(Current, d), Current, NoClient) /\ NoClient # c
  BY <1>0, <1>8, RefuseAnswered, Sentinels DEF Alive
<1>9. ~ UNCHANGED vars
  BY DEF vars
<1> QED
  BY <1>1, <1>2, <1>3, <1>4, <1>5, <1>6, <1>7, <1>8, <1>9 DEF Next

\* However many connections there are, and though a room in use can be dropped from
\* the map of rooms, no handler makes a waiter stop waiting without seating it,
\* refusing it or letting it wait for the same role in a room of the same name.
THEOREM NobodyWaitsInSilence == Spec => NoSilentRefusal
<1>1. IInv /\ [Next]_vars =>
         [\A r \in Room, role \in Role, c \in Client :
             waiting[r][role] = c /\ waiting'[r][role] # c
               => \/ Leave(c)
                  \/ \E sp \in Spelling, ro \in Role : Join(c, sp, ro)
                  \/ \E q \in Room : NameOf(q) = NameOf(r)
                                   /\ c \in {seats'[q][role], waiting'[q][role]}
                  \/ \E i \in DOMAIN out' :
                        out'[i] = [to |-> c, type |-> "error", arg |-> "RoleTaken"]]_vars
  BY NextAnswers
<1> QED
  BY <1>1, AlwaysGood, PTL DEF Spec, NoSilentRefusal

-----------------------------------------------------------------------------
(* The server: the router behind its channels.                             *)

\* What the router's queue may hold.
Queued == [type : {"ping", "leave", "unknown"}, origin : Client]
          \cup [type : {"join"}, origin : Client, room : Spelling, role : Role]
          \cup [type : ForwardedType, origin : Client, payload : Payload]

ChannelsOK ==
    /\ queue \in Seq(Queued) /\ Len(queue) <= QueueCap
    /\ alive \in Seq(Client) /\ Len(alive) <= AliveCap
    /\ outgoing \in [Client -> Seq(Packet)]
    /\ \A c \in Client : Len(outgoing[c]) <= SendCap
    /\ pingqueue \in [Client -> BOOLEAN] /\ pinged \in [Client -> BOOLEAN]

\* A reader holds a message of its own connection, or none.
ReaderOK(c) ==
    /\ reader[c] \in {"new", "read", "alive", "alive-pong", "push", "eof"}
    /\ IF reader[c] \in {"alive", "push"}
       THEN reading[c] \in Queued /\ reading[c].origin = c
       ELSE reading[c] = NoMessage
    /\ sent[c] \in 0 .. MaxSent[c]

\* A connection has both its goroutines or none.  Only the loss of a write lets
\* the writer go before the reader.
PairOK(c) ==
    /\ writer[c] = "new" => reader[c] = "new"
    /\ c \notin WriteErrors /\ writer[c] \in {"cleanup", "done"} => reader[c] = "eof"

ThreadsOK ==
    /\ reader \in [Client -> {"new", "read", "alive", "alive-pong", "push", "eof"}]
    /\ DOMAIN reading = Client /\ DOMAIN sent = Client
    /\ \A c \in Client : ReaderOK(c) /\ PairOK(c)
    /\ writer \in [Client -> {"new", "loop", "cleanup", "done"}]

SInv == IInv /\ ChannelsOK /\ ThreadsOK

-----------------------------------------------------------------------------
(* The router behind its channels.                                         *)

LEMMA QueuedFacts ==
    ASSUME NEW m \in Queued
    PROVE  /\ m.origin \in Client
           /\ m # NoMessage
           /\ m.type = "join" => m.room \in Spelling /\ m.role \in Role
           /\ m.type \in ForwardedType => m.payload \in Payload
BY DEF Queued, NoMessage, ForwardedType

\* What is taken from the queue is one of the router's own steps.
LEMMA HandleIsNext ==
    ASSUME NEW m \in Queued, Handle(m)
    PROVE  Next
<1>1. CASE m.type = "ping" /\ Ping(m.origin)
  BY <1>1, QueuedFacts DEF Next
<1>2. CASE m.type = "join" /\ Join(m.origin, m.room, m.role)
  BY <1>2, QueuedFacts DEF Next
<1>3. CASE m.type = "leave" /\ Leave(m.origin)
  BY <1>3, QueuedFacts DEF Next
<1>4. CASE m.type \in ForwardedType /\ Forward(m.origin, m.type, m.payload)
  BY <1>4, QueuedFacts DEF Next
<1>5. CASE m.type = "unknown" /\ BadType(m.origin)
  BY <1>5, QueuedFacts DEF Next
<1> QED
  BY <1>1, <1>2, <1>3, <1>4, <1>5 DEF Handle

LEMMA TakenFacts ==
    ASSUME NEW T, NEW s \in Seq(T), s # <<>>
    PROVE  /\ Head(s) \in T /\ Tail(s) \in Seq(T) /\ Len(Tail(s)) = Len(s) - 1
           /\ \A i \in DOMAIN Tail(s) : i + 1 \in DOMAIN s /\ Tail(s)[i] = s[i + 1]
OBVIOUS

LEMMA PutFacts ==
    ASSUME NEW T, NEW s \in Seq(T), NEW x \in T
    PROVE  /\ Append(s, x) \in Seq(T) /\ Len(Append(s, x)) = Len(s) + 1
           /\ \A i \in DOMAIN s : i \in DOMAIN Append(s, x) /\ Append(s, x)[i] = s[i]
           /\ Append(s, x)[Len(s) + 1] = x
           /\ \A i \in DOMAIN Append(s, x) : i \in DOMAIN s \/ i = Len(s) + 1
OBVIOUS

\* Handing a packet over changes nothing but what is still to be handed over.
LEMMA SentGood ==
    ASSUME IInv, Sent, out # <<>>
    PROVE  IInv' /\ Head(out) \in Packet
<1>1. Good(Whole) /\ out \in Seq(Packet)
  BY WholeFields DEF IInv, Good, Core, State
<1>2. Head(out) \in Packet /\ Tail(out) \in Seq(Packet)
  BY <1>1, TakenFacts
<1>3. /\ Whole'.rooms = Whole.rooms /\ Whole'.clients = Whole.clients
      /\ Whole'.seats = Whole.seats /\ Whole'.waiting = Whole.waiting
      /\ Whole'.told = Whole.told /\ Whole'.out = Tail(out)
  BY DEF Sent, Whole, Current
<1>4. Whole' \in State
  <2>1. Whole \in State
    BY <1>1 DEF Good, Core
  <2> QED
    BY <1>2, <2>1 DEF Sent, Whole, Current, State
<1>5. SameBut(Whole', Whole)
  BY <1>3, <1>4 DEF SameBut
<1> QED
  BY <1>1, <1>2, <1>5, SameCore DEF IInv, Good

-----------------------------------------------------------------------------
(* Steps.                                                                  *)

LEMMA ServerInitGood == ServerInit => SInv
<1> SUFFICES ASSUME ServerInit
             PROVE  SInv
  OBVIOUS
<1>1. IInv
  BY InitGood DEF ServerInit
<1>2. ChannelsOK
  BY Capacities DEF ServerInit, ChannelsOK
<1>3. ThreadsOK
  BY Capacities DEF ServerInit, ThreadsOK, ReaderOK, PairOK
<1> QED
  BY <1>1, <1>2, <1>3 DEF SInv

LEMMA RouterIdle ==
    ASSUME IInv, UNCHANGED vars
    PROVE  IInv'
BY NextGood

LEMMA TakeMessageGood ==
    ASSUME SInv, TakeMessage
    PROVE  SInv' /\ Head(queue) \in Queued /\ Next
<1>1. /\ Head(queue) \in Queued /\ Tail(queue) \in Seq(Queued)
      /\ Len(Tail(queue)) = Len(queue) - 1
  BY TakenFacts DEF SInv, ChannelsOK, TakeMessage
<1>2. Next
  BY <1>1, HandleIsNext DEF TakeMessage
<1>3. IInv'
  BY <1>2, NextGood DEF SInv
<1>4. ChannelsOK'
  BY <1>1, Capacities DEF SInv, ChannelsOK, TakeMessage
<1>5. ThreadsOK'
  BY DEF SInv, ThreadsOK, ReaderOK, PairOK, TakeMessage, threads
<1> QED
  BY <1>1, <1>2, <1>3, <1>4, <1>5 DEF SInv

LEMMA TakeAliveGood ==
    ASSUME SInv, TakeAlive
    PROVE  SInv' /\ Head(alive) \in Client /\ Next
<1>1. /\ Head(alive) \in Client /\ Tail(alive) \in Seq(Client)
      /\ Len(Tail(alive)) = Len(alive) - 1
  BY TakenFacts DEF SInv, ChannelsOK, TakeAlive
<1>2. Next
  BY <1>1 DEF TakeAlive, Next
<1>3. IInv'
  BY <1>2, NextGood DEF SInv
<1>4. ChannelsOK'
  BY <1>1, Capacities DEF SInv, ChannelsOK, TakeAlive
<1>5. ThreadsOK'
  BY DEF SInv, ThreadsOK, ReaderOK, PairOK, TakeAlive, threads
<1> QED
  BY <1>1, <1>2, <1>3, <1>4, <1>5 DEF SInv

LEMMA DeliverGood ==
    ASSUME SInv, Deliver
    PROVE  SInv'
<1>0. Sent /\ out # <<>>
  BY DEF Deliver, DeliverSend, DeliverPing, DeliverNowhere
<1>1. IInv' /\ Head(out) \in Packet
  BY <1>0, SentGood DEF SInv
<1>2. Head(out).to \in Client
  BY <1>1 DEF Packet
<1>3. ThreadsOK'
  BY <1>0 DEF SInv, ThreadsOK, ReaderOK, PairOK, Sent, threads
<1>4. ChannelsOK'
  <2>1. CASE DeliverSend
    <3> DEFINE c == Head(out).to
    <3>1. /\ Append(outgoing[c], Head(out)) \in Seq(Packet)
          /\ Len(Append(outgoing[c], Head(out))) = Len(outgoing[c]) + 1
      BY <1>1, <1>2, PutFacts DEF SInv, ChannelsOK
    <3>2. Len(outgoing[c]) \in Nat /\ Len(outgoing[c]) < SendCap /\ SendCap \in Nat
      BY <1>2, <2>1, Capacities DEF SInv, ChannelsOK, DeliverSend
    <3>3. outgoing' = [outgoing EXCEPT ![c] = Append(outgoing[c], Head(out))]
      BY <2>1 DEF DeliverSend
    <3>4. UNCHANGED <<queue, alive, pingqueue, pinged>>
      BY <2>1 DEF DeliverSend, Sent
    <3> QED
      BY <1>2, <3>1, <3>2, <3>3, <3>4 DEF SInv, ChannelsOK
  <2>2. CASE DeliverPing
    BY <1>2, <2>2 DEF SInv, ChannelsOK, DeliverPing, Sent
  <2>3. CASE DeliverNowhere
    BY <2>3 DEF SInv, ChannelsOK, DeliverNowhere, Sent
  <2> QED
    BY <2>1, <2>2, <2>3 DEF Deliver
<1> QED
  BY <1>1, <1>3, <1>4 DEF SInv

LEMMA ReadableQueued ==
    ASSUME NEW c \in Client, NEW n \in 1 .. MaxSent[c], NEW m \in Readable(c, n)
    PROVE  m \in Queued /\ m.origin = c
<1>1. <<c, n>> \in Payload
  BY PayloadType
<1> QED
  BY <1>1 DEF Readable, Queued

\* What a reader does with itself, whatever it pushes.
LEMMA ReadsGood ==
    ASSUME SInv, NEW c \in Client, NEW at, NEW msg, Reads(c, at, msg),
           reader[c] \notin {"new", "eof"},
           at \in {"read", "alive", "alive-pong", "push", "eof"},
           IF at \in {"alive", "push"} THEN msg \in Queued /\ msg.origin = c
                                       ELSE msg = NoMessage,
           \/ sent' = sent
           \/ sent[c] < MaxSent[c] /\ sent' = [sent EXCEPT ![c] = @ + 1]
    PROVE  IInv' /\ ThreadsOK'
<1>1. IInv'
  BY RouterIdle DEF SInv, Reads
<1>2. /\ reader' = [reader EXCEPT ![c] = at] /\ reading' = [reading EXCEPT ![c] = msg]
      /\ writer' = writer
  BY DEF Reads
<1>3. /\ reader' \in [Client -> {"new", "read", "alive", "alive-pong", "push", "eof"}]
      /\ DOMAIN reading' = Client /\ DOMAIN sent' = Client
      /\ writer' \in [Client -> {"new", "loop", "cleanup", "done"}]
  BY <1>2 DEF SInv, ThreadsOK
<1>4. ASSUME NEW d \in Client
      PROVE  ReaderOK(d)' /\ PairOK(d)'
  <2>1. ReaderOK(d) /\ PairOK(d) /\ ReaderOK(c) /\ PairOK(c) /\ MaxSent[d] \in Nat
    BY Capacities DEF SInv, ThreadsOK
  <2>2. sent'[d] \in 0 .. MaxSent[d]
    BY <2>1 DEF SInv, ThreadsOK, ReaderOK, PairOK
  <2>3. CASE d = c
    BY <1>2, <2>2, <2>3 DEF SInv, ThreadsOK, ReaderOK, PairOK
  <2>4. CASE d # c
    BY <1>2, <2>1, <2>2, <2>4 DEF SInv, ThreadsOK, ReaderOK, PairOK
  <2> QED
    BY <2>3, <2>4
<1> QED
  BY <1>1, <1>3, <1>4 DEF ThreadsOK

LEMMA ReaderGood ==
    ASSUME SInv, NEW c \in Client,
           ReadMessage(c) \/ ReadPong(c) \/ PushAlive(c) \/ PushMessage(c) \/ ReadError(c)
    PROVE  SInv'
<1>0. ReaderOK(c) /\ MaxSent[c] \in Nat
  BY Capacities DEF SInv, ThreadsOK
<1>1. CASE ReadMessage(c)
  <2>1. PICK m \in Readable(c, sent[c] + 1) :
            Reads(c, IF pinged[c] THEN "alive" ELSE "push", m)
    BY <1>1 DEF ReadMessage
  <2>2. sent[c] < MaxSent[c] /\ sent[c] + 1 \in 1 .. MaxSent[c]
    BY <1>0, <1>1 DEF ReadMessage, ReaderOK
  <2>3. m \in Queued /\ m.origin = c
    BY <2>1, <2>2, ReadableQueued
  <2>4. IInv' /\ ThreadsOK'
    BY <1>1, <2>1, <2>2, <2>3, ReadsGood DEF ReadMessage
  <2>5. ChannelsOK'
    BY <1>1, <2>1 DEF SInv, ChannelsOK, ReadMessage, Reads
  <2> QED
    BY <2>4, <2>5 DEF SInv
<1>2. CASE ReadPong(c)
  <2>1. IInv' /\ ThreadsOK'
    BY <1>2, ReadsGood DEF ReadPong
  <2>2. ChannelsOK'
    BY <1>2 DEF SInv, ChannelsOK, ReadPong, Reads
  <2> QED
    BY <2>1, <2>2 DEF SInv
<1>3. CASE PushAlive(c)
  <2>1. IInv' /\ ThreadsOK'
    BY <1>0, <1>3, ReadsGood DEF PushAlive, ReaderOK
  <2>2. /\ Append(alive, c) \in Seq(Client) /\ Len(Append(alive, c)) = Len(alive) + 1
        /\ Len(alive) \in Nat /\ AliveCap \in Nat
    BY PutFacts, Capacities DEF SInv, ChannelsOK
  <2>3. ChannelsOK'
    BY <1>3, <2>2 DEF SInv, ChannelsOK, PushAlive, Reads
  <2> QED
    BY <2>1, <2>3 DEF SInv
<1>4. CASE PushMessage(c)
  <2>1. IInv' /\ ThreadsOK'
    BY <1>4, ReadsGood DEF PushMessage
  <2>2. reading[c] \in Queued
    BY <1>0, <1>4 DEF PushMessage, ReaderOK
  <2>3. /\ Append(queue, reading[c]) \in Seq(Queued)
        /\ Len(Append(queue, reading[c])) = Len(queue) + 1
        /\ Len(queue) \in Nat /\ QueueCap \in Nat
    BY <2>2, PutFacts, Capacities DEF SInv, ChannelsOK
  <2>4. ChannelsOK'
    BY <1>4, <2>3 DEF SInv, ChannelsOK, PushMessage, Reads
  <2> QED
    BY <2>1, <2>4 DEF SInv
<1>5. CASE ReadError(c)
  <2>1. IInv' /\ ThreadsOK'
    BY <1>5, ReadsGood DEF ReadError
  <2>2. ChannelsOK'
    BY <1>5 DEF SInv, ChannelsOK, ReadError, Reads
  <2> QED
    BY <2>1, <2>2 DEF SInv
<1> QED
  BY <1>1, <1>2, <1>3, <1>4, <1>5

\* The writer's own steps leave the router and the readers alone.
LEMMA WriterGood ==
    ASSUME SInv, NEW c \in Client,
           WriteNext(c) \/ WritePing(c) \/ TickerFails(c) \/ SeeEof(c)
    PROVE  SInv'
<1>0. Writes(c)
  BY DEF WriteNext, WritePing, TickerFails, SeeEof
<1>1. IInv'
  BY <1>0, RouterIdle DEF SInv, Writes
<1>2. \/ writer' = writer
      \/ /\ writer' = [writer EXCEPT ![c] = "cleanup"]
         /\ c \in WriteErrors \/ reader[c] = "eof"
  BY DEF WriteNext, WritePing, TickerFails, SeeEof, WriteOrFail
<1>3. ThreadsOK'
  <2>1. /\ writer[c] = "loop"
        /\ reader' = reader /\ reading' = reading /\ sent' = sent
    BY <1>0 DEF Writes
  <2>2. writer' \in [Client -> {"new", "loop", "cleanup", "done"}]
    BY <1>2 DEF SInv, ThreadsOK
  <2>3. ASSUME NEW d \in Client
        PROVE  ReaderOK(d)' /\ PairOK(d)'
    BY <1>2, <2>1 DEF SInv, ThreadsOK, ReaderOK, PairOK
  <2> QED
    BY <2>1, <2>2, <2>3 DEF SInv, ThreadsOK
<1>4. ChannelsOK'
  <2>1. CASE WriteNext(c)
    <3>1. Tail(outgoing[c]) \in Seq(Packet) /\ Len(Tail(outgoing[c])) = Len(outgoing[c]) - 1
      BY <2>1, TakenFacts DEF SInv, ChannelsOK, WriteNext
    <3>2. Len(outgoing[c]) \in Nat /\ SendCap \in Nat
      BY Capacities DEF SInv, ChannelsOK
    <3> QED
      BY <1>0, <2>1, <3>1, <3>2 DEF SInv, ChannelsOK, WriteNext, Writes
  <2>2. CASE WritePing(c)
    BY <1>0, <2>2 DEF SInv, ChannelsOK, WritePing, Writes
  <2>3. CASE TickerFails(c) \/ SeeEof(c)
    BY <1>0, <2>3 DEF SInv, ChannelsOK, TickerFails, SeeEof, Writes
  <2> QED
    BY <2>1, <2>2, <2>3
<1> QED
  BY <1>1, <1>3, <1>4 DEF SInv

LEMMA ConnectGood ==
    ASSUME SInv, NEW c \in Client, Connect(c) \/ Cleanup(c)
    PROVE  SInv'
<1>1. IInv'
  BY RouterIdle DEF SInv, Connect, Cleanup
<1>2. CASE Connect(c)
  <2>1. ChannelsOK'
    BY <1>2 DEF SInv, ChannelsOK, Connect, channels
  <2>2. ThreadsOK'
    BY <1>2 DEF SInv, ThreadsOK, ReaderOK, PairOK, Connect
  <2> QED
    BY <1>1, <2>1, <2>2 DEF SInv
<1>3. CASE Cleanup(c)
  <2>1. ThreadsOK'
    BY <1>3 DEF SInv, ThreadsOK, ReaderOK, PairOK, Cleanup
  <2>2. [type |-> "leave", origin |-> c] \in Queued
    BY DEF Queued
  <2>3. /\ Append(queue, [type |-> "leave", origin |-> c]) \in Seq(Queued)
        /\ Len(Append(queue, [type |-> "leave", origin |-> c])) = Len(queue) + 1
        /\ Len(queue) \in Nat /\ QueueCap \in Nat
    BY <2>2, PutFacts, Capacities DEF SInv, ChannelsOK
  <2>4. ChannelsOK'
    BY <1>3, <2>3 DEF SInv, ChannelsOK, Cleanup
  <2> QED
    BY <1>1, <2>1, <2>4 DEF SInv
<1> QED
  BY <1>2, <1>3

LEMMA ServerNextGood == SInv /\ [ServerNext]_serverVars => SInv'
<1> SUFFICES ASSUME SInv, [ServerNext]_serverVars
             PROVE  SInv'
  OBVIOUS
<1>1. CASE TakeMessage \/ TakeAlive \/ Deliver
  BY <1>1, TakeMessageGood, TakeAliveGood, DeliverGood
<1>2. ASSUME NEW c \in Client,
             ReadMessage(c) \/ ReadPong(c) \/ ReadError(c) \/ PushAlive(c) \/ PushMessage(c)
      PROVE  SInv'
  BY <1>2, ReaderGood
<1>3. ASSUME NEW c \in Client,
             WriteNext(c) \/ WritePing(c) \/ TickerFails(c) \/ SeeEof(c)
      PROVE  SInv'
  BY <1>3, WriterGood
<1>4. ASSUME NEW c \in Client, Connect(c) \/ Cleanup(c)
      PROVE  SInv'
  BY <1>4, ConnectGood
<1>5. CASE UNCHANGED serverVars
  <2>1. IInv'
    BY <1>5, RouterIdle DEF SInv, serverVars
  <2>2. ChannelsOK' /\ ThreadsOK'
    BY <1>5 DEF SInv, ChannelsOK, ThreadsOK, ReaderOK, PairOK, serverVars, channels, threads
  <2> QED
    BY <2>1, <2>2 DEF SInv
<1> QED
  BY <1>1, <1>2, <1>3, <1>4, <1>5 DEF ServerNext, AllGone

LEMMA ServerAlwaysGood == ServerSpec => []SInv
  BY ServerInitGood, ServerNextGood, PTL DEF ServerSpec

-----------------------------------------------------------------------------
(* What is left of a connection that has ended.                            *)

Goodbye(c) == [type |-> "leave", origin |-> c]

\* The router has handled the last message of c, or the last one is its leave.
OverFor(c) ==
    \/ clients[c] = NoRoom /\ \A i \in DOMAIN queue : queue[i].origin # c
    \/ \E i \in DOMAIN queue :
          queue[i] = Goodbye(c) /\ \A j \in DOMAIN queue : j > i => queue[j].origin # c

LeftInv == \A c \in Client \ WriteErrors : writer[c] = "done" => OverFor(c)

\* The handling of a message puts nobody into a room but its sender.
LEMMA HandleOut ==
    ASSUME IInv, NEW m \in Queued, Handle(m), NEW c \in Client
    PROVE  /\ m.origin # c /\ clients[c] = NoRoom => clients'[c] = NoRoom
           /\ m = Goodbye(c) => clients'[c] = NoRoom
<1> DEFINE d == m.origin
<1>0. Good(Current) /\ Current.clients = clients /\ d \in Client
  BY CurrentGood, QueuedFacts DEF Current
<1>1. CASE m.type = "ping" /\ Ping(d)
  <2>1. clients' = clients
    BY <1>0, <1>1, SendGood DEF Ping, PacketType, Become
  <2> QED
    BY <1>1, <2>1 DEF Goodbye
<1>2. CASE m.type = "join" /\ Join(d, m.room, m.role)
  <2>1. m.room \in Spelling
    BY <1>2, QueuedFacts
  <2>2. OutBut(JoinRoom(Current, d, m.room, m.role), Current, d)
    BY <1>0, <2>1, JoinRoomGood
  <2> QED
    BY <1>0, <1>2, <2>2 DEF Goodbye, Join, Become, OutBut
<1>3. CASE m.type = "leave" /\ Leave(d)
  <2>1. /\ LeaveRoom(Current, d).clients[d] = NoRoom
        /\ OutBut(LeaveRoom(Current, d), Current, d)
    BY <1>0, LeaveRoomGood
  <2> QED
    BY <1>0, <1>3, <2>1 DEF Goodbye, Leave, Become, OutBut
<1>4. CASE m.type \in ForwardedType /\ Forward(d, m.type, m.payload)
  <2>1. clients' = clients
    BY <1>0, <1>4, ForwardGood, QueuedFacts DEF Forward, Become
  <2>2. m.type # "leave"
    BY <1>4 DEF ForwardedType
  <2> QED
    BY <2>1, <2>2 DEF Goodbye
<1>5. CASE m.type = "unknown" /\ BadType(d)
  <2>1. clients' = clients
    BY <1>0, <1>5, SendGood DEF BadType, PacketType, ErrorCode, Become
  <2> QED
    BY <1>5, <2>1 DEF Goodbye
<1> QED
  BY <1>1, <1>2, <1>3, <1>4, <1>5 DEF Handle

LEMMA AliveOut ==
    ASSUME IInv, NEW c \in Client, Alive(c)
    PROVE  clients' = clients
<1>1. Good(Current) /\ Current.clients = clients
  BY CurrentGood DEF Current
<1> QED
  BY <1>1, RefuseWaiterGood DEF Alive, Become

\* A message of somebody else, pushed behind the rest, leaves a goodbye the last.
LEMMA PushedBehind ==
    ASSUME queue \in Seq(Queued), NEW m \in Queued, queue' = Append(queue, m),
           clients' = clients, NEW c \in Client, m.origin # c, OverFor(c)
    PROVE  OverFor(c)'
<1>1. Len(queue) \in Nat /\ DOMAIN queue = 1 .. Len(queue)
  OBVIOUS
<1>2. /\ \A i \in DOMAIN queue : i \in DOMAIN queue' /\ queue'[i] = queue[i]
      /\ queue'[Len(queue) + 1] = m
      /\ \A i \in DOMAIN queue' : i \in DOMAIN queue \/ i = Len(queue) + 1
  BY PutFacts
<1>3. CASE clients[c] = NoRoom /\ \A i \in DOMAIN queue : queue[i].origin # c
  BY <1>2, <1>3 DEF OverFor
<1>4. CASE \E i \in DOMAIN queue :
              queue[i] = Goodbye(c)
              /\ \A j \in DOMAIN queue : j > i => queue[j].origin # c
  <2>1. PICK i \in DOMAIN queue :
                queue[i] = Goodbye(c)
                /\ \A j \in DOMAIN queue : j > i => queue[j].origin # c
    BY <1>4
  <2>2. i \in DOMAIN queue' /\ queue'[i] = Goodbye(c)
    BY <1>2, <2>1
  <2>3. \A j \in DOMAIN queue' : j > i => queue'[j].origin # c
    BY <1>2, <2>1
  <2> QED
    BY <2>2, <2>3 DEF OverFor
<1> QED
  BY <1>3, <1>4 DEF OverFor

LEMMA TakenFromFront ==
    ASSUME SInv, TakeMessage, NEW c \in Client, OverFor(c)
    PROVE  OverFor(c)'
<1>1. /\ queue \in Seq(Queued) /\ queue # <<>> /\ queue' = Tail(queue)
      /\ Handle(Head(queue)) /\ Head(queue) \in Queued /\ Head(queue) = queue[1]
      /\ Len(queue) \in Nat \ {0} /\ DOMAIN queue = 1 .. Len(queue)
      /\ DOMAIN queue' = 1 .. Len(queue) - 1
  BY TakenFacts DEF SInv, ChannelsOK, TakeMessage
<1>2. \A i \in DOMAIN queue' : i + 1 \in DOMAIN queue /\ queue'[i] = queue[i + 1]
  BY <1>1, TakenFacts
<1>3. CASE clients[c] = NoRoom /\ \A i \in DOMAIN queue : queue[i].origin # c
  <2>1. clients'[c] = NoRoom
    BY <1>1, <1>3, HandleOut DEF SInv
  <2> QED
    BY <1>2, <1>3, <2>1 DEF OverFor
<1>4. CASE \E i \in DOMAIN queue :
              queue[i] = Goodbye(c)
              /\ \A j \in DOMAIN queue : j > i => queue[j].origin # c
  <2>1. PICK i \in DOMAIN queue :
                queue[i] = Goodbye(c)
                /\ \A j \in DOMAIN queue : j > i => queue[j].origin # c
    BY <1>4
  <2>2. CASE i = 1
    <3>1. clients'[c] = NoRoom
      BY <1>1, <2>1, <2>2, HandleOut DEF SInv
    <3>2. \A j \in DOMAIN queue' : queue'[j].origin # c
      BY <1>1, <1>2, <2>1, <2>2
    <3> QED
      BY <3>1, <3>2 DEF OverFor
  <2>3. CASE i # 1
    <3>1. i - 1 \in DOMAIN queue' /\ queue'[i - 1] = Goodbye(c)
      BY <1>1, <1>2, <2>1, <2>3
    <3>2. \A j \in DOMAIN queue' : j > i - 1 => queue'[j].origin # c
      BY <1>1, <1>2, <2>1
    <3> QED
      BY <3>1, <3>2 DEF OverFor
  <2> QED
    BY <2>2, <2>3
<1> QED
  BY <1>3, <1>4 DEF OverFor

LEMMA LeftNext == SInv /\ LeftInv /\ [ServerNext]_serverVars => LeftInv'
<1> SUFFICES ASSUME SInv, LeftInv, [ServerNext]_serverVars,
                    NEW c \in Client \ WriteErrors, (writer[c] = "done")'
             PROVE  OverFor(c)'
  BY DEF LeftInv
<1>0. /\ c \in Client /\ queue \in Seq(Queued)
      /\ writer \in [Client -> {"new", "loop", "cleanup", "done"}]
      /\ \A d \in Client : ReaderOK(d) /\ PairOK(d)
  BY DEF SInv, ChannelsOK, ThreadsOK
<1>1. ASSUME UNCHANGED <<queue, clients, writer>>
      PROVE  OverFor(c)'
  BY <1>1 DEF LeftInv, OverFor
<1>2. CASE TakeMessage
  BY <1>2, TakenFromFront DEF TakeMessage, threads, LeftInv
<1>3. CASE TakeAlive
  <2>1. Head(alive) \in Client
    BY <1>3, TakeAliveGood
  <2> QED
    BY <1>1, <1>3, <2>1, AliveOut DEF SInv, TakeAlive, threads
<1>4. CASE Deliver
  BY <1>1, <1>4 DEF Deliver, DeliverSend, DeliverPing, DeliverNowhere, Sent, threads
<1>5. ASSUME NEW d \in Client,
             ReadMessage(d) \/ ReadPong(d) \/ ReadError(d) \/ PushAlive(d)
      PROVE  OverFor(c)'
  BY <1>1, <1>5 DEF ReadMessage, ReadPong, ReadError, PushAlive, Reads, vars
<1>6. ASSUME NEW d \in Client, PushMessage(d)
      PROVE  OverFor(c)'
  <2>1. UNCHANGED <<clients, writer>> /\ reader[d] = "push"
        /\ queue' = Append(queue, reading[d])
    BY <1>6 DEF PushMessage, Reads, vars
  <2>2. reading[d] \in Queued /\ reading[d].origin = d
    BY <1>0, <2>1 DEF ReaderOK
  <2>3. d # c
    BY <1>0, <2>1 DEF PairOK
  <2> QED
    BY <1>0, <2>1, <2>2, <2>3, PushedBehind DEF LeftInv
<1>7. ASSUME NEW d \in Client,
             WriteNext(d) \/ WritePing(d) \/ TickerFails(d) \/ SeeEof(d) \/ Connect(d)
      PROVE  OverFor(c)'
  <2>1. UNCHANGED <<queue, clients>>
    BY <1>7 DEF WriteNext, WritePing, TickerFails, SeeEof, Connect, Writes, vars, channels
  <2>2. \/ writer' = writer
        \/ \E at \in {"loop", "cleanup"} : writer' = [writer EXCEPT ![d] = at]
    BY <1>7 DEF WriteNext, WritePing, TickerFails, SeeEof, Connect, WriteOrFail
  <2>3. writer[c] = "done"
    BY <1>0, <2>2
  <2> QED
    BY <2>1, <2>3 DEF LeftInv, OverFor
<1>8. ASSUME NEW d \in Client, Cleanup(d)
      PROVE  OverFor(c)'
  <2>1. /\ clients' = clients /\ queue' = Append(queue, Goodbye(d))
        /\ writer' = [writer EXCEPT ![d] = "done"]
    BY <1>8 DEF Cleanup, Goodbye, vars
  <2>2. Goodbye(d) \in Queued /\ Goodbye(d).origin = d
    BY DEF Goodbye, Queued
  <2>3. CASE d = c
    <3>1. /\ Len(queue) + 1 \in DOMAIN queue'
          /\ queue'[Len(queue) + 1] = Goodbye(c)
          /\ \A j \in DOMAIN queue' : ~ (j > Len(queue) + 1)
      BY <1>0, <2>1, <2>2, <2>3, PutFacts
    <3> QED
      BY <3>1 DEF OverFor
  <2>4. CASE d # c
    BY <1>0, <2>1, <2>2, <2>4, PushedBehind DEF LeftInv
  <2> QED
    BY <2>3, <2>4
<1>9. CASE UNCHANGED serverVars
  BY <1>1, <1>9 DEF serverVars, vars, channels, threads
<1> QED
  BY <1>2, <1>3, <1>4, <1>5, <1>6, <1>7, <1>8, <1>9 DEF ServerNext, AllGone

LEMMA LeftMeans == SInv /\ LeftInv => LeftUnlessLost
  BY DEF LeftInv, OverFor, LeftUnlessLost, LeaveQueued, Goodbye

-----------------------------------------------------------------------------
(* What the server promises.                                               *)

LEMMA SInvMeans == SInv => ServerTypeOK
<1> SUFFICES ASSUME SInv
             PROVE  ServerTypeOK
  OBVIOUS
<1>1. TypeOK
  BY IInvMeans DEF SInv
<1>2. \A i \in DOMAIN queue : queue[i].origin \in Client
  BY QueuedFacts DEF SInv, ChannelsOK
<1>3. \A c \in Client : reading[c] # NoMessage <=> reader[c] \in {"alive", "push"}
  BY QueuedFacts DEF SInv, ThreadsOK, ReaderOK
<1> QED
  BY <1>1, <1>2, <1>3 DEF SInv, ChannelsOK, ThreadsOK, ReaderOK, ServerTypeOK

\* Every channel keeps to its capacity, whatever the capacities are, and every
\* goroutine to its program: the selects of Send, Ping and the pushes are guards.
THEOREM ChannelsKeepTheirBounds == ServerSpec => []ServerTypeOK
  BY ServerAlwaysGood, SInvMeans, PTL

\* The router's invariants hold of the running server, between whose handlers the
\* connections come, push, block and end.
THEOREM RouterKeptByServer ==
    ServerSpec => [](Placed /\ OnePlace /\ WaitingBehindSeat /\ RegisteredInUse /\ PeerKnown)
<1>1. SInv => Placed /\ OnePlace /\ WaitingBehindSeat /\ RegisteredInUse /\ PeerKnown
  BY IInvMeans DEF SInv
<1> QED
  BY <1>1, ServerAlwaysGood, PTL

\* A step of the server is a step of the router or leaves its rooms alone.
LEMMA RouterOrRest ==
    ASSUME SInv, [ServerNext]_serverVars
    PROVE  Next \/ UNCHANGED <<seats, waiting>>
<1>1. CASE TakeMessage \/ TakeAlive
  BY <1>1, TakeMessageGood, TakeAliveGood
<1>2. CASE Deliver
  BY <1>2 DEF Deliver, DeliverSend, DeliverPing, DeliverNowhere, Sent
<1>3. ASSUME NEW c \in Client,
             \/ ReadMessage(c) \/ ReadPong(c) \/ ReadError(c)
             \/ PushAlive(c) \/ PushMessage(c)
      PROVE  UNCHANGED vars
  BY <1>3 DEF ReadMessage, ReadPong, ReadError, PushAlive, PushMessage, Reads
<1>4. ASSUME NEW c \in Client,
             \/ WriteNext(c) \/ WritePing(c) \/ TickerFails(c) \/ SeeEof(c)
             \/ Connect(c) \/ Cleanup(c)
      PROVE  UNCHANGED vars
  BY <1>4 DEF WriteNext, WritePing, TickerFails, SeeEof, Connect, Cleanup, Writes
<1>5. CASE UNCHANGED serverVars
  BY <1>5 DEF serverVars, vars
<1> QED
  BY <1>1, <1>2, <1>3, <1>4, <1>5 DEF ServerNext, AllGone, vars

\* In the running server, too, a seat is lost only by the join or the leave of its
\* holder, the leave of cleanup included, and no waiter is left in silence.
THEOREM PlacesKeptByServer == ServerSpec => NoEviction /\ NoSilentRefusal
<1>1. SInv /\ [ServerNext]_serverVars =>
         [\A r \in Room, role \in Role, c \in Client :
            seats[r][role] = c /\ seats'[r][role] # c
              => \/ Leave(c)
                 \/ \E sp \in Spelling, ro \in Role : Join(c, sp, ro)]_vars
  <2>1. ASSUME SInv, [ServerNext]_serverVars,
               NEW r \in Room, NEW role \in Role, NEW c \in Client,
               seats[r][role] = c, seats'[r][role] # c
        PROVE  Leave(c) \/ \E sp \in Spelling, ro \in Role : Join(c, sp, ro)
    <3>1. IInv /\ Next
      BY <2>1, RouterOrRest DEF SInv
    <3> QED
      BY <2>1, <3>1, NextKeeps
  <2> QED
    BY <2>1
<1>2. SInv /\ [ServerNext]_serverVars =>
         [\A r \in Room, role \in Role, c \in Client :
             waiting[r][role] = c /\ waiting'[r][role] # c
               => \/ Leave(c)
                  \/ \E sp \in Spelling, ro \in Role : Join(c, sp, ro)
                  \/ \E q \in Room : NameOf(q) = NameOf(r)
                                   /\ c \in {seats'[q][role], waiting'[q][role]}
                  \/ \E i \in DOMAIN out' :
                        out'[i] = [to |-> c, type |-> "error", arg |-> "RoleTaken"]]_vars
  <2>1. ASSUME SInv, [ServerNext]_serverVars,
               NEW r \in Room, NEW role \in Role, NEW c \in Client,
               waiting[r][role] = c, waiting'[r][role] # c,
               ~Leave(c), ~ \E sp \in Spelling, ro \in Role : Join(c, sp, ro)
        PROVE  \/ \E q \in Room : NameOf(q) = NameOf(r)
                                  /\ c \in {seats'[q][role], waiting'[q][role]}
               \/ \E i \in DOMAIN out' :
                     out'[i] = [to |-> c, type |-> "error", arg |-> "RoleTaken"]
    <3>1. IInv /\ Next
      BY <2>1, RouterOrRest DEF SInv
    <3> QED
      BY <2>1, <3>1, NextAnswers
  <2> QED
    BY <2>1
<1> QED
  BY <1>1, <1>2, ServerAlwaysGood, PTL DEF ServerSpec, NoEviction, NoSilentRefusal

\* A connection whose writes never fail leaves nothing behind: once HandleClient has
\* returned and its last leave is handled it is in no room, in whatever order the
\* channels were served (the reader ends before cleanup pushes the leave).
THEOREM NothingLeftBehind == ServerSpec => []LeftUnlessLost
<1>1. ServerInit => LeftInv
  BY DEF ServerInit, LeftInv
<1> QED
  BY <1>1, ServerAlwaysGood, LeftNext, LeftMeans, PTL DEF ServerSpec

-----------------------------------------------------------------------------
(* Signalling is forwarded in order: through the reader, the router's     *)
(* queue, the handler and the outgoing queue nothing is reordered or      *)
(* duplicated.  The numbers of a sender's messages rise along that way,   *)
(* from stage to stage and within each stage.                             *)

Forwarded(x) == x.type \in ForwardedType

-----------------------------------------------------------------------------
(* The invariant, of a queue q, readers' messages r, counts n of what was  *)
(* read, outgoing queues o and a handler's packets t.                      *)

\* A queued message of c carries its number, and later ones carry higher numbers.
QueueFits(q, n) ==
    /\ \A i \in DOMAIN q : Forwarded(q[i]) =>
          /\ q[i].payload[1] = q[i].origin
          /\ q[i].payload[2] \in 1 .. n[q[i].origin]
    /\ \A i, j \in DOMAIN q :
          i < j /\ Forwarded(q[i]) /\ Forwarded(q[j]) /\ q[i].origin = q[j].origin
          => q[i].payload[2] < q[j].payload[2]

\* What a reader holds is behind what it has pushed.
ReadingFits(c, q, r, n) ==
    Forwarded(r[c]) =>
        /\ r[c].payload[1] = c /\ r[c].payload[2] = n[c] /\ n[c] > 0
        /\ \A i \in DOMAIN q :
              Forwarded(q[i]) /\ q[i].origin = c => q[i].payload[2] < n[c]

\* What the router has passed on is ahead of what its sender has on the way to it.
PacketFits(p, q, r, n) ==
    Forwarded(p) =>
        /\ p.arg[1] \in Client /\ p.arg[2] \in 1 .. n[p.arg[1]]
        /\ \A i \in DOMAIN q :
              Forwarded(q[i]) /\ q[i].origin = p.arg[1] => p.arg[2] < q[i].payload[2]
        /\ Forwarded(r[p.arg[1]]) => p.arg[2] < n[p.arg[1]]

Before(a, b) == Forwarded(a) /\ Forwarded(b) /\ a.arg[1] = b.arg[1] => a.arg[2] < b.arg[2]

\* Packets to the same client follow each other in order.
LinesFit(o, t) ==
    /\ \A d \in Client : \A i, j \in DOMAIN o[d] : i < j => Before(o[d][i], o[d][j])
    /\ \A i, j \in DOMAIN t : i < j /\ t[i].to = t[j].to => Before(t[i], t[j])
    /\ \A d \in Client : \A i \in DOMAIN o[d], j \in DOMAIN t :
          t[j].to = d => Before(o[d][i], t[j])

OrderInv ==
    /\ QueueFits(queue, sent)
    /\ \A c \in Client : ReadingFits(c, queue, reading, sent)
    /\ \A d \in Client : \A i \in DOMAIN outgoing[d] :
          PacketFits(outgoing[d][i], queue, reading, sent)
    /\ \A i \in DOMAIN out : PacketFits(out[i], queue, reading, sent)
    /\ LinesFit(outgoing, out)

-----------------------------------------------------------------------------
(* What the handlers send.                                                 *)

\* A state of the router that has nothing forwarded to send.
Plain(s) ==
    /\ DOMAIN s = {"rooms", "clients", "seats", "waiting", "told", "out"}
    /\ \E T : s.out \in Seq(T)
    /\ \A i \in DOMAIN s.out : ~ Forwarded(s.out[i])

\* What else changes of the state does not matter.
LEMMA PlainSame ==
    ASSUME NEW s, NEW t, Plain(s), DOMAIN t = DOMAIN s, t.out = s.out
    PROVE  Plain(t)
BY DEF Plain

\* One packet more, of a kind that is not forwarded.
LEMMA SendPlain ==
    ASSUME NEW s, Plain(s), NEW c, NEW type, type \notin ForwardedType, NEW arg
    PROVE  Plain(Send(s, c, type, arg))
<1> DEFINE p == [to |-> c, type |-> type, arg |-> arg]
           u == Append(s.out, p)
<1>1. PICK T : s.out \in Seq(T)
  BY DEF Plain
<1>2. ~ Forwarded(p)
  BY DEF Forwarded
<1> DEFINE q == s.out
           U == T \cup {p}
<1>3. q \in Seq(U) /\ p \in U
  BY <1>1
<1> HIDE DEF p, q, U
<1>4. \E W : u \in Seq(W)
  <2>1. Append(q, p) \in Seq(U)
    BY <1>3
  <2> QED
    BY <2>1 DEF q
<1>6. \A i \in DOMAIN u : u[i] = p \/ (i \in DOMAIN s.out /\ u[i] = s.out[i])
  <2>1. \A i \in DOMAIN Append(q, p) :
           Append(q, p)[i] = p \/ (i \in DOMAIN q /\ Append(q, p)[i] = q[i])
    BY <1>3, PutFacts
  <2> QED
    BY <2>1 DEF q
<1>5. Send(s, c, type, arg).out = u /\ DOMAIN Send(s, c, type, arg) = DOMAIN s
  BY DEF Send, Plain, p
<1> HIDE DEF u
<1> QED
  BY <1>2, <1>4, <1>5, <1>6 DEF Plain

\* A presence message is not forwarded.
LEMMA AnnouncePlain ==
    ASSUME NEW s, Plain(s), NEW c, NEW type \in {"join", "leave"}, NEW role
    PROVE  Plain(Announce(s, c, type, role))
<1> DEFINE t == Send(s, c, type, role)
<1>1. Plain(t)
  BY SendPlain DEF ForwardedType
<1> HIDE DEF t
<1>2. DOMAIN Announce(s, c, type, role) = DOMAIN t /\ Announce(s, c, type, role).out = t.out
  BY <1>1 DEF Announce, Plain, t
<1> QED
  BY <1>1, <1>2, PlainSame

\* putRoom sends nothing.
LEMMA PutRoomPlain ==
    ASSUME NEW s, Plain(s), NEW room
    PROVE  Plain(PutRoom(s, room))
<1>1. DOMAIN PutRoom(s, room) = DOMAIN s /\ PutRoom(s, room).out = s.out
  BY DEF PutRoom, Plain
<1> QED
  BY <1>1, PlainSame

\* A join sends join messages, an error or a ping.
LEMMA EnterRoomPlain ==
    ASSUME NEW s, Plain(s), NEW c, NEW name, NEW role
    PROVE  Plain(EnterRoom(s, c, name, role))
<1> DEFINE room == RoomOf(s, name)
           in == [GetRoom(s, name) EXCEPT !.clients[c] = room]
           seated == [in EXCEPT !.seats[room][role] = c]
           waiter == in.waiting[room][role]
           refused == IF waiter = NoClient THEN in
                      ELSE Send(in, waiter, "error", "RoleTaken")
           queued == [refused EXCEPT !.waiting[room][role] = c]
<1>1. Plain(in)
  <2>1. DOMAIN in = DOMAIN s /\ in.out = s.out
    BY DEF GetRoom, Plain
  <2> QED
    BY <2>1, PlainSame
<1>2. Plain(TakeSeat(in, c, room, role))
  <2> HIDE DEF in
  <2>1. Plain(seated)
    <3>1. DOMAIN seated = DOMAIN in /\ seated.out = in.out
      BY <1>1 DEF Plain
    <3> QED
      BY <1>1, <3>1, PlainSame
  <2> HIDE DEF seated
  <2>2. Plain(Greet(seated, c, room, role))
    <3> DEFINE peer == seated.seats[room][Opposite(role)]
               told1 == Announce(seated, peer, "join", role)
    <3>1. Plain(told1)
      BY <2>1, AnnouncePlain
    <3> HIDE DEF told1
    <3>2. Plain(Announce(told1, c, "join", Opposite(role)))
      BY <3>1, AnnouncePlain
    <3> QED
      BY <2>1, <3>2 DEF Greet, told1
  <2> QED
    BY <2>2 DEF TakeSeat, seated
<1>3. Plain(QueueBehind(in, c, room, role))
  <2> HIDE DEF in
  <2>1. Plain(refused)
    <3>1. Plain(Send(in, waiter, "error", "RoleTaken"))
      BY <1>1, SendPlain DEF ForwardedType
    <3> QED
      BY <1>1, <3>1
  <2> HIDE DEF refused
  <2>2. Plain(queued)
    <3>1. DOMAIN queued = DOMAIN refused /\ queued.out = refused.out
      BY <2>1 DEF Plain
    <3> QED
      BY <2>1, <3>1, PlainSame
  <2> HIDE DEF queued
  <2>3. Plain(Send(queued, in.seats[room][role], "ws-ping", NoRole))
    BY <2>2, SendPlain DEF ForwardedType
  <2> QED
    BY <2>3 DEF QueueBehind, queued, refused
<1>4. EnterRoom(s, c, name, role)
        = PutRoom(IF in.seats[room][role] = NoClient THEN TakeSeat(in, c, room, role)
                  ELSE QueueBehind(in, c, room, role), room)
  BY DEF EnterRoom
<1> HIDE DEF in
<1> QED
  BY <1>2, <1>3, <1>4, PutRoomPlain

\* A leave sends leave messages, and what the join of the waiter sends.
LEMMA VacatePlain ==
    ASSUME NEW s, Plain(s), NEW c, NEW room
    PROVE  Plain(Vacate(s, c, room))
<1> DEFINE gone == [s EXCEPT !.waiting[room] = Without(c, @),
                             !.seats[room] = Without(c, @),
                             !.told[c] = FALSE]
           role == SeatOf(s, c, room)
           peer == gone.seats[room][Opposite(role)]
<1>1. Plain(gone)
  <2>1. DOMAIN gone = DOMAIN s /\ gone.out = s.out
    BY DEF Plain
  <2> QED
    BY <2>1, PlainSame
<1>2. Vacate(s, c, room) = IF role = NoRole \/ peer = NoClient THEN gone
                           ELSE Announce(gone, peer, "leave", role)
  BY DEF Vacate
<1> HIDE DEF gone
<1>3. Plain(Announce(gone, peer, "leave", role))
  BY <1>1, AnnouncePlain
<1> QED
  BY <1>1, <1>2, <1>3

\* Nothing is sent when a room is forgotten.
LEMMA ForgetPlain ==
    ASSUME NEW s, Plain(s), NEW c, NEW room
    PROVE  Plain(Forget(s, c, room))
<1> DEFINE t == [s EXCEPT !.clients[c] = NoRoom]
<1>1. Plain(t)
  <2>1. DOMAIN t = DOMAIN s /\ t.out = s.out
    BY DEF Plain
  <2> QED
    BY <2>1, PlainSame
<1> HIDE DEF t
<1>2. Plain(PutRoom(t, room))
  BY <1>1, PutRoomPlain
<1> QED
  BY <1>2 DEF Forget, t

\* The leave of a client, with the join of the waiter that gets its seat.
LEMMA LeaveRoomPlain ==
    ASSUME NEW s, Plain(s), NEW c
    PROVE  Plain(LeaveRoom(s, c))
<1> DEFINE room == s.clients[c]
           role == SeatOf(s, c, room)
           vacated == Vacate(s, c, room)
           w == vacated.waiting[room][role]
           left == LeaveWaiter(vacated, w, room)
<1>1. Plain(vacated)
  BY VacatePlain
<1> HIDE DEF vacated
<1>2. Plain(left)
  BY <1>1, VacatePlain, ForgetPlain DEF LeaveWaiter
<1> HIDE DEF left
<1>3. Plain(EnterRoom(left, w, NameOf(room), role))
  BY <1>2, EnterRoomPlain
<1>4. Plain(Promote(vacated, room, role))
  BY <1>1, <1>3 DEF Promote, left
<1>5. Plain(Forget(Promote(vacated, room, role), c, room))
  BY <1>4, ForgetPlain
<1> QED
  BY <1>5 DEF LeaveRoom, vacated

\* The handler of a join.
LEMMA JoinRoomPlain ==
    ASSUME NEW s, Plain(s), NEW c, NEW spelling, NEW role
    PROVE  Plain(JoinRoom(s, c, spelling, role))
<1>1. Plain(Send(s, c, "error", "BadMessage")) /\ Plain(Send(s, c, "error", "BadRoom"))
  BY SendPlain DEF ForwardedType
<1>2. Plain(EnterRoom(LeaveRoom(s, c), c, Canonical[spelling], role))
  BY LeaveRoomPlain, EnterRoomPlain
<1> QED
  BY <1>1, <1>2 DEF JoinRoom

\* handleAlive sends errors only.
LEMMA RefuseWaiterPlain ==
    ASSUME NEW s, Plain(s), NEW c
    PROVE  Plain(RefuseWaiter(s, c))
<1> DEFINE room == s.clients[c]
           role == SeatOf(s, c, room)
           waiter == s.waiting[room][role]
           said == Send(s, waiter, "error", "RoleTaken")
           refused == [said EXCEPT !.waiting[room][role] = NoClient]
<1>1. Plain(said)
  BY SendPlain DEF ForwardedType
<1> HIDE DEF said
<1>2. Plain(refused)
  <2>1. DOMAIN refused = DOMAIN said /\ refused.out = said.out
    BY <1>1 DEF Plain
  <2> QED
    BY <1>1, <2>1, PlainSame
<1> HIDE DEF refused
<1>3. Plain(PutRoom(IF role = NoRole \/ waiter = NoClient THEN s ELSE refused, room))
  BY <1>2, PutRoomPlain
<1> QED
  BY <1>3 DEF RefuseWaiter, refused, said

\* The router starts a handler with nothing to send.
LEMMA CurrentPlain == Plain(Current)
<1>1. Current.out \in Seq({}) /\ DOMAIN Current.out = {}
  BY DEF Current
<1> QED
  BY <1>1 DEF Plain, Current

\* A forward sends the payload, once to each occupant but the sender.
Passes(t, c, type, payload) ==
    /\ \A i \in DOMAIN t.out : Forwarded(t.out[i]) =>
          t.out[i].type = type /\ t.out[i].arg = payload /\ t.out[i].to # c
    /\ \A i, j \in DOMAIN t.out :
          Forwarded(t.out[i]) /\ Forwarded(t.out[j]) /\ i # j => t.out[i].to # t.out[j].to

\* A forward passes its payload on so.
LEMMA ForwardPasses ==
    ASSUME NEW s, Good(s), s.out = <<>>, NEW c \in Client, NEW type \in ForwardedType,
           NEW payload \in Payload, NEW first \in Role
    PROVE  Passes(ForwardFrom(s, c, type, payload, first), c, type, payload)
<1> DEFINE room == s.clients[c]
           a == s.seats[room][first]
           b == s.seats[room][Opposite(first)]
           pa == [to |-> a, type |-> type, arg |-> payload]
           pb == [to |-> b, type |-> type, arg |-> payload]
           t == ForwardFrom(s, c, type, payload, first)
<1>1. s \in State /\ room \in Room \cup {NoRoom}
  BY DEF Good, Core, State
<1>2. CASE room = NoRoom
  <2>1. t = Send(s, c, "error", "NoRoom")
    BY <1>2 DEF ForwardFrom
  <2>2. t.out = <<[to |-> c, type |-> "error", arg |-> "NoRoom"]>>
    BY <1>1, <2>1 DEF Send, State
  <2>3. type # "error" /\ ~ Forwarded([to |-> c, type |-> "error", arg |-> "NoRoom"])
    BY DEF Forwarded, ForwardedType
  <2> DEFINE p == [to |-> c, type |-> "error", arg |-> "NoRoom"]
  <2> HIDE DEF t, p
  <2>4. \A i \in DOMAIN t.out : ~ Forwarded(t.out[i])
    BY <2>2, <2>3 DEF p
  <2>5. Passes(t, c, type, payload)
    BY <2>4 DEF Passes
  <2> QED
    BY <2>5 DEF t
<1>3. CASE room # NoRoom
  <2>1. a # b \/ a = NoClient
    <3>1. room \in Room /\ a \in Client \cup {NoClient} /\ Opposite(first) \in Role
      BY <1>1, <1>3, RoleFacts DEF State
    <3> QED
      BY <3>1 DEF Good, Core, OnePlaceIn
  <2> DEFINE Pass(u, p) == IF p.to \in {NoClient, c} THEN u ELSE [u EXCEPT !.out = Append(@, p)]
             u1 == Pass(s, pa)
             u2 == Pass(u1, pb)
  <2>2. t = PutRoom(u2, room)
    BY <1>3 DEF ForwardFrom, Send
  <2>3. DOMAIN u2 = DOMAIN s
        /\ u2.out = (IF a \in {NoClient, c} THEN <<>> ELSE <<pa>>)
                    \o (IF b \in {NoClient, c} THEN <<>> ELSE <<pb>>)
    <3>1. DOMAIN u1 = DOMAIN s /\ u1.out = (IF a \in {NoClient, c} THEN <<>> ELSE <<pa>>)
      BY <1>1 DEF State
    <3> HIDE DEF u1
    <3>2. DOMAIN u2 = DOMAIN s
          /\ u2.out = (IF b \in {NoClient, c} THEN u1.out ELSE Append(u1.out, pb))
      BY <1>1, <3>1 DEF State
    <3> HIDE DEF u2, pa, pb
    <3>3. Append(<<pa>>, pb) = <<pa>> \o <<pb>> /\ Append(<<>>, pb) = <<>> \o <<pb>>
          /\ <<pa>> \o <<>> = <<pa>> /\ <<>> \o <<>> = <<>>
      OBVIOUS
    <3> QED
      BY <3>1, <3>2, <3>3
  <2> HIDE DEF u2
  <2>4. t.out = u2.out
    BY <1>1, <2>2, <2>3 DEF PutRoom, State
  <2>5. /\ pa.to = a /\ pa.type = type /\ pa.arg = payload
        /\ pb.to = b /\ pb.type = type /\ pb.arg = payload
    OBVIOUS
  <2> HIDE DEF t, pa, pb, a, b
  <2>6. ASSUME a \in {NoClient, c} /\ b \in {NoClient, c}
        PROVE  Passes(t, c, type, payload)
    <3>1. t.out = <<>>
      BY <2>3, <2>4, <2>6
    <3> QED
      BY <3>1 DEF Passes
  <2>7. ASSUME a \in {NoClient, c} /\ b \notin {NoClient, c}
        PROVE  Passes(t, c, type, payload)
    <3>1. t.out = <<pb>>
      BY <2>3, <2>4, <2>7
    <3>2. DOMAIN t.out = {1} /\ t.out[1] = pb
      BY <3>1
    <3> QED
      BY <2>5, <2>7, <3>2 DEF Passes
  <2>8. ASSUME a \notin {NoClient, c} /\ b \in {NoClient, c}
        PROVE  Passes(t, c, type, payload)
    <3>1. t.out = <<pa>>
      BY <2>3, <2>4, <2>8
    <3>2. DOMAIN t.out = {1} /\ t.out[1] = pa
      BY <3>1
    <3> QED
      BY <2>5, <2>8, <3>2 DEF Passes
  <2>9. ASSUME a \notin {NoClient, c} /\ b \notin {NoClient, c}
        PROVE  Passes(t, c, type, payload)
    <3>1. t.out = <<pa>> \o <<pb>>
      BY <2>3, <2>4, <2>9
    <3>2. DOMAIN t.out = {1, 2} /\ t.out[1] = pa /\ t.out[2] = pb
      BY <3>1
    <3> QED
      BY <2>1, <2>5, <2>9, <3>2 DEF Passes
  <2>10. Passes(t, c, type, payload)
    BY <2>6, <2>7, <2>8, <2>9
  <2> QED
    BY <2>10 DEF t
<1> QED
  BY <1>2, <1>3

\* What the handler of m sends: nothing forwarded, or the payload of m.
LEMMA HandleSends ==
    ASSUME IInv, NEW m \in Queued, Handle(m)
    PROVE  /\ \A i \in DOMAIN out' : Forwarded(out'[i]) =>
                 Forwarded(m) /\ out'[i].arg = m.payload
           /\ \A i, j \in DOMAIN out' :
                 Forwarded(out'[i]) /\ Forwarded(out'[j]) /\ i # j => out'[i].to # out'[j].to
<1> DEFINE c == m.origin
<1>1. ASSUME NEW s, Become(s), Plain(s)
      PROVE  \A i \in DOMAIN out' : ~ Forwarded(out'[i])
  BY <1>1 DEF Become, Plain
<1>2. CASE Ping(c) \/ BadType(c)
  BY <1>1, <1>2, CurrentPlain, SendPlain DEF Ping, BadType, ForwardedType
<1>3. CASE Join(c, m.room, m.role)
  BY <1>1, <1>3, CurrentPlain, JoinRoomPlain DEF Join
<1>4. CASE Leave(c)
  BY <1>1, <1>4, CurrentPlain, LeaveRoomPlain DEF Leave
<1>5. CASE m.type \in ForwardedType /\ Forward(c, m.type, m.payload)
  <2>1. m.payload \in Payload /\ c \in Client /\ Good(Current) /\ Current.out = <<>>
    BY <1>5, QueuedFacts, CurrentGood DEF Current
  <2>2. PICK first \in Role : Become(ForwardFrom(Current, c, m.type, m.payload, first))
    BY <1>5 DEF Forward
  <2>3. Passes(ForwardFrom(Current, c, m.type, m.payload, first), c, m.type, m.payload)
    BY <1>5, <2>1, ForwardPasses
  <2>4. out' = ForwardFrom(Current, c, m.type, m.payload, first).out
    BY <2>2 DEF Become
  <2> QED
    BY <1>5, <2>3, <2>4 DEF Passes, Forwarded
<1> QED
  BY <1>2, <1>3, <1>4, <1>5 DEF Handle

\* Nor does handleAlive send anything forwarded.
LEMMA AliveSends ==
    ASSUME NEW c, Alive(c)
    PROVE  \A i \in DOMAIN out' : ~ Forwarded(out'[i])
<1>1. Plain(RefuseWaiter(Current, c))
  BY CurrentPlain, RefuseWaiterPlain
<1> QED
  BY <1>1 DEF Alive, Become, Plain

-----------------------------------------------------------------------------
(* The ways of the queue and the readers.                                  *)

\* The router takes the head of its queue.
LEMMA TakingFits ==
    ASSUME NEW q \in Seq(Queued), q # <<>>, NEW r, NEW n
    PROVE  /\ QueueFits(q, n) => QueueFits(Tail(q), n)
           /\ \A c : ReadingFits(c, q, r, n) => ReadingFits(c, Tail(q), r, n)
           /\ \A p : PacketFits(p, q, r, n) => PacketFits(p, Tail(q), r, n)
<1> DEFINE u == Tail(q)
<1>1. /\ \A i \in DOMAIN u : i + 1 \in DOMAIN q /\ u[i] = q[i + 1]
      /\ \A i, j \in DOMAIN u : i < j => i + 1 < j + 1
  BY TakenFacts
<1> HIDE DEF u
<1>2. ASSUME QueueFits(q, n)
      PROVE  QueueFits(u, n)
  BY <1>1, <1>2 DEF QueueFits
<1>3. ASSUME NEW c, ReadingFits(c, q, r, n)
      PROVE  ReadingFits(c, u, r, n)
  BY <1>1, <1>3 DEF ReadingFits
<1>4. ASSUME NEW p, PacketFits(p, q, r, n)
      PROVE  PacketFits(p, u, r, n)
  BY <1>1, <1>4 DEF PacketFits
<1> QED
  BY <1>2, <1>3, <1>4 DEF u

\* Something that is not forwarded is pushed: the last leave, or a reader's message.
LEMMA PushingFits ==
    ASSUME NEW q \in Seq(Queued), NEW m \in Queued, ~ Forwarded(m), NEW r, NEW n
    PROVE  /\ QueueFits(q, n) => QueueFits(Append(q, m), n)
           /\ \A c : ReadingFits(c, q, r, n) => ReadingFits(c, Append(q, m), r, n)
           /\ \A p : PacketFits(p, q, r, n) => PacketFits(p, Append(q, m), r, n)
<1> DEFINE u == Append(q, m)
<1>1. \A i \in DOMAIN u : Forwarded(u[i]) => i \in DOMAIN q /\ u[i] = q[i]
  BY PutFacts
<1> HIDE DEF u
<1>2. ASSUME QueueFits(q, n)
      PROVE  QueueFits(u, n)
  BY <1>1, <1>2 DEF QueueFits
<1>3. ASSUME NEW c, ReadingFits(c, q, r, n)
      PROVE  ReadingFits(c, u, r, n)
  BY <1>1, <1>3 DEF ReadingFits
<1>4. ASSUME NEW p, PacketFits(p, q, r, n)
      PROVE  PacketFits(p, u, r, n)
  BY <1>1, <1>4 DEF PacketFits
<1> QED
  BY <1>2, <1>3, <1>4 DEF u

\* A reader pushes what it holds.
LEMMA HandingFits ==
    ASSUME NEW q \in Seq(Queued), NEW r, DOMAIN r = Client, NEW n, NEW c \in Client,
           n[c] \in Nat, r[c] \in Queued, r[c].origin = c,
           QueueFits(q, n), \A d \in Client : ReadingFits(d, q, r, n)
    PROVE  LET u == Append(q, r[c])
               v == [r EXCEPT ![c] = NoMessage]
           IN /\ QueueFits(u, n)
              /\ \A d \in Client : ReadingFits(d, u, v, n)
              /\ \A p : PacketFits(p, q, r, n) => PacketFits(p, u, v, n)
<1> DEFINE m == r[c]
           u == Append(q, m)
           v == [r EXCEPT ![c] = NoMessage]
           l == Len(q) + 1
<1>1. /\ \A i \in DOMAIN u : i = l \/ i \in DOMAIN q
      /\ \A i \in DOMAIN q : u[i] = q[i] /\ i < l
      /\ u[l] = m /\ l \in Nat /\ DOMAIN q \subseteq Nat
  BY PutFacts
<1>2. /\ v[c] = NoMessage /\ \A d \in Client : d # c => v[d] = r[d]
      /\ ~ Forwarded(NoMessage)
  BY DEF Forwarded, ForwardedType, NoMessage
<1>3. Forwarded(m) =>
         /\ m.payload[1] = c /\ m.payload[2] = n[c] /\ n[c] \in 1 .. n[c]
         /\ \A i \in DOMAIN q : Forwarded(q[i]) /\ q[i].origin = c
                                    => q[i].payload[2] < n[c]
  BY DEF ReadingFits
<1>4. m.origin = c
  OBVIOUS
<1> HIDE DEF m, u, v, l
<1>5. QueueFits(u, n)
  <2>1. ASSUME NEW i \in DOMAIN u, Forwarded(u[i])
        PROVE  /\ u[i].payload[1] = u[i].origin
               /\ u[i].payload[2] \in 1 .. n[u[i].origin]
    BY <1>1, <1>3, <1>4, <2>1 DEF QueueFits
  <2>2. ASSUME NEW i \in DOMAIN u, NEW j \in DOMAIN u, i < j,
               Forwarded(u[i]), Forwarded(u[j]), u[i].origin = u[j].origin
        PROVE  u[i].payload[2] < u[j].payload[2]
    <3>1. i \in DOMAIN q
      BY <1>1, <2>2
    <3>2. CASE j = l
      BY <1>1, <1>3, <1>4, <2>2, <3>1, <3>2
    <3>3. CASE j # l
      BY <1>1, <2>2, <3>1, <3>3 DEF QueueFits
    <3> QED
      BY <3>2, <3>3
  <2> QED
    BY <2>1, <2>2 DEF QueueFits
<1>6. ASSUME NEW d \in Client
      PROVE  ReadingFits(d, u, v, n)
  <2>1. CASE d = c
    BY <1>2, <2>1 DEF ReadingFits
  <2>2. CASE d # c
    BY <1>1, <1>2, <1>4, <2>2 DEF ReadingFits
  <2> QED
    BY <2>1, <2>2
<1>7. ASSUME NEW p, PacketFits(p, q, r, n)
      PROVE  PacketFits(p, u, v, n)
  <2> SUFFICES ASSUME Forwarded(p)
               PROVE  PacketFits(p, u, v, n)
    BY DEF PacketFits
  <2>1. /\ p.arg[1] \in Client /\ p.arg[2] \in 1 .. n[p.arg[1]]
        /\ \A i \in DOMAIN q :
              Forwarded(q[i]) /\ q[i].origin = p.arg[1] => p.arg[2] < q[i].payload[2]
        /\ Forwarded(r[p.arg[1]]) => p.arg[2] < n[p.arg[1]]
    BY <1>7 DEF PacketFits
  <2>2. ASSUME NEW i \in DOMAIN u, Forwarded(u[i]), u[i].origin = p.arg[1]
        PROVE  p.arg[2] < u[i].payload[2]
    <3>1. CASE i = l
      BY <1>1, <1>3, <1>4, <2>1, <2>2, <3>1 DEF m
    <3>2. CASE i # l
      BY <1>1, <2>1, <2>2, <3>2
    <3> QED
      BY <3>1, <3>2
  <2>3. Forwarded(v[p.arg[1]]) => p.arg[2] < n[p.arg[1]]
    BY <1>2, <2>1
  <2> QED
    BY <2>1, <2>2, <2>3 DEF PacketFits
<1> QED
  BY <1>5, <1>6, <1>7 DEF m, u, v

\* A reader reads its next message.
LEMMA ReadingNextFits ==
    ASSUME NEW q \in Seq(Queued), NEW r, DOMAIN r = Client, NEW n, DOMAIN n = Client,
           NEW c \in Client, \A d \in Client : n[d] \in Nat,
           NEW m \in Readable(c, n[c] + 1),
           QueueFits(q, n), \A d \in Client : ReadingFits(d, q, r, n)
    PROVE  LET v == [r EXCEPT ![c] = m]
               k == [n EXCEPT ![c] = @ + 1]
           IN /\ QueueFits(q, k)
              /\ \A d \in Client : ReadingFits(d, q, v, k)
              /\ \A p : PacketFits(p, q, r, n) => PacketFits(p, q, v, k)
<1> DEFINE v == [r EXCEPT ![c] = m]
           k == [n EXCEPT ![c] = n[c] + 1]
<1>1. Forwarded(m) => m.payload = <<c, n[c] + 1>>
  BY DEF Readable, Forwarded, ForwardedType
<1>2. /\ v[c] = m /\ k[c] = n[c] + 1
      /\ \A d \in Client : d # c => v[d] = r[d] /\ k[d] = n[d]
      /\ \A d \in Client : k[d] \in Nat /\ n[d] <= k[d] /\ 1 .. n[d] \subseteq 1 .. k[d]
  OBVIOUS
<1>3. \A i \in DOMAIN q : q[i].origin \in Client
  BY QueuedFacts
<1> HIDE DEF v, k
<1>4. QueueFits(q, k)
  BY <1>2, <1>3 DEF QueueFits
<1>5. ASSUME NEW d \in Client
      PROVE  ReadingFits(d, q, v, k)
  <2>1. CASE d = c
    <3>1. ASSUME NEW i \in DOMAIN q, Forwarded(q[i]), q[i].origin = c
          PROVE  q[i].payload[2] < k[c]
      BY <1>2, <3>1 DEF QueueFits
    <3> QED
      BY <1>1, <1>2, <2>1, <3>1 DEF ReadingFits
  <2>2. CASE d # c
    BY <1>2, <2>2 DEF ReadingFits
  <2> QED
    BY <2>1, <2>2
<1>6. ASSUME NEW p, PacketFits(p, q, r, n)
      PROVE  PacketFits(p, q, v, k)
  <2>1. CASE p.arg[1] = c
    BY <1>2, <1>6, <2>1 DEF PacketFits
  <2>2. CASE p.arg[1] # c
    BY <1>2, <1>6, <2>2 DEF PacketFits
  <2> QED
    BY <2>1, <2>2
<1> QED
  BY <1>4, <1>5, <1>6 DEF v, k

-----------------------------------------------------------------------------
(* The steps.                                                              *)

\* What the invariant is about.
LEMMA TypesOfOrder ==
    ASSUME SInv
    PROVE  /\ queue \in Seq(Queued) /\ out \in Seq(Packet)
           /\ DOMAIN reading = Client /\ DOMAIN sent = Client
           /\ \A c \in Client : sent[c] \in Nat
           /\ outgoing \in [Client -> Seq(Packet)]
<1>1. out \in Seq(Packet)
  BY WholeFields DEF SInv, IInv, Good, Core, State
<1>2. ASSUME NEW c \in Client
      PROVE  sent[c] \in Nat
  <2>1. MaxSent[c] \in Nat /\ sent[c] \in 0 .. MaxSent[c]
    BY Capacities DEF SInv, ThreadsOK, ReaderOK
  <2> QED
    BY <2>1
<1> QED
  BY <1>1, <1>2 DEF SInv, ChannelsOK, ThreadsOK

\* Nothing is on the way at first.
LEMMA OrderAtFirst == ServerInit => OrderInv
<1> SUFFICES ASSUME ServerInit
             PROVE  OrderInv
  OBVIOUS
<1>1. /\ queue = <<>> /\ out = <<>> /\ \A d \in Client : outgoing[d] = <<>>
      /\ \A c \in Client : reading[c] = NoMessage
  BY DEF ServerInit, Init
<1>2. ~ Forwarded(NoMessage)
  BY DEF Forwarded, ForwardedType, NoMessage
<1> QED
  BY <1>1, <1>2 DEF OrderInv, QueueFits, ReadingFits, LinesFit

\* The router handles the head of its queue; what it sends is ahead of the rest.
LEMMA TakeMessageOrder ==
    ASSUME SInv, OrderInv, TakeMessage
    PROVE  OrderInv'
<1> DEFINE m == Head(queue)
<1>1. /\ queue \in Seq(Queued) /\ queue # <<>> /\ queue' = Tail(queue) /\ m \in Queued
      /\ Handle(m) /\ out = <<>> /\ UNCHANGED <<outgoing, reading, sent>>
  BY TakeMessageGood, TypesOfOrder DEF TakeMessage, threads
<1>2. /\ \A i \in DOMAIN out' : Forwarded(out'[i]) => Forwarded(m) /\ out'[i].arg = m.payload
      /\ \A i, j \in DOMAIN out' :
            Forwarded(out'[i]) /\ Forwarded(out'[j]) /\ i # j => out'[i].to # out'[j].to
  BY <1>1, HandleSends DEF SInv
<1>3. m = queue[1] /\ 1 \in DOMAIN queue /\ m.origin \in Client
  BY <1>1, QueuedFacts
<1>4. Forwarded(m) =>
         /\ m.payload[1] = m.origin /\ m.payload[2] \in 1 .. sent[m.origin]
         /\ \A i \in DOMAIN queue' : Forwarded(queue'[i]) /\ queue'[i].origin = m.origin
                                        => m.payload[2] < queue'[i].payload[2]
         /\ Forwarded(reading[m.origin]) => m.payload[2] < sent[m.origin]
  <2>1. \A i \in DOMAIN queue' : /\ i + 1 \in DOMAIN queue /\ queue'[i] = queue[i + 1]
                                 /\ 1 < i + 1
    BY <1>1, TakenFacts
  <2> HIDE DEF m
  <2> QED
    BY <1>3, <2>1 DEF OrderInv, QueueFits, ReadingFits
<1>5. /\ QueueFits(queue', sent)
      /\ \A c \in Client : ReadingFits(c, queue', reading, sent)
      /\ \A d \in Client : \A i \in DOMAIN outgoing[d] :
            PacketFits(outgoing[d][i], queue', reading, sent)
  BY <1>1, TakingFits DEF OrderInv
<1> HIDE DEF m
<1>6. ASSUME NEW i \in DOMAIN out'
      PROVE  PacketFits(out'[i], queue', reading, sent)
  BY <1>2, <1>3, <1>4 DEF PacketFits
<1>7. LinesFit(outgoing, out')
  <2>1. ASSUME NEW i \in DOMAIN out', NEW j \in DOMAIN out', i # j, out'[i].to = out'[j].to
        PROVE  Before(out'[i], out'[j])
    BY <1>2, <2>1 DEF Before
  <2>2. ASSUME NEW d \in Client, NEW i \in DOMAIN outgoing[d], NEW j \in DOMAIN out'
        PROVE  Before(outgoing[d][i], out'[j])
    <3> DEFINE p == outgoing[d][i]
    <3>1. PacketFits(p, queue, reading, sent)
      BY DEF OrderInv
    <3> HIDE DEF p
    <3>2. ASSUME Forwarded(p), Forwarded(out'[j]), p.arg[1] = out'[j].arg[1]
          PROVE  p.arg[2] < out'[j].arg[2]
      BY <1>2, <1>3, <1>4, <3>1, <3>2 DEF PacketFits
    <3> QED
      BY <3>2 DEF Before, p
  <2>3. \A i, j \in DOMAIN out' : i < j => i # j
    <3>1. out' \in Seq(Packet)
      <4>1. IInv' /\ Whole'.out = out'
        BY TakeMessageGood DEF SInv, Whole, Current
      <4> QED
        BY <4>1 DEF IInv, Good, Core, State
    <3> QED
      BY <3>1
  <2> QED
    BY <2>1, <2>2, <2>3 DEF OrderInv, LinesFit
<1> QED
  BY <1>1, <1>5, <1>6, <1>7 DEF OrderInv

\* handleAlive forwards nothing.
LEMMA TakeAliveOrder ==
    ASSUME SInv, OrderInv, TakeAlive
    PROVE  OrderInv'
<1>1. UNCHANGED <<queue, outgoing, reading, sent>>
  BY DEF TakeAlive, threads
<1>2. \A i \in DOMAIN out' : ~ Forwarded(out'[i])
  BY TakeAliveGood, AliveSends DEF TakeAlive
<1> QED
  BY <1>1, <1>2 DEF OrderInv, LinesFit, PacketFits, Before

\* The first packet of the handler is handed over or lost.
LEMMA DeliverOrder ==
    ASSUME SInv, OrderInv, Deliver
    PROVE  OrderInv'
<1> DEFINE p == Head(out)
           d == p.to
<1>0. UNCHANGED <<queue, reading, sent>> /\ out' = Tail(out) /\ out # <<>>
  BY DEF Deliver, DeliverSend, DeliverPing, DeliverNowhere, Sent, threads
<1>1. out \in Seq(Packet) /\ outgoing \in [Client -> Seq(Packet)] /\ p \in Packet /\ d \in Client
  <2>1. out \in Seq(Packet) /\ outgoing \in [Client -> Seq(Packet)]
    BY TypesOfOrder
  <2>2. p \in Packet
    BY <1>0, <2>1, TakenFacts
  <2> HIDE DEF p
  <2> QED
    BY <2>1, <2>2 DEF Packet
<1>2. /\ p = out[1] /\ 1 \in DOMAIN out
      /\ \A i \in DOMAIN out' : i + 1 \in DOMAIN out /\ out'[i] = out[i + 1] /\ 1 < i + 1
      /\ \A i, j \in DOMAIN out' : i < j => i + 1 < j + 1
  BY <1>0, <1>1, TakenFacts
<1> HIDE DEF p
<1>3. \A i \in DOMAIN out' : PacketFits(out'[i], queue, reading, sent)
  BY <1>2 DEF OrderInv
<1>4. CASE outgoing' = outgoing
  <2>1. LinesFit(outgoing, out')
    BY <1>2 DEF OrderInv, LinesFit
  <2> QED
    BY <1>0, <1>3, <1>4, <2>1 DEF OrderInv
<1>5. CASE outgoing' = [outgoing EXCEPT ![d] = Append(@, p)]
  <2> DEFINE u == Append(outgoing[d], p)
             l == Len(outgoing[d]) + 1
  <2>1. /\ \A i \in DOMAIN u : i = l \/ i \in DOMAIN outgoing[d]
        /\ \A i \in DOMAIN outgoing[d] : u[i] = outgoing[d][i] /\ i < l
        /\ u[l] = p /\ l \in Nat /\ DOMAIN outgoing[d] \subseteq Nat
    BY <1>1, PutFacts
  <2>2. outgoing'[d] = u /\ \A e \in Client : e # d => outgoing'[e] = outgoing[e]
    BY <1>1, <1>5
  <2> HIDE DEF u, l
  <2>3. ASSUME NEW e \in Client, NEW i \in DOMAIN outgoing'[e]
        PROVE  PacketFits(outgoing'[e][i], queue, reading, sent)
    BY <1>1, <1>2, <2>1, <2>2 DEF OrderInv
  <2>4. ASSUME NEW e \in Client, NEW i \in DOMAIN outgoing'[e], NEW j \in DOMAIN outgoing'[e],
               i < j
        PROVE  Before(outgoing'[e][i], outgoing'[e][j])
    <3>1. CASE e = d /\ j = l
      <4>1. i \in DOMAIN outgoing[d] /\ outgoing'[e][i] = outgoing[d][i] /\ outgoing'[e][j] = p
        BY <2>1, <2>2, <2>4, <3>1
      <4> QED
        BY <1>1, <1>2, <4>1 DEF OrderInv, LinesFit
    <3>2. CASE e = d /\ j # l
      <4>1. /\ i \in DOMAIN outgoing[d] /\ j \in DOMAIN outgoing[d]
            /\ outgoing'[e][i] = outgoing[d][i] /\ outgoing'[e][j] = outgoing[d][j]
        BY <2>1, <2>2, <2>4, <3>2
      <4> QED
        BY <1>1, <2>4, <4>1 DEF OrderInv, LinesFit
    <3>3. CASE e # d
      BY <2>2, <2>4, <3>3 DEF OrderInv, LinesFit
    <3> QED
      BY <3>1, <3>2, <3>3
  <2>5. ASSUME NEW e \in Client, NEW i \in DOMAIN outgoing'[e], NEW j \in DOMAIN out',
               out'[j].to = e
        PROVE  Before(outgoing'[e][i], out'[j])
    <3>1. CASE e = d /\ i = l
      BY <1>2, <2>1, <2>2, <2>5, <3>1 DEF OrderInv, LinesFit
    <3>2. CASE e # d \/ i # l
      <4>1. i \in DOMAIN outgoing[e] /\ outgoing'[e][i] = outgoing[e][i]
        BY <2>1, <2>2, <2>5, <3>2
      <4> QED
        BY <1>2, <2>5, <4>1 DEF OrderInv, LinesFit
    <3> QED
      BY <3>1, <3>2
  <2>6. \A i, j \in DOMAIN out' : i < j /\ out'[i].to = out'[j].to => Before(out'[i], out'[j])
    BY <1>2 DEF OrderInv, LinesFit
  <2>7. LinesFit(outgoing', out')
    BY <2>4, <2>5, <2>6 DEF LinesFit
  <2> QED
    BY <1>0, <1>3, <2>3, <2>7 DEF OrderInv
<1> QED
  BY <1>4, <1>5 DEF Deliver, DeliverSend, DeliverPing, DeliverNowhere, p

\* The readers number what they read and push it in that order.
LEMMA ReaderOrder ==
    ASSUME SInv, OrderInv, NEW c \in Client,
           ReadMessage(c) \/ ReadPong(c) \/ PushAlive(c) \/ PushMessage(c) \/ ReadError(c)
    PROVE  OrderInv'
<1>0. /\ queue \in Seq(Queued) /\ DOMAIN reading = Client /\ DOMAIN sent = Client
      /\ \A d \in Client : sent[d] \in Nat
      /\ ReaderOK(c) /\ UNCHANGED <<outgoing, out>>
  BY TypesOfOrder DEF SInv, ThreadsOK, ReadMessage, ReadPong, PushAlive, PushMessage, ReadError,
     Reads, vars
<1>1. CASE ReadMessage(c)
  <2>1. PICK m \in Readable(c, sent[c] + 1) : reading' = [reading EXCEPT ![c] = m]
    BY <1>1 DEF ReadMessage, Reads
  <2>2. queue' = queue /\ sent' = [sent EXCEPT ![c] = @ + 1]
    BY <1>1 DEF ReadMessage
  <2>3. /\ QueueFits(queue, sent')
        /\ \A d \in Client : ReadingFits(d, queue, reading', sent')
        /\ \A p : PacketFits(p, queue, reading, sent) => PacketFits(p, queue, reading', sent')
    BY <1>0, <2>1, <2>2, ReadingNextFits DEF OrderInv
  <2> QED
    BY <1>0, <2>2, <2>3 DEF OrderInv
<1>2. CASE PushMessage(c)
  <2>1. /\ reading[c] \in Queued /\ reading[c].origin = c
        /\ reading' = [reading EXCEPT ![c] = NoMessage]
        /\ queue' = Append(queue, reading[c]) /\ sent' = sent
    BY <1>0, <1>2 DEF PushMessage, Reads, ReaderOK
  <2>2. /\ QueueFits(queue', sent)
        /\ \A d \in Client : ReadingFits(d, queue', reading', sent)
        /\ \A p : PacketFits(p, queue, reading, sent) => PacketFits(p, queue', reading', sent)
    BY <1>0, <2>1, HandingFits DEF OrderInv
  <2> QED
    BY <1>0, <2>1, <2>2 DEF OrderInv
<1>3. CASE ReadPong(c) \/ PushAlive(c) \/ ReadError(c)
  <2>1. UNCHANGED <<queue, sent>>
    BY <1>3 DEF ReadPong, PushAlive, ReadError
  <2>2. \A d \in Client : reading'[d] = reading[d]
    BY <1>0, <1>3 DEF ReadPong, PushAlive, ReadError, Reads, ReaderOK
  <2>3. \A d \in Client : ReadingFits(d, queue, reading', sent)
    BY <2>2 DEF OrderInv, ReadingFits
  <2>4. \A p : PacketFits(p, queue, reading, sent) => PacketFits(p, queue, reading', sent)
    BY <2>2 DEF PacketFits
  <2> QED
    BY <1>0, <2>1, <2>3, <2>4 DEF OrderInv
<1> QED
  BY <1>1, <1>2, <1>3

\* The writer takes the first packet of its queue, and at its end pushes a leave.
LEMMA WriterOrder ==
    ASSUME SInv, OrderInv, NEW c \in Client,
           \/ WriteNext(c) \/ WritePing(c) \/ TickerFails(c) \/ SeeEof(c)
           \/ Connect(c) \/ Cleanup(c)
    PROVE  OrderInv'
<1>0. UNCHANGED <<reading, sent, out>>
  BY DEF WriteNext, WritePing, TickerFails, SeeEof, Connect, Cleanup, Writes, vars
<1>1. CASE WriteNext(c)
  <2> DEFINE u == Tail(outgoing[c])
  <2>1. /\ \A i \in DOMAIN u : i + 1 \in DOMAIN outgoing[c] /\ u[i] = outgoing[c][i + 1]
        /\ \A i, j \in DOMAIN u : i < j => i + 1 < j + 1
    BY <1>1, TypesOfOrder, TakenFacts DEF WriteNext
  <2>2. /\ queue' = queue /\ outgoing'[c] = u
        /\ \A d \in Client : d # c => outgoing'[d] = outgoing[d]
    BY <1>1, TypesOfOrder DEF WriteNext, Writes
  <2> HIDE DEF u
  <2>3. ASSUME NEW d \in Client, NEW i \in DOMAIN outgoing'[d]
        PROVE  PacketFits(outgoing'[d][i], queue, reading, sent)
    BY <2>1, <2>2 DEF OrderInv
  <2>4. ASSUME NEW d \in Client, NEW i \in DOMAIN outgoing'[d], NEW j \in DOMAIN outgoing'[d],
               i < j
        PROVE  Before(outgoing'[d][i], outgoing'[d][j])
    <3>1. CASE d = c
      BY <2>1, <2>2, <2>4, <3>1 DEF OrderInv, LinesFit
    <3>2. CASE d # c
      BY <2>2, <2>4, <3>2 DEF OrderInv, LinesFit
    <3> QED
      BY <3>1, <3>2
  <2>5. ASSUME NEW d \in Client, NEW i \in DOMAIN outgoing'[d], NEW j \in DOMAIN out,
               out[j].to = d
        PROVE  Before(outgoing'[d][i], out[j])
    BY <2>1, <2>2, <2>5 DEF OrderInv, LinesFit
  <2>6. LinesFit(outgoing', out)
    BY <2>4, <2>5 DEF OrderInv, LinesFit
  <2> QED
    BY <1>0, <2>2, <2>3, <2>6 DEF OrderInv
<1>2. CASE Cleanup(c)
  <2> DEFINE m == [type |-> "leave", origin |-> c]
  <2>1. m \in Queued /\ ~ Forwarded(m) /\ queue' = Append(queue, m) /\ outgoing' = outgoing
    BY <1>2 DEF Cleanup, Queued, Forwarded, ForwardedType
  <2> HIDE DEF m
  <2>2. /\ QueueFits(queue', sent)
        /\ \A d \in Client : ReadingFits(d, queue', reading, sent)
        /\ \A p : PacketFits(p, queue, reading, sent) => PacketFits(p, queue', reading, sent)
    BY <2>1, TypesOfOrder, PushingFits DEF OrderInv
  <2> QED
    BY <1>0, <2>1, <2>2 DEF OrderInv
<1>3. CASE WritePing(c) \/ TickerFails(c) \/ SeeEof(c) \/ Connect(c)
  <2>1. UNCHANGED <<queue, outgoing>>
    BY <1>3 DEF WritePing, TickerFails, SeeEof, Connect, Writes, channels
  <2> QED
    BY <1>0, <2>1 DEF OrderInv
<1> QED
  BY <1>1, <1>2, <1>3

\* Every step keeps the order.
LEMMA OrderNext == SInv /\ OrderInv /\ [ServerNext]_serverVars => OrderInv'
<1> SUFFICES ASSUME SInv, OrderInv, [ServerNext]_serverVars
             PROVE  OrderInv'
  OBVIOUS
<1>1. CASE TakeMessage \/ TakeAlive \/ Deliver
  BY <1>1, TakeMessageOrder, TakeAliveOrder, DeliverOrder
<1>2. ASSUME NEW c \in Client,
             ReadMessage(c) \/ ReadPong(c) \/ ReadError(c) \/ PushAlive(c) \/ PushMessage(c)
      PROVE  OrderInv'
  BY <1>2, ReaderOrder
<1>3. ASSUME NEW c \in Client,
             \/ WriteNext(c) \/ WritePing(c) \/ TickerFails(c) \/ SeeEof(c)
             \/ Connect(c) \/ Cleanup(c)
      PROVE  OrderInv'
  BY <1>3, WriterOrder
<1>4. CASE UNCHANGED serverVars
  BY <1>4 DEF OrderInv, serverVars, vars, channels, threads
<1> QED
  BY <1>1, <1>2, <1>3, <1>4 DEF ServerNext, AllGone

\* So it is always kept.
LEMMA OrderAlways == ServerSpec => []OrderInv
  BY ServerAlwaysGood, OrderAtFirst, OrderNext, PTL DEF ServerSpec

-----------------------------------------------------------------------------
(* What the invariant says of the numbers that are on the way.             *)

\* Where the elements of two sequences are when one follows the other.
LEMMA JoinedFacts ==
    ASSUME NEW T, NEW a \in Seq(T), NEW b \in Seq(T)
    PROVE  /\ DOMAIN a = 1 .. Len(a) /\ Len(a) \in Nat
           /\ DOMAIN b = 1 .. Len(b) /\ Len(b) \in Nat
           /\ DOMAIN (a \o b) = 1 .. Len(a) + Len(b) /\ Len(a \o b) = Len(a) + Len(b)
           /\ \A k \in DOMAIN (a \o b) :
                 \/ k \in DOMAIN a /\ (a \o b)[k] = a[k]
                 \/ /\ k > Len(a) /\ k - Len(a) \in DOMAIN b
                    /\ (a \o b)[k] = b[k - Len(a)]
OBVIOUS

\* Two sequences that rise, all of the first below all of the second, rise together.
LEMMA RisesOn ==
    ASSUME NEW a \in Seq(Nat), NEW b \in Seq(Nat),
           \A i, j \in DOMAIN a : i < j => a[i] < a[j],
           \A i, j \in DOMAIN b : i < j => b[i] < b[j],
           \A i \in DOMAIN a, j \in DOMAIN b : a[i] < b[j]
    PROVE  \A i \in 1 .. Len(a \o b) - 1 : (a \o b)[i] < (a \o b)[i + 1]
<1> DEFINE u == a \o b
<1>1. /\ DOMAIN a = 1 .. Len(a) /\ Len(a) \in Nat
      /\ DOMAIN b = 1 .. Len(b) /\ Len(b) \in Nat
      /\ DOMAIN u = 1 .. Len(a) + Len(b) /\ Len(u) = Len(a) + Len(b)
      /\ \A k \in DOMAIN u : \/ k \in DOMAIN a /\ u[k] = a[k]
                             \/ /\ k > Len(a) /\ k - Len(a) \in DOMAIN b
                                /\ u[k] = b[k - Len(a)]
  BY JoinedFacts
<1> HIDE DEF u
<1>2. ASSUME NEW i \in 1 .. Len(u) - 1
      PROVE  u[i] < u[i + 1]
  <2>1. i \in DOMAIN u /\ i + 1 \in DOMAIN u /\ i \in Nat
    BY <1>1
  <2>2. CASE i + 1 \in DOMAIN a /\ u[i + 1] = a[i + 1]
    <3>1. i \in DOMAIN a /\ u[i] = a[i] /\ i < i + 1
      BY <1>1, <2>1, <2>2
    <3> QED
      BY <2>2, <3>1
  <2>3. CASE /\ i + 1 > Len(a) /\ (i + 1) - Len(a) \in DOMAIN b
             /\ u[i + 1] = b[(i + 1) - Len(a)]
    <3>1. CASE i \in DOMAIN a /\ u[i] = a[i]
      BY <2>3, <3>1
    <3>2. CASE i > Len(a) /\ i - Len(a) \in DOMAIN b /\ u[i] = b[i - Len(a)]
      <4>1. i - Len(a) < (i + 1) - Len(a)
        BY <1>1, <2>1
      <4> QED
        BY <2>3, <3>2, <4>1
    <3> QED
      BY <1>1, <2>1, <3>1, <3>2
  <2> QED
    BY <1>1, <2>1, <2>2, <2>3
<1> QED
  BY <1>2 DEF u

\* The packets of c on their way to d, of the numbers N.
PacketsOf(d, N) == [to : {d}, type : ForwardedType, arg : N]

\* The messages of c that the router has not handled.
MessagesOf(c, N) == [type : ForwardedType, origin : {c}, payload : N]

\* The numbers of the packets rise.
LEMMA PacketsRise ==
    ASSUME SInv, OrderInv, NEW c \in Client, NEW d \in Client, NEW n \in Nat
    PROVE  \A i, j \in DOMAIN (outgoing[d] \o out) :
              /\ i < j
              /\ (outgoing[d] \o out)[i] \in PacketsOf(d, {c} \X (1 .. n))
              /\ (outgoing[d] \o out)[j] \in PacketsOf(d, {c} \X (1 .. n))
              => (outgoing[d] \o out)[i].arg[2] < (outgoing[d] \o out)[j].arg[2]
<1> DEFINE o == outgoing[d]
           l == o \o out
<1>1. /\ DOMAIN o = 1 .. Len(o) /\ Len(o) \in Nat
      /\ DOMAIN l = 1 .. Len(o) + Len(out) /\ DOMAIN out = 1 .. Len(out)
      /\ \A k \in DOMAIN l : \/ k \in DOMAIN o /\ l[k] = o[k]
                             \/ /\ k > Len(o) /\ k - Len(o) \in DOMAIN out
                                /\ l[k] = out[k - Len(o)]
  BY TypesOfOrder, JoinedFacts
<1>2. /\ \A a, b \in DOMAIN o : a < b => Before(o[a], o[b])
      /\ \A a, b \in DOMAIN out : a < b /\ out[a].to = out[b].to => Before(out[a], out[b])
      /\ \A a \in DOMAIN o, b \in DOMAIN out : out[b].to = d => Before(o[a], out[b])
  BY DEF OrderInv, LinesFit
<1> HIDE DEF o, l
<1>3. ASSUME NEW i \in DOMAIN l, NEW j \in DOMAIN l, i < j,
             l[i] \in PacketsOf(d, {c} \X (1 .. n)), l[j] \in PacketsOf(d, {c} \X (1 .. n))
      PROVE  l[i].arg[2] < l[j].arg[2]
  <2>1. /\ Forwarded(l[i]) /\ Forwarded(l[j]) /\ l[i].arg[1] = l[j].arg[1]
        /\ l[i].to = d /\ l[j].to = d
    BY <1>3 DEF PacketsOf, Forwarded
  <2>2. Before(l[i], l[j])
    <3>1. CASE j \in DOMAIN o /\ l[j] = o[j]
      <4>1. i \in DOMAIN o /\ l[i] = o[i]
        BY <1>1, <1>3, <3>1
      <4> QED
        BY <1>2, <1>3, <3>1, <4>1
    <3>2. CASE /\ j > Len(o) /\ j - Len(o) \in DOMAIN out /\ l[j] = out[j - Len(o)]
               /\ i \in DOMAIN o /\ l[i] = o[i]
      BY <1>2, <2>1, <3>2
    <3>3. CASE /\ j > Len(o) /\ j - Len(o) \in DOMAIN out /\ l[j] = out[j - Len(o)]
               /\ i > Len(o) /\ i - Len(o) \in DOMAIN out /\ l[i] = out[i - Len(o)]
      <4>1. i - Len(o) < j - Len(o)
        BY <1>1, <1>3
      <4> QED
        BY <1>2, <2>1, <3>3, <4>1
    <3> QED
      BY <1>1, <1>3, <3>1, <3>2, <3>3
  <2> QED
    BY <2>1, <2>2 DEF Before
<1> QED
  BY <1>3 DEF o, l

\* Each of them is ahead of what its sender still has on the way to the router.
LEMMA PacketsAhead ==
    ASSUME SInv, OrderInv, NEW d \in Client
    PROVE  \A i \in DOMAIN (outgoing[d] \o out) :
              PacketFits((outgoing[d] \o out)[i], queue, reading, sent)
<1> DEFINE o == outgoing[d]
           l == o \o out
<1>1. \A k \in DOMAIN l : \/ k \in DOMAIN o /\ l[k] = o[k]
                          \/ k - Len(o) \in DOMAIN out /\ l[k] = out[k - Len(o)]
  BY TypesOfOrder, JoinedFacts
<1>2. /\ \A k \in DOMAIN o : PacketFits(o[k], queue, reading, sent)
      /\ \A k \in DOMAIN out : PacketFits(out[k], queue, reading, sent)
  BY DEF OrderInv
<1> HIDE DEF o, l
<1>3. ASSUME NEW i \in DOMAIN l
      PROVE  PacketFits(l[i], queue, reading, sent)
  BY <1>1, <1>2
<1> QED
  BY <1>3 DEF o, l

\* The messages of c from the queue to its reader.
LEMMA MessagesFacts ==
    ASSUME SInv, NEW c \in Client
    PROVE  LET u == Append(queue, reading[c])
               l == Len(queue) + 1
           IN /\ u \in Seq(Queued \cup {NoMessage})
              /\ l \in Nat /\ DOMAIN queue = 1 .. Len(queue) /\ DOMAIN u = 1 .. l
              /\ u[l] = reading[c] /\ \A i \in DOMAIN queue : u[i] = queue[i]
<1>1. queue \in Seq(Queued \cup {NoMessage}) /\ reading[c] \in Queued \cup {NoMessage}
  BY TypesOfOrder DEF SInv, ThreadsOK, ReaderOK
<1> QED
  BY <1>1

\* The numbers of the messages rise.
LEMMA MessagesRise ==
    ASSUME SInv, OrderInv, NEW c \in Client, NEW n \in Nat
    PROVE  \A i, j \in DOMAIN Append(queue, reading[c]) :
              /\ i < j
              /\ Append(queue, reading[c])[i] \in MessagesOf(c, {c} \X (1 .. n))
              /\ Append(queue, reading[c])[j] \in MessagesOf(c, {c} \X (1 .. n))
              => Append(queue, reading[c])[i].payload[2]
                    < Append(queue, reading[c])[j].payload[2]
<1> DEFINE u == Append(queue, reading[c])
           l == Len(queue) + 1
<1>1. /\ l \in Nat /\ DOMAIN queue = 1 .. Len(queue) /\ DOMAIN u = 1 .. l
      /\ u[l] = reading[c] /\ \A k \in DOMAIN queue : u[k] = queue[k]
      /\ Len(queue) \in Nat
  BY MessagesFacts, TypesOfOrder
<1>2. QueueFits(queue, sent) /\ ReadingFits(c, queue, reading, sent)
  BY DEF OrderInv
<1> HIDE DEF u
<1>3. ASSUME NEW i \in DOMAIN u, NEW j \in DOMAIN u, i < j,
             u[i] \in MessagesOf(c, {c} \X (1 .. n)), u[j] \in MessagesOf(c, {c} \X (1 .. n))
      PROVE  u[i].payload[2] < u[j].payload[2]
  <2>1. Forwarded(u[i]) /\ Forwarded(u[j]) /\ u[i].origin = c /\ u[j].origin = c
    BY <1>3 DEF MessagesOf, Forwarded
  <2>2. i \in DOMAIN queue /\ u[i] = queue[i]
    BY <1>1, <1>3
  <2>3. CASE j = l
    BY <1>1, <1>2, <2>1, <2>2, <2>3 DEF ReadingFits
  <2>4. CASE j # l
    <3>1. j \in DOMAIN queue /\ u[j] = queue[j]
      BY <1>1, <2>4
    <3> QED
      BY <1>2, <1>3, <2>1, <2>2, <3>1 DEF QueueFits
  <2> QED
    BY <2>3, <2>4
<1> QED
  BY <1>3 DEF u

\* A packet that is ahead of them has a lower number.
LEMMA PacketsBeforeMessages ==
    ASSUME SInv, OrderInv, NEW c \in Client, NEW n \in Nat, NEW p, NEW d,
           p \in PacketsOf(d, {c} \X (1 .. n)), PacketFits(p, queue, reading, sent)
    PROVE  \A j \in DOMAIN Append(queue, reading[c]) :
              Append(queue, reading[c])[j] \in MessagesOf(c, {c} \X (1 .. n))
              => p.arg[2] < Append(queue, reading[c])[j].payload[2]
<1> DEFINE u == Append(queue, reading[c])
           l == Len(queue) + 1
<1>1. /\ l \in Nat /\ DOMAIN queue = 1 .. Len(queue) /\ DOMAIN u = 1 .. l
      /\ u[l] = reading[c] /\ \A k \in DOMAIN queue : u[k] = queue[k]
      /\ Len(queue) \in Nat
  BY MessagesFacts, TypesOfOrder
<1>2. Forwarded(p) /\ p.arg[1] = c /\ ReadingFits(c, queue, reading, sent)
  BY DEF PacketsOf, Forwarded, OrderInv
<1> HIDE DEF u
<1>3. ASSUME NEW j \in DOMAIN u, u[j] \in MessagesOf(c, {c} \X (1 .. n))
      PROVE  p.arg[2] < u[j].payload[2]
  <2>1. Forwarded(u[j]) /\ u[j].origin = c
    BY <1>3 DEF MessagesOf, Forwarded
  <2>2. CASE j = l
    BY <1>1, <1>2, <2>1, <2>2 DEF ReadingFits, PacketFits
  <2>3. CASE j # l
    <3>1. j \in DOMAIN queue /\ u[j] = queue[j]
      BY <1>1, <2>3
    <3> QED
      BY <1>2, <2>1, <3>1 DEF PacketFits
  <2> QED
    BY <2>2, <2>3
<1> QED
  BY <1>3 DEF u

\* So the numbers of the messages from one connection to another rise.
LEMMA OrderMeans == SInv /\ OrderInv => InOrder
<1> SUFFICES ASSUME SInv, OrderInv, NEW c \in Client, NEW d \in Client
             PROVE  \A i \in 1 .. Len(OnTheWay(c, d)) - 1 :
                       OnTheWay(c, d)[i] < OnTheWay(c, d)[i + 1]
  BY DEF InOrder
<1> DEFINE n == MaxSent[c]
           numbers == {c} \X (1 .. n)
           line == outgoing[d] \o out
           packets == Only(line, PacketsOf(d, numbers))
           rest == Append(queue, reading[c])
           messages == Only(rest, MessagesOf(c, numbers))
           a == [i \in DOMAIN packets |-> packets[i].arg[2]]
           b == [i \in DOMAIN messages |-> messages[i].payload[2]]
<1>1. OnTheWay(c, d) = a \o b
  BY DEF OnTheWay, PacketsOf, MessagesOf
<1>2. n \in Nat
  BY Capacities
<1>3. line \in Seq(Packet) /\ rest \in Seq(Queued \cup {NoMessage})
  BY TypesOfOrder, MessagesFacts
<1>4. /\ \A i, j \in DOMAIN line :
            i < j /\ line[i] \in PacketsOf(d, numbers) /\ line[j] \in PacketsOf(d, numbers)
            => line[i].arg[2] < line[j].arg[2]
      /\ \A i, j \in DOMAIN rest :
            i < j /\ rest[i] \in MessagesOf(c, numbers) /\ rest[j] \in MessagesOf(c, numbers)
            => rest[i].payload[2] < rest[j].payload[2]
      /\ \A i \in DOMAIN line, j \in DOMAIN rest :
            line[i] \in PacketsOf(d, numbers) /\ rest[j] \in MessagesOf(c, numbers)
            => line[i].arg[2] < rest[j].payload[2]
  <2> HIDE DEF n
  <2>1. ASSUME NEW i \in DOMAIN line, NEW j \in DOMAIN rest,
               line[i] \in PacketsOf(d, numbers), rest[j] \in MessagesOf(c, numbers)
        PROVE  line[i].arg[2] < rest[j].payload[2]
    <3>1. PacketFits(line[i], queue, reading, sent)
      BY PacketsAhead
    <3> QED
      BY <1>2, <2>1, <3>1, PacketsBeforeMessages
  <2>2. ASSUME NEW i \in DOMAIN line, NEW j \in DOMAIN line, i < j,
               line[i] \in PacketsOf(d, numbers), line[j] \in PacketsOf(d, numbers)
        PROVE  line[i].arg[2] < line[j].arg[2]
    BY <1>2, <2>2, PacketsRise
  <2>3. ASSUME NEW i \in DOMAIN rest, NEW j \in DOMAIN rest, i < j,
               rest[i] \in MessagesOf(c, numbers), rest[j] \in MessagesOf(c, numbers)
        PROVE  rest[i].payload[2] < rest[j].payload[2]
    BY <1>2, <2>3, MessagesRise
  <2> HIDE DEF line, rest, numbers
  <2> QED
    BY <2>1, <2>2, <2>3
<1>5. /\ \A p \in PacketsOf(d, numbers) : p.arg[2] \in Nat
      /\ \A m \in MessagesOf(c, numbers) : m.payload[2] \in Nat
  BY <1>2 DEF PacketsOf, MessagesOf
<1> HIDE DEF n, numbers, line, rest
<1>6. PICK g : LeftBy(g, packets, line, PacketsOf(d, numbers), Len(line))
  BY <1>3, OnlyLeft
<1>7. PICK h : LeftBy(h, messages, rest, MessagesOf(c, numbers), Len(rest))
  BY <1>3, OnlyLeft
<1>8. /\ DOMAIN packets = 1 .. Len(packets) /\ Len(packets) \in Nat
      /\ DOMAIN messages = 1 .. Len(messages) /\ Len(messages) \in Nat
      /\ DOMAIN line = 1 .. Len(line) /\ DOMAIN rest = 1 .. Len(rest)
      /\ Len(line) \in Nat /\ Len(rest) \in Nat
  <2>1. packets \in Seq(Packet) /\ messages \in Seq(Queued \cup {NoMessage})
    BY <1>3, OnlyLeft
  <2> HIDE DEF packets, messages
  <2> QED
    BY <1>3, <2>1
<1> HIDE DEF packets, messages
<1>9. /\ \A i \in DOMAIN packets : /\ g[i] \in DOMAIN line /\ packets[i] = line[g[i]]
                                   /\ packets[i] \in PacketsOf(d, numbers)
      /\ \A i, j \in DOMAIN packets : i < j => g[i] < g[j]
      /\ \A i \in DOMAIN messages : /\ h[i] \in DOMAIN rest /\ messages[i] = rest[h[i]]
                                    /\ messages[i] \in MessagesOf(c, numbers)
      /\ \A i, j \in DOMAIN messages : i < j => h[i] < h[j]
  BY <1>6, <1>7, <1>8 DEF LeftBy
<1>10. /\ a \in Seq(Nat) /\ DOMAIN a = DOMAIN packets
       /\ b \in Seq(Nat) /\ DOMAIN b = DOMAIN messages
       /\ \A i \in DOMAIN packets : a[i] = packets[i].arg[2]
       /\ \A i \in DOMAIN messages : b[i] = messages[i].payload[2]
  BY <1>5, <1>8, <1>9
<1> HIDE DEF a, b
<1>11. ASSUME NEW i \in DOMAIN a, NEW j \in DOMAIN a, i < j
       PROVE  a[i] < a[j]
  <2>1. g[i] \in DOMAIN line /\ g[j] \in DOMAIN line /\ g[i] < g[j]
    BY <1>9, <1>10, <1>11
  <2>2. line[g[i]].arg[2] < line[g[j]].arg[2]
    BY <1>4, <1>9, <1>10, <2>1
  <2>3. a[i] = line[g[i]].arg[2] /\ a[j] = line[g[j]].arg[2]
    BY <1>9, <1>10
  <2> QED
    BY <2>2, <2>3
<1>12. ASSUME NEW i \in DOMAIN b, NEW j \in DOMAIN b, i < j
       PROVE  b[i] < b[j]
  <2>1. h[i] \in DOMAIN rest /\ h[j] \in DOMAIN rest /\ h[i] < h[j]
    BY <1>9, <1>10, <1>12
  <2>2. rest[h[i]].payload[2] < rest[h[j]].payload[2]
    BY <1>4, <1>9, <1>10, <2>1
  <2>3. i \in DOMAIN messages /\ j \in DOMAIN messages
    BY <1>10
  <2>4. messages[i] = rest[h[i]] /\ messages[j] = rest[h[j]]
    BY <1>9, <2>3
  <2>5. b[i] = messages[i].payload[2] /\ b[j] = messages[j].payload[2]
    BY <2>3 DEF b
  <2> QED
    BY <2>2, <2>4, <2>5
<1>13. ASSUME NEW i \in DOMAIN a, NEW j \in DOMAIN b
       PROVE  a[i] < b[j]
  <2>1. line[g[i]].arg[2] < rest[h[j]].payload[2]
    BY <1>4, <1>9, <1>10
  <2> QED
    BY <1>9, <1>10, <2>1
<1> QED
  BY <1>1, <1>10, <1>11, <1>12, <1>13, RisesOn

\* Signalling is forwarded in order: whatever the connections do, the forwarded
\* messages of one to another, from the reader of the one (HandleClient, client.go)
\* through the router's queue and its handler (Router.forward) to the outgoing queue
\* of the other, keep the order they were read in, and none is there twice.
THEOREM SignallingInOrder == ServerSpec => []InOrder
  BY ServerAlwaysGood, OrderAlways, OrderMeans, PTL

=============================================================================
