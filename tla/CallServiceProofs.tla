-------------------------- MODULE CallServiceProofs --------------------------
(***************************************************************************)
(* The call service of module CallService, for any number of requests,     *)
(* hang-ups, visits and errors: what the user sees is how the call is, and *)
(* neither a call nor a service is left over.                              *)
(*                                                                         *)
(* The invariant is about what is queued on the main thread: services come *)
(* and go in turn, a start finds one, and the last message about the call  *)
(* brings its state.                                                       *)
(***************************************************************************)
EXTENDS CallService, SiftProofs

-----------------------------------------------------------------------------
(* What is in the queue of the main thread.                                *)

Item ==
    [kind : {"destroy", "hang up", "connected"}]
    \cup [kind : {"create"}, service : Services]
    \cup [kind : {"start"}, good : BOOLEAN]
    \cup [kind : {"state"}, service : Services, call : Calls, state : CallState]
    \cup [kind : {"attach"}, state : CallState]

\* The service comes or goes.
Turn(m) == m.kind \in {"create", "destroy"}
NoTurn(q) == \A i \in DOMAIN q : ~ Turn(q[i])
NoTurnAfter(q, i) == \A j \in DOMAIN q : j > i => ~ Turn(q[j])

\* What comes and goes, from the service id that lives to the one that the system
\* has up: every service that is made is a new one, and the one that is up is made
\* last.
Order(q, id, up, last) ==
    /\ up <= last /\ id <= last
    /\ \A i \in DOMAIN q : q[i].kind = "create" => id < q[i].service /\ q[i].service <= last
    /\ \A i, j \in DOMAIN q :
          q[i].kind = "create" /\ q[j].kind = "create" /\ i < j => q[i].service < q[j].service
    /\ \A i \in DOMAIN q : Turn(q[i]) =>
          \/ up = None
          \/ \E j \in DOMAIN q : j >= i /\ q[j].kind = "create" /\ q[j].service = up
    /\ \A i \in DOMAIN q : Turn(q[i]) /\ NoTurnAfter(q, i) =>
          IF q[i].kind = "create" THEN up = q[i].service ELSE up = None
    /\ NoTurn(q) => up = id

\* f[i] is the service that will live when i of the queue are handled: they come and
\* go in turn, and a start finds one.
Leads(m, before, after) ==
    /\ m.kind = "create" => before = None /\ after = m.service
    /\ m.kind = "destroy" => before # None /\ after = None
    /\ m.kind = "start" => before # None
    /\ ~ Turn(m) => after = before
Track(q, id, up, f) ==
    /\ f \in [0 .. Len(q) -> Nat]
    /\ f[0] = id /\ f[Len(q)] = up
    /\ \A i \in 1 .. Len(q) : Leads(q[i], f[i - 1], f[i])

Turns(q, id, up, last) == Order(q, id, up, last) /\ \E f : Track(q, id, up, f)

\* g numbers the starts that are queued; n calls have been used.
Ranked(q, n, starts, g) ==
    /\ g \in [1 .. Len(q) -> Nat]
    /\ \A i \in 1 .. Len(q) : q[i].kind = "start" => n < g[i] /\ g[i] <= starts
    /\ \A i, j \in 1 .. Len(q) :
          q[i].kind = "start" /\ q[j].kind = "start" /\ i < j => g[i] < g[j]

-----------------------------------------------------------------------------
(* The invariant, of the whole as a record w.                              *)

CallRecord == [state : CallState, thread : {"none", "waits", "fires", "works", "ended"},
               box : Seq({"START", "STOP", "RESTART"}),
               delayed : BOOLEAN, quits : BOOLEAN, reports : Services \cup {None}]

World ==
    [calls : [Calls -> CallRecord],
     service : [id : Services \cup {None}, call : Calls \cup {None}],
     activity : [started : BOOLEAN, service : Services \cup {None},
                 view : [state : CallState \cup {"none"}, call : Calls \cup {None}]],
     notice : CallState \cup {"none"},
     main : Seq(Item),
     system : [record : Services \cup {None}, last : Services \cup {None},
               started : BOOLEAN, bound : BOOLEAN, told : BOOLEAN],
     past : [starts : 0 .. MaxStarts, hangUps : 0 .. MaxHangUps, visits : 0 .. MaxVisits,
             failures : Nat, ended : SUBSET Calls, overrun : BOOLEAN]]

Counted(w) == w.system.last <= w.past.starts + w.past.hangUps + w.past.visits

InTurn(w) == Turns(w.main, w.service.id, w.system.record, w.system.last)

\* A start that no stopSelf met keeps the service up.
Awaited(w) ==
    ~ w.past.overrun =>
        \A i \in DOMAIN w.main :
           w.main[i].kind = "start" => w.system.started /\ NoTurnAfter(w.main, i)

\* A service is up as long as it is started or bound.
Upheld(w) == w.system.record # None <=> w.system.started \/ w.system.bound

\* It is started for its call or for an item that is queued.
Asked(q) ==
    \E i \in DOMAIN q : q[i].kind \in {"start", "hang up"} /\ NoTurnAfter(q, i)
Purposeful(w) ==
    w.system.started => \/ w.service.call # None /\ w.service.id = w.system.record
                        \/ Asked(w.main)

\* And is not brought down under a call that nobody hung up.
Held(w) ==
    w.service.call # None /\ w.service.call \notin w.past.ended /\ ~ w.past.overrun
        => w.system.started /\ w.service.id = w.system.record

\* Without a service there is no call, and without a call no notification.
Empty(w) ==
    /\ w.service.id = None => w.service.call = None
    /\ w.service.call = None => w.notice = "none"

\* The activity is bound to the service that lives and stays.
Binding(w) ==
    /\ w.system.bound = w.activity.started
    /\ w.system.told => w.system.bound /\ w.service.id = w.system.record
    /\ w.activity.service # None => w.system.told /\ w.activity.service = w.service.id
    /\ \A i \in DOMAIN w.main : /\ w.main[i].kind = "connected" => w.system.told
                                /\ w.main[i].kind = "attach" => w.activity.service # None

\* The calls are the service's, or were.
Owned(w) ==
    /\ \A c \in Calls :
          /\ w.calls[c].reports = (IF w.service.call = c THEN w.service.id ELSE None)
          /\ w.calls[c].thread = "none" => w.calls[c].state = "IDLE" /\ w.service.call # c
          /\ w.calls[c].thread \notin {"none", "ended"} =>
                w.service.call = c \/ w.calls[c].quits
    /\ \A i \in DOMAIN w.main :
          w.main[i].kind = "state" => w.calls[w.main[i].call].thread # "none"

\* Every start that is queued finds an unused call, k being requested so far.
SuppliedBy(w, k) ==
    \E n \in 0 .. MaxStarts :
       /\ n <= k
       /\ \A c \in Calls : w.calls[c].thread # "none" <=> c <= n
       /\ \E g : Ranked(w.main, n, k, g)
Supplied(w) == SuppliedBy(w, w.past.starts)

\* Messages about the call of the service.
Mine(w, m) == m.kind = "state" /\ m.service = w.service.id /\ m.call = w.service.call
Told(w) ==
    /\ w.service.call # None => w.calls[w.service.call].thread # "fires"
    /\ \A i \in DOMAIN w.main : ~ Mine(w, w.main[i])

\* The last of them brings the state of the call.
Newest(w) ==
    w.service.call # None /\ w.calls[w.service.call].thread # "fires" =>
        \A i \in DOMAIN w.main :
           /\ Mine(w, w.main[i])
           /\ \A j \in DOMAIN w.main : j > i => ~ Mine(w, w.main[j])
           => w.main[i].state = w.calls[w.service.call].state

\* If there is none, the notification has it, and the fragment that is shown or
\* attached last.
Noticed(w) == Told(w) /\ w.service.call # None => w.notice = StateOf(w)
Viewed(w) ==
    w.activity.service # None /\ Told(w) =>
        /\ (\A i \in DOMAIN w.main : w.main[i].kind # "attach") =>
              w.activity.view = [state |-> StateOf(w),
                                 call |-> IF StateOf(w) = "IDLE" THEN None
                                          ELSE w.service.call]
        /\ \A i \in DOMAIN w.main :
              /\ w.main[i].kind = "attach"
              /\ \A j \in DOMAIN w.main : j > i => w.main[j].kind # "attach"
              => w.main[i].state = StateOf(w)

\* The parts that every step of a handler keeps.
Base(w) ==
    /\ w \in World /\ InTurn(w) /\ Awaited(w) /\ Held(w) /\ Empty(w) /\ Binding(w)
    /\ Owned(w) /\ Newest(w) /\ Noticed(w)

\* Those that stopSelf needs, and those that it or a fragment restores.
Kernel(w) == Base(w) /\ Counted(w) /\ Upheld(w) /\ Supplied(w)
Sound(w) == Kernel(w) /\ Purposeful(w) /\ Viewed(w)

-----------------------------------------------------------------------------
(* The queue.                                                              *)

\* The kinds of items and what they carry.
LEMMA ItemFacts ==
    /\ \A k \in {"destroy", "hang up", "connected"} : [kind |-> k] \in Item
    /\ \A n \in Services : [kind |-> "create", service |-> n] \in Item
    /\ \A b \in BOOLEAN : [kind |-> "start", good |-> b] \in Item
    /\ \A n \in Services, c \in Calls, s \in CallState :
          [kind |-> "state", service |-> n, call |-> c, state |-> s] \in Item
    /\ \A s \in CallState : [kind |-> "attach", state |-> s] \in Item
    /\ \A m \in Item :
          /\ m.kind \in {"create", "destroy", "start", "hang up", "state", "connected", "attach"}
          /\ m.kind = "create" => m.service \in Services
          /\ m.kind = "start" => m.good \in BOOLEAN
          /\ m.kind = "state" => /\ m.service \in Services /\ m.call \in Calls
                                 /\ m.state \in CallState
          /\ m.kind = "attach" => m.state \in CallState
BY DEF Item

\* Services and calls are numbered from 1.
LEMMA Numbers ==
    /\ None \notin Services /\ None \notin Calls /\ None \in Nat
    /\ Services \subseteq Nat /\ Calls \subseteq Nat
    /\ MaxStarts \in Nat /\ MaxHangUps \in Nat /\ MaxVisits \in Nat
    /\ \A n \in Services \cup {None} : n \in Nat /\ (n # None <=> n > 0)
BY ServiceAssumption DEF None, Services, Calls

\* An item is queued.
LEMMA PutItem ==
    ASSUME NEW q \in Seq(Item), NEW m \in Item
    PROVE  /\ Append(q, m) \in Seq(Item) /\ Len(q) \in Nat /\ Len(Append(q, m)) = Len(q) + 1
           /\ DOMAIN q = 1 .. Len(q) /\ DOMAIN Append(q, m) = 1 .. Len(q) + 1
           /\ \A i \in DOMAIN q : /\ i \in DOMAIN Append(q, m) /\ Append(q, m)[i] = q[i]
                                  /\ i < Len(q) + 1
           /\ Len(q) + 1 \in DOMAIN Append(q, m) /\ Append(q, m)[Len(q) + 1] = m
           /\ \A i \in DOMAIN Append(q, m) : i \in DOMAIN q \/ i = Len(q) + 1
           /\ \A i \in DOMAIN q : q[i] \in Item
OBVIOUS

\* The first item is taken.
LEMMA TakeItem ==
    ASSUME NEW q \in Seq(Item), q # <<>>
    PROVE  /\ Head(q) \in Item /\ Tail(q) \in Seq(Item) /\ Len(Tail(q)) = Len(q) - 1
           /\ DOMAIN Tail(q) = 1 .. Len(q) - 1 /\ DOMAIN q = 1 .. Len(q) /\ 1 \in DOMAIN q
           /\ Len(q) \in Nat \ {0} /\ Head(q) = q[1]
           /\ \A i \in DOMAIN Tail(q) : i + 1 \in DOMAIN q /\ Tail(q)[i] = q[i + 1]
           /\ \A i \in DOMAIN q : i # 1 => i - 1 \in DOMAIN Tail(q) /\ Tail(q)[i - 1] = q[i]
           /\ \A i \in DOMAIN q : q[i] \in Item
<1>1. /\ q \in Seq(Item) /\ Len(q) \in Nat /\ DOMAIN q = 1 .. Len(q)
      /\ \A i \in 1 .. Len(q) : q[i] \in Item
  OBVIOUS
<1>2. Len(q) # 0
  OBVIOUS
<1> QED
  BY <1>1, <1>2

-----------------------------------------------------------------------------
(* Services come and go in turn.                                           *)

\* Another item makes no difference.
LEMMA TurnsPut ==
    ASSUME NEW q \in Seq(Item), NEW m \in Item, NEW id \in Nat, NEW up \in Nat, NEW last \in Nat,
           ~ Turn(m), m.kind = "start" => up # None, Turns(q, id, up, last)
    PROVE  Turns(Append(q, m), id, up, last)
<1> DEFINE u == Append(q, m)
           l == Len(q) + 1
<1>1. /\ u \in Seq(Item) /\ Len(q) \in Nat /\ Len(u) = l
      /\ DOMAIN q = 1 .. Len(q) /\ DOMAIN u = 1 .. l
      /\ \A i \in DOMAIN q : i \in DOMAIN u /\ u[i] = q[i] /\ i < l
      /\ l \in DOMAIN u /\ u[l] = m
      /\ \A i \in DOMAIN u : i \in DOMAIN q \/ i = l
      /\ \A i \in DOMAIN q : q[i] \in Item
  BY PutItem
<1>2. PICK f : Track(q, id, up, f)
  BY DEF Turns
<1> HIDE DEF u
<1>3. Order(u, id, up, last)
  <2>0. Order(q, id, up, last)
    BY DEF Turns
  <2>1. \A i \in DOMAIN u : Turn(u[i]) => i \in DOMAIN q
    BY <1>1
  <2>2. \A i \in DOMAIN q : NoTurnAfter(u, i) => NoTurnAfter(q, i)
    BY <1>1 DEF NoTurnAfter
  <2>3. NoTurn(u) => NoTurn(q)
    BY <1>1 DEF NoTurn
  <2> QED
    BY <1>1, <2>0, <2>1, <2>2, <2>3 DEF Order, Turn
<1>4. \E g : Track(u, id, up, g)
  <2> DEFINE g == [i \in 0 .. l |-> IF i = l THEN up ELSE f[i]]
  <2>1. /\ g \in [0 .. l -> Nat] /\ g[l] = up
        /\ \A i \in 0 .. Len(q) : g[i] = f[i]
    BY <1>1, <1>2 DEF Track
  <2> HIDE DEF g
  <2>2. l - 1 = Len(q) /\ g[l - 1] = up /\ g[0] = id
    BY <1>1, <1>2, <2>1 DEF Track
  <2>3. \A i \in 1 .. l : i # l => i \in 1 .. Len(q) /\ i - 1 \in 0 .. Len(q)
                                   /\ i \in 0 .. Len(q)
    BY <1>1
  <2>4. ASSUME NEW i \in 1 .. l PROVE Leads(u[i], g[i - 1], g[i])
    <3>1. CASE i = l
      BY <3>1, <1>1, <2>1, <2>2 DEF Leads, Turn
    <3>2. CASE i # l
      <4>1. u[i] = q[i] /\ g[i] = f[i] /\ g[i - 1] = f[i - 1]
        BY <3>2, <1>1, <2>1, <2>3
      <4> QED
        BY <3>2, <4>1, <1>2, <2>3 DEF Track
    <3> QED
      BY <3>1, <3>2
  <2>5. Track(u, id, up, g)
    BY <1>1, <2>1, <2>2, <2>4 DEF Track
  <2> QED
    BY <2>5
<1> QED
  BY <1>3, <1>4 DEF Turns, u

\* A new service is made when none is up.
LEMMA TurnsUp ==
    ASSUME NEW q \in Seq(Item), NEW id \in Nat, NEW last \in Nat, last + 1 \in Services,
           Turns(q, id, None, last)
    PROVE  Turns(Append(q, [kind |-> "create", service |-> last + 1]), id, last + 1, last + 1)
<1> DEFINE m == [kind |-> "create", service |-> last + 1]
           u == Append(q, m)
           l == Len(q) + 1
<1>0. m \in Item /\ m.kind = "create" /\ m.service = last + 1
  BY ItemFacts
<1> HIDE DEF m
<1>1. /\ u \in Seq(Item) /\ Len(q) \in Nat /\ Len(u) = l
      /\ DOMAIN q = 1 .. Len(q) /\ DOMAIN u = 1 .. l
      /\ \A i \in DOMAIN q : i \in DOMAIN u /\ u[i] = q[i] /\ i < l
      /\ l \in DOMAIN u /\ u[l] = m
      /\ \A i \in DOMAIN u : i \in DOMAIN q \/ i = l
      /\ \A i \in DOMAIN q : q[i] \in Item
  BY <1>0, PutItem
<1>2. PICK f : Track(q, id, None, f)
  BY DEF Turns
<1> HIDE DEF u
<1>3. Order(u, id, last + 1, last + 1)
  <2>0. Order(q, id, None, last)
    BY DEF Turns
  <2>1. \A i \in DOMAIN q : ~ NoTurnAfter(u, i)
    BY <1>0, <1>1 DEF NoTurnAfter, Turn
  <2>2. ~ NoTurn(u)
    BY <1>0, <1>1 DEF NoTurn, Turn
  <2>3. \A i \in DOMAIN q : q[i].kind = "create" => /\ q[i].service \in Nat
                                                    /\ q[i].service < last + 1
    <3> SUFFICES ASSUME NEW i \in DOMAIN q, q[i].kind = "create"
                 PROVE  q[i].service \in Nat /\ q[i].service < last + 1
      OBVIOUS
    <3>1. q[i].service \in Nat
      BY <1>1, ItemFacts, Numbers
    <3>2. q[i].service <= last
      BY <2>0 DEF Order
    <3> QED
      BY <3>1, <3>2
  <2>4. \A i \in DOMAIN u : l >= i
    BY <1>1
  <2>5. last + 1 <= last + 1 /\ id <= last + 1 /\ id < last + 1
    BY <2>0 DEF Order
  <2>6. \A i \in DOMAIN u : u[i].kind = "create" =>
           id < u[i].service /\ u[i].service <= last + 1
    BY <1>0, <1>1, <2>0, <2>3, <2>5 DEF Order
  <2>7. \A i, j \in DOMAIN u :
           u[i].kind = "create" /\ u[j].kind = "create" /\ i < j => u[i].service < u[j].service
    BY <1>0, <1>1, <2>0, <2>3 DEF Order
  <2>8. \A i \in DOMAIN u : \E j \in DOMAIN u :
           j >= i /\ u[j].kind = "create" /\ u[j].service = last + 1
    BY <1>0, <1>1, <2>4
  <2>9. \A i \in DOMAIN u : Turn(u[i]) /\ NoTurnAfter(u, i) => u[i].kind = "create"
                                                  /\ u[i].service = last + 1
    BY <1>0, <1>1, <2>1
  <2> QED
    BY <2>2, <2>5, <2>6, <2>7, <2>8, <2>9 DEF Order
<1>4. \E g : Track(u, id, last + 1, g)
  <2> DEFINE g == [i \in 0 .. l |-> IF i = l THEN last + 1 ELSE f[i]]
  <2>1. /\ g \in [0 .. l -> Nat] /\ g[l] = last + 1
        /\ \A i \in 0 .. Len(q) : g[i] = f[i]
    BY <1>1, <1>2 DEF Track
  <2> HIDE DEF g
  <2>2. l - 1 = Len(q) /\ g[l - 1] = None /\ g[0] = id
    BY <1>1, <1>2, <2>1 DEF Track
  <2>3. \A i \in 1 .. l : i # l => i \in 1 .. Len(q) /\ i - 1 \in 0 .. Len(q)
                                   /\ i \in 0 .. Len(q)
    BY <1>1
  <2>4. ASSUME NEW i \in 1 .. l PROVE Leads(u[i], g[i - 1], g[i])
    <3>1. CASE i = l
      BY <3>1, <1>0, <1>1, <2>1, <2>2 DEF Leads, Turn
    <3>2. CASE i # l
      <4>1. u[i] = q[i] /\ g[i] = f[i] /\ g[i - 1] = f[i - 1]
        BY <3>2, <1>1, <2>1, <2>3
      <4> QED
        BY <3>2, <4>1, <1>2, <2>3 DEF Track
    <3> QED
      BY <3>1, <3>2
  <2>5. Track(u, id, last + 1, g)
    BY <1>1, <2>1, <2>2, <2>4 DEF Track
  <2> QED
    BY <2>5
<1> QED
  BY <1>3, <1>4 DEF Turns, u, m

\* The service that is up is brought down.
LEMMA TurnsDown ==
    ASSUME NEW q \in Seq(Item), NEW id \in Nat, NEW up \in Nat, NEW last \in Nat,
           up # None, Turns(q, id, up, last)
    PROVE  Turns(Append(q, [kind |-> "destroy"]), id, None, last)
<1> DEFINE m == [kind |-> "destroy"]
           u == Append(q, m)
           l == Len(q) + 1
<1>0. m \in Item /\ m.kind = "destroy"
  BY ItemFacts
<1> HIDE DEF m
<1>1. /\ u \in Seq(Item) /\ Len(q) \in Nat /\ Len(u) = l
      /\ DOMAIN q = 1 .. Len(q) /\ DOMAIN u = 1 .. l
      /\ \A i \in DOMAIN q : i \in DOMAIN u /\ u[i] = q[i] /\ i < l
      /\ l \in DOMAIN u /\ u[l] = m
      /\ \A i \in DOMAIN u : i \in DOMAIN q \/ i = l
      /\ \A i \in DOMAIN q : q[i] \in Item
  BY <1>0, PutItem
<1>2. PICK f : Track(q, id, up, f)
  BY DEF Turns
<1> HIDE DEF u
<1>3. Order(u, id, None, last)
  <2>0. Order(q, id, up, last)
    BY DEF Turns
  <2>1. \A i \in DOMAIN q : ~ NoTurnAfter(u, i)
    BY <1>0, <1>1 DEF NoTurnAfter, Turn
  <2>2. ~ NoTurn(u)
    BY <1>0, <1>1 DEF NoTurn, Turn
  <2>3. None <= last
    BY DEF None
  <2> QED
    BY <1>0, <1>1, <2>0, <2>1, <2>2, <2>3 DEF Order, Turn
<1>4. \E g : Track(u, id, None, g)
  <2> DEFINE g == [i \in 0 .. l |-> IF i = l THEN None ELSE f[i]]
  <2>1. /\ g \in [0 .. l -> Nat] /\ g[l] = None
        /\ \A i \in 0 .. Len(q) : g[i] = f[i]
    BY <1>1, <1>2, Numbers DEF Track
  <2> HIDE DEF g
  <2>2. l - 1 = Len(q) /\ g[l - 1] = up /\ g[0] = id
    BY <1>1, <1>2, <2>1 DEF Track
  <2>3. \A i \in 1 .. l : i # l => i \in 1 .. Len(q) /\ i - 1 \in 0 .. Len(q)
                                   /\ i \in 0 .. Len(q)
    BY <1>1
  <2>4. ASSUME NEW i \in 1 .. l PROVE Leads(u[i], g[i - 1], g[i])
    <3>1. CASE i = l
      BY <3>1, <1>0, <1>1, <2>1, <2>2 DEF Leads, Turn
    <3>2. CASE i # l
      <4>1. u[i] = q[i] /\ g[i] = f[i] /\ g[i - 1] = f[i - 1]
        BY <3>2, <1>1, <2>1, <2>3
      <4> QED
        BY <3>2, <4>1, <1>2, <2>3 DEF Track
    <3> QED
      BY <3>1, <3>2
  <2>5. Track(u, id, None, g)
    BY <1>1, <2>1, <2>2, <2>4 DEF Track
  <2> QED
    BY <2>5
<1> QED
  BY <1>3, <1>4 DEF Turns, u, m

\* The service after an item.
After(m, id) ==
    IF m.kind = "create" THEN m.service ELSE IF m.kind = "destroy" THEN None ELSE id

\* The first item finds the service as the queue has it.
LEMMA TurnsTake ==
    ASSUME NEW q \in Seq(Item), q # <<>>, NEW id \in Nat, NEW up \in Nat, NEW last \in Nat,
           Turns(q, id, up, last)
    PROVE  /\ Turns(Tail(q), After(Head(q), id), up, last)
           /\ Head(q).kind = "create" => id = None
           /\ Head(q).kind \in {"destroy", "start"} => id # None
           /\ Turn(Head(q)) => up # id \/ up = None
           /\ NoTurn(q) => up = id
<1> DEFINE m == Head(q)
           u == Tail(q)
           n == Len(q)
           e == After(m, id)
<1>1. /\ m \in Item /\ u \in Seq(Item) /\ Len(u) = n - 1
      /\ DOMAIN u = 1 .. n - 1 /\ DOMAIN q = 1 .. n /\ 1 \in DOMAIN q
      /\ n \in Nat \ {0} /\ m = q[1]
      /\ \A i \in DOMAIN u : i + 1 \in DOMAIN q /\ u[i] = q[i + 1]
      /\ \A i \in DOMAIN q : i # 1 => i - 1 \in DOMAIN u /\ u[i - 1] = q[i]
      /\ \A i \in DOMAIN q : q[i] \in Item
  BY TakeItem
<1>2. PICK f : Track(q, id, up, f)
  BY DEF Turns
<1>3. Order(q, id, up, last)
  BY DEF Turns
<1>4. /\ m.kind = "create" => id = None
      /\ m.kind \in {"destroy", "start"} => id # None
      /\ f[1] = e /\ e \in Nat
  <2>1. 1 \in 1 .. Len(q) /\ 1 - 1 = 0
    BY <1>1
  <2>2. m.kind = "create" => m.service \in Nat
    BY <1>1, ItemFacts, Numbers
  <2> QED
    BY <1>1, <1>2, <2>1, <2>2, Numbers DEF Track, Leads, Turn, After
<1> HIDE DEF m, u, n
<1>5. e <= last
  BY <1>1, <1>3, <1>4 DEF Order, After, None
<1>6. \A i \in DOMAIN u : i + 1 > 1 /\ i \in Nat
  BY <1>1
<1>7. Order(u, e, up, last)
  <2>1. up <= last
    BY <1>3 DEF Order
  <2>2. \A i \in DOMAIN u : u[i].kind = "create" => e < u[i].service /\ u[i].service <= last
    <3> SUFFICES ASSUME NEW i \in DOMAIN u, u[i].kind = "create"
                 PROVE  e < u[i].service /\ u[i].service <= last
      OBVIOUS
    <3>1. /\ id < q[i + 1].service /\ q[i + 1].service <= last /\ q[i + 1].service \in Nat
          /\ m.kind = "create" => m.service < q[i + 1].service
      BY <1>1, <1>3, <1>6, ItemFacts, Numbers DEF Order
    <3> QED
      BY <1>1, <3>1 DEF After, None
  <2>3. \A i, j \in DOMAIN u :
           u[i].kind = "create" /\ u[j].kind = "create" /\ i < j => u[i].service < u[j].service
    <3> SUFFICES ASSUME NEW i \in DOMAIN u, NEW j \in DOMAIN u, u[i].kind = "create",
                        u[j].kind = "create", i < j
                 PROVE  u[i].service < u[j].service
      OBVIOUS
    <3>1. i + 1 < j + 1
      BY <1>6
    <3> QED
      BY <1>1, <1>3, <3>1 DEF Order
  <2>4. \A i \in DOMAIN u : Turn(u[i]) =>
           \/ up = None
           \/ \E j \in DOMAIN u : j >= i /\ u[j].kind = "create" /\ u[j].service = up
    <3> SUFFICES ASSUME NEW i \in DOMAIN u, Turn(u[i]), up # None
                 PROVE  \E j \in DOMAIN u : j >= i /\ u[j].kind = "create" /\ u[j].service = up
      OBVIOUS
    <3>1. PICK j \in DOMAIN q : j >= i + 1 /\ q[j].kind = "create" /\ q[j].service = up
      BY <1>1, <1>3 DEF Order
    <3>2. j # 1 /\ j - 1 >= i
      BY <1>1, <1>6, <3>1
    <3> QED
      BY <1>1, <3>1, <3>2
  <2>5. \A i \in DOMAIN u : Turn(u[i]) /\ NoTurnAfter(u, i) =>
           IF u[i].kind = "create" THEN up = u[i].service ELSE up = None
    <3> SUFFICES ASSUME NEW i \in DOMAIN u, Turn(u[i]), NoTurnAfter(u, i)
                 PROVE  IF u[i].kind = "create" THEN up = u[i].service ELSE up = None
      OBVIOUS
    <3>1. NoTurnAfter(q, i + 1)
      <4> SUFFICES ASSUME NEW j \in DOMAIN q, j > i + 1
                   PROVE  ~ Turn(q[j])
        BY DEF NoTurnAfter
      <4>1. j # 1 /\ j - 1 > i
        BY <1>1, <1>6
      <4> QED
        BY <1>1, <4>1 DEF NoTurnAfter
    <3> QED
      BY <1>1, <1>3, <3>1 DEF Order
  <2>6. NoTurn(u) => up = e
    <3> SUFFICES ASSUME NoTurn(u)
                 PROVE  up = e
      OBVIOUS
    <3>1. NoTurnAfter(q, 1)
      <4> SUFFICES ASSUME NEW j \in DOMAIN q, j > 1
                   PROVE  ~ Turn(q[j])
        BY DEF NoTurnAfter
      <4>1. j # 1
        BY <1>1
      <4> QED
        BY <1>1, <4>1 DEF NoTurn
    <3>2. ~ Turn(m) => NoTurn(q)
      BY <1>1, <3>1 DEF NoTurn
    <3> QED
      BY <1>1, <1>3, <3>1, <3>2 DEF Order, After, Turn
  <2> QED
    BY <1>5, <2>1, <2>2, <2>3, <2>4, <2>5, <2>6 DEF Order
<1>8. \E g : Track(u, e, up, g)
  <2> DEFINE g == [i \in 0 .. n - 1 |-> f[i + 1]]
  <2>1. \A i \in 0 .. n - 1 : i + 1 \in 0 .. n
    BY <1>1
  <2>2. /\ g \in [0 .. n - 1 -> Nat]
        /\ \A i \in 0 .. n - 1 : g[i] = f[i + 1]
    BY <1>2, <2>1 DEF Track, n
  <2> HIDE DEF g
  <2>3. g[0] = e /\ g[n - 1] = up
    <3>1. 0 \in 0 .. n - 1 /\ n - 1 \in 0 .. n - 1 /\ (n - 1) + 1 = n /\ 0 + 1 = 1
      BY <1>1
    <3> QED
      BY <1>2, <1>4, <2>2, <3>1 DEF Track, n
  <2>4. ASSUME NEW i \in 1 .. Len(u)
        PROVE  /\ i + 1 \in 1 .. n /\ u[i] = q[i + 1]
               /\ g[i] = f[i + 1] /\ g[i - 1] = f[(i + 1) - 1]
    <3>1. i \in DOMAIN u /\ i \in 0 .. n - 1 /\ i - 1 \in 0 .. n - 1 /\ (i - 1) + 1 = (i + 1) - 1
      BY <1>1
    <3> QED
      BY <1>1, <2>2, <3>1
  <2>5. Track(u, e, up, g)
    <3>1. /\ g \in [0 .. Len(u) -> Nat] /\ g[0] = e /\ g[Len(u)] = up
      BY <1>1, <2>2, <2>3
    <3>2. ASSUME NEW i \in 1 .. Len(u) PROVE Leads(u[i], g[i - 1], g[i])
      BY <1>2, <2>4 DEF Track, n
    <3> QED
      BY <3>1, <3>2 DEF Track
  <2> QED
    BY <2>5
<1>9. Turn(m) => up # id \/ up = None
  <2> SUFFICES ASSUME Turn(m), up # None
               PROVE  up # id
    OBVIOUS
  <2>1. PICK j \in DOMAIN q : q[j].kind = "create" /\ q[j].service = up
    BY <1>1, <1>3 DEF Order
  <2> QED
    BY <1>1, <1>3, <2>1 DEF Order
<1>10. NoTurn(q) => up = id
  BY <1>3 DEF Order
<1> QED
  BY <1>4, <1>7, <1>8, <1>9, <1>10 DEF Turns, m, u

\* While the service that is up lives, nothing comes or goes.
LEMMA TurnsStay ==
    ASSUME NEW q \in Seq(Item), NEW id \in Nat, NEW up \in Nat, NEW last \in Nat,
           Turns(q, id, up, last), up = id, id # None
    PROVE  NoTurn(q)
<1>1. Order(q, id, up, last)
  BY DEF Turns
<1> SUFFICES ASSUME NEW i \in DOMAIN q, Turn(q[i])
             PROVE  FALSE
  BY DEF NoTurn
<1>2. PICK j \in DOMAIN q : q[j].kind = "create" /\ q[j].service = up
  BY <1>1 DEF Order
<1> QED
  BY <1>1, <1>2 DEF Order

\* What is left of a queue without turns has none.
LEMMA TurnsWithout ==
    ASSUME NEW q \in Seq(Item), NEW u \in Seq(Item), NEW id \in Nat, NEW last \in Nat,
           id # None, Turns(q, id, id, last),
           \A i \in DOMAIN u : \E k \in DOMAIN q : u[i] = q[k]
    PROVE  Turns(u, id, id, last)
<1>1. NoTurn(q) /\ id <= last
  BY TurnsStay DEF Turns, Order
<1>2. NoTurn(u)
  BY <1>1 DEF NoTurn
<1>3. Order(u, id, id, last)
  BY <1>1, <1>2 DEF Order, NoTurn, Turn
<1>4. \E g : Track(u, id, id, g)
  <2> DEFINE g == [i \in 0 .. Len(u) |-> id]
  <2>1. Len(u) \in Nat /\ DOMAIN u = 1 .. Len(u)
    OBVIOUS
  <2>2. g \in [0 .. Len(u) -> Nat] /\ \A i \in 0 .. Len(u) : g[i] = id
    OBVIOUS
  <2> HIDE DEF g
  <2>3. \A i \in 1 .. Len(u) : i \in 0 .. Len(u) /\ i - 1 \in 0 .. Len(u)
    BY <2>1
  <2>4. ASSUME NEW i \in 1 .. Len(u) PROVE Leads(u[i], g[i - 1], g[i])
    BY <1>2, <2>1, <2>2, <2>3 DEF Leads, NoTurn, Turn
  <2>5. Track(u, id, id, g)
    BY <2>1, <2>2, <2>4 DEF Track
  <2> QED
    BY <2>5
<1> QED
  BY <1>3, <1>4 DEF Turns

-----------------------------------------------------------------------------
(* The starts that are queued have calls to make.                          *)

\* An item is queued; if it is a start, there is one request more.
LEMMA RankedPut ==
    ASSUME NEW q \in Seq(Item), NEW m \in Item, NEW n \in Nat, NEW starts \in Nat,
           NEW more \in Nat, NEW g, Ranked(q, n, starts, g),
           IF m.kind = "start" THEN more = starts + 1 /\ n <= starts ELSE more = starts
    PROVE  \E h : Ranked(Append(q, m), n, more, h)
<1> DEFINE u == Append(q, m)
           l == Len(q) + 1
           h == [i \in 1 .. l |-> IF i = l THEN more ELSE g[i]]
<1>1. /\ u \in Seq(Item) /\ Len(q) \in Nat /\ Len(u) = l
      /\ \A i \in DOMAIN q : u[i] = q[i] /\ i < l
      /\ DOMAIN q = 1 .. Len(q) /\ u[l] = m
  BY PutItem
<1>2. /\ h \in [1 .. l -> Nat] /\ h[l] = more
      /\ \A i \in 1 .. Len(q) : h[i] = g[i]
  BY <1>1 DEF Ranked
<1> HIDE DEF u, h
<1>3. \A i \in 1 .. l : i = l \/ i \in 1 .. Len(q)
  BY <1>1
<1>4. ASSUME NEW i \in 1 .. l, u[i].kind = "start"
      PROVE  n < h[i] /\ h[i] <= more
  <2>1. CASE i = l
    BY <1>1, <1>2, <1>4, <2>1
  <2>2. CASE i \in 1 .. Len(q)
    <3>1. n < g[i] /\ g[i] <= starts /\ g[i] \in Nat
      BY <1>1, <1>4, <2>2 DEF Ranked
    <3> QED
      BY <1>2, <2>2, <3>1
  <2> QED
    BY <1>3, <2>1, <2>2
<1>5. ASSUME NEW i \in 1 .. l, NEW j \in 1 .. l, u[i].kind = "start", u[j].kind = "start",
             i < j
      PROVE  h[i] < h[j]
  <2>1. i \in 1 .. Len(q)
    BY <1>1, <1>5
  <2>2. h[i] = g[i] /\ g[i] <= starts /\ g[i] \in Nat /\ u[i] = q[i]
    BY <1>1, <1>2, <1>5, <2>1 DEF Ranked
  <2>3. CASE j = l
    BY <1>1, <1>2, <1>5, <2>2, <2>3
  <2>4. CASE j \in 1 .. Len(q)
    <3>1. u[j] = q[j] /\ h[j] = g[j]
      BY <1>1, <1>2, <2>4
    <3> QED
      BY <1>5, <2>1, <2>2, <2>4, <3>1 DEF Ranked
  <2> QED
    BY <1>3, <2>3, <2>4
<1>6. Ranked(u, n, more, h)
  BY <1>1, <1>2, <1>4, <1>5 DEF Ranked
<1> QED
  BY <1>6 DEF u

\* The first start has an unused call, and the others have those after it.
LEMMA RankedTake ==
    ASSUME NEW q \in Seq(Item), q # <<>>, NEW n \in Nat, NEW starts \in Nat, NEW g,
           Ranked(q, n, starts, g)
    PROVE  /\ \E h : Ranked(Tail(q), n, starts, h)
           /\ Head(q).kind = "start" =>
                 n < starts /\ \E h : Ranked(Tail(q), n + 1, starts, h)
<1> DEFINE u == Tail(q)
           l == Len(q)
           h == [i \in 1 .. l - 1 |-> g[i + 1]]
<1>1. /\ u \in Seq(Item) /\ l \in Nat \ {0} /\ Len(u) = l - 1
      /\ DOMAIN u = 1 .. l - 1 /\ DOMAIN q = 1 .. l /\ 1 \in 1 .. l
      /\ \A i \in DOMAIN u : i + 1 \in DOMAIN q /\ u[i] = q[i + 1]
      /\ Head(q) = q[1]
  BY TakeItem
<1>2. g \in [1 .. l -> Nat]
  BY DEF Ranked
<1>3. \A i \in 1 .. l - 1 : i + 1 \in 1 .. l /\ i + 1 > 1
  BY <1>1
<1>4. /\ h \in [1 .. l - 1 -> Nat]
      /\ \A i \in 1 .. l - 1 : h[i] = g[i + 1] /\ g[i + 1] \in Nat
  BY <1>2, <1>3
<1> HIDE DEF u, h
<1>5. ASSUME NEW i \in 1 .. l - 1, u[i].kind = "start"
      PROVE  /\ n < h[i] /\ h[i] <= starts
             /\ Head(q).kind = "start" => n + 1 < h[i]
  <2>1. i + 1 \in 1 .. l /\ q[i + 1].kind = "start" /\ h[i] = g[i + 1] /\ 1 < i + 1
    BY <1>1, <1>3, <1>4, <1>5
  <2>2. n < h[i] /\ h[i] <= starts
    BY <2>1 DEF Ranked
  <2>3. Head(q).kind = "start" => n < g[1] /\ g[1] < g[i + 1]
    BY <1>1, <2>1 DEF Ranked
  <2>4. g[1] \in Nat /\ g[i + 1] \in Nat
    BY <1>1, <1>2, <2>1
  <2> QED
    BY <2>1, <2>2, <2>3, <2>4
<1>6. ASSUME NEW i \in 1 .. l - 1, NEW j \in 1 .. l - 1, u[i].kind = "start",
             u[j].kind = "start", i < j
      PROVE  h[i] < h[j]
  <2>1. /\ i + 1 \in 1 .. l /\ q[i + 1].kind = "start" /\ h[i] = g[i + 1]
        /\ j + 1 \in 1 .. l /\ q[j + 1].kind = "start" /\ h[j] = g[j + 1]
    BY <1>1, <1>3, <1>4, <1>6
  <2>2. i + 1 < j + 1
    BY <1>6
  <2> QED
    BY <2>1, <2>2 DEF Ranked
<1>7. Ranked(u, n, starts, h)
  BY <1>1, <1>4, <1>5, <1>6 DEF Ranked
<1>8. Head(q).kind = "start" => n < starts /\ Ranked(u, n + 1, starts, h)
  <2>1. Head(q).kind = "start" => n < starts
    BY <1>1, <1>2 DEF Ranked
  <2> QED
    BY <1>1, <1>4, <1>5, <1>6, <2>1 DEF Ranked
<1> QED
  BY <1>7, <1>8 DEF u

\* Items are taken back; the starts that are left keep their order.
LEMMA RankedOnly ==
    ASSUME NEW q \in Seq(Item), NEW S, NEW n \in Nat, NEW starts \in Nat, NEW g,
           Ranked(q, n, starts, g)
    PROVE  \E h : Ranked(Only(q, S), n, starts, h)
<1> DEFINE u == Only(q, S)
<1>1. u \in Seq(Item) /\ Len(u) \in Nat /\ Len(q) \in Nat
  BY OnlyLeft
<1>2. PICK e : LeftBy(e, u, q, S, Len(q))
  BY OnlyLeft
<1> HIDE DEF u
<1>3. /\ \A i \in 1 .. Len(u) : e[i] \in 1 .. Len(q) /\ u[i] = q[e[i]]
      /\ \A i, j \in 1 .. Len(u) : i < j => e[i] < e[j]
  BY <1>2 DEF LeftBy
<1> DEFINE h == [i \in 1 .. Len(u) |-> g[e[i]]]
<1>4. /\ h \in [1 .. Len(u) -> Nat]
      /\ \A i \in 1 .. Len(u) : h[i] = g[e[i]]
  BY <1>3 DEF Ranked
<1> HIDE DEF h
<1>5. \A i \in 1 .. Len(u) : u[i].kind = "start" => n < h[i] /\ h[i] <= starts
  BY <1>3, <1>4 DEF Ranked
<1>6. ASSUME NEW i \in 1 .. Len(u), NEW j \in 1 .. Len(u), u[i].kind = "start",
             u[j].kind = "start", i < j
      PROVE  h[i] < h[j]
  <2>1. /\ e[i] \in 1 .. Len(q) /\ e[j] \in 1 .. Len(q) /\ e[i] < e[j]
        /\ q[e[i]].kind = "start" /\ q[e[j]].kind = "start"
    BY <1>3, <1>6
  <2>2. h[i] = g[e[i]] /\ h[j] = g[e[j]]
    BY <1>4
  <2> QED
    BY <2>1, <2>2 DEF Ranked
<1>7. Ranked(u, n, starts, h)
  BY <1>4, <1>5, <1>6 DEF Ranked
<1> QED
  BY <1>7 DEF u

-----------------------------------------------------------------------------
(* A queue from which nothing is taken.                                    *)

\* Taking back what is not there changes nothing.
LEMMA OnlyAll ==
    ASSUME NEW T, NEW q \in Seq(T), NEW S, \A i \in DOMAIN q : q[i] \in S
    PROVE  Only(q, S) = q
<1>0. Len(q) \in Nat /\ DOMAIN q = 1 .. Len(q) /\ \A i \in 1 .. Len(q) : q[i] \in T
  OBVIOUS
<1>1. PICK f : IsUpTo(f, q, S, Len(q)) /\ Only(q, S) = f[Len(q)]
  BY <1>0, OnlyIsUpTo
<1>2. /\ f[0] = <<>>
      /\ \A n \in Nat : n + 1 \in 1 .. Len(q) => f[n + 1] = Append(f[n], q[n + 1])
  <2>1. \A n \in 0 .. Len(q) :
           f[n] = IF n = 0 THEN <<>>
                  ELSE IF q[n] \in S THEN Append(f[n - 1], q[n]) ELSE f[n - 1]
    BY <1>1, Zenon DEF IsUpTo
  <2>2. 0 \in 0 .. Len(q)
    BY <1>0
  <2>3. ASSUME NEW n \in Nat, n + 1 \in 1 .. Len(q)
        PROVE  f[n + 1] = Append(f[n], q[n + 1])
    <3>1. n + 1 \in 0 .. Len(q) /\ n + 1 # 0 /\ (n + 1) - 1 = n /\ q[n + 1] \in S
      BY <1>0, <2>3
    <3> QED
      BY <2>1, <3>1
  <2> QED
    BY <2>1, <2>2, <2>3
<1> DEFINE Same(t, n) == t \in Seq(T) /\ Len(t) = n /\ \A i \in 1 .. n : t[i] = q[i]
           Fits == {n \in Nat : n <= Len(q) => Same(f[n], n)}
<1>3. 0 \in Fits
  <2>1. Same(f[0], 0)
    <3>1. Same(<<>>, 0)
      OBVIOUS
    <3> QED
      BY <1>2, <3>1
  <2> QED
    BY <2>1
<1>4. ASSUME NEW n \in Nat, n \in Fits PROVE n + 1 \in Fits
  <2> SUFFICES ASSUME n + 1 <= Len(q)
               PROVE  Same(f[n + 1], n + 1)
    OBVIOUS
  <2>1. n + 1 \in 1 .. Len(q) /\ Same(f[n], n) /\ q[n + 1] \in T
    BY <1>0, <1>4
  <2>2. f[n + 1] = Append(f[n], q[n + 1])
    BY <1>2, <2>1
  <2> QED
    BY <2>1, <2>2
<1> HIDE DEF Fits
<1>5. Nat \subseteq Fits
  BY <1>3, <1>4, SetInduction
<1>6. Same(Only(q, S), Len(q))
  BY <1>0, <1>1, <1>5 DEF Fits
<1> QED
  BY <1>0, <1>6

-----------------------------------------------------------------------------
(* The whole as a record.                                                  *)

Parts == {"calls", "service", "activity", "notice", "main", "system", "past"}

\* t is s, but for some parts.
Changes(s, t, parts) == DOMAIN t = Parts /\ \A f \in Parts \ parts : t[f] = s[f]

\* What the parts are.
LEMMA WorldFacts ==
    ASSUME NEW w
    PROVE  w \in World <=>
             /\ Changes(w, w, {})
             /\ w.calls \in [Calls -> CallRecord]
             /\ w.service \in [id : Services \cup {None}, call : Calls \cup {None}]
             /\ w.activity \in [started : BOOLEAN, service : Services \cup {None},
                                view : [state : CallState \cup {"none"},
                                        call : Calls \cup {None}]]
             /\ w.notice \in CallState \cup {"none"}
             /\ w.main \in Seq(Item)
             /\ w.system \in [record : Services \cup {None}, last : Services \cup {None},
                              started : BOOLEAN, bound : BOOLEAN, told : BOOLEAN]
             /\ w.past \in [starts : 0 .. MaxStarts, hangUps : 0 .. MaxHangUps,
                            visits : 0 .. MaxVisits, failures : Nat, ended : SUBSET Calls,
                            overrun : BOOLEAN]
             /\ w = [calls |-> w.calls, service |-> w.service, activity |-> w.activity,
                     notice |-> w.notice, main |-> w.main, system |-> w.system,
                     past |-> w.past]
BY DEF World, Changes, Parts

\* An item is queued on the main thread.
LEMMA EnqueueIs ==
    ASSUME NEW w \in World, NEW m \in Item
    PROVE  /\ Enqueue(w, m) \in World /\ Changes(w, Enqueue(w, m), {"main"})
           /\ Enqueue(w, m).main = Append(w.main, m)
<1>1. Append(w.main, m) \in Seq(Item)
  BY WorldFacts
<1> QED
  BY <1>1 DEF Enqueue, World, Changes, Parts

\* The system brings up the next service, which is made later.
LEMMA BringUpIs ==
    ASSUME NEW w \in World, w.system.record = None, w.system.last + 1 \in Services
    PROVE  LET t == BringUp(w)
               n == w.system.last + 1
           IN /\ t \in World /\ Changes(w, t, {"main", "system"})
              /\ t.main = Append(w.main, [kind |-> "create", service |-> n])
              /\ t.system.record = n /\ t.system.last = n
              /\ t.system.started = w.system.started /\ t.system.bound = w.system.bound
              /\ t.system.told = w.system.told
<1> DEFINE n == w.system.last + 1
           s == [w EXCEPT !.system.record = n, !.system.last = n]
           m == [kind |-> "create", service |-> n]
<1>1. BringUp(w) = Enqueue(s, m) /\ m \in Item
  BY ItemFacts DEF BringUp
<1>2. /\ s \in World /\ Changes(w, s, {"system"})
      /\ s.system.record = n /\ s.system.last = n
      /\ s.system.started = w.system.started /\ s.system.bound = w.system.bound
      /\ s.system.told = w.system.told
  BY DEF World, Changes, Parts
<1> HIDE DEF s, m, n
<1> QED
  BY <1>1, <1>2, EnqueueIs DEF Changes, Parts, m, n

\* The system brings the service down when nothing holds it up.
LEMMA BringDownIs ==
    ASSUME NEW w \in World
    PROVE  LET t == BringDown(w)
           IN IF w.system.record = None \/ w.system.started \/ w.system.bound THEN t = w
              ELSE /\ t \in World /\ Changes(w, t, {"main", "system"})
                   /\ t.main = Append(w.main, [kind |-> "destroy"])
                   /\ t.system.record = None /\ t.system.last = w.system.last
                   /\ t.system.started = FALSE /\ t.system.bound = FALSE
                   /\ t.system.told = w.system.told
<1> DEFINE s == [w EXCEPT !.system.record = None]
           m == [kind |-> "destroy"]
<1>1. CASE w.system.record = None \/ w.system.started \/ w.system.bound
  BY <1>1 DEF BringDown
<1>2. CASE ~ (w.system.record = None \/ w.system.started \/ w.system.bound)
  <2>1. BringDown(w) = Enqueue(s, m) /\ m \in Item
    BY <1>2, ItemFacts DEF BringDown
  <2>2. /\ s \in World /\ Changes(w, s, {"system"})
        /\ s.system.record = None /\ s.system.last = w.system.last
        /\ s.system.started = FALSE /\ s.system.bound = FALSE
        /\ s.system.told = w.system.told
    BY <1>2 DEF World, Changes, Parts
  <2> HIDE DEF s, m
  <2> QED
    BY <1>2, <2>1, <2>2, EnqueueIs DEF Changes, Parts, m
<1> QED
  BY <1>1, <1>2

\* A message for the thread of a call.
LEMMA SendIs ==
    ASSUME NEW w \in World, NEW c \in Calls, NEW what \in {"START", "STOP", "RESTART"}
    PROVE  LET t == Send(w, c, what)
           IN /\ t \in World /\ Changes(w, t, {"calls"})
              /\ \A d \in Calls : /\ t.calls[d].state = w.calls[d].state
                                  /\ t.calls[d].thread = w.calls[d].thread
                                  /\ t.calls[d].quits = w.calls[d].quits
                                  /\ t.calls[d].reports = w.calls[d].reports
<1>1. w.calls \in [Calls -> CallRecord] /\ Changes(w, w, {})
  BY WorldFacts
<1>2. CASE w.calls[c].quits
  BY <1>1, <1>2 DEF Send, Changes
<1>3. CASE ~ w.calls[c].quits
  <2> DEFINE b == Append(w.calls[c].box, what)
             t == [w EXCEPT !.calls[c].box = b]
  <2>1. b \in Seq({"START", "STOP", "RESTART"})
    BY <1>1 DEF CallRecord
  <2> HIDE DEF b
  <2>2. /\ t.calls \in [Calls -> CallRecord]
        /\ \A d \in Calls : /\ t.calls[d].state = w.calls[d].state
                            /\ t.calls[d].thread = w.calls[d].thread
                            /\ t.calls[d].quits = w.calls[d].quits
                            /\ t.calls[d].reports = w.calls[d].reports
    <3> DEFINE r == [w.calls[c] EXCEPT !.box = b]
    <3>1. /\ r \in CallRecord /\ r.state = w.calls[c].state
          /\ r.thread = w.calls[c].thread /\ r.quits = w.calls[c].quits
          /\ r.reports = w.calls[c].reports
      BY <1>1, <2>1 DEF CallRecord
    <3>2. t.calls = [w.calls EXCEPT ![c] = r]
      BY DEF World
    <3> HIDE DEF r, t
    <3> QED
      BY <1>1, <3>1, <3>2
  <2>3. Changes(w, t, {"calls"})
    BY DEF World, Changes, Parts
  <2>4. t \in World
    BY <2>2 DEF World
  <2>5. Send(w, c, what) = t
    BY <1>3 DEF Send, b
  <2> QED
    BY <2>2, <2>3, <2>4, <2>5
<1> QED
  BY <1>2, <1>3

\* The call of the service is let go.
LEMMA LetGoIs ==
    ASSUME NEW w \in World, NEW c \in Calls
    PROVE  LET t == LetGo(w, c)
           IN /\ t \in World /\ Changes(w, t, {"calls"})
              /\ \A d \in Calls : /\ t.calls[d].state = w.calls[d].state
                                  /\ t.calls[d].thread = w.calls[d].thread
              /\ \A d \in Calls \ {c} : /\ t.calls[d].quits = w.calls[d].quits
                                        /\ t.calls[d].reports = w.calls[d].reports
              /\ t.calls[c].quits /\ t.calls[c].reports = None
<1> DEFINE s == Send(w, c, "STOP")
           t == [s EXCEPT !.calls[c].quits = TRUE, !.calls[c].delayed = FALSE,
                          !.calls[c].reports = None]
<1>1. /\ s \in World /\ Changes(w, s, {"calls"})
      /\ \A d \in Calls : /\ s.calls[d].state = w.calls[d].state
                          /\ s.calls[d].thread = w.calls[d].thread
                          /\ s.calls[d].quits = w.calls[d].quits
                          /\ s.calls[d].reports = w.calls[d].reports
  BY SendIs
<1> HIDE DEF s
<1>2. s.calls \in [Calls -> CallRecord] /\ Changes(s, s, {})
  BY <1>1, WorldFacts
<1>3. /\ t.calls \in [Calls -> CallRecord]
      /\ \A d \in Calls : /\ t.calls[d].state = s.calls[d].state
                          /\ t.calls[d].thread = s.calls[d].thread
      /\ \A d \in Calls \ {c} : /\ t.calls[d].quits = s.calls[d].quits
                                /\ t.calls[d].reports = s.calls[d].reports
      /\ t.calls[c].quits /\ t.calls[c].reports = None
  <2> DEFINE r == [s.calls[c] EXCEPT !.quits = TRUE, !.delayed = FALSE, !.reports = None]
  <2>1. /\ r \in CallRecord /\ r.state = s.calls[c].state /\ r.thread = s.calls[c].thread
        /\ r.quits /\ r.reports = None
    BY <1>2 DEF CallRecord
  <2>2. t.calls = [s.calls EXCEPT ![c] = r]
    BY <1>1 DEF World
  <2> HIDE DEF r, t
  <2> QED
    BY <1>2, <2>1, <2>2
<1>4. Changes(s, t, {"calls"}) /\ t \in World
  BY <1>1, <1>3 DEF World, Changes, Parts
<1>5. LetGo(w, c) = t
  BY DEF LetGo, s
<1> QED
  BY <1>1, <1>3, <1>4, <1>5 DEF Changes, Parts

-----------------------------------------------------------------------------
(* What is queued.                                                         *)

\* An item that is no turn leaves what was asked for.
LEMMA AskedPut ==
    ASSUME NEW q \in Seq(Item), NEW m \in Item, ~ Turn(m)
    PROVE  /\ \A i \in DOMAIN q : NoTurnAfter(q, i) => NoTurnAfter(Append(q, m), i)
           /\ NoTurnAfter(Append(q, m), Len(q) + 1)
           /\ Asked(q) => Asked(Append(q, m))
           /\ m.kind \in {"start", "hang up"} => Asked(Append(q, m))
<1> DEFINE u == Append(q, m)
           l == Len(q) + 1
<1>1. /\ Len(q) \in Nat /\ DOMAIN q = 1 .. Len(q) /\ DOMAIN u = 1 .. l
      /\ \A i \in DOMAIN q : i \in DOMAIN u /\ u[i] = q[i]
      /\ l \in DOMAIN u /\ u[l] = m
      /\ \A i \in DOMAIN u : i \in DOMAIN q \/ i = l
  BY PutItem
<1> HIDE DEF u
<1>2. \A i \in DOMAIN q : NoTurnAfter(q, i) => NoTurnAfter(u, i)
  BY <1>1 DEF NoTurnAfter
<1>3. NoTurnAfter(u, l)
  BY <1>1 DEF NoTurnAfter
<1>4. Asked(q) => Asked(u)
  BY <1>1, <1>2 DEF Asked
<1>5. m.kind \in {"start", "hang up"} => Asked(u)
  BY <1>1, <1>3 DEF Asked
<1> QED
  BY <1>2, <1>3, <1>4, <1>5 DEF u

\* An item that brings no state does not change what is seen.
LEMMA ScreenPut ==
    ASSUME NEW w \in World, NEW t \in World, NEW m \in Item, m.kind # "state",
           t.main = Append(w.main, m), t.calls = w.calls, t.service = w.service,
           t.activity = w.activity, t.notice = w.notice
    PROVE  /\ Owned(w) => Owned(t)
           /\ Empty(w) => Empty(t)
           /\ Newest(w) => Newest(t)
           /\ Noticed(w) => Noticed(t)
           /\ m.kind # "attach" /\ Viewed(w) => Viewed(t)
           /\ Told(t) => Told(w)
           /\ StateOf(t) = StateOf(w)
<1> DEFINE q == w.main
           u == t.main
           l == Len(q) + 1
<1>0. q \in Seq(Item)
  BY WorldFacts
<1>1. /\ DOMAIN q = 1 .. Len(q) /\ DOMAIN u = 1 .. l
      /\ \A i \in DOMAIN q : i \in DOMAIN u /\ u[i] = q[i] /\ i < l
      /\ l \in DOMAIN u /\ u[l] = m
      /\ \A i \in DOMAIN u : i \in DOMAIN q \/ i = l
  BY <1>0, PutItem
<1>2. /\ \A x : Mine(t, x) <=> Mine(w, x)
      /\ ~ Mine(t, m)
      /\ StateOf(t) = StateOf(w)
  BY DEF Mine, StateOf
<1> HIDE DEF q, u
<1>3. Owned(w) => Owned(t)
  BY <1>1 DEF Owned, q, u
<1>4. Empty(w) => Empty(t)
  BY DEF Empty
<1>5. \A i \in DOMAIN u : Mine(t, u[i]) => i \in DOMAIN q /\ Mine(w, q[i])
  BY <1>1, <1>2
<1>6. Newest(w) => Newest(t)
  <2> SUFFICES ASSUME Newest(w), t.service.call # None,
                      t.calls[t.service.call].thread # "fires",
                      NEW i \in DOMAIN u, Mine(t, u[i]),
                      \A j \in DOMAIN u : j > i => ~ Mine(t, u[j])
               PROVE  u[i].state = t.calls[t.service.call].state
    BY DEF Newest, u
  <2>1. i \in DOMAIN q /\ Mine(w, q[i]) /\ u[i] = q[i]
    BY <1>1, <1>5
  <2>2. \A j \in DOMAIN q : j > i => ~ Mine(w, q[j])
    BY <1>1, <1>2
  <2> QED
    BY <2>1, <2>2 DEF Newest, q
<1>7. Told(t) => Told(w)
  BY <1>1, <1>2 DEF Told, q, u
<1>8. Noticed(w) => Noticed(t)
  BY <1>2, <1>7 DEF Noticed
<1>9. m.kind # "attach" /\ Viewed(w) => Viewed(t)
  <2> SUFFICES ASSUME m.kind # "attach", Viewed(w), t.activity.service # None, Told(t)
               PROVE  Viewed(t)
    BY DEF Viewed
  <2>1. Told(w) /\ w.activity.service # None
    BY <1>7
  <2>2. \A i \in DOMAIN u : u[i].kind = "attach" => i \in DOMAIN q /\ u[i] = q[i]
    BY <1>1
  <2>3. ASSUME NEW i \in DOMAIN u, u[i].kind = "attach",
               \A j \in DOMAIN u : j > i => u[j].kind # "attach"
        PROVE  u[i].state = StateOf(t)
    <3>1. \A j \in DOMAIN q : j > i => q[j].kind # "attach"
      BY <1>1, <2>3
    <3> QED
      BY <1>2, <2>1, <2>2, <2>3, <3>1 DEF Viewed, q
  <2>4. (\A i \in DOMAIN u : u[i].kind # "attach")
           => \A i \in DOMAIN q : q[i].kind # "attach"
    BY <1>1
  <2> QED
    BY <1>2, <2>1, <2>3, <2>4 DEF Viewed, q, u
<1> QED
  BY <1>2, <1>3, <1>4, <1>6, <1>7, <1>8, <1>9

\* What is seen depends on no more than this.
LEMMA ScreenSame ==
    ASSUME NEW w, NEW t, t.main = w.main, t.calls = w.calls, t.service = w.service,
           t.activity.service = w.activity.service, t.activity.view = w.activity.view,
           t.notice = w.notice
    PROVE  /\ Owned(w) => Owned(t)
           /\ Empty(w) => Empty(t)
           /\ Newest(w) => Newest(t)
           /\ Noticed(w) => Noticed(t)
           /\ Viewed(w) => Viewed(t)
           /\ Told(t) <=> Told(w)
           /\ StateOf(t) = StateOf(w)
<1>1. /\ \A x : Mine(t, x) <=> Mine(w, x)
      /\ StateOf(t) = StateOf(w)
  BY DEF Mine, StateOf
<1>2. Told(t) <=> Told(w)
  BY <1>1 DEF Told
<1>3. Owned(w) => Owned(t)
  BY DEF Owned
<1>4. Empty(w) => Empty(t)
  BY DEF Empty
<1>5. Newest(w) => Newest(t)
  BY <1>1 DEF Newest
<1>6. Noticed(w) => Noticed(t)
  BY <1>1, <1>2 DEF Noticed
<1>7. Viewed(w) => Viewed(t)
  BY <1>1, <1>2 DEF Viewed
<1> QED
  BY <1>1, <1>2, <1>3, <1>4, <1>5, <1>6, <1>7

\* Nor is the number of calls to make changed by anything but a start.
LEMMA SuppliedPut ==
    ASSUME NEW w \in World, NEW t \in World, NEW m \in Item, NEW k \in Nat, NEW l \in Nat,
           t.main = Append(w.main, m), SuppliedBy(w, k),
           \A c \in Calls : t.calls[c].thread = "none" <=> w.calls[c].thread = "none",
           IF m.kind = "start" THEN l = k + 1 ELSE l = k
    PROVE  SuppliedBy(t, l)
<1>1. PICK n \in 0 .. MaxStarts :
         /\ \A c \in Calls : w.calls[c].thread # "none" <=> c <= n
         /\ n <= k
         /\ \E g : Ranked(w.main, n, k, g)
  BY DEF SuppliedBy
<1>2. PICK g : Ranked(w.main, n, k, g)
  BY <1>1
<1>3. n \in Nat /\ w.main \in Seq(Item)
  BY WorldFacts, Numbers
<1>4. \E h : Ranked(t.main, n, l, h)
  BY <1>1, <1>2, <1>3, RankedPut
<1>5. \A c \in Calls : t.calls[c].thread # "none" <=> c <= n
  BY <1>1
<1>6. n <= l
  BY <1>1, <1>3
<1> QED
  BY <1>4, <1>5, <1>6 DEF SuppliedBy

\* Only which calls have been used matters, and what is queued.
LEMMA SuppliedSame ==
    ASSUME NEW w, NEW t, NEW k, t.main = w.main, SuppliedBy(w, k),
           \A c \in Calls : t.calls[c].thread = "none" <=> w.calls[c].thread = "none"
    PROVE  SuppliedBy(t, k)
BY DEF SuppliedBy

-----------------------------------------------------------------------------
(* The service is brought down.                                            *)

\* What is brought down is no longer awaited: all that depends on it is void.
LEMMA BringDownKeeps ==
    ASSUME NEW s, Base(s), Counted(s), Supplied(s), Purposeful(s),
           s.system.record = None => ~ s.system.started /\ ~ s.system.bound
    PROVE  LET t == BringDown(s)
           IN /\ Kernel(t) /\ Purposeful(t) /\ (Viewed(s) => Viewed(t))
              /\ t.service = s.service /\ t.activity = s.activity /\ t.calls = s.calls
              /\ t.notice = s.notice
<1> DEFINE t == BringDown(s)
           m == [kind |-> "destroy"]
<1>0. s \in World /\ Changes(s, s, {})
  BY WorldFacts DEF Base
<1>1. CASE s.system.record = None \/ s.system.started \/ s.system.bound
  <2>1. t = s
    BY <1>0, <1>1, BringDownIs
  <2>2. Upheld(s)
    BY <1>1 DEF Upheld
  <2> QED
    BY <2>1, <2>2 DEF Kernel
<1>2. CASE ~ (s.system.record = None \/ s.system.started \/ s.system.bound)
  <2>1. /\ t \in World /\ Changes(s, t, {"main", "system"})
        /\ t.main = Append(s.main, m)
        /\ t.system.record = None /\ t.system.last = s.system.last
        /\ t.system.started = FALSE /\ t.system.bound = FALSE
        /\ t.system.told = s.system.told
    BY <1>0, <1>2, BringDownIs
  <2> HIDE DEF t
  <2>2. m \in Item /\ m.kind = "destroy"
    BY ItemFacts
  <2> HIDE DEF m
  <2>3. /\ t.calls = s.calls /\ t.service = s.service /\ t.activity = s.activity
        /\ t.notice = s.notice /\ t.past = s.past
    BY <2>1 DEF Changes, Parts
  <2>4. /\ Owned(t) /\ Empty(t) /\ Newest(t) /\ Noticed(t) /\ (Viewed(s) => Viewed(t))
    BY <1>0, <2>1, <2>2, <2>3, ScreenPut DEF Base
  <2>5. Supplied(t)
    <3>1. s.past.starts \in Nat /\ t.past.starts = s.past.starts
      BY <1>0, <2>3, Numbers DEF World
    <3>2. SuppliedBy(s, s.past.starts)
      BY DEF Supplied
    <3>3. SuppliedBy(t, s.past.starts)
      BY <1>0, <2>1, <2>2, <2>3, <3>1, <3>2, SuppliedPut
    <3> QED
      BY <3>1, <3>3 DEF Supplied
  <2>6. InTurn(t)
    <3>1. /\ s.main \in Seq(Item) /\ s.service.id \in Nat /\ s.system.record \in Nat
          /\ s.system.last \in Nat
      BY <1>0, WorldFacts, Numbers
    <3>2. Turns(s.main, s.service.id, s.system.record, s.system.last)
      BY DEF Base, InTurn
    <3>3. Turns(Append(s.main, m), s.service.id, None, s.system.last)
      BY <1>2, <3>1, <3>2, TurnsDown DEF m
    <3> QED
      BY <2>1, <2>3, <3>3 DEF InTurn
  <2>7. \A i \in DOMAIN t.main : t.main[i].kind # "destroy" =>
           i \in DOMAIN s.main /\ t.main[i] = s.main[i]
    BY <1>0, <2>1, <2>2, WorldFacts, PutItem
  <2>8. Awaited(t)
    BY <1>2, <2>3, <2>7 DEF Base, Awaited
  <2>9. Binding(t)
    <3>1. /\ s.system.bound = FALSE /\ s.activity.started = FALSE
          /\ s.system.told = FALSE /\ s.activity.service = None
      BY <1>0, <1>2 DEF Base, Binding, World
    <3>2. \A i \in DOMAIN t.main : t.main[i].kind \notin {"connected", "attach"}
      BY <2>7, <3>1 DEF Base, Binding
    <3> QED
      BY <2>1, <2>3, <3>1, <3>2 DEF Binding
  <2>10. Counted(t) /\ Upheld(t) /\ Held(t) /\ Purposeful(t)
    BY <1>2, <2>1, <2>3 DEF Base, Counted, Upheld, Held, Purposeful
  <2> QED
    BY <2>1, <2>3, <2>4, <2>5, <2>6, <2>8, <2>9, <2>10 DEF Kernel, Base, t
<1> QED
  BY <1>1, <1>2

-----------------------------------------------------------------------------
(* The service stops itself.                                               *)

\* It does so when its call is over, or when the item that asked for it was the
\* only one.
LEMMA StopSelfKeeps ==
    ASSUME NEW w, Kernel(w),
           w.system.started /\ w.service.id # w.system.record => Asked(w.main),
           w.service.call # None => w.service.call \in w.past.ended
    PROVE  LET t == StopSelf(w)
           IN /\ Kernel(t) /\ Purposeful(t) /\ (Viewed(w) => Viewed(t))
              /\ t.service = w.service /\ t.activity = w.activity /\ t.calls = w.calls
              /\ t.notice = w.notice
<1> DEFINE o == w.past.overrun \/ \E i \in DOMAIN w.main : w.main[i].kind = "start"
           s == [w EXCEPT !.system.started = FALSE, !.past.overrun = o]
           t == BringDown(s)
<1>0. w \in World /\ Changes(w, w, {})
  BY WorldFacts DEF Kernel, Base
<1>1. CASE w.system.record # w.service.id
  <2>1. StopSelf(w) = w
    BY <1>1 DEF StopSelf
  <2>2. Purposeful(w)
    BY <1>1 DEF Purposeful
  <2> QED
    BY <2>1, <2>2
<1>2. CASE w.system.record = w.service.id
  <2>1. StopSelf(w) = t
    BY <1>2 DEF StopSelf
  <2>2. /\ Changes(w, s, {"system", "past"}) /\ s \in World
        /\ s.system.record = w.system.record /\ s.system.last = w.system.last
        /\ s.system.started = FALSE /\ s.system.bound = w.system.bound
        /\ s.system.told = w.system.told
        /\ s.past.starts = w.past.starts /\ s.past.hangUps = w.past.hangUps
        /\ s.past.visits = w.past.visits /\ s.past.ended = w.past.ended
        /\ (~ s.past.overrun =>
              ~ w.past.overrun /\ \A i \in DOMAIN w.main : w.main[i].kind # "start")
    <3> HIDE DEF o
    <3>1. o \in BOOLEAN
      BY <1>0 DEF World, o
    <3>2. /\ Changes(w, s, {"system", "past"}) /\ s \in World
          /\ s.system.record = w.system.record /\ s.system.last = w.system.last
          /\ s.system.started = FALSE /\ s.system.bound = w.system.bound
          /\ s.system.told = w.system.told
          /\ s.past.starts = w.past.starts /\ s.past.hangUps = w.past.hangUps
          /\ s.past.visits = w.past.visits /\ s.past.ended = w.past.ended
          /\ s.past.overrun = o
      BY <1>0, <3>1 DEF World, Changes, Parts
    <3> HIDE DEF s
    <3> QED
      BY <3>2 DEF o
  <2> HIDE DEF s
  <2>3. /\ s.main = w.main /\ s.calls = w.calls /\ s.service = w.service
        /\ s.activity = w.activity /\ s.notice = w.notice
    BY <2>2 DEF Changes, Parts
  <2>4. Counted(s) /\ Purposeful(s) /\ InTurn(s) /\ Awaited(s) /\ Held(s) /\ Binding(s)
    BY <2>2, <2>3 DEF Kernel, Base, Counted, Purposeful, InTurn, Awaited, Held, Binding
  <2>5. Owned(s) /\ Empty(s) /\ Newest(s) /\ Noticed(s) /\ (Viewed(w) => Viewed(s))
    BY <2>3, ScreenSame DEF Kernel, Base
  <2>6. Supplied(s)
    BY <2>2, <2>3, SuppliedSame DEF Kernel, Supplied
  <2>7. s.system.record = None => ~ s.system.started /\ ~ s.system.bound
    BY <2>2 DEF Kernel, Upheld
  <2> HIDE DEF t
  <2>8. /\ Kernel(t) /\ Purposeful(t) /\ (Viewed(s) => Viewed(t))
        /\ t.service = s.service /\ t.activity = s.activity /\ t.calls = s.calls
        /\ t.notice = s.notice
    BY <2>2, <2>4, <2>5, <2>6, <2>7, BringDownKeeps DEF Base, t
  <2> QED
    BY <2>1, <2>3, <2>5, <2>8
<1> QED
  BY <1>1, <1>2

\* A fragment that brings the state of the call is what will be seen.
LEMMA ShowFragmentKeeps ==
    ASSUME NEW w, Kernel(w), Purposeful(w), NEW s \in CallState, Told(w) => s = StateOf(w)
    PROVE  Sound(ShowFragment(w, s))
<1> DEFINE m == [kind |-> "attach", state |-> s]
           t == Enqueue(w, m)
<1>0. w \in World /\ m \in Item /\ m.kind = "attach" /\ m.state = s
  BY ItemFacts DEF Kernel, Base
<1>1. CASE w.activity.service = None \/ w.activity.service # w.service.id
  <2>1. ShowFragment(w, s) = w
    BY <1>1 DEF ShowFragment
  <2>2. w.activity.service = None
    BY <1>1 DEF Kernel, Base, Binding
  <2>3. Viewed(w)
    BY <2>2 DEF Viewed
  <2> QED
    BY <2>1, <2>3 DEF Sound
<1>2. CASE ~ (w.activity.service = None \/ w.activity.service # w.service.id)
  <2>1. ShowFragment(w, s) = t
    BY <1>2 DEF ShowFragment
  <2> HIDE DEF m
  <2>2. t \in World /\ Changes(w, t, {"main"}) /\ t.main = Append(w.main, m)
    BY <1>0, EnqueueIs
  <2> HIDE DEF t
  <2>3. /\ t.calls = w.calls /\ t.service = w.service /\ t.activity = w.activity
        /\ t.notice = w.notice /\ t.system = w.system /\ t.past = w.past
    BY <2>2 DEF Changes, Parts
  <2>4. /\ w.main \in Seq(Item) /\ w.service.id \in Nat /\ w.system.record \in Nat
        /\ w.system.last \in Nat /\ w.past.starts \in Nat
    BY <1>0, WorldFacts, Numbers
  <2>5. /\ DOMAIN w.main = 1 .. Len(w.main) /\ DOMAIN t.main = 1 .. Len(w.main) + 1
        /\ \A i \in DOMAIN w.main : i \in DOMAIN t.main /\ t.main[i] = w.main[i]
                                    /\ i < Len(w.main) + 1
        /\ Len(w.main) + 1 \in DOMAIN t.main /\ t.main[Len(w.main) + 1] = m
        /\ \A i \in DOMAIN t.main : i \in DOMAIN w.main \/ i = Len(w.main) + 1
    BY <1>0, <2>2, <2>4, PutItem
  <2>6. Owned(t) /\ Empty(t) /\ Newest(t) /\ Noticed(t) /\ (Told(t) => Told(w))
        /\ StateOf(t) = StateOf(w)
    BY <1>0, <2>2, <2>3, ScreenPut DEF Kernel, Base
  <2>7. InTurn(t)
    BY <1>0, <2>2, <2>3, <2>4, TurnsPut DEF Kernel, Base, InTurn, Turn
  <2>8. Awaited(t) /\ Purposeful(t)
    <3>1. /\ \A i \in DOMAIN w.main : NoTurnAfter(w.main, i) => NoTurnAfter(t.main, i)
          /\ Asked(w.main) => Asked(t.main)
      BY <1>0, <2>2, <2>4, AskedPut DEF Turn
    <3>2. \A i \in DOMAIN t.main : t.main[i].kind = "start" =>
             i \in DOMAIN w.main /\ t.main[i] = w.main[i]
      BY <1>0, <2>5
    <3>3. Awaited(t)
      BY <2>3, <3>1, <3>2 DEF Kernel, Base, Awaited
    <3>4. Purposeful(t)
      BY <2>3, <3>1 DEF Purposeful
    <3> QED
      BY <3>3, <3>4
  <2>9. Binding(t)
    BY <1>0, <1>2, <2>3, <2>5 DEF Kernel, Base, Binding
  <2>10. Supplied(t)
    BY <1>0, <2>2, <2>3, <2>4, SuppliedPut DEF Kernel, Base, Supplied
  <2>11. Viewed(t)
    <3>1. ASSUME NEW i \in DOMAIN t.main,
                 \A j \in DOMAIN t.main : j > i => t.main[j].kind # "attach"
          PROVE  i = Len(w.main) + 1
      BY <1>0, <2>5, <3>1
    <3> QED
      BY <1>0, <2>5, <2>6, <3>1 DEF Viewed
  <2>12. Counted(t) /\ Upheld(t) /\ Held(t)
    BY <2>3 DEF Kernel, Base, Counted, Upheld, Held
  <2> QED
    BY <2>1, <2>2, <2>6, <2>7, <2>8, <2>9, <2>10, <2>11, <2>12 DEF Sound, Kernel, Base, t
<1> QED
  BY <1>1, <1>2

-----------------------------------------------------------------------------
(* The service is brought up.                                              *)

\* There is a number for every service that can be made.
LEMMA ServicesSuffice ==
    ASSUME NEW a \in 0 .. MaxStarts, NEW b \in 0 .. MaxHangUps, NEW c \in 0 .. MaxVisits,
           NEW l \in Nat, l + 1 <= a + b + c
    PROVE  l <= a + b + c /\ l + 1 \in Services
BY ServiceAssumption DEF Services

\* The service that is brought up comes behind what is queued.
LEMMA BringUpKeeps ==
    ASSUME NEW w, Base(w), Purposeful(w), Viewed(w),
           w.system.record = None => ~ w.system.started /\ ~ w.system.told,
           NEW k \in Nat, SuppliedBy(w, k),
           w.system.last + 1 <= w.past.starts + w.past.hangUps + w.past.visits
    PROVE  LET t == BringUp(w)
           IN /\ Base(t) /\ Purposeful(t) /\ Viewed(t) /\ SuppliedBy(t, k) /\ Counted(t)
              /\ t.system.record # None /\ Changes(w, t, {"main", "system"})
              /\ t.system.started = w.system.started /\ t.system.bound = w.system.bound
              /\ t.system.told = w.system.told
<1> DEFINE n == w.system.last + 1
           t == BringUp(w)
           m == [kind |-> "create", service |-> n]
<1>0. /\ w \in World /\ Changes(w, w, {}) /\ w.main \in Seq(Item) /\ w.service.id \in Nat
      /\ w.system.record \in Nat /\ w.system.last \in Nat /\ w.past.starts \in 0 .. MaxStarts
      /\ w.past.hangUps \in 0 .. MaxHangUps /\ w.past.visits \in 0 .. MaxVisits
  BY WorldFacts, Numbers DEF Base
<1>a. w.system.last <= w.past.starts + w.past.hangUps + w.past.visits /\ n \in Services
  BY <1>0, ServicesSuffice
<1>1. CASE w.system.record # None
  <2>1. BringUp(w) = w
    BY <1>1 DEF BringUp
  <2>2. Counted(w)
    BY <1>a DEF Counted
  <2>3. /\ Base(w) /\ Purposeful(w) /\ Viewed(w) /\ SuppliedBy(w, k) /\ Counted(w)
        /\ w.system.record # None /\ Changes(w, w, {"main", "system"})
    BY <1>0, <1>1, <2>2 DEF Changes
  <2> HIDE DEF t
  <2> QED
    BY <2>1, <2>3
<1>2. CASE w.system.record = None
  <2>1. n \in Services
    BY <1>a
  <2>2. /\ t \in World /\ Changes(w, t, {"main", "system"})
        /\ t.main = Append(w.main, m)
        /\ t.system.record = n /\ t.system.last = n
        /\ t.system.started = w.system.started /\ t.system.bound = w.system.bound
        /\ t.system.told = w.system.told
    BY <1>0, <1>2, <2>1, BringUpIs
  <2> HIDE DEF t
  <2>3. /\ t.calls = w.calls /\ t.service = w.service /\ t.activity = w.activity
        /\ t.notice = w.notice /\ t.past = w.past
    BY <2>2 DEF Changes, Parts
  <2>4. m \in Item /\ m.kind = "create"
    BY <2>1, ItemFacts
  <2>5. InTurn(t)
    <3>1. Turns(w.main, w.service.id, None, w.system.last)
      BY <1>2 DEF Base, InTurn
    <3>2. Turns(Append(w.main, m), w.service.id, n, n)
      BY <1>0, <2>1, <3>1, TurnsUp
    <3> QED
      BY <2>2, <2>3, <3>2 DEF InTurn
  <2> HIDE DEF m, n
  <2>6. \A i \in DOMAIN t.main : t.main[i].kind # "create" =>
           i \in DOMAIN w.main /\ t.main[i] = w.main[i]
    BY <1>0, <2>2, <2>4, PutItem
  <2>7. Owned(t) /\ Empty(t) /\ Newest(t) /\ Noticed(t) /\ Viewed(t)
    BY <1>0, <2>2, <2>3, <2>4, ScreenPut DEF Base
  <2>8. Awaited(t)
    BY <1>2, <2>2, <2>3, <2>6 DEF Base, Awaited
  <2>9. Binding(t)
    <3>1. w.system.told = FALSE /\ w.activity.service = None
      <4>1. w.system.told = FALSE
        BY <1>0, <1>2 DEF World
      <4> QED
        BY <4>1 DEF Base, Binding
    <3>2. \A i \in DOMAIN t.main : t.main[i].kind \notin {"connected", "attach"}
      BY <2>6, <3>1 DEF Base, Binding
    <3>3. t.system.bound = t.activity.started
      BY <2>2, <2>3 DEF Base, Binding
    <3>4. ~ t.system.told /\ t.activity.service = None
      BY <2>2, <2>3, <3>1
    <3> QED
      BY <3>2, <3>3, <3>4 DEF Binding
  <2>10. SuppliedBy(t, k)
    <3>1. m.kind # "start" /\ \A c \in Calls : t.calls[c].thread = "none" <=>
                                                w.calls[c].thread = "none"
      BY <2>3, <2>4
    <3> QED
      BY <1>0, <2>2, <2>4, <3>1, SuppliedPut
  <2>11. Purposeful(t) /\ Held(t) /\ Counted(t)
    BY <1>0, <1>2, <2>2, <2>3, Numbers DEF Purposeful, Base, Held, Counted, n
  <2>12. n # None
    BY <2>1, Numbers
  <2> QED
    BY <2>2, <2>5, <2>7, <2>8, <2>9, <2>10, <2>11, <2>12 DEF Base, t
<1> QED
  BY <1>1, <1>2

\* A start or a hang-up is asked for.
OneMore(w, s, m) ==
    /\ s.past.ended = w.past.ended /\ s.past.overrun = w.past.overrun
    /\ s.past.visits = w.past.visits
    /\ \/ /\ m.kind = "start" /\ s.past.starts = w.past.starts + 1
          /\ s.past.hangUps = w.past.hangUps
       \/ /\ m.kind = "hang up" /\ s.past.starts = w.past.starts
          /\ s.past.hangUps = w.past.hangUps + 1

\* The item that is asked for comes behind the service it is for.
LEMMA StartServiceKeeps ==
    ASSUME NEW w, Sound(w), NEW s \in World, Changes(w, s, {"past"}), NEW m \in Item,
           OneMore(w, s, m)
    PROVE  Sound(StartService(s, m))
<1> DEFINE k == w.past.starts
           b == BringUp(s)
           x == [b EXCEPT !.system.started = TRUE]
           t == StartService(s, m)
<1> HIDE DEF b, x, t
<1>0. /\ w \in World /\ k \in Nat /\ w.past.hangUps \in Nat /\ w.past.visits \in Nat
      /\ w.system.last \in Nat
  <2>1. w \in World
    BY DEF Sound, Kernel, Base
  <2>2. /\ w.past.starts \in Nat /\ w.past.hangUps \in Nat /\ w.past.visits \in Nat
        /\ w.system.last \in Nat
    BY <2>1, WorldFacts, Numbers
  <2> QED
    BY <2>1, <2>2
<1>1. /\ s.calls = w.calls /\ s.service = w.service /\ s.activity = w.activity
      /\ s.notice = w.notice /\ s.main = w.main /\ s.system = w.system
  BY DEF Changes, Parts
<1>b. /\ s.past.ended = w.past.ended /\ s.past.overrun = w.past.overrun
      /\ m.kind \in {"start", "hang up"}
      /\ IF m.kind = "start" THEN s.past.starts = k + 1 ELSE s.past.starts = k
  BY DEF OneMore
<1>2. Base(s) /\ Purposeful(s) /\ Viewed(s) /\ SuppliedBy(s, k)
  <2>1. InTurn(s) /\ Awaited(s) /\ Held(s) /\ Purposeful(s) /\ Binding(s)
    BY <1>1, <1>b DEF Sound, Kernel, Base, InTurn, Awaited, Held, Purposeful, Binding
  <2> HIDE DEF k
  <2>2. SuppliedBy(w, k) /\ \A c \in Calls : s.calls[c].thread = "none" <=>
                                              w.calls[c].thread = "none"
    BY <1>1 DEF Sound, Kernel, Supplied, k
  <2>3. SuppliedBy(s, k)
    BY <1>1, <2>2, SuppliedSame
  <2>4. Empty(s) /\ Owned(s) /\ Newest(s) /\ Noticed(s) /\ Viewed(s)
    BY <1>1, ScreenSame DEF Sound, Kernel, Base
  <2> QED
    BY <2>1, <2>3, <2>4 DEF Base
<1>3. s.system.record = None => ~ s.system.started /\ ~ s.system.told
  <2>1. /\ w.system.record # None <=> w.system.started \/ w.system.bound
        /\ w.system.told => w.system.bound
    BY DEF Sound, Kernel, Base, Upheld, Binding
  <2> QED
    BY <1>1, <2>1
<1>4. s.system.last + 1 <= s.past.starts + s.past.hangUps + s.past.visits
  <2>1. w.system.last <= w.past.starts + w.past.hangUps + w.past.visits
        /\ s.system.last = w.system.last
    BY <1>1 DEF Sound, Kernel, Counted
  <2>2. CASE /\ s.past.starts = w.past.starts + 1
             /\ s.past.hangUps = w.past.hangUps /\ s.past.visits = w.past.visits
    BY <1>0, <2>1, <2>2
  <2>3. CASE /\ s.past.starts = w.past.starts
             /\ s.past.hangUps = w.past.hangUps + 1 /\ s.past.visits = w.past.visits
    BY <1>0, <2>1, <2>3
  <2> QED
    BY <2>2, <2>3 DEF OneMore
<1>5. /\ Base(b) /\ Purposeful(b) /\ Viewed(b) /\ SuppliedBy(b, k) /\ Counted(b)
      /\ b.system.record # None /\ Changes(s, b, {"main", "system"})
  BY <1>0, <1>2, <1>3, <1>4, BringUpKeeps DEF b
<1>6. /\ x \in World /\ Changes(b, x, {"system"}) /\ x.system.started = TRUE
      /\ x.system.record = b.system.record /\ x.system.last = b.system.last
      /\ x.system.bound = b.system.bound /\ x.system.told = b.system.told
  BY <1>5 DEF Base, World, Changes, Parts, x
<1>7. t \in World /\ Changes(x, t, {"main"}) /\ t.main = Append(x.main, m)
  <2>1. t = Enqueue(x, m)
    BY DEF StartService, x, b, t
  <2> QED
    BY <1>6, <2>1, EnqueueIs
<1>8. /\ t.calls = b.calls /\ t.service = b.service /\ t.activity = b.activity
      /\ t.notice = b.notice /\ t.past = s.past /\ b.past = s.past /\ t.main = Append(b.main, m)
      /\ t.system = x.system
  BY <1>5, <1>6, <1>7 DEF Changes, Parts
<1>9. /\ b \in World /\ b.main \in Seq(Item) /\ b.service.id \in Nat /\ b.system.record \in Nat
      /\ b.system.last \in Nat /\ s.past.starts \in Nat
  BY <1>5, <1>8, WorldFacts, Numbers DEF Base
<1>10. m.kind # "state" /\ m.kind # "attach" /\ ~ Turn(m)
  BY <1>b DEF Turn
<1>11. Owned(t) /\ Empty(t) /\ Newest(t) /\ Noticed(t) /\ Viewed(t)
  BY <1>5, <1>7, <1>8, <1>9, <1>10, ScreenPut DEF Base
<1>12. InTurn(t)
  BY <1>5, <1>6, <1>8, <1>9, <1>10, TurnsPut DEF Base, InTurn
<1>13. /\ \A i \in DOMAIN b.main : NoTurnAfter(b.main, i) => NoTurnAfter(t.main, i)
       /\ NoTurnAfter(t.main, Len(b.main) + 1) /\ Asked(t.main)
  BY <1>8, <1>9, <1>10, <1>b, AskedPut
<1>14. \A i \in DOMAIN t.main : i # Len(b.main) + 1 =>
          i \in DOMAIN b.main /\ t.main[i] = b.main[i]
  BY <1>8, <1>9, PutItem
<1>15. Awaited(t)
  BY <1>5, <1>6, <1>8, <1>13, <1>14 DEF Base, Awaited
<1>16. Binding(t)
  <2>0. t.main[Len(b.main) + 1] = m
    BY <1>8, <1>9, PutItem
  <2>1. \A i \in DOMAIN t.main : t.main[i].kind \in {"connected", "attach"} =>
           i \in DOMAIN b.main /\ t.main[i] = b.main[i]
    BY <1>14, <1>b, <2>0
  <2> QED
    BY <1>5, <1>6, <1>8, <2>1 DEF Base, Binding
<1>17. Supplied(t)
  <2> DEFINE l == s.past.starts
  <2>0. /\ \A c \in Calls : t.calls[c].thread = "none" <=> b.calls[c].thread = "none"
        /\ l \in Nat /\ (IF m.kind = "start" THEN l = k + 1 ELSE l = k)
    BY <1>8, <1>9, <1>b
  <2> HIDE DEF l, k
  <2>a. /\ b \in World /\ t \in World /\ k \in Nat /\ t.main = Append(b.main, m)
        /\ SuppliedBy(b, k)
    BY <1>0, <1>5, <1>7, <1>8, <1>9
  <2>1. SuppliedBy(t, l)
    BY <2>0, <2>a, SuppliedPut
  <2> QED
    BY <1>8, <2>1 DEF Supplied, l
<1>18. Counted(t) /\ Upheld(t) /\ Purposeful(t) /\ Held(t)
  BY <1>5, <1>6, <1>8, <1>13 DEF Base, Counted, Upheld, Purposeful, Held
<1> QED
  BY <1>7, <1>11, <1>12, <1>15, <1>16, <1>17, <1>18 DEF Sound, Kernel, Base, t

\* The whole changes into a sound one.
LEMMA BecomeKeeps ==
    ASSUME NEW t, t \in World, Become(t)
    PROVE  Whole' = t
BY WorldFacts DEF Become, Whole

\* The whole is the state of the module.
LEMMA WholeIs ==
    /\ Whole.calls = calls /\ Whole.service = service /\ Whole.activity = activity
    /\ Whole.notice = notice /\ Whole.main = main /\ Whole.system = system
    /\ Whole.past = past
BY DEF Whole

-----------------------------------------------------------------------------
(* The user, and the system.                                               *)

\* A call is asked for.
LEMMA RequestCallKeeps ==
    ASSUME Sound(Whole), NEW good \in BOOLEAN, RequestCall(good)
    PROVE  Sound(Whole')
<1> DEFINE w == Whole
           s == [w EXCEPT !.past.starts = @ + 1]
           m == [kind |-> "start", good |-> good]
           t == StartService(s, m)
<1>0. /\ w \in World /\ past.starts < MaxStarts /\ past = w.past
      /\ w.past.starts \in 0 .. MaxStarts
  BY WholeIs, WorldFacts DEF Sound, Kernel, Base, RequestCall
<1> HIDE DEF w
<1>1. /\ s \in World /\ Changes(w, s, {"past"})
      /\ s.past.ended = w.past.ended /\ s.past.overrun = w.past.overrun
      /\ s.past.visits = w.past.visits /\ s.past.starts = w.past.starts + 1
      /\ s.past.hangUps = w.past.hangUps
  <2>1. w.past.starts + 1 \in 0 .. MaxStarts
    BY <1>0, Numbers
  <2> QED
    BY <1>0, <2>1 DEF World, Changes, Parts
<1>2. m \in Item /\ m.kind = "start"
  BY ItemFacts
<1>3. Become(t)
  BY DEF RequestCall, w
<1> HIDE DEF s, m
<1>4. Sound(t)
  BY <1>1, <1>2, StartServiceKeeps DEF w, OneMore
<1> QED
  BY <1>3, <1>4, BecomeKeeps DEF Sound, Kernel, Base

\* The notification's button is pressed.
LEMMA EndCallKeeps ==
    ASSUME Sound(Whole), EndCall
    PROVE  Sound(Whole')
<1> DEFINE w == Whole
           s == [w EXCEPT !.past.hangUps = @ + 1]
           m == [kind |-> "hang up"]
           t == StartService(s, m)
<1>0. /\ w \in World /\ past.hangUps < MaxHangUps /\ past = w.past
      /\ w.past.hangUps \in 0 .. MaxHangUps
  BY WholeIs, WorldFacts DEF Sound, Kernel, Base, EndCall
<1> HIDE DEF w
<1>1. /\ s \in World /\ Changes(w, s, {"past"})
      /\ s.past.ended = w.past.ended /\ s.past.overrun = w.past.overrun
      /\ s.past.visits = w.past.visits /\ s.past.hangUps = w.past.hangUps + 1
      /\ s.past.starts = w.past.starts
  <2>1. w.past.hangUps + 1 \in 0 .. MaxHangUps
    BY <1>0, Numbers
  <2> QED
    BY <1>0, <2>1 DEF World, Changes, Parts
<1>2. m \in Item /\ m.kind = "hang up"
  BY ItemFacts
<1>3. Become(t)
  BY DEF EndCall, w
<1> HIDE DEF s, m
<1>4. Sound(t)
  BY <1>1, <1>2, StartServiceKeeps DEF w, OneMore
<1> QED
  BY <1>3, <1>4, BecomeKeeps DEF Sound, Kernel, Base

\* The activity binds, which brings the service up.
LEMMA ActivityStartsKeeps ==
    ASSUME Sound(Whole), ActivityStarts
    PROVE  Sound(Whole')
<1> DEFINE w == Whole
           s == [w EXCEPT !.activity.started = TRUE, !.system.bound = TRUE,
                          !.past.visits = @ + 1]
           t == BringUp(s)
           k == w.past.starts
<1>0. /\ w \in World /\ past.visits < MaxVisits /\ past = w.past /\ activity = w.activity
      /\ w.past.visits \in 0 .. MaxVisits /\ k \in Nat /\ w.system.last \in Nat
      /\ w.past.hangUps \in Nat /\ w.activity.started = FALSE /\ w.system.told = FALSE
      /\ w.activity.service = None /\ w.system.bound = FALSE
  <2>1. w \in World /\ past.visits < MaxVisits /\ past = w.past /\ activity = w.activity
        /\ ~ w.activity.started
    BY WholeIs DEF Sound, Kernel, Base, ActivityStarts
  <2>2. w.system.bound = w.activity.started /\ (w.system.told => w.system.bound)
        /\ (w.activity.service # None => w.system.told)
    BY DEF Sound, Kernel, Base, Binding
  <2> HIDE DEF w
  <2>3. /\ w.past.visits \in 0 .. MaxVisits /\ w.past.starts \in Nat /\ w.system.last \in Nat
        /\ w.past.hangUps \in Nat /\ w.activity.started \in BOOLEAN /\ w.system.told \in BOOLEAN
    BY <2>1, WorldFacts, Numbers
  <2> QED
    BY <2>1, <2>2, <2>3
<1>a. Sound(w)
  OBVIOUS
<1> HIDE DEF w
<1>1. /\ s \in World /\ Changes(w, s, {"activity", "system", "past"})
      /\ s.past.ended = w.past.ended /\ s.past.overrun = w.past.overrun
      /\ s.past.visits = w.past.visits + 1 /\ s.past.starts = w.past.starts
      /\ s.past.hangUps = w.past.hangUps /\ s.activity.started = TRUE
      /\ s.activity.service = None /\ s.system.bound = TRUE /\ s.system.told = FALSE
      /\ s.system.started = w.system.started /\ s.system.record = w.system.record
      /\ s.system.last = w.system.last
  <2>1. w.past.visits + 1 \in 0 .. MaxVisits
    BY <1>0, Numbers
  <2> QED
    BY <1>0, <2>1 DEF World, Changes, Parts
<1>b. s.activity.view = w.activity.view
  BY <1>0 DEF World
<1>2. Become(t)
  BY DEF ActivityStarts, w
<1> HIDE DEF s
<1>3. /\ s.calls = w.calls /\ s.service = w.service /\ s.notice = w.notice
      /\ s.main = w.main
  BY <1>1 DEF Changes, Parts
<1>4. Base(s) /\ Purposeful(s) /\ Viewed(s) /\ SuppliedBy(s, k)
  <2>0. InTurn(s) /\ Awaited(s) /\ Held(s) /\ Purposeful(s)
    BY <1>a, <1>1, <1>3 DEF Sound, Kernel, Base, InTurn, Awaited, Held, Purposeful
  <2>1. Empty(s) /\ Owned(s) /\ Newest(s) /\ Noticed(s) /\ Viewed(s)
    <3>1. s.activity.view = w.activity.view /\ s.activity.service = w.activity.service
      BY <1>0, <1>1, <1>b
    <3> QED
      BY <1>a, <1>3, <3>1, ScreenSame DEF Sound, Kernel, Base
  <2>2. SuppliedBy(s, k)
    BY <1>a, <1>3, SuppliedSame DEF Sound, Kernel, Supplied
  <2>3. Binding(s)
    BY <1>a, <1>0, <1>1, <1>3 DEF Sound, Kernel, Base, Binding
  <2> QED
    BY <1>1, <2>0, <2>1, <2>2, <2>3 DEF Base
<1>5. s.system.record = None => ~ s.system.started /\ ~ s.system.told
  BY <1>a, <1>1 DEF Sound, Kernel, Upheld
<1>6. s.system.last + 1 <= s.past.starts + s.past.hangUps + s.past.visits
  <2>1. w.past.visits \in Nat
    BY <1>0
  <2> QED
    BY <1>a, <1>0, <1>1, <2>1 DEF Sound, Kernel, Counted
<1>7. /\ Base(t) /\ Purposeful(t) /\ Viewed(t) /\ SuppliedBy(t, k) /\ Counted(t)
      /\ t.system.record # None /\ Changes(s, t, {"main", "system"})
      /\ t.system.bound = s.system.bound
  BY <1>0, <1>4, <1>5, <1>6, BringUpKeeps
<1> HIDE DEF t
<1>8. Upheld(t) /\ Supplied(t)
  <2>1. t.past.starts = k
    BY <1>1, <1>7 DEF Changes, Parts
  <2> QED
    BY <1>1, <1>7, <2>1 DEF Upheld, Supplied
<1>9. Sound(t)
  BY <1>7, <1>8 DEF Sound, Kernel
<1> QED
  BY <1>2, <1>9, BecomeKeeps DEF Sound, Kernel, Base

\* The activity unbinds; what was on its way to it is dropped.
LEMMA ActivityStopsKeeps ==
    ASSUME Sound(Whole), ActivityStops
    PROVE  Sound(Whole')
<1> DEFINE w == Whole
           q == w.main
           K == {m \in Range(q) : m.kind \notin {"connected", "attach"}}
           u == Only(q, K)
           a == [started |-> FALSE, service |-> None, view |-> NoView]
           s == [w EXCEPT !.activity = a, !.system.bound = FALSE, !.system.told = FALSE,
                          !.main = u]
           t == BringDown(s)
<1>0. w \in World /\ Sound(w)
  BY DEF Sound, Kernel, Base
<1>1. Become(t)
  BY DEF ActivityStops
<1> HIDE DEF w
<1>2. /\ q \in Seq(Item) /\ w.service.id \in Nat /\ w.system.record \in Nat
      /\ w.system.last \in Nat /\ w.past.starts \in Nat
      /\ Len(q) \in Nat /\ DOMAIN q = 1 .. Len(q)
      /\ w.system.told \in BOOLEAN
  BY <1>0, WorldFacts, Numbers
<1> HIDE DEF q
<1>3. u \in Seq(Item) /\ Len(u) \in Nat /\ DOMAIN u = 1 .. Len(u)
  BY <1>2, OnlyLeft
<1>4. PICK e : LeftBy(e, u, q, K, Len(q))
  BY <1>2, OnlyLeft
<1>5. /\ s \in World /\ Changes(w, s, {"activity", "system", "main"})
      /\ s.activity.started = FALSE /\ s.activity.service = None
      /\ s.system.started = w.system.started /\ s.system.record = w.system.record
      /\ s.system.last = w.system.last /\ s.system.bound = FALSE /\ s.system.told = FALSE
      /\ s.main = u
  <2> HIDE DEF u
  <2>1. a \in [started : BOOLEAN, service : Services \cup {None},
               view : [state : CallState \cup {"none"}, call : Calls \cup {None}]]
    BY DEF NoView
  <2>2. a.started = FALSE /\ a.service = None
    OBVIOUS
  <2> HIDE DEF a
  <2> QED
    BY <1>0, <1>3, <2>1, <2>2 DEF World, Changes, Parts
<1> HIDE DEF s, u
<1>6. /\ s.calls = w.calls /\ s.service = w.service /\ s.notice = w.notice /\ s.past = w.past
  BY <1>5 DEF Changes, Parts
<1>7. /\ \A i \in DOMAIN u : /\ e[i] \in DOMAIN q /\ u[i] = q[e[i]]
                             /\ u[i].kind \notin {"connected", "attach"}
      /\ \A i, j \in DOMAIN u : i < j => e[i] < e[j]
      /\ \A k \in DOMAIN q : q[k].kind \notin {"connected", "attach"} =>
            \E i \in DOMAIN u : e[i] = k
  <2>1. \A k \in DOMAIN q : q[k] \in Range(q)
    BY DEF Range
  <2> QED
    BY <1>2, <1>3, <1>4, <2>1 DEF LeftBy
<1>8. u = q \/ (NoTurn(q) /\ NoTurn(u))
  <2>1. CASE w.system.told
    <3>1. w.system.record # None /\ w.service.id = w.system.record
      BY <1>0, <2>1 DEF Sound, Kernel, Base, Upheld, Binding
    <3>2. NoTurn(q)
      BY <1>0, <1>2, <3>1, TurnsStay DEF Sound, Kernel, Base, InTurn, q
    <3> QED
      BY <1>7, <3>2 DEF NoTurn
  <2>2. CASE ~ w.system.told
    <3>1. \A i \in DOMAIN q : q[i].kind \notin {"connected", "attach"}
      BY <1>0, <2>2 DEF Sound, Kernel, Base, Binding, q
    <3>2. \A i \in DOMAIN q : q[i] \in K
      BY <3>1 DEF Range
    <3> HIDE DEF K
    <3> QED
      BY <1>2, <3>2, OnlyAll DEF u
  <2> QED
    BY <2>1, <2>2
<1> HIDE DEF K
<1>9. InTurn(s)
  <2>1. Turns(q, w.service.id, w.system.record, w.system.last)
    BY <1>0 DEF Sound, Kernel, Base, InTurn, q
  <2>2. CASE u = q
    BY <1>5, <1>6, <2>1, <2>2 DEF InTurn
  <2>3. CASE w.system.told
    <3>1. w.system.record # None /\ w.service.id = w.system.record
      BY <1>0, <2>3 DEF Sound, Kernel, Base, Upheld, Binding
    <3>2. \A i \in DOMAIN u : \E k \in DOMAIN q : u[i] = q[k]
      BY <1>7
    <3>3. Turns(u, w.service.id, w.service.id, w.system.last)
      BY <1>2, <1>3, <2>1, <3>1, <3>2, TurnsWithout
    <3> QED
      BY <1>5, <1>6, <3>1, <3>3 DEF InTurn
  <2>4. CASE ~ w.system.told
    <3>1. \A i \in DOMAIN q : q[i].kind \notin {"connected", "attach"}
      BY <1>0, <2>4 DEF Sound, Kernel, Base, Binding, q
    <3>2. \A i \in DOMAIN q : q[i] \in K
      BY <3>1 DEF Range, K
    <3>3. u = q
      BY <1>2, <3>2, OnlyAll DEF u
    <3> QED
      BY <2>2, <3>3
  <2> QED
    BY <2>3, <2>4
<1>10. Awaited(s)
  <2>1. CASE u = q
    BY <1>0, <1>5, <1>6, <2>1 DEF Sound, Kernel, Base, Awaited, q
  <2>2. CASE NoTurn(q) /\ NoTurn(u)
    <3>1. \A i \in DOMAIN u : NoTurnAfter(u, i)
      BY <2>2 DEF NoTurn, NoTurnAfter
    <3> QED
      BY <1>0, <1>5, <1>6, <1>7, <3>1 DEF Sound, Kernel, Base, Awaited, q
  <2> QED
    BY <1>8, <2>1, <2>2
<1>11. Purposeful(s)
  <2>1. CASE u = q
    BY <1>0, <1>5, <1>6, <2>1 DEF Sound, Purposeful, q
  <2>2. CASE NoTurn(q) /\ NoTurn(u)
    <3>1. \A i \in DOMAIN u : NoTurnAfter(u, i)
      BY <2>2 DEF NoTurn, NoTurnAfter
    <3>2. Asked(q) => Asked(u)
      <4> SUFFICES ASSUME NEW k \in DOMAIN q, q[k].kind \in {"start", "hang up"}
                   PROVE  Asked(u)
        BY DEF Asked
      <4>1. PICK i \in DOMAIN u : e[i] = k
        BY <1>7
      <4> QED
        BY <1>7, <3>1, <4>1 DEF Asked
    <3> QED
      BY <1>0, <1>5, <1>6, <3>2 DEF Sound, Purposeful, q
  <2> QED
    BY <1>8, <2>1, <2>2
<1>12. Binding(s)
  BY <1>5, <1>7 DEF Binding
<1>13. /\ \A x : Mine(s, x) <=> Mine(w, x)
       /\ StateOf(s) = StateOf(w)
  BY <1>6 DEF Mine, StateOf
<1>14. Owned(s) /\ Empty(s)
  BY <1>0, <1>5, <1>6, <1>7 DEF Sound, Kernel, Base, Owned, Empty, q
<1>15. Newest(s)
  <2> SUFFICES ASSUME s.service.call # None, s.calls[s.service.call].thread # "fires",
                      NEW i \in DOMAIN u, Mine(s, u[i]),
                      \A j \in DOMAIN u : j > i => ~ Mine(s, u[j])
               PROVE  u[i].state = s.calls[s.service.call].state
    BY <1>5 DEF Newest
  <2>1. e[i] \in DOMAIN q /\ u[i] = q[e[i]] /\ Mine(w, q[e[i]])
    BY <1>7, <1>13
  <2>2. ASSUME NEW k \in DOMAIN q, k > e[i], Mine(w, q[k])
        PROVE  FALSE
    <3>1. q[k].kind \notin {"connected", "attach"}
      BY <2>2 DEF Mine
    <3>2. PICK j \in DOMAIN u : e[j] = k
      BY <1>7, <3>1
    <3>3. ~ (j < i) /\ j # i
      BY <1>2, <1>7, <2>1, <2>2, <3>2
    <3>4. j > i
      BY <1>3, <3>3
    <3> QED
      BY <1>7, <1>13, <2>2, <3>2, <3>4
  <2> QED
    BY <1>0, <1>6, <2>1, <2>2 DEF Sound, Kernel, Base, Newest, q
<1>16. Noticed(s)
  <2>1. Told(s) => Told(w)
    <3> SUFFICES ASSUME Told(s), NEW k \in DOMAIN q, Mine(w, q[k])
                 PROVE  FALSE
      BY <1>6 DEF Told, q
    <3>1. q[k].kind \notin {"connected", "attach"}
      BY DEF Mine
    <3> QED
      BY <1>5, <1>7, <1>13, <3>1 DEF Told
  <2> QED
    BY <1>0, <1>6, <1>13, <2>1 DEF Sound, Kernel, Base, Noticed
<1>17. Viewed(s)
  BY <1>5 DEF Viewed
<1>18. Supplied(s)
  <2>1. PICK n \in 0 .. MaxStarts :
           /\ n <= w.past.starts
           /\ \A c \in Calls : w.calls[c].thread # "none" <=> c <= n
           /\ \E g : Ranked(q, n, w.past.starts, g)
    BY <1>0 DEF Sound, Kernel, Supplied, SuppliedBy, q
  <2>2. n \in Nat
    BY Numbers
  <2>3. \E h : Ranked(u, n, w.past.starts, h)
    BY <1>2, <2>1, <2>2, RankedOnly DEF u
  <2> QED
    BY <1>5, <1>6, <2>1, <2>3 DEF Supplied, SuppliedBy
<1>19. Counted(s) /\ Held(s)
  BY <1>0, <1>5, <1>6 DEF Sound, Kernel, Base, Counted, Held
<1>20. s.system.record = None => ~ s.system.started /\ ~ s.system.bound
  BY <1>0, <1>5 DEF Sound, Kernel, Upheld
<1>21. Base(s)
  BY <1>5, <1>9, <1>10, <1>12, <1>14, <1>15, <1>16, <1>19 DEF Base
<1>22. Sound(t)
  BY <1>11, <1>17, <1>18, <1>19, <1>20, <1>21, BringDownKeeps DEF Sound
<1> QED
  BY <1>1, <1>22, BecomeKeeps DEF Sound, Kernel, Base


\* The activity is told of the service once it lives.
LEMMA AnnounceBindingKeeps ==
    ASSUME Sound(Whole), AnnounceBinding
    PROVE  Sound(Whole')
<1> DEFINE w == Whole
           s == [w EXCEPT !.system.told = TRUE]
           m == [kind |-> "connected"]
           t == Enqueue(s, m)
<1>0. /\ w \in World /\ Sound(w) /\ Become(t)
      /\ w.system.bound /\ w.service.id # None /\ w.service.id = w.system.record
  BY WholeIs DEF Sound, Kernel, Base, AnnounceBinding
<1> HIDE DEF w
<1>1. /\ s \in World /\ Changes(w, s, {"system"}) /\ s.system.told = TRUE
      /\ s.system.started = w.system.started /\ s.system.record = w.system.record
      /\ s.system.last = w.system.last /\ s.system.bound = w.system.bound
  BY <1>0 DEF World, Changes, Parts
<1>2. m \in Item /\ m.kind = "connected"
  BY ItemFacts
<1> HIDE DEF s, m
<1>3. t \in World /\ Changes(s, t, {"main"}) /\ t.main = Append(s.main, m)
  BY <1>1, <1>2, EnqueueIs
<1> HIDE DEF t
<1>4. /\ t.calls = w.calls /\ t.service = w.service /\ t.activity = w.activity
      /\ t.notice = w.notice /\ t.past = w.past /\ t.system = s.system
      /\ t.main = Append(w.main, m)
  BY <1>1, <1>3 DEF Changes, Parts
<1>5. /\ w.main \in Seq(Item) /\ w.service.id \in Nat /\ w.system.record \in Nat
      /\ w.system.last \in Nat /\ w.past.starts \in Nat
  BY <1>0, WorldFacts, Numbers
<1>6. ~ Turn(m) /\ m.kind # "start" /\ m.kind # "state" /\ m.kind # "attach"
  BY <1>2 DEF Turn
<1>7. Owned(t) /\ Empty(t) /\ Newest(t) /\ Noticed(t) /\ Viewed(t)
  BY <1>0, <1>2, <1>3, <1>4, <1>6, ScreenPut DEF Sound, Kernel, Base
<1>8. InTurn(t)
  BY <1>0, <1>1, <1>2, <1>4, <1>5, <1>6, TurnsPut DEF Sound, Kernel, Base, InTurn
<1>9. \A i \in DOMAIN t.main : t.main[i].kind # "connected" =>
         i \in DOMAIN w.main /\ t.main[i] = w.main[i]
  BY <1>2, <1>4, <1>5, PutItem
<1>10. /\ \A i \in DOMAIN w.main : NoTurnAfter(w.main, i) => NoTurnAfter(t.main, i)
       /\ Asked(w.main) => Asked(t.main)
  BY <1>2, <1>4, <1>5, <1>6, AskedPut
<1>11. Awaited(t) /\ Purposeful(t)
  BY <1>0, <1>1, <1>4, <1>9, <1>10 DEF Sound, Kernel, Base, Awaited, Purposeful
<1>12. Binding(t)
  <2>1. \A i \in DOMAIN t.main : t.main[i].kind = "attach" => t.activity.service # None
    BY <1>0, <1>4, <1>9 DEF Sound, Kernel, Base, Binding
  <2>2. t.system.bound = t.activity.started
    BY <1>0, <1>1, <1>4 DEF Sound, Kernel, Base, Binding
  <2>3. t.activity.service # None => t.activity.service = t.service.id
    BY <1>0, <1>4 DEF Sound, Kernel, Base, Binding
  <2>4. t.system.told /\ t.system.bound /\ t.service.id = t.system.record
    BY <1>0, <1>1, <1>4
  <2> QED
    BY <2>1, <2>2, <2>3, <2>4 DEF Binding
<1>13. Supplied(t)
  <2>1. SuppliedBy(w, w.past.starts) /\ \A c \in Calls : t.calls[c].thread = "none" <=>
                                                          w.calls[c].thread = "none"
    BY <1>0, <1>4 DEF Sound, Kernel, Supplied
  <2>2. SuppliedBy(t, w.past.starts)
    BY <1>0, <1>2, <1>3, <1>4, <1>5, <1>6, <2>1, SuppliedPut
  <2> QED
    BY <1>4, <2>2 DEF Supplied
<1>14. Counted(t) /\ Upheld(t) /\ Held(t)
  BY <1>0, <1>1, <1>4 DEF Sound, Kernel, Base, Counted, Upheld, Held
<1>15. Sound(t)
  BY <1>3, <1>7, <1>8, <1>11, <1>12, <1>13, <1>14 DEF Sound, Kernel, Base
<1> QED
  BY <1>0, <1>3, <1>15, BecomeKeeps

-----------------------------------------------------------------------------
(* The thread of a call.                                                   *)

\* The call goes on: it has a new state that it will tell of, or the old one.
Advances(a, b) ==
    /\ b.reports = a.reports /\ b.quits = a.quits
    /\ b.thread = "none" <=> a.thread = "none"
    /\ b.thread \notin {"none", "ended"} => a.thread \notin {"none", "ended"}
    /\ b.thread = "fires" \/ (b.state = a.state /\ a.thread # "fires")
    /\ b.thread = "none" => b.state = a.state

\* No step of a call but the one that tells the service changes more than that.
LEMMA CallStepKeeps ==
    ASSUME NEW w, Kernel(w), NEW t \in World, Changes(w, t, {"calls", "past"}),
           \A d \in Calls : Advances(w.calls[d], t.calls[d]),
           t.past.starts = w.past.starts, t.past.hangUps = w.past.hangUps,
           t.past.visits = w.past.visits, t.past.overrun = w.past.overrun,
           w.past.ended \subseteq t.past.ended
    PROVE  /\ Kernel(t)
           /\ Purposeful(w) => Purposeful(t)
           /\ Viewed(w) => Viewed(t)
           /\ t.main = w.main /\ t.service = w.service /\ t.system = w.system
<1>1. /\ t.service = w.service /\ t.activity = w.activity /\ t.notice = w.notice
      /\ t.main = w.main /\ t.system = w.system
  BY DEF Changes, Parts
<1>2. w \in World /\ (w.service.call # None => w.service.call \in Calls)
  BY WorldFacts DEF Kernel, Base
<1>3. \A x : Mine(t, x) <=> Mine(w, x)
  BY <1>1 DEF Mine
<1>4. w.service.call # None /\ t.calls[t.service.call].thread # "fires"
         => /\ w.calls[w.service.call].thread # "fires"
            /\ t.calls[t.service.call].state = w.calls[w.service.call].state
  BY <1>1, <1>2 DEF Advances
<1>5. Told(t) => Told(w) /\ StateOf(t) = StateOf(w)
  BY <1>1, <1>3, <1>4 DEF Told, StateOf
<1>6. InTurn(t) /\ Awaited(t) /\ Held(t) /\ Empty(t) /\ Binding(t)
  BY <1>1 DEF Kernel, Base, InTurn, Awaited, Held, Empty, Binding
<1>7. Owned(t)
  <2>1. \A i \in DOMAIN t.main : t.main[i].kind = "state" => t.main[i].call \in Calls
    <3>1. w.main \in Seq(Item)
      BY <1>2, WorldFacts
    <3>2. \A i \in DOMAIN t.main : t.main[i] \in Item
      BY <1>1, <3>1
    <3> QED
      BY <3>2, ItemFacts
  <2>2. Owned(w)
    BY DEF Kernel, Base
  <2>3. ASSUME NEW c \in Calls
        PROVE  /\ t.calls[c].reports = (IF t.service.call = c THEN t.service.id ELSE None)
               /\ t.calls[c].thread = "none" => t.calls[c].state = "IDLE" /\ t.service.call # c
               /\ t.calls[c].thread \notin {"none", "ended"} =>
                     t.service.call = c \/ t.calls[c].quits
    <3>1. Advances(w.calls[c], t.calls[c])
      OBVIOUS
    <3> QED
      BY <1>1, <2>2, <3>1 DEF Owned, Advances
  <2>4. \A i \in DOMAIN t.main :
           t.main[i].kind = "state" => t.calls[t.main[i].call].thread # "none"
    BY <1>1, <2>1, <2>2 DEF Owned, Advances
  <2> QED
    BY <2>3, <2>4 DEF Owned
<1>8. Newest(t)
  BY <1>1, <1>3, <1>4 DEF Kernel, Base, Newest
<1>9. Noticed(t)
  BY <1>1, <1>5 DEF Kernel, Base, Noticed
<1>10. Viewed(w) => Viewed(t)
  <2> SUFFICES ASSUME Viewed(w), Told(t)
               PROVE  Viewed(t)
    BY DEF Viewed
  <2> QED
    BY <1>1, <1>5 DEF Viewed
<1>11. Supplied(t)
  <2>1. \A c \in Calls : t.calls[c].thread = "none" <=> w.calls[c].thread = "none"
    BY DEF Advances
  <2> QED
    BY <1>1, <2>1, SuppliedSame DEF Kernel, Supplied
<1>12. Counted(t) /\ Upheld(t) /\ (Purposeful(w) => Purposeful(t))
  BY <1>1 DEF Kernel, Counted, Upheld, Purposeful
<1> QED
  BY <1>1, <1>6, <1>7, <1>8, <1>9, <1>10, <1>11, <1>12 DEF Kernel, Base

\* One that stays as it is advances, too.
LEMMA CallSteps ==
    ASSUME Sound(Whole), NEW c \in Calls, NEW k \in CallRecord, NEW f \in Nat,
           Advances(calls[c], k),
           calls' = [calls EXCEPT ![c] = k], past' = [past EXCEPT !.failures = f],
           UNCHANGED <<service, activity, notice, main, system>>
    PROVE  Sound(Whole')
<1> DEFINE w == Whole
           t == Whole'
<1>1. /\ w \in World /\ Sound(w) /\ w.calls = calls /\ w.past = past
      /\ w.service = service /\ w.activity = activity /\ w.notice = notice
      /\ w.main = main /\ w.system = system
  BY WholeIs DEF Sound, Kernel, Base
<1>2. t = [calls |-> calls', service |-> service, activity |-> activity, notice |-> notice,
           main |-> main, system |-> system, past |-> past']
  BY DEF Whole
<1>3. /\ calls \in [Calls -> CallRecord]
      /\ past \in [starts : 0 .. MaxStarts, hangUps : 0 .. MaxHangUps,
                   visits : 0 .. MaxVisits, failures : Nat, ended : SUBSET Calls,
                   overrun : BOOLEAN]
  BY <1>1, WorldFacts
<1> HIDE DEF w, t
<1>4. /\ calls' \in [Calls -> CallRecord] /\ calls'[c] = k
      /\ \A d \in Calls \ {c} : calls'[d] = calls[d]
  BY <1>3
<1>5. /\ past' \in [starts : 0 .. MaxStarts, hangUps : 0 .. MaxHangUps,
                    visits : 0 .. MaxVisits, failures : Nat, ended : SUBSET Calls,
                    overrun : BOOLEAN]
      /\ past'.starts = past.starts /\ past'.hangUps = past.hangUps
      /\ past'.visits = past.visits /\ past'.overrun = past.overrun
      /\ past'.ended = past.ended
  BY <1>3
<1>6. /\ t \in World /\ Changes(w, t, {"calls", "past"}) /\ t.calls = calls'
      /\ t.past = past'
  <2>1. /\ service \in [id : Services \cup {None}, call : Calls \cup {None}]
        /\ activity \in [started : BOOLEAN, service : Services \cup {None},
                         view : [state : CallState \cup {"none"}, call : Calls \cup {None}]]
        /\ notice \in CallState \cup {"none"} /\ main \in Seq(Item)
        /\ system \in [record : Services \cup {None}, last : Services \cup {None},
                       started : BOOLEAN, bound : BOOLEAN, told : BOOLEAN]
    BY <1>1, WorldFacts
  <2>2. t \in World
    <3> DEFINE A == calls'
               B == past'
    <3>1. /\ A \in [Calls -> CallRecord]
          /\ B \in [starts : 0 .. MaxStarts, hangUps : 0 .. MaxHangUps,
                    visits : 0 .. MaxVisits, failures : Nat, ended : SUBSET Calls,
                    overrun : BOOLEAN]
          /\ t = [calls |-> A, service |-> service, activity |-> activity,
                  notice |-> notice, main |-> main, system |-> system, past |-> B]
      BY <1>2, <1>4, <1>5
    <3> HIDE DEF A, B
    <3> QED
      BY <2>1, <3>1 DEF World
  <2> QED
    BY <1>1, <1>2, <2>2 DEF Changes, Parts
<1>7. \A d \in Calls : Advances(w.calls[d], t.calls[d])
  <2>1. \A a : Advances(a, a)
    BY DEF Advances
  <2>2. ASSUME NEW d \in Calls PROVE Advances(calls[d], calls'[d])
    BY <1>4, <2>1
  <2> QED
    BY <1>1, <1>6, <2>2
<1>8. Sound(t)
  <2>1. Kernel(w) /\ Purposeful(w) /\ Viewed(w)
    BY <1>1 DEF Sound
  <2>2. Kernel(t) /\ Purposeful(t) /\ Viewed(t)
    BY <1>1, <1>5, <1>6, <1>7, <2>1, CallStepKeeps
  <2> QED
    BY <2>2 DEF Sound
<1> QED
  BY <1>8 DEF t

\* What is left of a thread's messages.
LEMMA BoxFacts ==
    ASSUME NEW b \in Seq({"START", "STOP", "RESTART"})
    PROVE  /\ NoRestart(b) \in Seq({"START", "STOP", "RESTART"})
           /\ b # <<>> => /\ Tail(b) \in Seq({"START", "STOP", "RESTART"})
                          /\ Head(b) \in {"START", "STOP", "RESTART"}
           /\ Append(b, "RESTART") \in Seq({"START", "STOP", "RESTART"})
<1>1. NoRestart(b) \in Seq({"START", "STOP", "RESTART"})
  BY OnlyLeft DEF NoRestart
<1>2. Append(b, "RESTART") \in Seq({"START", "STOP", "RESTART"})
  OBVIOUS
<1>3. b # <<>> => /\ Tail(b) \in Seq({"START", "STOP", "RESTART"})
                  /\ Head(b) \in {"START", "STOP", "RESTART"}
  OBVIOUS
<1> QED
  BY <1>1, <1>2, <1>3

\* The calls as they are.
LEMMA CallsTyped ==
    ASSUME Sound(Whole)
    PROVE  /\ calls \in [Calls -> CallRecord] /\ past.failures \in Nat
           /\ past = [past EXCEPT !.failures = past.failures]
           /\ \A c \in Calls : /\ calls[c] \in CallRecord
                               /\ calls[c].box \in Seq({"START", "STOP", "RESTART"})
                               /\ calls[c].state \in CallState
<1>1. calls \in [Calls -> CallRecord]
      /\ past \in [starts : 0 .. MaxStarts, hangUps : 0 .. MaxHangUps,
                   visits : 0 .. MaxVisits, failures : Nat, ended : SUBSET Calls,
                   overrun : BOOLEAN]
  BY WorldFacts, WholeIs DEF Sound, Kernel, Base
<1> QED
  BY <1>1 DEF CallRecord

\* A state is reached.
LEMMA GotoStateKeeps ==
    ASSUME Sound(Whole), NEW c \in Calls, calls[c].thread = "waits", NEW k \in CallRecord,
           k.thread = "waits", k.reports = calls[c].reports, k.quits = calls[c].quits,
           NEW s \in CallState, GotoState(c, k, s)
    PROVE  Sound(Whole')
<1> DEFINE f == past.failures + (IF s = "ERROR" THEN 1 ELSE 0)
           r == [k EXCEPT !.state = s, !.thread = "fires"]
<1>1. f \in Nat
  BY CallsTyped
<1>2. /\ calls' = [calls EXCEPT ![c] = r] /\ past' = [past EXCEPT !.failures = f]
      /\ UNCHANGED <<service, activity, notice, main, system>>
  BY DEF GotoState
<1>3. r \in CallRecord /\ r.thread = "fires" /\ r.reports = k.reports /\ r.quits = k.quits
  BY DEF CallRecord
<1> HIDE DEF r, f
<1>4. Advances(calls[c], r)
  BY <1>3 DEF Advances
<1> QED
  BY <1>1, <1>2, <1>3, <1>4, CallSteps

\* Every target is a state.
LEMMA TargetStates ==
    ASSUME NEW state, NEW what, NEW s \in Targets(state, what)
    PROVE  s \in CallState
BY DEF Targets, CallState

\* The thread of a call takes a message that leads to a state.
LEMMA TakeMessageKeeps ==
    ASSUME Sound(Whole), NEW c \in Calls, TakeMessage(c)
    PROVE  Sound(Whole')
<1> DEFINE b == calls[c].box
           k == IF Head(b) = "RESTART"
                THEN [calls[c] EXCEPT !.box = NoRestart(@), !.delayed = FALSE]
                ELSE [calls[c] EXCEPT !.box = Tail(@)]
<1>1. /\ calls[c] \in CallRecord /\ b \in Seq({"START", "STOP", "RESTART"})
      /\ b # <<>> /\ calls[c].thread = "waits"
  BY CallsTyped DEF TakeMessage
<1>2. PICK s \in Targets(calls[c].state, Head(b)) : GotoState(c, k, s)
  BY DEF TakeMessage
<1>3. s \in CallState
  BY TargetStates
<1>4. /\ NoRestart(b) \in Seq({"START", "STOP", "RESTART"})
      /\ Tail(b) \in Seq({"START", "STOP", "RESTART"})
  BY <1>1, BoxFacts
<1>5. /\ k \in CallRecord /\ k.thread = "waits" /\ k.reports = calls[c].reports
      /\ k.quits = calls[c].quits
  BY <1>1, <1>4 DEF CallRecord
<1> HIDE DEF k
<1> QED
  BY <1>1, <1>2, <1>3, <1>5, GotoStateKeeps

\* The call fails.
LEMMA FailKeeps ==
    ASSUME Sound(Whole), NEW c \in Calls, Fail(c)
    PROVE  Sound(Whole')
BY CallsTyped, GotoStateKeeps DEF Fail, CallState

\* The state that a call works for is told already.
LEMMA WorkKeeps ==
    ASSUME Sound(Whole), NEW c \in Calls, Work(c)
    PROVE  Sound(Whole')
<1>1. PICK retry \in BOOLEAN :
        calls' = [calls EXCEPT
                    ![c].thread = "waits",
                    ![c].box = IF calls[c].state = "ROOM" THEN @ ELSE NoRestart(@),
                    ![c].delayed = retry /\ calls[c].state = "ERROR" /\ ~calls[c].quits]
  BY DEF Work
<1>2. /\ calls[c] \in CallRecord /\ calls[c].box \in Seq({"START", "STOP", "RESTART"})
      /\ calls[c].thread = "works" /\ calls \in [Calls -> CallRecord]
  BY CallsTyped DEF Work
<1> DEFINE b == IF calls[c].state = "ROOM" THEN calls[c].box ELSE NoRestart(calls[c].box)
           d == retry /\ calls[c].state = "ERROR" /\ ~calls[c].quits
           r == [calls[c] EXCEPT !.thread = "waits", !.box = b, !.delayed = d]
<1>3. calls' = [calls EXCEPT ![c] = r]
  BY <1>1, <1>2 DEF CallRecord
<1>4. b \in Seq({"START", "STOP", "RESTART"}) /\ d \in BOOLEAN
  BY <1>2, BoxFacts DEF CallRecord
<1> HIDE DEF b, d
<1>5. /\ r \in CallRecord /\ r.thread = "waits" /\ r.state = calls[c].state
      /\ r.reports = calls[c].reports /\ r.quits = calls[c].quits
  BY <1>2, <1>4 DEF CallRecord
<1> HIDE DEF r
<1>6. Advances(calls[c], r)
  BY <1>2, <1>5 DEF Advances
<1>7. /\ past' = [past EXCEPT !.failures = past.failures] /\ past.failures \in Nat
      /\ UNCHANGED <<service, activity, notice, main, system>>
  BY CallsTyped DEF Work
<1> QED
  BY <1>3, <1>5, <1>6, <1>7, CallSteps

\* The thread waits, but for what is in its queue or still to come.
LEMMA BoxKeeps ==
    ASSUME Sound(Whole), NEW c \in Calls, NEW b \in Seq({"START", "STOP", "RESTART"}),
           NEW d \in BOOLEAN, NEW thread \in {calls[c].thread, "ended"},
           thread = calls[c].thread \/ calls[c].thread = "waits",
           calls' = [calls EXCEPT ![c] = [calls[c] EXCEPT !.thread = thread, !.box = b,
                                                          !.delayed = d]],
           UNCHANGED <<service, activity, notice, main, system, past>>
    PROVE  Sound(Whole')
<1> DEFINE r == [calls[c] EXCEPT !.thread = thread, !.box = b, !.delayed = d]
<1>1. calls[c] \in CallRecord
  BY CallsTyped
<1>2. /\ r \in CallRecord /\ r.thread = thread /\ r.state = calls[c].state
      /\ r.reports = calls[c].reports /\ r.quits = calls[c].quits
  BY <1>1 DEF CallRecord
<1>3. calls' = [calls EXCEPT ![c] = r]
  OBVIOUS
<1> HIDE DEF r
<1>4. Advances(calls[c], r)
  BY <1>2 DEF Advances
<1>5. /\ past' = [past EXCEPT !.failures = past.failures] /\ past.failures \in Nat
  BY CallsTyped
<1> QED
  BY <1>2, <1>3, <1>4, <1>5, CallSteps

\* It takes one that its state does not know.
LEMMA DropMessageKeeps ==
    ASSUME Sound(Whole), NEW c \in Calls, DropMessage(c)
    PROVE  Sound(Whole')
<1> DEFINE b == Tail(calls[c].box)
<1>1. /\ calls[c] \in CallRecord /\ calls[c].box \in Seq({"START", "STOP", "RESTART"})
      /\ calls[c].box # <<>> /\ calls \in [Calls -> CallRecord]
      /\ calls' = [calls EXCEPT ![c].box = Tail(@)]
      /\ UNCHANGED <<service, activity, notice, main, system, past>>
  BY CallsTyped DEF DropMessage
<1>2. b \in Seq({"START", "STOP", "RESTART"})
  BY <1>1, BoxFacts
<1>3. calls' = [calls EXCEPT ![c].box = b]
  BY <1>1
<1> HIDE DEF b
<1>4. calls' = [calls EXCEPT ![c] = [calls[c] EXCEPT !.thread = calls[c].thread, !.box = b,
                                                     !.delayed = calls[c].delayed]]
  BY <1>1, <1>3 DEF CallRecord
<1>5. calls[c].delayed \in BOOLEAN
  BY <1>1 DEF CallRecord
<1> QED
  BY <1>1, <1>2, <1>4, <1>5, BoxKeeps

\* The delay before a retry ends.
LEMMA DelayOverKeeps ==
    ASSUME Sound(Whole), NEW c \in Calls, DelayOver(c)
    PROVE  Sound(Whole')
<1> DEFINE b == Append(calls[c].box, "RESTART")
<1>1. /\ calls[c] \in CallRecord /\ calls[c].box \in Seq({"START", "STOP", "RESTART"})
      /\ calls \in [Calls -> CallRecord]
      /\ calls' = [calls EXCEPT ![c].delayed = FALSE, ![c].box = Append(@, "RESTART")]
      /\ UNCHANGED <<service, activity, notice, main, system, past>>
  BY CallsTyped DEF DelayOver
<1>2. b \in Seq({"START", "STOP", "RESTART"})
  BY <1>1, BoxFacts
<1>3. calls' = [calls EXCEPT ![c] = [calls[c] EXCEPT !.delayed = FALSE, !.box = b]]
  BY <1>1 DEF CallRecord
<1> HIDE DEF b
<1>4. calls' = [calls EXCEPT ![c] = [calls[c] EXCEPT !.thread = calls[c].thread, !.box = b,
                                                     !.delayed = FALSE]]
  BY <1>1, <1>3 DEF CallRecord
<1> QED
  BY <1>1, <1>2, <1>4, BoxKeeps

\* The thread of a call that was hung up ends.
LEMMA ThreadEndsKeeps ==
    ASSUME Sound(Whole), NEW c \in Calls, ThreadEnds(c)
    PROVE  Sound(Whole')
<1> DEFINE b == calls[c].box
           d == calls[c].delayed
<1>1. /\ calls[c] \in CallRecord /\ b \in Seq({"START", "STOP", "RESTART"}) /\ d \in BOOLEAN
      /\ calls \in [Calls -> CallRecord] /\ calls[c].thread = "waits"
      /\ calls' = [calls EXCEPT ![c].thread = "ended"]
      /\ UNCHANGED <<service, activity, notice, main, system, past>>
  BY CallsTyped DEF ThreadEnds, CallRecord
<1>2. calls' = [calls EXCEPT ![c] = [calls[c] EXCEPT !.thread = "ended", !.box = b,
                                                     !.delayed = d]]
  BY <1>1 DEF CallRecord
<1> QED
  BY <1>1, <1>2, BoxKeeps

\* A call is hung up.
LEMMA EndedIs ==
    ASSUME NEW s \in World, NEW e \in SUBSET Calls
    PROVE  LET t == [s EXCEPT !.past.ended = e]
           IN /\ t \in World /\ Changes(s, t, {"past"})
              /\ t.past.starts = s.past.starts /\ t.past.hangUps = s.past.hangUps
              /\ t.past.visits = s.past.visits /\ t.past.overrun = s.past.overrun
              /\ t.past.ended = e
BY DEF World, Changes, Parts

\* A call is told to do something, and those that are hung up are noted.
Press(w, c, what, e) == [Send(w, c, what) EXCEPT !.past.ended = e]

\* That changes nothing the service and the screen show.
LEMMA PressKeeps ==
    ASSUME NEW w, Kernel(w), NEW c \in Calls, NEW what \in {"STOP", "RESTART"},
           NEW e \in SUBSET Calls, w.past.ended \subseteq e
    PROVE  LET t == Press(w, c, what, e)
           IN /\ Kernel(t) /\ t.past.ended = e
              /\ Purposeful(w) => Purposeful(t)
              /\ Viewed(w) => Viewed(t)
              /\ t.main = w.main /\ t.service = w.service /\ t.system = w.system
<1> DEFINE s == Send(w, c, what)
           t == Press(w, c, what, e)
<1>1. w \in World /\ what \in {"START", "STOP", "RESTART"}
  BY DEF Kernel, Base
<1>2. /\ s \in World /\ Changes(w, s, {"calls"})
      /\ \A d \in Calls : /\ s.calls[d].state = w.calls[d].state
                          /\ s.calls[d].thread = w.calls[d].thread
                          /\ s.calls[d].quits = w.calls[d].quits
                          /\ s.calls[d].reports = w.calls[d].reports
  BY <1>1, SendIs
<1>3. t = [s EXCEPT !.past.ended = e]
  BY DEF Press
<1> HIDE DEF s
<1>4. /\ t \in World /\ Changes(s, t, {"past"})
      /\ t.past.starts = s.past.starts /\ t.past.hangUps = s.past.hangUps
      /\ t.past.visits = s.past.visits /\ t.past.overrun = s.past.overrun
      /\ t.past.ended = e
  BY <1>2, EndedIs DEF Press, s
<1> HIDE DEF t
<1>5. s.past = w.past /\ t.calls = s.calls /\ Changes(w, t, {"calls", "past"})
  BY <1>2, <1>4 DEF Changes, Parts
<1>6. \A d \in Calls : Advances(w.calls[d], t.calls[d])
  BY <1>2, <1>5 DEF Advances
<1>7. /\ Kernel(t)
      /\ Purposeful(w) => Purposeful(t)
      /\ Viewed(w) => Viewed(t)
      /\ t.main = w.main /\ t.service = w.service /\ t.system = w.system
  BY <1>4, <1>5, <1>6, CallStepKeeps
<1> QED
  BY <1>4, <1>7 DEF t

\* What the activity shows.
LEMMA ViewTyped ==
    ASSUME Sound(Whole)
    PROVE  /\ activity.view.call \in Calls \cup {None} /\ past.ended \in SUBSET Calls
           /\ \A t : \A c : t = Send(Whole, c, "RESTART") /\ t \in World =>
                 t = [t EXCEPT !.past.ended = t.past.ended]
<1>1. /\ activity \in [started : BOOLEAN, service : Services \cup {None},
                       view : [state : CallState \cup {"none"}, call : Calls \cup {None}]]
      /\ past \in [starts : 0 .. MaxStarts, hangUps : 0 .. MaxHangUps,
                   visits : 0 .. MaxVisits, failures : Nat, ended : SUBSET Calls,
                   overrun : BOOLEAN]
  BY WorldFacts, WholeIs DEF Sound, Kernel, Base
<1>2. \A t \in World : t = [t EXCEPT !.past.ended = t.past.ended]
  BY DEF World
<1> QED
  BY <1>1, <1>2

\* The button of the call view is pressed.
LEMMA HangUpKeeps ==
    ASSUME Sound(Whole), HangUp
    PROVE  Sound(Whole')
<1> DEFINE c == activity.view.call
           e == past.ended \cup {c}
           t == Press(Whole, c, "STOP", e)
<1>1. c \in Calls /\ e \in SUBSET Calls /\ past.ended \subseteq e
  BY ViewTyped DEF HangUp
<1>2. Become(t)
  <2>1. Become([Send(Whole, c, "STOP") EXCEPT !.past.ended = @ \cup {c}])
    BY DEF HangUp
  <2>2. Send(Whole, c, "STOP").past.ended = past.ended
    BY DEF Send, Whole
  <2> QED
    BY <2>1, <2>2 DEF Press
<1>3. Kernel(Whole) /\ Purposeful(Whole) /\ Viewed(Whole) /\ Whole.past.ended \subseteq e
  BY <1>1, WholeIs DEF Sound
<1> HIDE DEF t, e, c
<1>4. Kernel(t) /\ Purposeful(t) /\ Viewed(t)
  BY <1>1, <1>3, PressKeeps DEF t
<1> QED
  BY <1>2, <1>4, BecomeKeeps DEF Sound, Kernel, Base

\* The button of the error view is pressed.
LEMMA RestartKeeps ==
    ASSUME Sound(Whole), Restart
    PROVE  Sound(Whole')
<1> DEFINE c == activity.view.call
           t == Send(Whole, c, "RESTART")
<1>1. c \in Calls /\ past.ended \in SUBSET Calls /\ Become(t)
  BY ViewTyped DEF Restart
<1>2. t \in World /\ t.past = past
  <2>1. Whole \in World
    BY DEF Sound, Kernel, Base
  <2>2. t \in World /\ Changes(Whole, t, {"calls"})
    BY <1>1, <2>1, SendIs
  <2> QED
    BY <2>2, WholeIs DEF Changes, Parts
<1>3. t = [t EXCEPT !.past.ended = past.ended]
  BY <1>2, ViewTyped
<1> HIDE DEF c
<1>4. t = Press(Whole, c, "RESTART", past.ended)
  BY <1>3 DEF Press
<1>5. Kernel(Whole) /\ Purposeful(Whole) /\ Viewed(Whole) /\ Whole.past.ended = past.ended
  BY WholeIs DEF Sound
<1> HIDE DEF t
<1>6. Kernel(t) /\ Purposeful(t) /\ Viewed(t)
  BY <1>1, <1>4, <1>5, PressKeeps
<1> QED
  BY <1>1, <1>6, BecomeKeeps DEF Sound, Kernel, Base

\* The state is told.
LEMMA FiredIs ==
    ASSUME NEW w \in World, NEW c \in Calls
    PROVE  LET s == [w EXCEPT !.calls[c].thread = "works"]
           IN /\ s \in World /\ Changes(w, s, {"calls"})
              /\ \A d \in Calls : /\ s.calls[d].state = w.calls[d].state
                                  /\ s.calls[d].quits = w.calls[d].quits
                                  /\ s.calls[d].reports = w.calls[d].reports
              /\ \A d \in Calls \ {c} : s.calls[d].thread = w.calls[d].thread
              /\ s.calls[c].thread = "works"
<1> DEFINE r == [w.calls[c] EXCEPT !.thread = "works"]
           s == [w EXCEPT !.calls[c].thread = "works"]
<1>1. w.calls \in [Calls -> CallRecord]
  BY WorldFacts
<1>2. /\ r \in CallRecord /\ r.state = w.calls[c].state /\ r.thread = "works"
      /\ r.quits = w.calls[c].quits /\ r.reports = w.calls[c].reports
  BY <1>1 DEF CallRecord
<1>3. s.calls = [w.calls EXCEPT ![c] = r] /\ Changes(w, s, {"calls"})
  BY DEF World, Changes, Parts
<1> HIDE DEF r
<1>4. s.calls \in [Calls -> CallRecord]
  BY <1>1, <1>2, <1>3
<1>5. s \in World
  BY <1>4 DEF World
<1> HIDE DEF s
<1> QED
  BY <1>1, <1>2, <1>3, <1>5 DEF s

\* The message that tells the state comes last, and is the newest.
LEMMA FireStateChangedKeeps ==
    ASSUME Sound(Whole), NEW c \in Calls, FireStateChanged(c)
    PROVE  Sound(Whole')
<1> DEFINE w == Whole
           s == [w EXCEPT !.calls[c].thread = "works"]
           m == [kind |-> "state", service |-> calls[c].reports, call |-> c,
                 state |-> calls[c].state]
           t == IF calls[c].reports = None THEN s ELSE Enqueue(s, m)
<1>0. /\ w \in World /\ Sound(w) /\ w.calls = calls /\ Become(t)
      /\ w.calls[c].thread = "fires"
  BY WholeIs DEF Sound, Kernel, Base, FireStateChanged
<1>a. m \in Item \/ calls[c].reports = None
  BY CallsTyped, ItemFacts DEF CallRecord
<1> HIDE DEF w
<1>1. /\ s \in World /\ Changes(w, s, {"calls"})
      /\ \A d \in Calls : /\ s.calls[d].state = w.calls[d].state
                          /\ s.calls[d].quits = w.calls[d].quits
                          /\ s.calls[d].reports = w.calls[d].reports
      /\ \A d \in Calls \ {c} : s.calls[d].thread = w.calls[d].thread
      /\ s.calls[c].thread = "works"
  BY <1>0, FiredIs
<1> HIDE DEF s
<1>2. /\ s.service = w.service /\ s.activity = w.activity /\ s.notice = w.notice
      /\ s.main = w.main /\ s.system = w.system /\ s.past = w.past
  BY <1>1 DEF Changes, Parts
<1>3. /\ w.main \in Seq(Item) /\ w.service.id \in Nat /\ w.system.record \in Nat
      /\ w.system.last \in Nat /\ w.past.starts \in Nat
      /\ \A i \in DOMAIN w.main : w.main[i] \in Item
  BY <1>0, WorldFacts, Numbers
<1>4. Owned(s)
  <2>1. Owned(w)
    BY <1>0 DEF Sound, Kernel, Base
  <2>2. \A i \in DOMAIN w.main : w.main[i].kind = "state" => w.main[i].call \in Calls
    BY <1>3, ItemFacts
  <2>3. \A d \in Calls : (s.calls[d].thread = "none" <=> w.calls[d].thread = "none")
    BY <1>0, <1>1
  <2>4. \A d \in Calls : s.calls[d].thread \notin {"none", "ended"} =>
                            w.calls[d].thread \notin {"none", "ended"}
    BY <1>0, <1>1
  <2> QED
    BY <1>1, <1>2, <2>1, <2>2, <2>3, <2>4 DEF Owned
<1>5. Supplied(s)
  <2>1. \A d \in Calls : s.calls[d].thread = "none" <=> w.calls[d].thread = "none"
    BY <1>0, <1>1
  <2> QED
    BY <1>0, <1>2, <2>1, SuppliedSame DEF Sound, Kernel, Supplied
<1>6. /\ InTurn(s) /\ Awaited(s) /\ Held(s) /\ Empty(s) /\ Binding(s) /\ Counted(s)
      /\ Upheld(s) /\ Purposeful(s)
  BY <1>0, <1>2 DEF Sound, Kernel, Base, InTurn, Awaited, Held, Empty, Binding, Counted,
                    Upheld, Purposeful
<1>7. /\ w.service.call = c <=> w.calls[c].reports # None
      /\ w.service.call = c => w.calls[c].reports = w.service.id
  <2>1. Owned(w) /\ Empty(w)
    BY <1>0 DEF Sound, Kernel, Base
  <2>2. w.calls[c].reports = (IF w.service.call = c THEN w.service.id ELSE None)
    BY <2>1 DEF Owned
  <2>3. c # None
    BY Numbers
  <2> QED
    BY <2>1, <2>2, <2>3 DEF Empty
<1>8. CASE w.calls[c].reports = None
  <2>1. t = s
    BY <1>0, <1>8
  <2>2. w.service.call # c /\ (w.service.call # None => w.service.call \in Calls \ {c})
    BY <1>0, <1>7, <1>8, WorldFacts
  <2>3. /\ \A x : Mine(s, x) <=> Mine(w, x)
        /\ w.service.call # None =>
              /\ s.calls[s.service.call].thread = w.calls[w.service.call].thread
              /\ s.calls[s.service.call].state = w.calls[w.service.call].state
    BY <1>1, <1>2, <2>2 DEF Mine
  <2>4. (Told(s) <=> Told(w)) /\ StateOf(s) = StateOf(w)
    BY <1>2, <2>3 DEF Told, StateOf
  <2>5. Newest(s)
    BY <1>0, <1>2, <2>3 DEF Sound, Kernel, Base, Newest
  <2>6. Noticed(s)
    BY <1>0, <1>2, <2>4 DEF Sound, Kernel, Base, Noticed
  <2>7. Viewed(s)
    BY <1>0, <1>2, <2>4 DEF Sound, Viewed
  <2>8. Sound(s)
    BY <1>1, <1>4, <1>5, <1>6, <2>5, <2>6, <2>7 DEF Sound, Kernel, Base
  <2> QED
    BY <1>0, <1>1, <2>1, <2>8, BecomeKeeps
<1>9. CASE w.calls[c].reports # None
  <2>0. /\ t = Enqueue(s, m) /\ m \in Item /\ m.kind = "state" /\ m.call = c
        /\ m.service = w.service.id /\ m.state = w.calls[c].state /\ w.service.call = c
    BY <1>0, <1>a, <1>7, <1>9
  <2> HIDE DEF t, m
  <2>1. t \in World /\ Changes(s, t, {"main"}) /\ t.main = Append(s.main, m)
    BY <1>1, <2>0, EnqueueIs
  <2>2. /\ t.calls = s.calls /\ t.service = w.service /\ t.activity = w.activity
        /\ t.notice = w.notice /\ t.system = w.system /\ t.past = w.past
        /\ t.main = Append(w.main, m)
    BY <1>2, <2>1 DEF Changes, Parts
  <2>3. ~ Turn(m) /\ m.kind # "start" /\ Mine(t, m) /\ c # None
    BY <2>0, <2>2, Numbers DEF Turn, Mine
  <2>4. /\ DOMAIN w.main = 1 .. Len(w.main) /\ DOMAIN t.main = 1 .. Len(w.main) + 1
        /\ \A i \in DOMAIN w.main : i \in DOMAIN t.main /\ t.main[i] = w.main[i]
                                    /\ i < Len(w.main) + 1
        /\ Len(w.main) + 1 \in DOMAIN t.main /\ t.main[Len(w.main) + 1] = m
        /\ \A i \in DOMAIN t.main : i \in DOMAIN w.main \/ i = Len(w.main) + 1
    BY <1>3, <2>0, <2>2, PutItem
  <2>5. ~ Told(t)
    BY <2>3, <2>4 DEF Told
  <2>6. Newest(t)
    <3>1. ASSUME NEW i \in DOMAIN t.main, \A j \in DOMAIN t.main : j > i => ~ Mine(t, t.main[j])
          PROVE  t.main[i].state = t.calls[t.service.call].state
      <4>1. i = Len(w.main) + 1
        BY <2>3, <2>4, <3>1
      <4> QED
        BY <1>1, <2>0, <2>2, <2>4, <4>1
    <3> QED
      BY <3>1 DEF Newest
  <2>7. Noticed(t) /\ Viewed(t)
    BY <2>5 DEF Noticed, Viewed
  <2>8. Owned(t)
    <3>1. \A i \in DOMAIN t.main :
             t.main[i].kind = "state" => t.calls[t.main[i].call].thread # "none"
      BY <1>1, <1>2, <1>4, <2>0, <2>2, <2>4 DEF Owned
    <3> QED
      BY <1>2, <1>4, <2>2, <3>1 DEF Owned
  <2>9. InTurn(t)
    BY <1>0, <1>3, <2>0, <2>2, <2>3, TurnsPut DEF Sound, Kernel, Base, InTurn
  <2>10. /\ \A i \in DOMAIN w.main : NoTurnAfter(w.main, i) => NoTurnAfter(t.main, i)
         /\ Asked(w.main) => Asked(t.main)
    BY <1>3, <2>0, <2>2, <2>3, AskedPut
  <2>11. \A i \in DOMAIN t.main : t.main[i].kind # "state" =>
            i \in DOMAIN w.main /\ t.main[i] = w.main[i]
    BY <2>0, <2>4
  <2>12. Awaited(t) /\ Purposeful(t)
    BY <1>0, <2>2, <2>10, <2>11 DEF Sound, Kernel, Base, Awaited, Purposeful
  <2>13. Binding(t)
    BY <1>0, <2>2, <2>11 DEF Sound, Kernel, Base, Binding
  <2>14. Supplied(t)
    <3>1. SuppliedBy(s, w.past.starts) /\ \A d \in Calls : t.calls[d].thread = "none" <=>
                                                            s.calls[d].thread = "none"
      BY <1>2, <1>5, <2>2 DEF Supplied
    <3> DEFINE k == w.past.starts
    <3>2. /\ s \in World /\ t \in World /\ m \in Item /\ k \in Nat /\ m.kind # "start"
          /\ t.main = Append(s.main, m) /\ SuppliedBy(s, k)
      BY <1>1, <1>3, <2>0, <2>1, <2>3, <3>1
    <3> HIDE DEF k
    <3>3. SuppliedBy(t, k)
      BY <3>1, <3>2, SuppliedPut
    <3> QED
      BY <2>2, <3>3 DEF Supplied, k
  <2>15. Counted(t) /\ Upheld(t) /\ Held(t) /\ Empty(t)
    BY <1>2, <1>6, <2>2 DEF Counted, Upheld, Held, Empty
  <2>16. Sound(t)
    BY <2>1, <2>6, <2>7, <2>8, <2>9, <2>12, <2>13, <2>14, <2>15 DEF Sound, Kernel, Base
  <2> QED
    BY <1>0, <2>1, <2>16, BecomeKeeps
<1> QED
  BY <1>8, <1>9

-----------------------------------------------------------------------------
(* The main thread takes an item.                                          *)

\* m is taken from the queue, which leaves x.
Taken(w, x, m) ==
    /\ x \in World /\ Changes(w, x, {"main"}) /\ w.main # <<>>
    /\ x.main = Tail(w.main) /\ m = Head(w.main)

\* What is known of an item by its place at the head.
Due(w, x, m) ==
    /\ m \in Item
    /\ m.kind = "create" => w.service.id = None
    /\ m.kind \in {"destroy", "start"} => w.service.id # None
    /\ Turn(m) => w.system.record # w.service.id \/ w.system.record = None
    /\ m.kind = "connected" => w.system.told
    /\ m.kind = "attach" => w.activity.service # None
    /\ m.kind = "start" /\ ~ w.past.overrun => w.system.started /\ NoTurn(x.main)
    /\ Asked(w.main) => Asked(x.main) \/ (m.kind \in {"start", "hang up"} /\ NoTurn(x.main))
    /\ m.kind = "start" =>
          \E n \in 0 .. MaxStarts :
             /\ n < w.past.starts
             /\ \A c \in Calls : w.calls[c].thread # "none" <=> c <= n
             /\ \E g : Ranked(x.main, n + 1, w.past.starts, g)

\* The queue as the item leaves it.
Left(w, x, m) ==
    /\ w \in World /\ x \in World
    /\ x.calls = w.calls /\ x.service = w.service /\ x.activity = w.activity
    /\ x.notice = w.notice /\ x.system = w.system /\ x.past = w.past
    /\ w.main \in Seq(Item) /\ x.main \in Seq(Item)
    /\ w.service.id \in Nat /\ w.system.record \in Nat /\ w.system.last \in Nat
    /\ w.past.starts \in 0 .. MaxStarts
    /\ 1 \in DOMAIN w.main /\ w.main[1] = m /\ m \in Item
    /\ \A i \in DOMAIN x.main : /\ i + 1 \in DOMAIN w.main /\ i + 1 > 1
                                /\ x.main[i] = w.main[i + 1] /\ i \in Nat
    /\ \A i \in DOMAIN w.main : /\ i \in Nat
                                /\ i = 1 \/ \E k \in DOMAIN x.main :
                                               k + 1 = i /\ x.main[k] = w.main[i]

\* What is left is the queue without its first item.
LEMMA TakenFacts ==
    ASSUME NEW w, w \in World, NEW x, NEW m, Taken(w, x, m)
    PROVE  Left(w, x, m)
<1>1. /\ x.calls = w.calls /\ x.service = w.service /\ x.activity = w.activity
      /\ x.notice = w.notice /\ x.system = w.system /\ x.past = w.past
  BY DEF Taken, Changes, Parts
<1>2. w \in World /\ x \in World
  BY DEF Taken
<1>3. /\ w.main \in Seq(Item) /\ x.main \in Seq(Item)
      /\ w.service.id \in Nat /\ w.system.record \in Nat /\ w.system.last \in Nat
      /\ w.past.starts \in 0 .. MaxStarts
  BY <1>2, WorldFacts, Numbers
<1>4. w.main # <<>> /\ x.main = Tail(w.main) /\ m = Head(w.main)
  BY DEF Taken
<1>5. /\ m \in Item /\ DOMAIN x.main = 1 .. Len(w.main) - 1 /\ DOMAIN w.main = 1 .. Len(w.main)
      /\ 1 \in DOMAIN w.main /\ Len(w.main) \in Nat \ {0} /\ m = w.main[1]
      /\ \A i \in DOMAIN x.main : i + 1 \in DOMAIN w.main /\ x.main[i] = w.main[i + 1]
      /\ \A i \in DOMAIN w.main : i # 1 => /\ i - 1 \in DOMAIN x.main
                                           /\ x.main[i - 1] = w.main[i]
  BY <1>3, <1>4, TakeItem
<1>6. /\ \A i \in DOMAIN x.main : i \in Nat /\ i + 1 > 1
      /\ \A i \in DOMAIN w.main : i \in Nat
  BY <1>5
<1>7. ASSUME NEW i \in DOMAIN w.main, i # 1
      PROVE  \E k \in DOMAIN x.main : k + 1 = i /\ x.main[k] = w.main[i]
  <2>1. i - 1 \in DOMAIN x.main /\ x.main[i - 1] = w.main[i] /\ (i - 1) + 1 = i
    BY <1>5, <1>6, <1>7
  <2> QED
    BY <2>1
<1> QED
  BY <1>1, <1>2, <1>3, <1>5, <1>6, <1>7 DEF Left

\* The service is as the first item expects it, and the rest of the queue fits.
LEMMA TakenDue ==
    ASSUME NEW w, Sound(w), NEW x, NEW m, Taken(w, x, m)
    PROVE  /\ Due(w, x, m)
           /\ Turns(x.main, After(m, w.service.id), w.system.record, w.system.last)
           /\ Awaited(x) /\ Supplied(x)
<1>0. Left(w, x, m)
  BY TakenFacts DEF Sound, Kernel, Base
<1>1. w.main # <<>> /\ x.main = Tail(w.main) /\ m = Head(w.main)
  BY DEF Taken
<1>2. Turns(w.main, w.service.id, w.system.record, w.system.last)
  BY DEF Sound, Kernel, Base, InTurn
<1>3. /\ Turns(x.main, After(m, w.service.id), w.system.record, w.system.last)
      /\ m.kind = "create" => w.service.id = None
      /\ m.kind \in {"destroy", "start"} => w.service.id # None
      /\ Turn(m) => w.system.record # w.service.id \/ w.system.record = None
  <2>1. /\ w.main \in Seq(Item) /\ w.service.id \in Nat /\ w.system.record \in Nat
        /\ w.system.last \in Nat
    BY <1>0 DEF Left
  <2>2. /\ Turns(Tail(w.main), After(Head(w.main), w.service.id), w.system.record,
                 w.system.last)
        /\ Head(w.main).kind = "create" => w.service.id = None
        /\ Head(w.main).kind \in {"destroy", "start"} => w.service.id # None
        /\ Turn(Head(w.main)) => w.system.record # w.service.id \/ w.system.record = None
    BY <1>1, <1>2, <2>1, TurnsTake
  <2> QED
    BY <1>1, <2>2
<1>a. /\ \A i \in DOMAIN x.main : /\ i + 1 \in DOMAIN w.main /\ i + 1 > 1
                                  /\ x.main[i] = w.main[i + 1] /\ i \in Nat
      /\ \A i \in DOMAIN w.main : /\ i \in Nat
                                  /\ i = 1 \/ \E k \in DOMAIN x.main :
                                                 k + 1 = i /\ x.main[k] = w.main[i]
  BY <1>0 DEF Left
<1>4. \A i \in DOMAIN x.main : NoTurnAfter(w.main, i + 1) => NoTurnAfter(x.main, i)
  <2> SUFFICES ASSUME NEW i \in DOMAIN x.main, NoTurnAfter(w.main, i + 1),
                      NEW j \in DOMAIN x.main, j > i
               PROVE  ~ Turn(x.main[j])
    BY DEF NoTurnAfter
  <2>1. j + 1 \in DOMAIN w.main /\ j + 1 > i + 1 /\ x.main[j] = w.main[j + 1]
    BY <1>a
  <2> QED
    BY <2>1 DEF NoTurnAfter
<1>5. NoTurnAfter(w.main, 1) => NoTurn(x.main)
  BY <1>a DEF NoTurnAfter, NoTurn
<1>6. m.kind = "start" /\ ~ w.past.overrun => w.system.started /\ NoTurn(x.main)
  BY <1>0, <1>5 DEF Left, Sound, Kernel, Base, Awaited
<1>7. Awaited(x)
  BY <1>0, <1>4 DEF Left, Sound, Kernel, Base, Awaited
<1>8. Asked(w.main) => Asked(x.main) \/ (m.kind \in {"start", "hang up"} /\ NoTurn(x.main))
  <2> SUFFICES ASSUME NEW i \in DOMAIN w.main, w.main[i].kind \in {"start", "hang up"},
                      NoTurnAfter(w.main, i),
                      ~ (m.kind \in {"start", "hang up"} /\ NoTurn(x.main))
               PROVE  Asked(x.main)
    BY DEF Asked
  <2>a. i # 1
    BY <1>0, <1>5 DEF Left
  <2>1. PICK k \in DOMAIN x.main : k + 1 = i /\ x.main[k] = w.main[i]
    BY <1>a, <2>a
  <2>2. NoTurnAfter(x.main, k)
    BY <1>4, <2>1
  <2> QED
    BY <2>1, <2>2 DEF Asked
<1>9. /\ m.kind = "connected" => w.system.told
      /\ m.kind = "attach" => w.activity.service # None
  BY <1>0 DEF Left, Sound, Kernel, Base, Binding
<1>10. PICK n \in 0 .. MaxStarts :
          /\ n <= w.past.starts
          /\ \A c \in Calls : w.calls[c].thread # "none" <=> c <= n
          /\ \E g : Ranked(w.main, n, w.past.starts, g)
  BY DEF Sound, Kernel, Supplied, SuppliedBy
<1>11. /\ \E h : Ranked(x.main, n, w.past.starts, h)
       /\ m.kind = "start" =>
             n < w.past.starts /\ \E h : Ranked(x.main, n + 1, w.past.starts, h)
  <2>1. PICK g : Ranked(w.main, n, w.past.starts, g)
    BY <1>10
  <2>2. n \in Nat /\ w.past.starts \in Nat
    BY <1>0, Numbers DEF Left
  <2> QED
    BY <1>0, <1>1, <2>1, <2>2, RankedTake DEF Left
<1>12. Supplied(x)
  BY <1>0, <1>10, <1>11 DEF Left, Supplied, SuppliedBy
<1>13. m.kind = "start" =>
          \E k \in 0 .. MaxStarts :
             /\ k < w.past.starts
             /\ \A c \in Calls : w.calls[c].thread # "none" <=> c <= k
             /\ \E g : Ranked(x.main, k + 1, w.past.starts, g)
  BY <1>10, <1>11
<1>14. m \in Item
  BY <1>0 DEF Left
<1>15. Due(w, x, m)
  BY <1>3, <1>6, <1>8, <1>9, <1>13, <1>14 DEF Due
<1> QED
  BY <1>3, <1>7, <1>12, <1>15

\* What is seen, when the item is taken and before it is handled.
Seen(w, x, m) ==
    /\ Held(x) /\ Empty(x) /\ Binding(x) /\ Owned(x) /\ Newest(x) /\ Counted(x) /\ Upheld(x)
    /\ StateOf(x) = StateOf(w)
    /\ ~ Mine(w, m) => Noticed(x) /\ (Told(x) => Told(w))
    /\ Mine(w, m) /\ Told(x) => m.state = StateOf(x)
    /\ ~ Mine(w, m) /\ m.kind # "attach" => Viewed(x)

\* What was true of the last message is true of it in the rest of the queue.
LEMMA TakenSeen ==
    ASSUME NEW w, Sound(w), NEW x, NEW m, Taken(w, x, m)
    PROVE  Seen(w, x, m)
<1>0. Left(w, x, m)
  BY TakenFacts DEF Sound, Kernel, Base
<1>1. /\ x.calls = w.calls /\ x.service = w.service /\ x.activity = w.activity
      /\ x.notice = w.notice /\ x.system = w.system /\ x.past = w.past
      /\ w.main[1] = m /\ m \in Item /\ 1 \in DOMAIN w.main
  BY <1>0 DEF Left
<1>2. /\ \A i \in DOMAIN x.main : /\ i + 1 \in DOMAIN w.main /\ i + 1 > 1
                                  /\ x.main[i] = w.main[i + 1] /\ i \in Nat
      /\ \A i \in DOMAIN w.main : /\ i \in Nat
                                  /\ i = 1 \/ \E k \in DOMAIN x.main :
                                                 k + 1 = i /\ x.main[k] = w.main[i]
  BY <1>0 DEF Left
<1>3. \A i \in DOMAIN x.main : \E k \in DOMAIN w.main : x.main[i] = w.main[k]
  BY <1>2
<1>4. Held(x) /\ Empty(x) /\ Counted(x) /\ Upheld(x)
  BY <1>1 DEF Sound, Kernel, Base, Held, Empty, Counted, Upheld
<1>5. Binding(x) /\ Owned(x)
  BY <1>1, <1>3 DEF Sound, Kernel, Base, Binding, Owned
<1>6. (\A y : Mine(x, y) <=> Mine(w, y)) /\ StateOf(x) = StateOf(w)
  BY <1>1 DEF Mine, StateOf
<1>7. Newest(x)
  <2> SUFFICES ASSUME x.service.call # None, x.calls[x.service.call].thread # "fires",
                      NEW i \in DOMAIN x.main, Mine(x, x.main[i]),
                      \A j \in DOMAIN x.main : j > i => ~ Mine(x, x.main[j])
               PROVE  x.main[i].state = x.calls[x.service.call].state
    BY DEF Newest
  <2>1. i + 1 \in DOMAIN w.main /\ Mine(w, w.main[i + 1]) /\ x.main[i] = w.main[i + 1]
    BY <1>2, <1>6
  <2>2. ASSUME NEW j \in DOMAIN w.main, j > i + 1
        PROVE  ~ Mine(w, w.main[j])
    <3>1. PICK k \in DOMAIN x.main : k + 1 = j /\ x.main[k] = w.main[j]
      BY <1>2, <2>2
    <3>2. k > i
      BY <1>2, <2>2, <3>1
    <3> QED
      BY <1>6, <3>1, <3>2
  <2> QED
    BY <1>1, <2>1, <2>2 DEF Sound, Kernel, Base, Newest
<1>8. ASSUME ~ Mine(w, m), Told(x)
      PROVE  Told(w)
  <2>1. ASSUME NEW i \in DOMAIN w.main
        PROVE  ~ Mine(w, w.main[i])
    <3>1. CASE i = 1
      BY <1>1, <1>8, <3>1
    <3>2. CASE i # 1
      BY <1>2, <1>6, <1>8, <3>2 DEF Told
    <3> QED
      BY <3>1, <3>2
  <2> QED
    BY <1>1, <1>8, <2>1 DEF Told
<1>9. ~ Mine(w, m) => Noticed(x)
  BY <1>1, <1>6, <1>8 DEF Sound, Kernel, Base, Noticed
<1>10. ASSUME Mine(w, m), Told(x)
       PROVE  m.state = StateOf(x)
  <2>1. w.service.call # None /\ w.calls[w.service.call].thread # "fires"
    <3>1. m.call \in Calls /\ m.call = w.service.call
      BY <1>1, <1>10, ItemFacts DEF Mine
    <3> QED
      BY <1>1, <1>10, <3>1, Numbers DEF Told
  <2>2. ASSUME NEW j \in DOMAIN w.main, j > 1
        PROVE  ~ Mine(w, w.main[j])
    <3>1. PICK k \in DOMAIN x.main : x.main[k] = w.main[j]
      BY <1>2, <2>2
    <3> QED
      BY <1>6, <1>10, <3>1 DEF Told
  <2>3. w.main[1].state = w.calls[w.service.call].state
    BY <1>1, <1>10, <2>1, <2>2 DEF Sound, Kernel, Base, Newest
  <2> QED
    BY <1>1, <2>1, <2>3 DEF StateOf
<1>11. ASSUME ~ Mine(w, m), m.kind # "attach"
       PROVE  Viewed(x)
  <2> SUFFICES ASSUME Told(x), x.activity.service # None
               PROVE  Viewed(x)
    BY DEF Viewed
  <2>1. Told(w) /\ w.activity.service # None /\ Viewed(w)
    BY <1>1, <1>8, <1>11 DEF Sound
  <2>2. (\A i \in DOMAIN x.main : x.main[i].kind # "attach")
          => \A i \in DOMAIN w.main : w.main[i].kind # "attach"
    <3> SUFFICES ASSUME NEW i \in DOMAIN w.main, w.main[i].kind = "attach"
                 PROVE  \E k \in DOMAIN x.main : x.main[k].kind = "attach"
      OBVIOUS
    <3>1. i # 1
      BY <1>1, <1>11
    <3> QED
      BY <1>2, <3>1
  <2>3. ASSUME NEW i \in DOMAIN x.main, x.main[i].kind = "attach",
               \A j \in DOMAIN x.main : j > i => x.main[j].kind # "attach"
        PROVE  x.main[i].state = StateOf(x)
    <3>1. i + 1 \in DOMAIN w.main /\ x.main[i] = w.main[i + 1]
      BY <1>2
    <3>2. ASSUME NEW j \in DOMAIN w.main, j > i + 1
          PROVE  w.main[j].kind # "attach"
      <4>1. PICK k \in DOMAIN x.main : k + 1 = j /\ x.main[k] = w.main[j]
        BY <1>2, <3>2
      <4>2. k > i
        BY <1>2, <3>2, <4>1
      <4> QED
        BY <2>3, <4>1, <4>2
    <3> QED
      BY <1>6, <2>1, <2>3, <3>1, <3>2 DEF Viewed
  <2> QED
    BY <1>1, <1>6, <2>1, <2>2, <2>3 DEF Viewed
<1> QED
  BY <1>4, <1>5, <1>6, <1>7, <1>8, <1>9, <1>10, <1>11 DEF Seen

\* An item that is no message about the call leaves what the handlers need.
LEMMA TakenKernel ==
    ASSUME NEW w, Sound(w), NEW x, NEW m, Taken(w, x, m), ~ Turn(m), ~ Mine(w, m)
    PROVE  /\ Kernel(x)
           /\ m.kind # "attach" => Viewed(x)
           /\ x.system.started /\ x.service.id # x.system.record => Asked(x.main)
           /\ x.service.call # None => Purposeful(x)
           /\ m.kind \notin {"start", "hang up"} => Purposeful(x)
<1>0. Left(w, x, m) /\ Seen(w, x, m) /\ Due(w, x, m)
  BY TakenFacts, TakenSeen, TakenDue DEF Sound, Kernel, Base
<1>1. /\ x \in World /\ x.service = w.service /\ x.system = w.system
      /\ w.service.id \in Nat /\ w.system.record \in Nat /\ w.system.last \in Nat
  BY <1>0 DEF Left
<1>2. InTurn(x) /\ Awaited(x) /\ Supplied(x)
  <2>1. After(m, w.service.id) = w.service.id
    BY DEF Turn, After
  <2> QED
    BY <1>1, <2>1, TakenDue DEF InTurn
<1>3. Kernel(x) /\ (m.kind # "attach" => Viewed(x))
  BY <1>0, <1>1, <1>2 DEF Kernel, Base, Seen
<1>4. NoTurn(x.main) => x.system.record = x.service.id
  BY <1>2 DEF InTurn, Turns, Order
<1>5. Asked(w.main) => Asked(x.main) \/ x.system.record = x.service.id
  BY <1>0, <1>4 DEF Due
<1>6. Asked(w.main) /\ m.kind \notin {"start", "hang up"} => Asked(x.main)
  BY <1>0 DEF Due
<1>7. x.system.started => \/ x.service.call # None /\ x.service.id = x.system.record
                          \/ Asked(w.main)
  BY <1>1 DEF Sound, Purposeful
<1> QED
  BY <1>3, <1>5, <1>6, <1>7 DEF Purposeful

-----------------------------------------------------------------------------
(* The service is made and destroyed.                                      *)

\* A change of the service and the notification.
Serve(x, n, c, s) == [x EXCEPT !.service = [id |-> n, call |-> c], !.notice = s]

\* It changes no more than that.
LEMMA ServiceIs ==
    ASSUME NEW x \in World, NEW n \in Services \cup {None}, NEW c \in Calls \cup {None},
           NEW s \in CallState \cup {"none"}
    PROVE  LET t == Serve(x, n, c, s)
           IN /\ t \in World /\ Changes(x, t, {"service", "notice"})
              /\ t.service.id = n /\ t.service.call = c /\ t.notice = s
BY DEF Serve, World, Changes, Parts

\* A service is made, without a call.
LEMMA CreateKeeps ==
    ASSUME NEW w, Sound(w), NEW x, NEW m, Taken(w, x, m), m.kind = "create"
    PROVE  Sound(OnCreate(x, m))
<1> DEFINE t == OnCreate(x, m)
<1>0. Left(w, x, m) /\ Seen(w, x, m) /\ Due(w, x, m)
  BY TakenFacts, TakenSeen, TakenDue DEF Sound, Kernel, Base
<1>1. /\ x \in World /\ x.service = w.service /\ x.system = w.system
      /\ x.activity = w.activity /\ x.calls = w.calls /\ x.past = w.past /\ m \in Item
      /\ x.main \in Seq(Item) /\ w.service.id = None
  BY <1>0 DEF Left, Due
<1>2. m.service \in Services
  BY <1>1, ItemFacts
<1>3. t = Serve(x, m.service, None, x.notice)
  BY <1>1 DEF OnCreate, Serve, World
<1>4. /\ t \in World /\ Changes(x, t, {"service", "notice"}) /\ t.service.id = m.service
      /\ t.service.call = None /\ t.notice = x.notice
  <2> DEFINE n == m.service
             s == x.notice
  <2>1. /\ x \in World /\ s \in CallState \cup {"none"} /\ n \in Services \cup {None}
        /\ None \in Calls \cup {None} /\ t = Serve(x, n, None, s)
    BY <1>1, <1>2, <1>3, WorldFacts
  <2> HIDE DEF n, s, t
  <2>2. /\ t \in World /\ Changes(x, t, {"service", "notice"}) /\ t.service.id = n
        /\ t.service.call = None /\ t.notice = s
    BY <2>1, ServiceIs
  <2> QED
    BY <2>2 DEF n, s
<1> HIDE DEF t
<1>5. /\ t.calls = x.calls /\ t.activity = x.activity /\ t.main = x.main
      /\ t.system = x.system /\ t.past = x.past
  BY <1>4 DEF Changes, Parts
<1>6. x.service.call = None /\ x.notice = "none"
  BY <1>0, <1>1 DEF Seen, Empty
<1>7. InTurn(t)
  <2>1. After(m, w.service.id) = m.service
    BY DEF After
  <2> QED
    BY <1>1, <1>4, <1>5, <2>1, TakenDue DEF InTurn
<1>8. Awaited(t) /\ Supplied(t)
  <2>1. Awaited(x) /\ Supplied(x)
    BY TakenDue
  <2>2. Supplied(t)
    BY <1>5, <2>1, SuppliedSame DEF Supplied
  <2> QED
    BY <1>5, <2>1, <2>2 DEF Awaited
<1>9. ~ x.system.told /\ x.activity.service = None
  <2>1. Upheld(x) /\ Binding(x)
    BY <1>0 DEF Seen
  <2> QED
    BY <1>1, <2>1 DEF Upheld, Binding
<1>10. Binding(t)
  BY <1>0, <1>5, <1>9 DEF Seen, Binding
<1>11. Owned(t)
  <2>1. \A c \in Calls : c # None
    BY Numbers
  <2> QED
    BY <1>0, <1>4, <1>5, <1>6, <2>1 DEF Seen, Owned
<1>12. Newest(t) /\ Noticed(t) /\ Viewed(t) /\ Held(t) /\ Empty(t)
  BY <1>4, <1>5, <1>6, <1>9 DEF Newest, Noticed, Viewed, Held, Empty
<1>13. Counted(t) /\ Upheld(t)
  BY <1>0, <1>5 DEF Seen, Counted, Upheld
<1>14. Purposeful(t)
  BY <1>0, <1>1, <1>5, <1>6 DEF Due, Sound, Purposeful
<1> QED
  BY <1>4, <1>7, <1>8, <1>10, <1>11, <1>12, <1>13, <1>14 DEF Sound, Kernel, Base, t

\* A service is destroyed; its call, if it has one, reports to nobody.
LEMMA DestroyKeeps ==
    ASSUME NEW w, Sound(w), NEW x, NEW m, Taken(w, x, m), m.kind = "destroy"
    PROVE  Sound(OnDestroy(x))
<1> DEFINE t == OnDestroy(x)
           b == x.service.call
           g == IF b = None THEN x ELSE LetGo(x, b)
<1>0. Left(w, x, m) /\ Seen(w, x, m) /\ Due(w, x, m)
  BY TakenFacts, TakenSeen, TakenDue DEF Sound, Kernel, Base
<1>1. /\ x \in World /\ x.service = w.service /\ x.system = w.system
      /\ x.activity = w.activity /\ x.calls = w.calls /\ x.past = w.past /\ m \in Item
      /\ x.main \in Seq(Item) /\ w.service.id # None
      /\ w.system.record # w.service.id
  BY <1>0 DEF Left, Due, Turn
<1>2. /\ b \in Calls \cup {None}
      /\ \A i \in DOMAIN x.main : x.main[i].kind = "state" => x.main[i].call \in Calls
  <2>1. b \in Calls \cup {None} /\ \A i \in DOMAIN x.main : x.main[i] \in Item
    BY <1>1, WorldFacts
  <2> QED
    BY <2>1, ItemFacts
<1>3. /\ g \in World /\ Changes(x, g, {"calls"})
      /\ \A d \in Calls : /\ g.calls[d].state = x.calls[d].state
                          /\ g.calls[d].thread = x.calls[d].thread
      /\ \A d \in Calls : d # b => /\ g.calls[d].quits = x.calls[d].quits
                                   /\ g.calls[d].reports = x.calls[d].reports
      /\ b # None => g.calls[b].quits /\ g.calls[b].reports = None
  <2>1. CASE b = None
    <3>1. g = x /\ Changes(x, x, {"calls"})
      BY <1>1, <2>1, WorldFacts DEF Changes
    <3> HIDE DEF g
    <3> QED
      BY <1>1, <2>1, <3>1
  <2>2. CASE b # None
    <3>1. g = LetGo(x, b) /\ b \in Calls
      BY <1>2, <2>2
    <3> HIDE DEF g, b
    <3> DEFINE u == LetGo(x, b)
    <3>2. /\ u \in World /\ Changes(x, u, {"calls"})
          /\ \A d \in Calls : /\ u.calls[d].state = x.calls[d].state
                              /\ u.calls[d].thread = x.calls[d].thread
          /\ \A d \in Calls \ {b} : /\ u.calls[d].quits = x.calls[d].quits
                                    /\ u.calls[d].reports = x.calls[d].reports
          /\ u.calls[b].quits /\ u.calls[b].reports = None
      BY <1>1, <3>1, LetGoIs
    <3> HIDE DEF u
    <3>3. g = u
      BY <3>1 DEF u
    <3> QED
      BY <3>2, <3>3
  <2> QED
    BY <2>1, <2>2
<1>4. t = Serve(g, None, None, "none")
  BY DEF OnDestroy, NoService, Serve
<1> HIDE DEF g, b
<1>5. /\ t \in World /\ Changes(g, t, {"service", "notice"}) /\ t.service.id = None
      /\ t.service.call = None /\ t.notice = "none"
  BY <1>3, <1>4, ServiceIs
<1> HIDE DEF t
<1>6. /\ t.calls = g.calls /\ t.activity = x.activity /\ t.main = x.main
      /\ t.system = x.system /\ t.past = x.past
  BY <1>3, <1>5 DEF Changes, Parts
<1>7. InTurn(t)
  <2>1. After(m, w.service.id) = None
    BY DEF After
  <2> QED
    BY <1>1, <1>5, <1>6, <2>1, TakenDue DEF InTurn
<1>8. Awaited(t) /\ Supplied(t)
  <2>1. Awaited(x) /\ Supplied(x)
    BY TakenDue
  <2>2. \A d \in Calls : t.calls[d].thread = "none" <=> x.calls[d].thread = "none"
    BY <1>3, <1>6
  <2>3. Supplied(t)
    BY <1>6, <2>1, <2>2, SuppliedSame DEF Supplied
  <2> QED
    BY <1>6, <2>1, <2>3 DEF Awaited
<1>9. ~ x.system.told /\ x.activity.service = None
  <2>1. Binding(x)
    BY <1>0 DEF Seen
  <2> QED
    BY <1>1, <2>1 DEF Binding
<1>10. Binding(t)
  BY <1>0, <1>6, <1>9 DEF Seen, Binding
<1>11. Owned(t)
  <2>1. Owned(x)
    BY <1>0 DEF Seen
  <2>2. ASSUME NEW c \in Calls
        PROVE  /\ t.calls[c].reports = None
               /\ t.calls[c].thread = "none" => t.calls[c].state = "IDLE"
               /\ t.calls[c].thread \notin {"none", "ended"} => t.calls[c].quits
               /\ c # None
    <3>0. c # None
      BY Numbers
    <3>1. CASE c = b
      BY <1>3, <1>6, <2>1, <3>0, <3>1 DEF Owned
    <3>2. CASE c # b
      BY <1>3, <1>6, <2>1, <3>0, <3>2 DEF Owned, b
    <3> QED
      BY <3>1, <3>2
  <2>3. \A i \in DOMAIN t.main :
           t.main[i].kind = "state" => t.calls[t.main[i].call].thread # "none"
    BY <1>2, <1>3, <1>6, <2>1 DEF Owned
  <2> QED
    BY <1>5, <2>2, <2>3 DEF Owned
<1>12. Newest(t) /\ Noticed(t) /\ Viewed(t) /\ Held(t) /\ Empty(t)
  BY <1>5, <1>6, <1>9 DEF Newest, Noticed, Viewed, Held, Empty
<1>13. Counted(t) /\ Upheld(t)
  BY <1>0, <1>6 DEF Seen, Counted, Upheld
<1>14. Purposeful(t)
  BY <1>0, <1>1, <1>6 DEF Due, Sound, Purposeful
<1> QED
  BY <1>5, <1>7, <1>8, <1>10, <1>11, <1>12, <1>13, <1>14 DEF Sound, Kernel, Base, t

-----------------------------------------------------------------------------
(* A call is asked for.                                                    *)

\* The calls are used in turn.
LEMMA UnusedLeast ==
    ASSUME NEW x, NEW n \in Nat, n + 1 \in Calls,
           \A c \in Calls : x.calls[c].thread # "none" <=> c <= n
    PROVE  Min(Unused(x)) = n + 1
<1>1. \A c \in Calls : c \in Nat /\ (c \in Unused(x) <=> ~ (c <= n))
  BY Numbers DEF Unused
<1>2. n + 1 \in Unused(x) /\ \A c \in Unused(x) : c \in Nat /\ n + 1 <= c
  BY <1>1 DEF Unused
<1> DEFINE U == Unused(x)
           k == n + 1
<1>3. k \in U /\ k \in Nat /\ \A c \in U : c \in Nat /\ k <= c
  BY <1>2
<1> HIDE DEF U, k
<1>4. \A m \in U : (\A c \in U : m <= c) => m = k
  BY <1>3
<1> QED
  BY <1>3, <1>4 DEF Min, U, k

\* The call that is made.
LEMMA BeginCallIs ==
    ASSUME NEW x \in World, NEW c \in Calls, Min(Unused(x)) = c
    PROVE  LET t == BeginCall(x)
           IN /\ t \in World /\ Changes(x, t, {"calls", "service", "notice"})
              /\ t.service.id = x.service.id /\ t.service.call = c /\ t.notice = "IDLE"
              /\ \A d \in Calls \ {c} : t.calls[d] = x.calls[d]
              /\ t.calls[c].state = x.calls[c].state /\ t.calls[c].thread = "waits"
              /\ t.calls[c].reports = x.service.id
<1> DEFINE r == [x.calls[c] EXCEPT !.thread = "waits", !.box = <<"START">>,
                                   !.reports = x.service.id]
           t == BeginCall(x)
<1>1. x.calls \in [Calls -> CallRecord] /\ x.service.id \in Services \cup {None}
  BY WorldFacts
<1>2. <<"START">> \in Seq({"START", "STOP", "RESTART"})
  OBVIOUS
<1>3. /\ r \in CallRecord /\ r.state = x.calls[c].state /\ r.thread = "waits"
      /\ r.reports = x.service.id
  BY <1>1, <1>2 DEF CallRecord
<1>4. t = [x EXCEPT !.service.call = c, !.notice = "IDLE", !.calls[c] = r]
  BY DEF BeginCall
<1> HIDE DEF r
<1>5. /\ t.calls = [x.calls EXCEPT ![c] = r]
      /\ Changes(x, t, {"calls", "service", "notice"}) /\ t.notice = "IDLE"
      /\ t.service = [x.service EXCEPT !.call = c]
      /\ t = [calls |-> t.calls, service |-> t.service, activity |-> x.activity,
              notice |-> t.notice, main |-> x.main, system |-> x.system, past |-> x.past]
  BY <1>4 DEF World, Changes, Parts
<1> HIDE DEF t
<1>6. /\ t.calls \in [Calls -> CallRecord] /\ t.calls[c] = r
      /\ \A d \in Calls \ {c} : t.calls[d] = x.calls[d]
  BY <1>1, <1>3, <1>5
<1>7. /\ t.service \in [id : Services \cup {None}, call : Calls \cup {None}]
      /\ t.service.id = x.service.id /\ t.service.call = c
  BY <1>5, WorldFacts
<1>8. t \in World
  <2> DEFINE A == t.calls
             B == t.service
             C == t.notice
  <2>1. /\ A \in [Calls -> CallRecord] /\ C \in CallState \cup {"none"}
        /\ B \in [id : Services \cup {None}, call : Calls \cup {None}]
        /\ t = [calls |-> A, service |-> B, activity |-> x.activity, notice |-> C,
                main |-> x.main, system |-> x.system, past |-> x.past]
    BY <1>5, <1>6, <1>7 DEF CallState
  <2> HIDE DEF A, B, C
  <2> QED
    BY <2>1 DEF World
<1> QED
  BY <1>3, <1>5, <1>6, <1>7, <1>8 DEF t

\* It is made for a service that stays.
LEMMA BeginCallKeeps ==
    ASSUME NEW w, Sound(w), NEW x, NEW m, Taken(w, x, m), m.kind = "start",
           x.service.call = None
    PROVE  Sound(BeginCall(x))
<1> DEFINE t == BeginCall(x)
<1>0. Left(w, x, m) /\ Seen(w, x, m) /\ Due(w, x, m)
  BY TakenFacts, TakenSeen, TakenDue DEF Sound, Kernel, Base
<1>1. /\ x \in World /\ x.service = w.service /\ x.system = w.system
      /\ x.activity = w.activity /\ x.calls = w.calls /\ x.past = w.past /\ m \in Item
      /\ x.main \in Seq(Item) /\ w.past.starts \in 0 .. MaxStarts
      /\ w.service.id \in Nat /\ w.system.record \in Nat /\ w.system.last \in Nat
  BY <1>0 DEF Left
<1>2. PICK n \in 0 .. MaxStarts :
         /\ n < w.past.starts
         /\ \A c \in Calls : w.calls[c].thread # "none" <=> c <= n
         /\ \E g : Ranked(x.main, n + 1, w.past.starts, g)
  BY <1>0 DEF Due
<1>3. n + 1 \in Calls /\ n \in Nat /\ n + 1 \in 0 .. MaxStarts /\ n + 1 <= w.past.starts
  BY <1>1, <1>2, Numbers DEF Calls
<1> DEFINE c == n + 1
<1>4. Min(Unused(x)) = c /\ c \in Calls /\ c # None
  BY <1>1, <1>2, <1>3, UnusedLeast, Numbers
<1>5. x.calls[c].thread = "none"
  BY <1>1, <1>2, <1>3
<1>6. \A d \in Calls : d <= c <=> d <= n \/ d = c
  BY <1>3, Numbers
<1> HIDE DEF c
<1>7. /\ t \in World /\ Changes(x, t, {"calls", "service", "notice"})
      /\ t.service.id = x.service.id /\ t.service.call = c /\ t.notice = "IDLE"
      /\ \A d \in Calls \ {c} : t.calls[d] = x.calls[d]
      /\ t.calls[c].state = x.calls[c].state /\ t.calls[c].thread = "waits"
      /\ t.calls[c].reports = x.service.id
  BY <1>1, <1>4, BeginCallIs
<1> HIDE DEF t
<1>8. /\ t.activity = x.activity /\ t.main = x.main /\ t.system = x.system /\ t.past = x.past
  BY <1>7 DEF Changes, Parts
<1>9. /\ Owned(x) /\ t.calls[c].state = "IDLE"
      /\ \A i \in DOMAIN x.main : x.main[i].kind = "state" =>
            x.main[i].call \in Calls /\ x.main[i].call # c
  <2>1. Owned(x)
    BY <1>0 DEF Seen
  <2>2. \A i \in DOMAIN x.main : x.main[i] \in Item
    BY <1>1
  <2>3. x.calls[c].state = "IDLE"
    BY <1>4, <1>5, <2>1 DEF Owned
  <2>4. ASSUME NEW i \in DOMAIN x.main, x.main[i].kind = "state"
        PROVE  x.main[i].call \in Calls /\ x.main[i].call # c
    <3>1. x.main[i].call \in Calls
      BY <2>2, <2>4, ItemFacts
    <3>2. x.calls[x.main[i].call].thread # "none"
      BY <2>1, <2>4 DEF Owned
    <3> QED
      BY <1>5, <3>1, <3>2
  <2> QED
    BY <1>7, <2>1, <2>3, <2>4
<1>10. InTurn(t)
  <2>1. After(m, w.service.id) = w.service.id
    BY DEF After
  <2> QED
    BY <1>1, <1>7, <1>8, <2>1, TakenDue DEF InTurn
<1>11. NoTurn(x.main) => x.system.record = x.service.id
  BY <1>1, <1>7, <1>8, <1>10 DEF InTurn, Turns, Order
<1>12. Awaited(t)
  BY <1>8, TakenDue DEF Awaited
<1>13. Supplied(t)
  <2>1. \A d \in Calls : t.calls[d].thread # "none" <=> d <= c
    BY <1>1, <1>2, <1>4, <1>6, <1>7
  <2>2. \E g : Ranked(t.main, c, t.past.starts, g)
    BY <1>1, <1>2, <1>8 DEF c
  <2>3. c \in 0 .. MaxStarts /\ c <= t.past.starts
    BY <1>1, <1>3, <1>8 DEF c
  <2> QED
    BY <2>1, <2>2, <2>3 DEF Supplied, SuppliedBy
<1>14. Held(t)
  <2>1. ~ t.past.overrun => t.system.started /\ NoTurn(x.main)
    BY <1>0, <1>1, <1>8 DEF Due
  <2> QED
    BY <1>7, <1>8, <1>11, <2>1 DEF Held
<1>15. Binding(t)
  BY <1>0, <1>7, <1>8 DEF Seen, Binding
<1>16. Owned(t)
  <2>1. \A d \in Calls : d # None
    BY Numbers
  <2>2. ASSUME NEW d \in Calls
        PROVE  /\ t.calls[d].reports = (IF t.service.call = d THEN t.service.id ELSE None)
               /\ t.calls[d].thread = "none" => t.calls[d].state = "IDLE" /\ t.service.call # d
               /\ t.calls[d].thread \notin {"none", "ended"} =>
                     t.service.call = d \/ t.calls[d].quits
    <3>1. CASE d = c
      BY <1>4, <1>7, <3>1
    <3>2. CASE d # c
      <4>1. t.calls[d] = x.calls[d]
        BY <1>7, <3>2
      <4> QED
        BY <1>7, <1>9, <2>1, <3>2, <4>1 DEF Owned
    <3> QED
      BY <3>1, <3>2
  <2>3. \A i \in DOMAIN t.main :
           t.main[i].kind = "state" => t.calls[t.main[i].call].thread # "none"
    BY <1>7, <1>8, <1>9 DEF Owned
  <2> QED
    BY <2>2, <2>3 DEF Owned
<1>17. /\ \A i \in DOMAIN t.main : ~ Mine(t, t.main[i])
       /\ \A i \in DOMAIN x.main : ~ Mine(x, x.main[i])
       /\ StateOf(t) = "IDLE" /\ StateOf(x) = "IDLE"
  BY <1>4, <1>7, <1>8, <1>9, Numbers DEF Mine, StateOf
<1>18. Newest(t) /\ Noticed(t) /\ Empty(t)
  <2>1. x.service.id # None
    BY <1>0, <1>1 DEF Due
  <2> QED
    BY <1>4, <1>7, <1>17, <2>1 DEF Newest, Noticed, Empty
<1>19. Viewed(t)
  <2>1. Viewed(x)
    BY <1>0 DEF Seen, Mine
  <2>2. Told(x)
    BY <1>17 DEF Told
  <2> QED
    BY <1>8, <1>17, <2>1, <2>2 DEF Viewed
<1>20. Purposeful(t)
  <2>1. x.system.started => Asked(w.main)
    BY <1>1 DEF Sound, Purposeful
  <2>2. Asked(w.main) => Asked(x.main) \/ NoTurn(x.main)
    BY <1>0 DEF Due
  <2> QED
    BY <1>4, <1>7, <1>8, <1>11, <2>1, <2>2 DEF Purposeful
<1>21. Counted(t) /\ Upheld(t)
  BY <1>0, <1>8 DEF Seen, Counted, Upheld
<1> QED
  BY <1>7, <1>10, <1>12, <1>13, <1>14, <1>15, <1>16, <1>18, <1>19, <1>20, <1>21
     DEF Sound, Kernel, Base, t

\* A call that goes on, and a request that is bad, change nothing.
LEMMA StartKeeps ==
    ASSUME NEW w, Sound(w), NEW x, NEW m, Taken(w, x, m), m.kind = "start"
    PROVE  Sound(OnStart(x, m))
<1>1. /\ Kernel(x) /\ Viewed(x)
      /\ x.system.started /\ x.service.id # x.system.record => Asked(x.main)
      /\ x.service.call # None => Purposeful(x)
  BY TakenKernel DEF Turn, Mine
<1>2. CASE x.service.call # None
  BY <1>1, <1>2 DEF OnStart, Sound
<1>3. CASE x.service.call = None /\ ~ m.good
  <2>1. OnStart(x, m) = StopSelf(x)
    BY <1>3 DEF OnStart
  <2>2. LET t == StopSelf(x) IN Kernel(t) /\ Purposeful(t) /\ (Viewed(x) => Viewed(t))
    BY <1>1, <1>3, StopSelfKeeps
  <2> QED
    BY <1>1, <2>1, <2>2 DEF Sound
<1>4. CASE x.service.call = None /\ m.good
  <2>1. OnStart(x, m) = BeginCall(x)
    BY <1>4 DEF OnStart
  <2> QED
    BY <1>4, <2>1, BeginCallKeeps
<1> QED
  BY <1>2, <1>3, <1>4

-----------------------------------------------------------------------------
(* A hang-up, a message of the call, and what the activity does with it.   *)

\* The hang-up of the notification reaches the service.
LEMMA HangUpTaken ==
    ASSUME NEW w, Sound(w), NEW x, NEW m, Taken(w, x, m), m.kind = "hang up"
    PROVE  Sound(OnHangUp(x))
<1>1. /\ Kernel(x) /\ Viewed(x)
      /\ x.system.started /\ x.service.id # x.system.record => Asked(x.main)
  BY TakenKernel DEF Turn, Mine
<1>2. x \in World /\ x.service.call \in Calls \cup {None} /\ x.past.ended \in SUBSET Calls
  BY <1>1, WorldFacts DEF Kernel, Base
<1>3. CASE x.service.call = None
  <2>1. OnHangUp(x) = StopSelf(x)
    BY <1>3 DEF OnHangUp
  <2>2. LET t == StopSelf(x) IN Kernel(t) /\ Purposeful(t) /\ (Viewed(x) => Viewed(t))
    BY <1>1, <1>3, StopSelfKeeps
  <2> QED
    BY <1>1, <2>1, <2>2 DEF Sound
<1>4. CASE x.service.call # None
  <2> DEFINE b == x.service.call
             e == x.past.ended \cup {b}
             s == Press(x, b, "STOP", e)
             t == StopSelf(s)
  <2>1. OnHangUp(x) = t
    <3>1. b \in Calls
      BY <1>2, <1>4
    <3>2. Changes(x, Send(x, b, "STOP"), {"calls"})
      BY <1>2, <3>1, SendIs
    <3>3. Send(x, b, "STOP").past.ended = x.past.ended
      BY <3>2 DEF Changes, Parts
    <3> QED
      BY <1>4, <3>3 DEF OnHangUp, Press
  <2>2. b \in Calls /\ e \in SUBSET Calls /\ x.past.ended \subseteq e /\ b \in e
    BY <1>2, <1>4
  <2>a. b = x.service.call
    OBVIOUS
  <2> HIDE DEF b, e
  <2>3. /\ Kernel(s) /\ Viewed(s) /\ s.past.ended = e
        /\ s.main = x.main /\ s.service = x.service /\ s.system = x.system
    BY <1>1, <2>2, PressKeeps
  <2> HIDE DEF s
  <2>4. Kernel(t) /\ Purposeful(t) /\ Viewed(t)
    <3>1. /\ s.system.started /\ s.service.id # s.system.record => Asked(s.main)
          /\ s.service.call # None => s.service.call \in s.past.ended
      BY <1>1, <2>2, <2>3, <2>a
    <3> QED
      BY <2>3, <3>1, StopSelfKeeps
  <2> QED
    BY <2>1, <2>4 DEF Sound
<1> QED
  BY <1>3, <1>4

\* The notification is brought up to date.
Notify(x, s) == [x EXCEPT !.notice = s]

\* It changes no more than that.
LEMMA NotifyIs ==
    ASSUME NEW x \in World, NEW s \in CallState
    PROVE  LET t == Notify(x, s)
           IN t \in World /\ Changes(x, t, {"notice"}) /\ t.notice = s
BY DEF Notify, World, Changes, Parts

\* A message about the service's call.
LEMMA StateTaken ==
    ASSUME NEW w, Sound(w), NEW x, NEW m, Taken(w, x, m), Mine(w, m)
    PROVE  /\ x \in World /\ x.service.call \in Calls /\ m.call = x.service.call
           /\ m.service = x.service.id /\ m.state \in CallState
           /\ InTurn(x) /\ Awaited(x) /\ Supplied(x) /\ Purposeful(x)
           /\ Held(x) /\ Empty(x) /\ Binding(x) /\ Owned(x) /\ Newest(x)
           /\ Counted(x) /\ Upheld(x)
           /\ Told(x) => m.state = StateOf(x)
<1>0. Left(w, x, m) /\ Seen(w, x, m) /\ Due(w, x, m)
  BY TakenFacts, TakenSeen, TakenDue DEF Sound, Kernel, Base
<1>1. /\ x \in World /\ x.service = w.service /\ x.system = w.system /\ m \in Item
      /\ m.kind = "state"
  BY <1>0 DEF Left, Mine
<1>2. m.call \in Calls /\ m.state \in CallState
  BY <1>1, ItemFacts
<1>3. InTurn(x) /\ Awaited(x) /\ Supplied(x)
  <2>1. After(m, w.service.id) = w.service.id
    BY <1>1 DEF After
  <2> QED
    BY <1>1, <2>1, TakenDue DEF InTurn
<1>4. Purposeful(x)
  <2>1. Asked(w.main) => Asked(x.main)
    BY <1>0, <1>1 DEF Due
  <2> QED
    BY <1>1, <2>1 DEF Sound, Purposeful
<1> QED
  BY <1>0, <1>1, <1>2, <1>3, <1>4 DEF Mine, Seen

\* The call goes on.
LEMMA StateShown ==
    ASSUME NEW w, Sound(w), NEW x, NEW m, Taken(w, x, m), Mine(w, m), m.state # "IDLE"
    PROVE  Sound(OnCallStateChanged(x, m))
<1> DEFINE s == Notify(x, StateOf(x))
<1>1. /\ x \in World /\ x.service.call \in Calls /\ m.call = x.service.call
      /\ m.service = x.service.id /\ m.state \in CallState
      /\ InTurn(x) /\ Awaited(x) /\ Supplied(x) /\ Purposeful(x)
      /\ Held(x) /\ Empty(x) /\ Binding(x) /\ Owned(x) /\ Newest(x)
      /\ Counted(x) /\ Upheld(x)
      /\ Told(x) => m.state = StateOf(x)
  BY StateTaken
<1>2. OnCallStateChanged(x, m) = ShowFragment(s, m.state)
  BY <1>1 DEF OnCallStateChanged, Notify
<1>3. x.service.call # None /\ StateOf(x) \in CallState
  <2>1. x.calls \in [Calls -> CallRecord]
    BY <1>1, WorldFacts
  <2>2. x.calls[x.service.call] \in CallRecord
    BY <1>1, <2>1
  <2> QED
    BY <1>1, <2>2, Numbers DEF StateOf, CallRecord
<1>4. s \in World /\ Changes(x, s, {"notice"}) /\ s.notice = StateOf(x)
  BY <1>1, <1>3, NotifyIs
<1> HIDE DEF s
<1>5. /\ s.calls = x.calls /\ s.service = x.service /\ s.activity = x.activity
      /\ s.main = x.main /\ s.system = x.system /\ s.past = x.past
  BY <1>4 DEF Changes, Parts
<1>6. (\A y : Mine(s, y) <=> Mine(x, y)) /\ StateOf(s) = StateOf(x)
  BY <1>5 DEF Mine, StateOf
<1>7. Told(s) <=> Told(x)
  BY <1>5, <1>6 DEF Told
<1>8. InTurn(s) /\ Awaited(s) /\ Held(s) /\ Binding(s) /\ Owned(s) /\ Counted(s) /\ Upheld(s)
      /\ Purposeful(s) /\ Supplied(s)
  BY <1>1, <1>5 DEF InTurn, Awaited, Held, Binding, Owned, Counted, Upheld, Purposeful,
                    Supplied, SuppliedBy
<1>9. Newest(s) /\ Noticed(s) /\ Empty(s)
  BY <1>1, <1>3, <1>4, <1>5, <1>6 DEF Newest, Noticed, Empty
<1>10. Kernel(s)
  BY <1>4, <1>8, <1>9 DEF Kernel, Base
<1> QED
  BY <1>1, <1>2, <1>6, <1>7, <1>8, <1>10, ShowFragmentKeeps

\* The service forgets its call.
LEMMA CallGone ==
    ASSUME NEW g \in World, NEW n, NEW b, g.service = [id |-> n, call |-> b]
    PROVE  [g EXCEPT !.service.call = None, !.notice = "none"] = Serve(g, n, None, "none")
<1>1. [g.service EXCEPT !.call = None] = [id |-> n, call |-> None]
  OBVIOUS
<1>2. [g EXCEPT !.service.call = None, !.notice = "none"]
        = [g EXCEPT !.service = [g.service EXCEPT !.call = None], !.notice = "none"]
  BY DEF World
<1> QED
  BY <1>1, <1>2 DEF Serve

\* The call is over.
LEMMA StateOver ==
    ASSUME NEW w, Sound(w), NEW x, NEW m, Taken(w, x, m), Mine(w, m), m.state = "IDLE"
    PROVE  Sound(OnCallStateChanged(x, m))
<1> DEFINE b == m.call
           n == x.service.id
           g == LetGo(x, b)
           s == Serve(g, n, None, "none")
           t == StopSelf(s)
<1>1. /\ x \in World /\ b \in Calls /\ b = x.service.call
      /\ m.service = n
      /\ InTurn(x) /\ Awaited(x) /\ Supplied(x) /\ Purposeful(x)
      /\ Held(x) /\ Empty(x) /\ Binding(x) /\ Owned(x) /\ Newest(x)
      /\ Counted(x) /\ Upheld(x) /\ n \in Services \cup {None}
      /\ x.service = [id |-> n, call |-> b]
  <2>1. /\ x \in World /\ b \in Calls /\ b = x.service.call
        /\ m.service = n
        /\ InTurn(x) /\ Awaited(x) /\ Supplied(x) /\ Purposeful(x)
        /\ Held(x) /\ Empty(x) /\ Binding(x) /\ Owned(x) /\ Newest(x)
        /\ Counted(x) /\ Upheld(x)
    BY StateTaken
  <2>2. x.service \in [id : Services \cup {None}, call : Calls \cup {None}]
    BY <2>1, WorldFacts
  <2> QED
    BY <2>1, <2>2
<1> HIDE DEF b, n
<1>2. /\ g \in World /\ Changes(x, g, {"calls"})
      /\ \A d \in Calls : /\ g.calls[d].state = x.calls[d].state
                          /\ g.calls[d].thread = x.calls[d].thread
      /\ \A d \in Calls \ {b} : /\ g.calls[d].quits = x.calls[d].quits
                                /\ g.calls[d].reports = x.calls[d].reports
      /\ g.calls[b].quits /\ g.calls[b].reports = None
  BY <1>1, LetGoIs
<1>3. g.service = x.service
  BY <1>2 DEF Changes, Parts
<1>4. OnCallStateChanged(x, m) = ShowFragment(t, "IDLE")
  <2>1. OnCallStateChanged(x, m) =
           ShowFragment(StopSelf([g EXCEPT !.service.call = None, !.notice = "none"]), "IDLE")
    BY <1>1 DEF OnCallStateChanged, b, n
  <2> HIDE DEF g
  <2>2. [g EXCEPT !.service.call = None, !.notice = "none"] = s
    <3>1. g \in World /\ g.service = [id |-> n, call |-> b]
      BY <1>1, <1>2, <1>3
    <3> QED
      BY <3>1, CallGone, Zenon
  <2> QED
    BY <2>1, <2>2
<1> HIDE DEF g
<1>5. /\ s \in World /\ Changes(g, s, {"service", "notice"}) /\ s.service.id = n
      /\ s.service.call = None /\ s.notice = "none"
  <2>1. None \in Calls \cup {None} /\ "none" \in CallState \cup {"none"} /\ g \in World
        /\ n \in Services \cup {None}
    BY <1>1, <1>2
  <2> QED
    BY <2>1, ServiceIs
<1> HIDE DEF s
<1>6. /\ s.calls = g.calls /\ s.activity = x.activity /\ s.main = x.main
      /\ s.system = x.system /\ s.past = x.past
  BY <1>2, <1>5 DEF Changes, Parts
<1>7. Supplied(s)
  <2>1. \A d \in Calls : s.calls[d].thread = "none" <=> x.calls[d].thread = "none"
    BY <1>2, <1>6
  <2> QED
    BY <1>1, <1>6, <2>1, SuppliedSame DEF Supplied
<1>8. Owned(s)
  <2>1. \A i \in DOMAIN x.main : x.main[i].kind = "state" => x.main[i].call \in Calls
    <3>1. \A i \in DOMAIN x.main : x.main[i] \in Item
      BY <1>1, WorldFacts
    <3> QED
      BY <3>1, ItemFacts
  <2>2. ASSUME NEW c \in Calls
        PROVE  /\ s.calls[c].reports = None
               /\ s.calls[c].thread = "none" => s.calls[c].state = "IDLE"
               /\ s.calls[c].thread \notin {"none", "ended"} => s.calls[c].quits
               /\ c # None
    <3>0. c # None
      BY Numbers
    <3>1. CASE c = b
      BY <1>1, <1>2, <1>6, <3>0, <3>1 DEF Owned
    <3>2. CASE c # b
      BY <1>1, <1>2, <1>6, <3>0, <3>2 DEF Owned
    <3> QED
      BY <3>1, <3>2
  <2>3. \A i \in DOMAIN s.main :
           s.main[i].kind = "state" => s.calls[s.main[i].call].thread # "none"
    BY <1>1, <1>2, <1>6, <2>1 DEF Owned
  <2> QED
    BY <1>5, <2>2, <2>3 DEF Owned
<1>9. InTurn(s) /\ Awaited(s) /\ Binding(s) /\ Counted(s) /\ Upheld(s)
  BY <1>1, <1>5, <1>6 DEF InTurn, Awaited, Binding, Counted, Upheld, n
<1>10. Held(s) /\ Empty(s) /\ Newest(s) /\ Noticed(s)
  BY <1>5 DEF Held, Empty, Newest, Noticed
<1>11. Kernel(s)
  BY <1>5, <1>7, <1>8, <1>9, <1>10 DEF Kernel, Base
<1>12. /\ s.system.started /\ s.service.id # s.system.record => Asked(s.main)
       /\ s.service.call # None => s.service.call \in s.past.ended
  BY <1>1, <1>5, <1>6 DEF Purposeful, n
<1>13. Kernel(t) /\ Purposeful(t) /\ t.service = s.service
  BY <1>11, <1>12, StopSelfKeeps
<1> HIDE DEF t
<1>14. "IDLE" \in CallState /\ StateOf(t) = "IDLE"
  BY <1>5, <1>13 DEF CallState, StateOf
<1> QED
  BY <1>4, <1>13, <1>14, ShowFragmentKeeps

\* A message about the state of a call, of the service's or another.
LEMMA StateKeeps ==
    ASSUME NEW w, Sound(w), NEW x, NEW m, Taken(w, x, m), m.kind = "state"
    PROVE  Sound(OnCallStateChanged(x, m))
<1>1. CASE Mine(w, m)
  BY <1>1, StateShown, StateOver
<1>2. CASE ~ Mine(w, m)
  <2>1. OnCallStateChanged(x, m) = x
    <3>1. x.service = w.service
      BY DEF Taken, Changes, Parts
    <3> QED
      BY <1>2, <3>1 DEF OnCallStateChanged, Mine
  <2>2. Kernel(x) /\ Viewed(x) /\ Purposeful(x)
    BY <1>2, TakenKernel DEF Turn
  <2> QED
    BY <2>1, <2>2 DEF Sound
<1> QED
  BY <1>1, <1>2

\* What the activity knows and shows.
See(x, n, v) == [x EXCEPT !.activity.service = n, !.activity.view = v]

\* It changes no more than that.
LEMMA SeeIs ==
    ASSUME NEW x \in World, NEW n \in Services \cup {None},
           NEW v \in [state : CallState \cup {"none"}, call : Calls \cup {None}]
    PROVE  LET t == See(x, n, v)
           IN /\ t \in World /\ Changes(x, t, {"activity"})
              /\ t.activity.service = n /\ t.activity.view = v
              /\ t.activity.started = x.activity.started
BY DEF See, World, Changes, Parts

\* As the activity learns of the service, it is told the state.
LEMMA ConnectedKeeps ==
    ASSUME NEW w, Sound(w), NEW x, NEW m, Taken(w, x, m), m.kind = "connected"
    PROVE  Sound(OnServiceConnected(x))
<1> DEFINE n == x.service.id
           v == x.activity.view
           s == See(x, n, v)
<1>0. Left(w, x, m) /\ Due(w, x, m)
  BY TakenFacts, TakenDue DEF Sound, Kernel, Base
<1>1. Kernel(x) /\ Viewed(x) /\ Purposeful(x)
  BY TakenKernel DEF Turn, Mine
<1>2. /\ x \in World /\ x.service.call \in Calls \cup {None} /\ n \in Services \cup {None}
      /\ v \in [state : CallState \cup {"none"}, call : Calls \cup {None}]
      /\ x.calls \in [Calls -> CallRecord]
  BY <1>1, WorldFacts DEF Kernel, Base
<1>3. StateOf(x) \in CallState
  <2>1. CASE x.service.call = None
    BY <2>1 DEF StateOf, CallState
  <2>2. CASE x.service.call # None
    <3>1. x.calls[x.service.call] \in CallRecord
      BY <1>2, <2>2
    <3> QED
      BY <2>2, <3>1 DEF StateOf, CallRecord
  <2> QED
    BY <2>1, <2>2
<1>4. OnServiceConnected(x) = ShowFragment(s, StateOf(x))
  <2>1. [x EXCEPT !.activity.service = n] = s
    BY <1>2 DEF See, World
  <2> QED
    BY <2>1 DEF OnServiceConnected
<1> HIDE DEF n, v
<1>5. /\ s \in World /\ Changes(x, s, {"activity"}) /\ s.activity.service = n
      /\ s.activity.view = v /\ s.activity.started = x.activity.started
  BY <1>2, SeeIs
<1> HIDE DEF s
<1>6. /\ s.calls = x.calls /\ s.service = x.service /\ s.main = x.main
      /\ s.notice = x.notice /\ s.system = x.system /\ s.past = x.past
  BY <1>5 DEF Changes, Parts
<1>7. (\A y : Mine(s, y) <=> Mine(x, y)) /\ StateOf(s) = StateOf(x)
  BY <1>6 DEF Mine, StateOf
<1>8. Told(s) <=> Told(x)
  BY <1>6, <1>7 DEF Told
<1>9. x.system.told /\ x.service.id = x.system.record /\ x.service.id # None
  <2>1. x.system.told
    BY <1>0 DEF Left, Due
  <2>2. x.system.bound /\ x.service.id = x.system.record
    BY <1>1, <2>1 DEF Kernel, Base, Binding
  <2> QED
    BY <1>1, <2>1, <2>2 DEF Kernel, Upheld
<1>10. Binding(s)
  BY <1>1, <1>5, <1>6, <1>9 DEF Kernel, Base, Binding, n
<1>11. InTurn(s) /\ Awaited(s) /\ Held(s) /\ Empty(s) /\ Owned(s) /\ Counted(s) /\ Upheld(s)
  BY <1>1, <1>6 DEF Kernel, Base, InTurn, Awaited, Held, Empty, Owned, Counted, Upheld
<1>12. Purposeful(s)
  BY <1>1, <1>6 DEF Purposeful
<1>13. Newest(s) /\ Noticed(s)
  BY <1>1, <1>6, <1>7, <1>8 DEF Kernel, Base, Newest, Noticed
<1>14. Supplied(s)
  BY <1>1, <1>6, SuppliedSame DEF Kernel, Supplied
<1>15. Kernel(s)
  BY <1>5, <1>10, <1>11, <1>13, <1>14 DEF Kernel, Base
<1> QED
  BY <1>3, <1>4, <1>7, <1>12, <1>15, ShowFragmentKeeps

\* The fragment that is attached last shows the state.
LEMMA AttachKeeps ==
    ASSUME NEW w, Sound(w), NEW x, NEW m, Taken(w, x, m), m.kind = "attach"
    PROVE  Sound(OnAttach(x, m))
<1> DEFINE n == x.activity.service
           v == [state |-> m.state, call |-> IF m.state = "IDLE" THEN None ELSE x.service.call]
           t == OnAttach(x, m)
<1>0. Left(w, x, m) /\ Seen(w, x, m) /\ Due(w, x, m)
  BY TakenFacts, TakenSeen, TakenDue DEF Sound, Kernel, Base
<1>1. Kernel(x) /\ Purposeful(x) /\ ~ Mine(w, m)
  BY TakenKernel DEF Turn, Mine
<1>2. /\ x \in World /\ m \in Item /\ w.activity = x.activity /\ w.main[1] = m
      /\ 1 \in DOMAIN w.main /\ x.service = w.service
      /\ \A i \in DOMAIN x.main : /\ i + 1 \in DOMAIN w.main /\ i + 1 > 1
                                  /\ x.main[i] = w.main[i + 1] /\ i \in Nat
      /\ \A i \in DOMAIN w.main : /\ i \in Nat
                                  /\ i = 1 \/ \E k \in DOMAIN x.main :
                                                 k + 1 = i /\ x.main[k] = w.main[i]
  BY <1>0 DEF Left
<1>3. n \in Services \cup {None}
      /\ v \in [state : CallState \cup {"none"}, call : Calls \cup {None}]
  <2>1. m.state \in CallState
    BY <1>2, ItemFacts
  <2>2. x.service.call \in Calls \cup {None} /\ n \in Services \cup {None}
    BY <1>2, WorldFacts
  <2> QED
    BY <2>1, <2>2
<1>4. t = See(x, n, v)
  BY <1>2 DEF OnAttach, See, World
<1>5. v.state = m.state /\ (m.state = StateOf(w) => v = [state |-> StateOf(w),
                                call |-> IF StateOf(w) = "IDLE" THEN None ELSE w.service.call])
  BY <1>2
<1> HIDE DEF n, v, t
<1>6. /\ t \in World /\ Changes(x, t, {"activity"}) /\ t.activity.service = n
      /\ t.activity.view = v /\ t.activity.started = x.activity.started
  BY <1>2, <1>3, <1>4, SeeIs
<1>7. /\ t.calls = x.calls /\ t.service = x.service /\ t.main = x.main
      /\ t.notice = x.notice /\ t.system = x.system /\ t.past = x.past
  BY <1>6 DEF Changes, Parts
<1>8. (\A y : Mine(t, y) <=> Mine(x, y)) /\ StateOf(t) = StateOf(x)
  BY <1>7 DEF Mine, StateOf
<1>9. Told(t) <=> Told(x)
  BY <1>7, <1>8 DEF Told
<1>10. Binding(t)
  BY <1>1, <1>6, <1>7 DEF Kernel, Base, Binding, n
<1>11. InTurn(t) /\ Awaited(t) /\ Held(t) /\ Empty(t) /\ Owned(t) /\ Counted(t) /\ Upheld(t)
  BY <1>1, <1>7 DEF Kernel, Base, InTurn, Awaited, Held, Empty, Owned, Counted, Upheld
<1>12. Purposeful(t)
  BY <1>1, <1>7 DEF Purposeful
<1>13. Newest(t) /\ Noticed(t)
  BY <1>1, <1>7, <1>8, <1>9 DEF Kernel, Base, Newest, Noticed
<1>14. Supplied(t)
  BY <1>1, <1>7, SuppliedSame DEF Kernel, Supplied
<1>15. Viewed(t)
  <2> SUFFICES ASSUME Told(x), t.activity.service # None
               PROVE  Viewed(t)
    BY <1>9 DEF Viewed
  <2>1. Told(w) /\ w.activity.service # None /\ Viewed(w) /\ StateOf(x) = StateOf(w)
    BY <1>0, <1>1, <1>2 DEF Due, Seen, Sound
  <2>2. ASSUME \A i \in DOMAIN x.main : x.main[i].kind # "attach"
        PROVE  m.state = StateOf(w)
    <3>1. ASSUME NEW j \in DOMAIN w.main, j > 1
          PROVE  w.main[j].kind # "attach"
      BY <1>2, <2>2, <3>1
    <3> QED
      BY <1>2, <2>1, <3>1 DEF Viewed
  <2>3. ASSUME NEW i \in DOMAIN x.main, x.main[i].kind = "attach",
               \A j \in DOMAIN x.main : j > i => x.main[j].kind # "attach"
        PROVE  x.main[i].state = StateOf(w)
    <3>1. i + 1 \in DOMAIN w.main /\ x.main[i] = w.main[i + 1]
      BY <1>2
    <3>2. ASSUME NEW j \in DOMAIN w.main, j > i + 1
          PROVE  w.main[j].kind # "attach"
      <4>0. i \in Nat /\ j \in Nat /\ j # 1
        BY <1>2, <3>2
      <4>1. PICK k \in DOMAIN x.main : k + 1 = j /\ x.main[k] = w.main[j]
        BY <1>2, <4>0
      <4>2. k \in Nat
        BY <1>2
      <4>3. k > i
        BY <3>2, <4>0, <4>1, <4>2
      <4> QED
        BY <2>3, <4>1, <4>3
    <3> QED
      BY <2>1, <2>3, <3>1, <3>2 DEF Viewed
  <2> QED
    BY <1>2, <1>5, <1>6, <1>7, <1>8, <2>1, <2>2, <2>3 DEF Viewed
<1> QED
  BY <1>6, <1>10, <1>11, <1>12, <1>13, <1>14, <1>15 DEF Sound, Kernel, Base, t

-----------------------------------------------------------------------------
(* Every step.                                                             *)

\* The main thread handles the first item.
LEMMA MainThreadKeeps ==
    ASSUME Sound(Whole), MainThread
    PROVE  Sound(Whole')
<1> DEFINE w == Whole
           x == [w EXCEPT !.main = Tail(@)]
           m == Head(main)
           t == Handled(x, m)
<1>1. /\ w \in World /\ w.main = main /\ main # <<>> /\ Sound(w) /\ w.main \in Seq(Item)
  BY WholeIs, WorldFacts DEF Sound, Kernel, Base, MainThread
<1>2. Become(t)
  BY DEF MainThread
<1> HIDE DEF w
<1>3. Taken(w, x, m) /\ m \in Item
  <2>1. Tail(w.main) \in Seq(Item) /\ m \in Item
    BY <1>1, TakeItem
  <2> DEFINE u == Tail(w.main)
  <2>2. x = [w EXCEPT !.main = u]
    OBVIOUS
  <2> HIDE DEF u
  <2>3. u \in Seq(Item)
    BY <2>1 DEF u
  <2>4. x \in World /\ Changes(w, x, {"main"}) /\ x.main = u
    BY <1>1, <2>2, <2>3 DEF World, Changes, Parts
  <2> QED
    BY <1>1, <2>1, <2>4 DEF Taken, u
<1> HIDE DEF x, m
<1>4. Sound(t)
  <2>1. CASE m.kind = "create"
    BY <1>1, <1>3, <2>1, CreateKeeps DEF Handled
  <2>2. CASE m.kind = "destroy"
    BY <1>1, <1>3, <2>2, DestroyKeeps DEF Handled
  <2>3. CASE m.kind = "start"
    BY <1>1, <1>3, <2>3, StartKeeps DEF Handled
  <2>4. CASE m.kind = "hang up"
    BY <1>1, <1>3, <2>4, HangUpTaken DEF Handled
  <2>5. CASE m.kind = "state"
    BY <1>1, <1>3, <2>5, StateKeeps DEF Handled
  <2>6. CASE m.kind = "connected"
    BY <1>1, <1>3, <2>6, ConnectedKeeps DEF Handled
  <2>7. CASE m.kind = "attach"
    BY <1>1, <1>3, <2>7, AttachKeeps DEF Handled
  <2> QED
    BY <1>3, <2>1, <2>2, <2>3, <2>4, <2>5, <2>6, <2>7, ItemFacts
<1> HIDE DEF t
<1> QED
  BY <1>2, <1>4, BecomeKeeps DEF Sound, Kernel, Base

\* At first there is nothing.
LEMMA InitSound ==
    ASSUME Init
    PROVE  Sound(Whole)
<1> DEFINE w == Whole
<1>1. /\ w = [calls |-> calls, service |-> service, activity |-> activity,
              notice |-> notice, main |-> main, system |-> system, past |-> past]
      /\ w.calls = calls /\ w.service = service /\ w.activity = activity
      /\ w.notice = notice /\ w.main = main /\ w.system = system /\ w.past = past
  BY DEF Whole
<1> HIDE DEF w
<1>2. /\ NewCall \in CallRecord /\ NewCall.thread = "none" /\ NewCall.state = "IDLE"
      /\ NewCall.reports = None
  <2>1. <<>> \in Seq({"START", "STOP", "RESTART"})
    OBVIOUS
  <2> QED
    BY <2>1 DEF NewCall, CallRecord, CallState
<1>3. /\ calls \in [Calls -> CallRecord] /\ \A c \in Calls : calls[c] = NewCall
      /\ service.id = None /\ service.call = None /\ activity.started = FALSE
      /\ activity.service = None /\ notice = "none" /\ main = <<>> /\ DOMAIN main = {}
      /\ system.record = None /\ system.last = None /\ system.started = FALSE
      /\ system.bound = FALSE /\ system.told = FALSE
      /\ past.starts = 0 /\ past.hangUps = 0 /\ past.visits = 0
  BY <1>2 DEF Init, NoService
<1>4. w \in World
  <2>1. /\ service \in [id : Services \cup {None}, call : Calls \cup {None}]
        /\ activity \in [started : BOOLEAN, service : Services \cup {None},
                         view : [state : CallState \cup {"none"}, call : Calls \cup {None}]]
        /\ notice \in CallState \cup {"none"}
    BY DEF Init, NoService, NoView
  <2>2. main \in Seq(Item)
    BY <1>3
  <2>3. system \in [record : Services \cup {None}, last : Services \cup {None},
                    started : BOOLEAN, bound : BOOLEAN, told : BOOLEAN]
    BY DEF Init
  <2>4. past \in [starts : 0 .. MaxStarts, hangUps : 0 .. MaxHangUps, visits : 0 .. MaxVisits,
                  failures : Nat, ended : SUBSET Calls, overrun : BOOLEAN]
    <3>1. 0 \in 0 .. MaxStarts /\ 0 \in 0 .. MaxHangUps /\ 0 \in 0 .. MaxVisits /\ 0 \in Nat
      BY Numbers
    <3> QED
      BY <3>1 DEF Init
  <2> QED
    BY <1>1, <1>3, <2>1, <2>2, <2>3, <2>4 DEF World
<1>5. InTurn(w)
  <2>1. Order(<<>>, None, None, None)
    BY DEF Order, None, NoTurn
  <2>2. Track(<<>>, None, None, [i \in {0} |-> None])
    BY DEF Track, None
  <2> QED
    BY <1>1, <1>3, <2>1, <2>2 DEF InTurn, Turns
<1>6. Supplied(w)
  <2>1. Ranked(<<>>, 0, 0, [i \in 1 .. 0 |-> 0])
    BY DEF Ranked
  <2>2. 0 \in 0 .. MaxStarts
    BY Numbers
  <2>3. \A c \in Calls : ~ (c <= 0) /\ w.calls[c].thread = "none"
    BY <1>1, <1>2, <1>3 DEF Calls
  <2> QED
    BY <1>1, <1>3, <2>1, <2>2, <2>3 DEF Supplied, SuppliedBy
<1>7. Owned(w)
  <2>1. \A c \in Calls : c # None
    BY Numbers
  <2> QED
    BY <1>1, <1>2, <1>3, <2>1 DEF Owned
<1>8. /\ Awaited(w) /\ Held(w) /\ Empty(w) /\ Binding(w) /\ Newest(w) /\ Noticed(w)
      /\ Upheld(w) /\ Purposeful(w) /\ Viewed(w)
  BY <1>1, <1>3 DEF Awaited, Held, Empty, Binding, Newest, Noticed, Upheld, Purposeful, Viewed
<1>9. Counted(w)
  BY <1>1, <1>3 DEF Counted, None
<1> QED
  BY <1>4, <1>5, <1>6, <1>7, <1>8, <1>9 DEF Sound, Kernel, Base, w

\* Each action keeps the invariant.
LEMMA NextKeeps ==
    ASSUME Sound(Whole), [Next]_vars
    PROVE  Sound(Whole')
<1>1. CASE MainThread
  BY <1>1, MainThreadKeeps
<1>2. CASE AnnounceBinding
  BY <1>2, AnnounceBindingKeeps
<1>3. CASE \E c \in Calls : CallThread(c) \/ Fail(c) \/ DelayOver(c)
  BY <1>3, TakeMessageKeeps, DropMessageKeeps, FireStateChangedKeeps, WorkKeeps,
     ThreadEndsKeeps, FailKeeps, DelayOverKeeps DEF CallThread
<1>4. CASE ActivityStarts \/ ActivityStops
  BY <1>4, ActivityStartsKeeps, ActivityStopsKeeps
<1>5. CASE JoinRoom \/ FollowLink
  BY <1>5, RequestCallKeeps DEF JoinRoom, FollowLink
<1>6. CASE HangUp \/ Restart \/ EndCall
  BY <1>6, HangUpKeeps, RestartKeeps, EndCallKeeps
<1>7. CASE UNCHANGED vars
  BY <1>7 DEF vars, Whole
<1> QED
  BY <1>1, <1>2, <1>3, <1>4, <1>5, <1>6, <1>7 DEF Next

-----------------------------------------------------------------------------
(* The service keeps its number until it is destroyed.                     *)

Served(w, n) ==
    /\ "service" \in DOMAIN w /\ "id" \in DOMAIN w.service /\ w.service.id = n

\* Neither the system nor the thread of a call is concerned with it.
LEMMA ServedStays ==
    ASSUME NEW w, NEW n, Served(w, n)
    PROVE  /\ \A m : Served(Enqueue(w, m), n)
           /\ Served(BringUp(w), n)
           /\ Served(BringDown(w), n)
           /\ \A m : Served(StartService(w, m), n)
           /\ Served(StopSelf(w), n)
           /\ \A c, what : Served(Send(w, c, what), n)
           /\ \A c : Served(LetGo(w, c), n)
           /\ \A s : Served(ShowFragment(w, s), n)
<1>1. ASSUME NEW v, Served(v, n) PROVE \A m : Served(Enqueue(v, m), n)
  BY <1>1 DEF Enqueue, Served
<1>2. Served(BringUp(w), n)
  <2> DEFINE k == w.system.last + 1
             v == [w EXCEPT !.system.record = k, !.system.last = k]
  <2>1. Served(v, n)
    BY DEF Served
  <2> HIDE DEF v
  <2>2. Served(Enqueue(v, [kind |-> "create", service |-> k]), n)
    BY <1>1, <2>1
  <2> QED
    BY <2>2 DEF BringUp, v
<1>3. ASSUME NEW v, Served(v, n) PROVE Served(BringDown(v), n)
  <2> DEFINE u == [v EXCEPT !.system.record = None]
  <2>1. Served(u, n)
    BY <1>3 DEF Served
  <2> HIDE DEF u
  <2>2. Served(Enqueue(u, [kind |-> "destroy"]), n)
    BY <1>1, <2>1
  <2> QED
    BY <1>3, <2>2 DEF BringDown, u
<1>4. \A m : Served(StartService(w, m), n)
  <2> DEFINE v == BringUp(w)
             u == [v EXCEPT !.system.started = TRUE]
  <2> HIDE DEF v
  <2>1. Served(u, n)
    BY <1>2 DEF Served, v
  <2> HIDE DEF u
  <2> QED
    BY <1>1, <2>1 DEF StartService, v, u
<1>5. Served(StopSelf(w), n)
  <2> DEFINE o == w.past.overrun \/ \E i \in DOMAIN w.main : w.main[i].kind = "start"
             u == [w EXCEPT !.system.started = FALSE, !.past.overrun = o]
  <2>1. StopSelf(w) = w \/ StopSelf(w) = BringDown(u)
    BY DEF StopSelf
  <2> HIDE DEF o
  <2>2. Served(u, n)
    BY DEF Served
  <2> HIDE DEF u
  <2> QED
    BY <1>3, <2>1, <2>2
<1>6. \A c, what : Served(Send(w, c, what), n)
  BY DEF Send, Served
<1>7. ASSUME NEW c PROVE Served(LetGo(w, c), n)
  <2> DEFINE v == Send(w, c, "STOP")
  <2>1. Served(v, n)
    BY <1>6
  <2> HIDE DEF v
  <2> QED
    BY <2>1 DEF LetGo, v, Served
<1>8. \A s : Served(ShowFragment(w, s), n)
  BY <1>1 DEF ShowFragment
<1> QED
  BY <1>1, <1>2, <1>3, <1>4, <1>5, <1>6, <1>7, <1>8

\* Nor is an item that is no turn.
LEMMA HandledStays ==
    ASSUME NEW w, NEW n, Served(w, n), NEW m \in Item, ~ Turn(m)
    PROVE  Served(Handled(w, m), n)
<1>1. CASE m.kind = "start"
  <2>1. Served(BeginCall(w), n)
    BY DEF BeginCall, Served
  <2>2. m.good \in BOOLEAN
    BY <1>1, ItemFacts
  <2>3. OnStart(w, m) \in {w, StopSelf(w), BeginCall(w)}
    BY <2>2 DEF OnStart
  <2> QED
    BY <1>1, <2>1, <2>3, ServedStays DEF Handled
<1>2. CASE m.kind = "hang up"
  <2> DEFINE b == w.service.call
             v == Send(w, b, "STOP")
             e == v.past.ended \cup {b}
             u == [v EXCEPT !.past.ended = e]
  <2>1. OnHangUp(w) \in {StopSelf(w), StopSelf(u)}
    BY DEF OnHangUp
  <2>2. Served(v, n)
    BY ServedStays
  <2> HIDE DEF v, e
  <2>3. Served(u, n)
    BY <2>2 DEF Served
  <2> HIDE DEF u
  <2>4. Served(StopSelf(w), n) /\ Served(StopSelf(u), n)
    BY <2>3, ServedStays
  <2> QED
    BY <1>2, <2>1, <2>4 DEF Handled
<1>3. CASE m.kind = "state"
  <2> DEFINE s == StateOf(w)
             v == [w EXCEPT !.notice = s]
             g == LetGo(w, m.call)
             u == [g EXCEPT !.service.call = None, !.notice = "none"]
             p == StopSelf(u)
  <2>1. OnCallStateChanged(w, m) \in {w, ShowFragment(v, m.state), ShowFragment(p, "IDLE")}
    BY DEF OnCallStateChanged
  <2>2. Served(g, n)
    BY ServedStays
  <2> HIDE DEF g, s
  <2>3. Served(v, n) /\ Served(u, n)
    BY <2>2 DEF Served
  <2> HIDE DEF u, v
  <2>4. Served(p, n)
    BY <2>3, ServedStays
  <2> HIDE DEF p
  <2>5. Served(ShowFragment(v, m.state), n) /\ Served(ShowFragment(p, "IDLE"), n)
    BY <2>3, <2>4, ServedStays
  <2> QED
    BY <1>3, <2>1, <2>5 DEF Handled
<1>4. CASE m.kind = "connected"
  <2> DEFINE u == [w EXCEPT !.activity.service = w.service.id]
  <2>1. OnServiceConnected(w) = ShowFragment(u, StateOf(w))
    BY DEF OnServiceConnected
  <2>2. Served(u, n)
    BY DEF Served
  <2> HIDE DEF u
  <2>3. Served(ShowFragment(u, StateOf(w)), n)
    BY <2>2, ServedStays
  <2> QED
    BY <1>4, <2>1, <2>3 DEF Handled
<1>5. CASE m.kind = "attach"
  <2>1. Served(OnAttach(w, m), n)
    BY DEF OnAttach, Served
  <2> QED
    BY <1>5, <2>1 DEF Handled
<1> QED
  BY <1>1, <1>2, <1>3, <1>4, <1>5, ItemFacts DEF Turn

\* What the whole becomes has the service.
LEMMA ServedBecomes ==
    ASSUME NEW t, Become(t), Served(t, service.id)
    PROVE  service'.id = service.id
BY DEF Become, Served

\* Only an item that makes or destroys a service changes its number.
LEMMA OthersStay ==
    ASSUME Sound(Whole), [Next]_vars, ~ (MainThread /\ Turn(Head(main)))
    PROVE  service'.id = service.id
<1> DEFINE n == service.id
<1>0. Whole \in World /\ Whole.service = service /\ Whole.main = main
  BY WholeIs DEF Sound, Kernel, Base
<1>1. Served(Whole, n)
  BY <1>0 DEF World, Served
<1> DEFINE w == Whole
<1>2. ASSUME NEW s, Changes(w, s, Parts \ {"service"})
      PROVE  Served(s, n)
  BY <1>0, <1>1, <1>2 DEF Changes, Parts, Served
<1> HIDE DEF w, n
<1>3. CASE MainThread
  <2> DEFINE m == Head(main)
             x == [w EXCEPT !.main = Tail(@)]
  <2>1. ~ Turn(m) /\ m \in Item
    BY <1>0, <1>3, WorldFacts, TakeItem DEF MainThread
  <2>2. Become(Handled(x, m))
    BY <1>3 DEF MainThread, w
  <2>3. Served(x, n)
    BY <1>1 DEF Served, w
  <2> HIDE DEF x, m
  <2> QED
    BY <2>1, <2>2, <2>3, HandledStays, ServedBecomes DEF n
<1>4. CASE AnnounceBinding
  <2> DEFINE s == [w EXCEPT !.system.told = TRUE]
  <2>1. Become(Enqueue(s, [kind |-> "connected"]))
    BY <1>4 DEF AnnounceBinding, w
  <2>2. Served(s, n)
    BY <1>1 DEF Served, w
  <2> HIDE DEF s
  <2> QED
    BY <2>1, <2>2, ServedStays, ServedBecomes DEF n
<1>5. CASE \E c \in Calls : CallThread(c) \/ Fail(c) \/ DelayOver(c)
  <2>1. PICK c \in Calls : CallThread(c) \/ Fail(c) \/ DelayOver(c)
    BY <1>5
  <2>2. CASE FireStateChanged(c)
    <3> DEFINE s == [w EXCEPT !.calls[c].thread = "works"]
               m == [kind |-> "state", service |-> calls[c].reports, call |-> c,
                     state |-> calls[c].state]
    <3>1. Become(IF calls[c].reports = None THEN s ELSE Enqueue(s, m))
      BY <2>2 DEF FireStateChanged, w
    <3>2. Served(s, n)
      BY <1>1 DEF Served, w
    <3> HIDE DEF s, m
    <3> QED
      BY <3>1, <3>2, ServedStays, ServedBecomes DEF n
  <2>3. CASE ~ FireStateChanged(c)
    BY <2>1, <2>3 DEF CallThread, TakeMessage, DropMessage, Work, ThreadEnds, Fail, DelayOver,
                      GotoState
  <2> QED
    BY <2>2, <2>3
<1>6. CASE ActivityStarts
  <2> DEFINE s == [w EXCEPT !.activity.started = TRUE, !.system.bound = TRUE,
                            !.past.visits = @ + 1]
  <2>1. Become(BringUp(s))
    BY <1>6 DEF ActivityStarts, w
  <2>2. Served(s, n)
    BY <1>1 DEF Served, w
  <2> HIDE DEF s
  <2> QED
    BY <2>1, <2>2, ServedStays, ServedBecomes DEF n
<1>7. CASE ActivityStops
  <2> DEFINE u == Only(w.main, {m \in Range(w.main) : m.kind \notin {"connected", "attach"}})
             s == [w EXCEPT
                     !.activity = [started |-> FALSE, service |-> None, view |-> NoView],
                     !.system.bound = FALSE, !.system.told = FALSE, !.main = u]
  <2>1. Become(BringDown(s))
    BY <1>7 DEF ActivityStops, w
  <2> HIDE DEF u
  <2>2. Served(s, n)
    BY <1>1 DEF Served, w
  <2> HIDE DEF s
  <2> QED
    BY <2>1, <2>2, ServedStays, ServedBecomes DEF n
<1>8. CASE JoinRoom \/ FollowLink
  <2>1. PICK good \in BOOLEAN : RequestCall(good)
    BY <1>8 DEF JoinRoom, FollowLink
  <2> DEFINE s == [w EXCEPT !.past.starts = @ + 1]
  <2>2. Become(StartService(s, [kind |-> "start", good |-> good]))
    BY <2>1 DEF RequestCall, w
  <2>3. Served(s, n)
    BY <1>1 DEF Served, w
  <2> HIDE DEF s
  <2> QED
    BY <2>2, <2>3, ServedStays, ServedBecomes DEF n
<1>9. CASE HangUp
  <2> DEFINE v == Send(w, activity.view.call, "STOP")
             e == v.past.ended \cup {activity.view.call}
             s == [v EXCEPT !.past.ended = e]
  <2>1. Become(s)
    BY <1>9 DEF HangUp, w
  <2>2. Served(v, n)
    BY <1>1, ServedStays DEF w
  <2> HIDE DEF v, e
  <2>3. Served(s, n)
    BY <2>2 DEF Served
  <2> HIDE DEF s
  <2> QED
    BY <2>1, <2>3, ServedBecomes DEF n
<1>10. CASE Restart
  <2>1. Become(Send(w, activity.view.call, "RESTART"))
    BY <1>10 DEF Restart, w
  <2> QED
    BY <1>1, <2>1, ServedStays, ServedBecomes DEF n, w
<1>11. CASE EndCall
  <2> DEFINE s == [w EXCEPT !.past.hangUps = @ + 1]
  <2>1. Become(StartService(s, [kind |-> "hang up"]))
    BY <1>11 DEF EndCall, w
  <2>2. Served(s, n)
    BY <1>1 DEF Served, w
  <2> HIDE DEF s
  <2> QED
    BY <2>1, <2>2, ServedStays, ServedBecomes DEF n
<1>12. CASE UNCHANGED vars
  BY <1>12 DEF vars
<1> QED
  BY <1>3, <1>4, <1>5, <1>6, <1>7, <1>8, <1>9, <1>10, <1>11, <1>12 DEF Next

-----------------------------------------------------------------------------
(* The theorems.                                                           *)

\* What is queued, what is shown and what the system keeps up agree in every
\* state, whatever the calls, the activity and the system do.
THEOREM ServiceInvariant == Spec => []Sound(Whole)
<1>1. Init => Sound(Whole)
  BY InitSound
<1>2. Sound(Whole) /\ [Next]_vars => Sound(Whole)'
  BY NextKeeps DEF Whole
<1> QED
  BY <1>1, <1>2, PTL DEF Spec

\* Every part has its type, and just the call of the service has its message
\* registered: onDestroy and the last message take it back.
THEOREM ServiceTypes == Spec => []ServiceTypeOK
<1>1. Sound(Whole) => ServiceTypeOK
  <2> SUFFICES ASSUME Sound(Whole)
               PROVE  ServiceTypeOK
    OBVIOUS
  <2>1. Whole \in World /\ Owned(Whole)
    BY DEF Sound, Kernel, Base
  <2>2. /\ calls \in [Calls -> CallRecord]
        /\ service \in [id : Services \cup {None}, call : Calls \cup {None}]
        /\ activity \in [started : BOOLEAN, service : Services \cup {None},
                         view : [state : CallState \cup {"none"}, call : Calls \cup {None}]]
        /\ notice \in CallState \cup {"none"}
        /\ main \in Seq(Item)
        /\ system \in [record : Services \cup {None}, last : Services \cup {None},
                       started : BOOLEAN, bound : BOOLEAN, told : BOOLEAN]
        /\ past \in [starts : 0 .. MaxStarts, hangUps : 0 .. MaxHangUps,
                     visits : 0 .. MaxVisits, failures : Nat, ended : SUBSET Calls,
                     overrun : BOOLEAN]
    BY <2>1, WorldFacts, WholeIs
  <2>3. Range(main) \subseteq Item
    BY <2>2 DEF Range
  <2>4. \A c \in Calls : calls[c].reports = (IF service.call = c THEN service.id ELSE None)
    BY <2>1, WholeIs DEF Owned
  <2>5. past.ended \subseteq Calls
    BY <2>2
  <2> QED
    BY <2>2, <2>3, <2>4, <2>5 DEF ServiceTypeOK, CallRecord, Item
<1> QED
  BY <1>1, ServiceInvariant, PTL

\* With nothing left to do on the main thread and nothing to tell by the call, the
\* notification and the screen show how the call is: no message is missed between
\* the registration, the notification and the fragments.
THEOREM ServiceShowsCall == Spec => []StateIsShown
<1>1. Sound(Whole) => StateIsShown
  <2> SUFFICES ASSUME Sound(Whole), main = <<>>, service.call = None \/ Quiet(service.call)
               PROVE  LET state == IF service.call = None THEN "IDLE"
                                   ELSE calls[service.call].state
                      IN /\ notice = (IF service.call = None THEN "none" ELSE state)
                         /\ activity.service # None =>
                              activity.view = [state |-> state,
                                               call |-> IF state = "IDLE" THEN None
                                                        ELSE service.call]
    BY DEF StateIsShown
  <2>1. DOMAIN Whole.main = {}
    BY WholeIs
  <2>2. Told(Whole)
    BY <2>1, WholeIs DEF Told, Quiet
  <2>3. Empty(Whole) /\ Noticed(Whole) /\ Viewed(Whole)
    BY DEF Sound, Kernel, Base
  <2>4. StateOf(Whole) = IF service.call = None THEN "IDLE" ELSE calls[service.call].state
    BY WholeIs DEF StateOf
  <2>5. notice = (IF service.call = None THEN "none" ELSE StateOf(Whole))
    BY <2>2, <2>3, WholeIs DEF Empty, Noticed
  <2>6. activity.service # None =>
          activity.view = [state |-> StateOf(Whole),
                           call |-> IF StateOf(Whole) = "IDLE" THEN None ELSE service.call]
    BY <2>1, <2>2, <2>3, WholeIs DEF Viewed
  <2> QED
    BY <2>4, <2>5, <2>6
<1> QED
  BY <1>1, ServiceInvariant, PTL

\* No call goes on without a service, and no service without a reason.
THEOREM ServiceLeavesNothing == Spec => []NothingLingers
<1>1. Sound(Whole) => NothingLingers
  <2> SUFFICES ASSUME Sound(Whole)
               PROVE  NothingLingers
    OBVIOUS
  <2>1. \A c \in Calls : calls[c].thread \notin {"none", "ended"} =>
           service.call = c \/ calls[c].quits
    BY WholeIs DEF Sound, Kernel, Base, Owned
  <2>2. ASSUME main = <<>>, ~ activity.started, service.call = None
        PROVE  system.record = None
    <3>1. ~ Asked(Whole.main)
      BY <2>2, WholeIs DEF Asked
    <3>2. ~ system.started
      BY <2>2, <3>1, WholeIs DEF Sound, Purposeful
    <3>3. ~ system.bound
      BY <2>2, WholeIs DEF Sound, Kernel, Base, Binding
    <3> QED
      BY <3>2, <3>3, WholeIs DEF Sound, Kernel, Upheld
  <2> QED
    BY <2>1, <2>2 DEF NothingLingers
<1> QED
  BY <1>1, ServiceInvariant, PTL

\* No service is destroyed under a call that nobody hung up, but after a stopSelf
\* that undid a start that was still queued.
THEOREM ServiceKeepsCall == Spec => KeptUnlessOverrun
<1>1. Sound(Whole) /\ [Next]_vars =>
        [(service.call # None /\ service'.id # service.id) =>
            service.call \in past.ended \/ past.overrun]_vars
  <2> SUFFICES ASSUME Sound(Whole), [Next]_vars, service.call # None,
                      service'.id # service.id, service.call \notin past.ended,
                      ~ past.overrun
               PROVE  FALSE
    OBVIOUS
  <2>1. MainThread /\ Turn(Head(main))
    BY OthersStay
  <2>2. /\ Whole \in World /\ main \in Seq(Item) /\ main # <<>> /\ service.id \in Nat
        /\ system.record \in Nat /\ system.last \in Nat
    <3>1. Whole \in World
      BY DEF Sound, Kernel, Base
    <3> QED
      BY <2>1, <3>1, WorldFacts, WholeIs, Numbers DEF MainThread
  <2>3. Turns(main, service.id, system.record, system.last)
    BY WholeIs DEF Sound, Kernel, Base, InTurn
  <2>4. system.record # service.id \/ system.record = None
    BY <2>1, <2>2, <2>3, TurnsTake
  <2>5. system.started /\ service.id = system.record
    BY WholeIs DEF Sound, Kernel, Base, Held
  <2>6. system.record # None
    BY <2>5, WholeIs DEF Sound, Kernel, Upheld
  <2> QED
    BY <2>4, <2>5, <2>6
<1> QED
  BY <1>1, ServiceInvariant, PTL DEF Spec, KeptUnlessOverrun
=============================================================================
