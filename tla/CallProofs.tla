----------------------------- MODULE CallProofs -----------------------------
(***************************************************************************)
(* The call state machine of module Call, for any kinds of message posted  *)
(* and any bound on the queue: its safety properties, from one inductive   *)
(* invariant (CallInv).  What gotoState does is proved first of any call   *)
(* (its two halves, TeardownFacts and ConstructFacts); then, action by     *)
(* action, that what the handler leaves fits the messages still queued.    *)
(***************************************************************************)
EXTENDS Call, SiftProofs

-----------------------------------------------------------------------------
(* The shape of the call and of its queue.                                 *)

Field == {"state", "error", "queue", "delayed", "held", "headset", "want", "lit", "zoomed",
          "sink", "view", "network", "socket", "glasses", "rtc", "overtaken", "out",
          "misled"}

Want == [torch : BOOLEAN, laser : {"OFF", "ON", "AUTO"}, zoomed : BOOLEAN]
Lights == [torch : BOOLEAN, laser : BOOLEAN]
Socket == [at : {"none", "opening", "open", "closed"}, joined : BOOLEAN, observer : BOOLEAN]

WellFormed(s) ==
    /\ DOMAIN s = Field
    /\ s.state \in State /\ s.error \in CallError \cup {NoError}
    /\ s.queue \in Seq(Message) /\ s.delayed \in Nat
    /\ s.held \in [Resource -> Int]
    /\ s.headset \in BOOLEAN /\ s.zoomed \in BOOLEAN /\ s.sink \in BOOLEAN
    /\ s.view \in BOOLEAN /\ s.misled \in BOOLEAN
    /\ s.want \in Want /\ s.lit \in Lights /\ s.socket \in Socket
    /\ s.overtaken \subseteq What

\* t differs from s in these fields at most.
Differs(s, t, fields) == \A f \in Field \ fields : t[f] = s[f]

\* Purged, of any queue.
PurgedIn(q) ==
    \A i \in DOMAIN q : q[i].age = "left" => q[i].what \in SessionWhat \cup {"IRISTICK_ERROR"}

\* What the websocket of this session has said of the observer.
WordWhat == {"SIGNALING_OBSERVER_JOINED", "SIGNALING_LEAVE"}
Word(m) == m.what \in WordWhat /\ m.age # "late"
Silent(q) == \A i \in DOMAIN q : ~ Word(q[i])
\* The last word in q is whether the observer is there.
LastWord(q, there) ==
    \E i \in DOMAIN q : /\ Word(q[i])
                        /\ (q[i].what = "SIGNALING_OBSERVER_JOINED") <=> there
                        /\ \A j \in DOMAIN q : j > i => ~ Word(q[j])

\* What is done to the queue, apart from CloseSignal.
Kept(q, whats) == Only(q, {m \in Message : m.what \notin whats})
Thinned(q, u) ==
    /\ Len(u) <= Len(q)
    /\ Silent(q) => Silent(u)
    /\ \A b \in BOOLEAN : LastWord(q, b) => LastWord(u, b)

\* What gotoState takes down and builds.
LEMMA ResourceIs == Resource = {"monitor", "signal", "iristick", "session"}
BY DEF Resource, Listener

\* A message is made of its three fields.
LEMMA MessageIs ==
    ASSUME NEW m \in Message
    PROVE  /\ m.what \in What /\ m.arg \in CallError \cup {NoError}
           /\ m.age \in {"current", "left", "late"}
           /\ m = [what |-> m.what, arg |-> m.arg, age |-> m.age]
BY DEF Message

\* Sending a message changes what was sent only.
LEMMA SayFacts ==
    ASSUME NEW s, WellFormed(s), NEW type
    PROVE  WellFormed(Say(s, type)) /\ Differs(s, Say(s, type), {"out"})
BY DEF WellFormed, Say, Differs, Field

\* removeMessages, of a queue: nothing of these kinds is left, the rest was there, and
\* unless words on the observer are removed the last of them stays the last.
LEMMA RemoveQueue ==
    ASSUME NEW q \in Seq(Message), NEW whats
    PROVE  LET u == Kept(q, whats)
           IN /\ u \in Seq(Message) /\ Len(u) <= Len(q)
              /\ \A i \in DOMAIN u :
                    u[i].what \notin whats /\ \E k \in DOMAIN q : u[i] = q[k]
              /\ Silent(q) => Silent(u)
              /\ whats \cap WordWhat = {}
                    => Thinned(q, u)
<1> DEFINE S == {m \in Message : m.what \notin whats}
           u == Only(q, S)
<1>0. u = Kept(q, whats)
  BY DEF Kept
<1> HIDE DEF S
<1>1. /\ u \in Seq(Message) /\ Len(u) <= Len(q)
      /\ \A i \in DOMAIN u : u[i] \in S /\ \E k \in DOMAIN q : u[i] = q[k]
      /\ \A k \in DOMAIN q : q[k] \in S =>
            \E i \in DOMAIN u :
               /\ u[i] = q[k]
               /\ \A j \in DOMAIN u : j > i => \E m \in DOMAIN q : m > k /\ u[j] = q[m]
  BY OnlyKeeps
<1> USE DEF S
<1>2. \A i \in DOMAIN q : q[i] \in Message
  OBVIOUS
<1> HIDE DEF u
<1>3. Silent(q) => Silent(u)
  BY <1>1 DEF Silent
<1>4. ASSUME whats \cap WordWhat = {},
             NEW b \in BOOLEAN, LastWord(q, b)
      PROVE  LastWord(u, b)
  <2>1. PICK k \in DOMAIN q : /\ Word(q[k])
                              /\ (q[k].what = "SIGNALING_OBSERVER_JOINED") <=> b
                              /\ \A j \in DOMAIN q : j > k => ~ Word(q[j])
    BY <1>4 DEF LastWord
  <2>2. q[k] \in S
    BY <1>2, <1>4, <2>1 DEF Word
  <2>3. PICK i \in DOMAIN u :
               /\ u[i] = q[k]
               /\ \A j \in DOMAIN u : j > i => \E m \in DOMAIN q : m > k /\ u[j] = q[m]
    BY <1>1, <2>2
  <2>4. \A j \in DOMAIN u : j > i => ~ Word(u[j])
    BY <2>1, <2>3
  <2> QED
    BY <2>1, <2>3, <2>4 DEF LastWord
<1> QED
  BY <1>0, <1>1, <1>3, <1>4 DEF Thinned

\* removeMessages changes the queue and the delayed messages only.
LEMMA RemoveFacts ==
    ASSUME NEW s, WellFormed(s), NEW whats
    PROVE  LET t == RemoveMessages(s, whats)
           IN /\ WellFormed(t) /\ Differs(s, t, {"queue", "delayed"})
              /\ t.queue = Kept(s.queue, whats)
              /\ t.delayed = IF "RESTART" \in whats THEN 0 ELSE s.delayed
<1> DEFINE u == Kept(s.queue, whats)
           d == IF "RESTART" \in whats THEN 0 ELSE s.delayed
<1>1. u \in Seq(Message) /\ d \in Nat
  BY RemoveQueue DEF WellFormed
<1>2. RemoveMessages(s, whats) = [s EXCEPT !.queue = u, !.delayed = d]
  BY DEF RemoveMessages, Kept
<1> HIDE DEF u, d
<1> DEFINE t == [s EXCEPT !.queue = u, !.delayed = d]
<1>3. WellFormed(t) /\ Differs(s, t, {"queue", "delayed"}) /\ t.queue = u /\ t.delayed = d
  BY <1>1 DEF WellFormed, Differs, Field
<1> HIDE DEF t
<1> QED
  BY <1>2, <1>3 DEF u, d, t

\* A callback belongs to the listener of its resource.
LEMMA PossibleIs ==
    ASSUME NEW s, NEW r \in Resource
    PROVE  Possible(s, r) \subseteq Listener[r]
BY DEF Possible, Resource, Listener, NetworkWhat, SocketWhat, ServerWhat, HeadsetWhat, SessionWhat

\* Marking a message as left behind keeps its kind.
LEMMA LeftMessage ==
    ASSUME NEW m \in Message
    PROVE  LET n == [m EXCEPT !.age = "left"]
           IN n \in Message /\ n.what = m.what /\ n.age = "left"
BY DEF Message

\* Silencing a listener marks its queued messages and nothing else of the queue.
LEMMA ReleaseQueue ==
    ASSUME NEW q \in Seq(Message), NEW r \in Resource
    PROVE  LET u == [i \in DOMAIN q |-> IF q[i].what \in Listener[r]
                                        THEN [q[i] EXCEPT !.age = "left"] ELSE q[i]]
           IN /\ u \in Seq(Message) /\ Len(u) = Len(q)
              /\ r # "signal" => Thinned(q, u)
              /\ \A i \in DOMAIN u :
                    /\ i \in DOMAIN q /\ u[i].what = q[i].what
                    /\ u[i].age = "left" => q[i].age = "left" \/ u[i].what \in Listener[r]
<1> DEFINE u == [i \in DOMAIN q |-> IF q[i].what \in Listener[r]
                                    THEN [q[i] EXCEPT !.age = "left"] ELSE q[i]]
<1>1. \A i \in DOMAIN q : q[i] \in Message
  OBVIOUS
<1>2. ASSUME NEW i \in DOMAIN q
      PROVE  /\ u[i] \in Message /\ u[i].what = q[i].what
             /\ u[i].age = "left" => q[i].age = "left" \/ u[i].what \in Listener[r]
             /\ q[i].what \notin Listener[r] => u[i] = q[i]
  <2>1. q[i] \in Message
    OBVIOUS
  <2> DEFINE n == [q[i] EXCEPT !.age = "left"]
  <2>2. n \in Message /\ n.what = q[i].what
    BY <2>1, LeftMessage
  <2>3. u[i] = IF q[i].what \in Listener[r] THEN n ELSE q[i]
    OBVIOUS
  <2> HIDE DEF n, u
  <2> QED
    BY <2>1, <2>2, <2>3
<1>3. u \in Seq(Message) /\ Len(u) = Len(q) /\ DOMAIN u = DOMAIN q
  <2>1. DOMAIN q = 1 .. Len(q) /\ Len(q) \in Nat /\ DOMAIN u = DOMAIN q
    OBVIOUS
  <2>2. u = [i \in 1 .. Len(q) |-> u[i]]
    BY <2>1
  <2> HIDE DEF u
  <2> QED
    BY <1>2, <2>1, <2>2
<1> HIDE DEF u
<1>4. ASSUME r # "signal"
      PROVE  Thinned(q, u)
  <2>1. \A i \in DOMAIN q : Word(q[i]) <=> Word(u[i])
    <3>1. "SIGNALING_OBSERVER_JOINED" \notin Listener[r] /\ "SIGNALING_LEAVE" \notin Listener[r]
      BY <1>4 DEF Resource, Listener, NetworkWhat, HeadsetWhat, SessionWhat
    <3> QED
      BY <1>2, <3>1 DEF Word, WordWhat
  <2> QED
    BY <1>2, <1>3, <2>1 DEF Thinned, Silent, LastWord
<1> QED
  BY <1>2, <1>3, <1>4 DEF u

\* Silencing a listener: its resource is gone, and its queued messages are marked.
LEMMA ReleaseFacts ==
    ASSUME NEW s, WellFormed(s), NEW r \in Resource
    PROVE  LET t == Release(s, r)
           IN /\ WellFormed(t) /\ Differs(s, t, {"held", "overtaken", "queue"})
              /\ t.held = [s.held EXCEPT ![r] = @ - 1]
              /\ Len(t.queue) = Len(s.queue)
              /\ r # "signal" => Thinned(s.queue, t.queue)
              /\ \A i \in DOMAIN t.queue :
                    /\ i \in DOMAIN s.queue /\ t.queue[i].what = s.queue[i].what
                    /\ t.queue[i].age = "left" =>
                          s.queue[i].age = "left" \/ t.queue[i].what \in Listener[r]
<1> DEFINE q == s.queue
           u == [i \in DOMAIN q |-> IF q[i].what \in Listener[r]
                                    THEN [q[i] EXCEPT !.age = "left"] ELSE q[i]]
           o == s.overtaken \cup (Possible(s, r) \cap Overtaking)
           h == [s.held EXCEPT ![r] = @ - 1]
<1>1. o \subseteq What /\ h \in [Resource -> Int]
  BY Bounds DEF WellFormed
<1>2. q \in Seq(Message)
  BY DEF WellFormed
<1>3. /\ u \in Seq(Message) /\ Len(u) = Len(q)
      /\ r # "signal" => Thinned(q, u)
      /\ \A i \in DOMAIN u :
            /\ i \in DOMAIN q /\ u[i].what = q[i].what
            /\ u[i].age = "left" => q[i].age = "left" \/ u[i].what \in Listener[r]
  BY <1>2, ReleaseQueue
<1>4. Release(s, r) = [s EXCEPT !.held = h, !.overtaken = o, !.queue = u]
  BY DEF Release
<1> HIDE DEF h, o, u
<1> DEFINE t == [s EXCEPT !.held = h, !.overtaken = o, !.queue = u]
<1>5. /\ WellFormed(t) /\ Differs(s, t, {"held", "overtaken", "queue"})
      /\ t.queue = u /\ t.held = h
  BY <1>1, <1>3 DEF WellFormed, Differs, Field
<1> HIDE DEF t
<1> QED
  BY <1>3, <1>4, <1>5 DEF t, h

-----------------------------------------------------------------------------
(* Taking one thing down.                                                  *)

\* t is s without one r, and with changes in the given fields.
Without(s, t, r, fields) ==
    /\ WellFormed(t) /\ Differs(s, t, {"held", "overtaken", "queue"} \cup fields)
    /\ t.held = [s.held EXCEPT ![r] = @ - 1]
    /\ PurgedIn(s.queue) => PurgedIn(t.queue)
    /\ Silent(s.queue) => Silent(t.queue)
    /\ Len(t.queue) <= Len(s.queue)

\* RemoveMessages after Release.
LEMMA Forgotten ==
    ASSUME NEW s, WellFormed(s), NEW r \in Resource, NEW t, WellFormed(t),
           t.queue = Release(s, r).queue, NEW whats,
           Listener[r] \subseteq whats \cup {"IRISTICK_ERROR"},
           whats \subseteq What \ {"RESTART"}
    PROVE  LET u == RemoveMessages(t, whats)
           IN /\ WellFormed(u) /\ Differs(t, u, {"queue"})
              /\ PurgedIn(s.queue) => PurgedIn(u.queue)
              /\ Len(u.queue) <= Len(s.queue)
              /\ r = "signal" => Silent(u.queue)
              /\ whats \cap WordWhat = {}
                    => Thinned(s.queue, u.queue)
<1> DEFINE u == RemoveMessages(t, whats)
           v == Kept(t.queue, whats)
<1>0. t.queue \in Seq(Message) /\ s.queue \in Seq(Message)
  BY DEF WellFormed
<1>1. /\ WellFormed(u) /\ Differs(t, u, {"queue", "delayed"})
      /\ u.queue = v
      /\ u.delayed = t.delayed
  BY RemoveFacts
<1>2. Differs(t, u, {"queue"})
  BY <1>1 DEF Differs
<1>3. /\ u.queue \in Seq(Message) /\ Len(u.queue) <= Len(t.queue)
      /\ \A i \in DOMAIN u.queue :
            u.queue[i].what \notin whats /\ \E k \in DOMAIN t.queue : u.queue[i] = t.queue[k]
      /\ whats \cap WordWhat = {}
            => Thinned(t.queue, u.queue)
  <2>1. /\ v \in Seq(Message) /\ Len(v) <= Len(t.queue)
        /\ \A i \in DOMAIN v : v[i].what \notin whats /\ \E k \in DOMAIN t.queue : v[i] = t.queue[k]
        /\ whats \cap WordWhat = {}
              => Thinned(t.queue, v)
    BY <1>0, RemoveQueue
  <2> HIDE DEF u, v
  <2> QED
    BY <1>1, <2>1
<1>4. /\ Len(t.queue) = Len(s.queue)
      /\ r # "signal" => Thinned(s.queue, t.queue)
      /\ \A i \in DOMAIN t.queue :
            /\ i \in DOMAIN s.queue /\ t.queue[i].what = s.queue[i].what
            /\ t.queue[i].age = "left" =>
                  s.queue[i].age = "left" \/ t.queue[i].what \in Listener[r]
  <2> DEFINE x == Release(s, r).queue
  <2>1. /\ Len(x) = Len(s.queue)
        /\ r # "signal" => Thinned(s.queue, x)
        /\ \A i \in DOMAIN x :
              /\ i \in DOMAIN s.queue /\ x[i].what = s.queue[i].what
              /\ x[i].age = "left" => s.queue[i].age = "left" \/ x[i].what \in Listener[r]
    BY ReleaseFacts
  <2>2. t.queue = x
    OBVIOUS
  <2> HIDE DEF x
  <2> QED
    BY <2>1, <2>2
<1> HIDE DEF u, v
<1>5. ASSUME PurgedIn(s.queue)
      PROVE  PurgedIn(u.queue)
  <2> SUFFICES ASSUME NEW i \in DOMAIN u.queue, u.queue[i].age = "left"
               PROVE  u.queue[i].what \in SessionWhat \cup {"IRISTICK_ERROR"}
    BY DEF PurgedIn
  <2>1. PICK k \in DOMAIN t.queue : u.queue[i] = t.queue[k]
    BY <1>3
  <2>2. s.queue[k].age = "left" \/ t.queue[k].what \in Listener[r]
    BY <1>4, <2>1
  <2> QED
    BY <1>3, <1>4, <1>5, <2>1, <2>2 DEF PurgedIn
<1>6. ASSUME r = "signal"
      PROVE  Silent(u.queue)
  <2>1. WordWhat \subseteq whats
    BY <1>6 DEF WordWhat, Listener, ServerWhat
  <2> QED
    BY <1>3, <2>1 DEF Silent, Word
<1>7. ASSUME whats \cap WordWhat = {}
      PROVE  Thinned(s.queue, u.queue)
  <2>1. r # "signal"
    BY <1>7 DEF WordWhat, Listener, ServerWhat
  <2>2. Thinned(s.queue, t.queue) /\ Thinned(t.queue, u.queue)
    BY <1>3, <1>4, <1>7, <2>1
  <2> QED
    BY <1>0, <1>3, <2>2 DEF Thinned
<1> QED
  BY <1>0, <1>1, <1>2, <1>3, <1>4, <1>5, <1>6, <1>7 DEF u

\* PeerConnection and capturer closed: lights and zoom are off.
LEMMA CloseSessionFacts ==
    ASSUME NEW s, WellFormed(s)
    PROVE  LET t == CloseSession(s)
           IN /\ Without(s, t, "session", {"out", "lit", "zoomed", "sink", "rtc"})
              /\ Thinned(s.queue, t.queue)
              /\ t.lit = [torch |-> FALSE, laser |-> FALSE] /\ t.zoomed = FALSE
<1> DEFINE a == Say(s, "reset")
           b == Release(a, "session")
           l == [torch |-> FALSE, laser |-> FALSE]
           t == [b EXCEPT !.lit = l, !.zoomed = FALSE, !.sink = FALSE, !.rtc = NoSession]
<1>1. WellFormed(a) /\ Differs(s, a, {"out"})
  BY SayFacts
<1>2. /\ WellFormed(b) /\ Differs(a, b, {"held", "overtaken", "queue"})
      /\ b.held = [a.held EXCEPT !["session"] = @ - 1]
      /\ Len(b.queue) = Len(a.queue)
      /\ Thinned(a.queue, b.queue)
      /\ \A i \in DOMAIN b.queue :
            /\ i \in DOMAIN a.queue /\ b.queue[i].what = a.queue[i].what
            /\ b.queue[i].age = "left" =>
                  a.queue[i].age = "left" \/ b.queue[i].what \in Listener["session"]
  <2> HIDE DEF a
  <2> QED
    BY <1>1, ReleaseFacts, ResourceIs
<1>3. CloseSession(s) = t
  BY DEF CloseSession
<1>4. l \in Lights
  BY DEF Lights
<1> HIDE DEF a, b, l
<1>5. /\ WellFormed(t) /\ Differs(b, t, {"lit", "zoomed", "sink", "rtc"})
      /\ t.lit = l /\ t.zoomed = FALSE
  BY <1>2, <1>4 DEF WellFormed, Differs, Field
<1> HIDE DEF t
<1>6. a.queue = s.queue /\ a.held = s.held /\ t.queue = b.queue /\ t.held = b.held
  BY <1>1, <1>5 DEF Differs, Field
<1>7. Differs(s, t, {"held", "overtaken", "queue"} \cup {"out", "lit", "zoomed", "sink", "rtc"})
  BY <1>1, <1>2, <1>5 DEF Differs
<1>8. PurgedIn(s.queue) => PurgedIn(t.queue)
  BY <1>2, <1>6 DEF PurgedIn, Listener
<1>9. Len(s.queue) \in Nat
  BY DEF WellFormed
<1> QED
  BY <1>2, <1>3, <1>5, <1>6, <1>7, <1>8, <1>9 DEF Without, Thinned, l

\* The headset listener unregistered: the headset is forgotten.
LEMMA UnregisterFacts ==
    ASSUME NEW s, WellFormed(s)
    PROVE  LET t == Unregister(s)
           IN /\ Without(s, t, "iristick", {"headset", "glasses"})
              /\ Thinned(s.queue, t.queue) /\ t.headset = FALSE
<1> DEFINE a == Release(s, "iristick")
           b == [a EXCEPT !.headset = FALSE, !.glasses = NoGlasses]
           t == RemoveMessages(b, HeadsetWhat)
<1>1. /\ WellFormed(a) /\ Differs(s, a, {"held", "overtaken", "queue"})
      /\ a.held = [s.held EXCEPT !["iristick"] = @ - 1]
  BY ReleaseFacts, ResourceIs
<1> HIDE DEF a
<1>2. /\ WellFormed(b) /\ Differs(a, b, {"headset", "glasses"}) /\ b.queue = a.queue
      /\ b.headset = FALSE
  BY <1>1 DEF WellFormed, Differs, Field
<1>3. b.queue = Release(s, "iristick").queue
  BY <1>2 DEF a
<1> HIDE DEF b
<1>4. /\ WellFormed(t) /\ Differs(b, t, {"queue"})
      /\ PurgedIn(s.queue) => PurgedIn(t.queue)
      /\ Len(t.queue) <= Len(s.queue)
      /\ Thinned(s.queue, t.queue)
  <2>1. /\ Listener["iristick"] \subseteq HeadsetWhat \cup {"IRISTICK_ERROR"}
        /\ HeadsetWhat \subseteq What \ {"RESTART"}
        /\ HeadsetWhat \cap WordWhat = {}
    BY DEF WordWhat, Listener, HeadsetWhat, What
  <2> QED
    BY <1>2, <1>3, <2>1, Forgotten, ResourceIs
<1>5. Unregister(s) = t
  BY DEF Unregister, a, b
<1> HIDE DEF t
<1>6. Differs(s, t, {"held", "overtaken", "queue"} \cup {"headset", "glasses"})
  BY <1>1, <1>2, <1>4 DEF Differs
<1>7. t.held = a.held /\ t.headset = b.headset
  BY <1>2, <1>4 DEF Differs, Field
<1> QED
  BY <1>1, <1>2, <1>4, <1>5, <1>6, <1>7 DEF Without, Thinned

\* The network monitor stopped.
LEMMA StopMonitorFacts ==
    ASSUME NEW s, WellFormed(s)
    PROVE  LET t == StopMonitor(s)
           IN Without(s, t, "monitor", {"network"}) /\ Thinned(s.queue, t.queue)
<1> DEFINE a == Release(s, "monitor")
           b == [a EXCEPT !.network = NoNetwork]
           t == RemoveMessages(b, NetworkWhat)
<1>1. /\ WellFormed(a) /\ Differs(s, a, {"held", "overtaken", "queue"})
      /\ a.held = [s.held EXCEPT !["monitor"] = @ - 1]
  BY ReleaseFacts, ResourceIs
<1> HIDE DEF a
<1>2. WellFormed(b) /\ Differs(a, b, {"network"}) /\ b.queue = a.queue
  BY <1>1 DEF WellFormed, Differs, Field
<1>3. b.queue = Release(s, "monitor").queue
  BY <1>2 DEF a
<1> HIDE DEF b
<1>4. /\ WellFormed(t) /\ Differs(b, t, {"queue"})
      /\ PurgedIn(s.queue) => PurgedIn(t.queue)
      /\ Len(t.queue) <= Len(s.queue)
      /\ Thinned(s.queue, t.queue)
  <2>1. /\ Listener["monitor"] \subseteq NetworkWhat \cup {"IRISTICK_ERROR"}
        /\ NetworkWhat \subseteq What \ {"RESTART"}
        /\ NetworkWhat \cap WordWhat = {}
    BY DEF WordWhat, Listener, NetworkWhat, What
  <2> QED
    BY <1>2, <1>3, <2>1, Forgotten, ResourceIs
<1>5. StopMonitor(s) = t
  BY DEF StopMonitor, a, b
<1> HIDE DEF t
<1>6. Differs(s, t, {"held", "overtaken", "queue"} \cup {"network"})
  BY <1>1, <1>2, <1>4 DEF Differs
<1>7. t.held = a.held
  BY <1>2, <1>4 DEF Differs, Field
<1> QED
  BY <1>1, <1>2, <1>4, <1>5, <1>6, <1>7 DEF Without, Thinned

\* The websocket closed: nothing it has said of the observer is left.
LEMMA CloseSignalFacts ==
    ASSUME NEW s, WellFormed(s)
    PROVE  LET t == CloseSignal(s)
           IN /\ Without(s, t, "signal", {"out", "socket", "misled"})
              /\ Silent(t.queue) /\ t.socket = NoSocket /\ t.misled = FALSE
<1> DEFINE z == Say(s, "leave")
           a == Release(z, "signal")
           b == [a EXCEPT !.socket = NoSocket, !.misled = FALSE]
           t == RemoveMessages(b, ServerWhat \cup SocketWhat)
<1>1. WellFormed(z) /\ Differs(s, z, {"out"})
  BY SayFacts
<1>2. z.queue = s.queue /\ z.held = s.held
  BY <1>1 DEF Differs, Field
<1>3. /\ WellFormed(a) /\ Differs(z, a, {"held", "overtaken", "queue"})
      /\ a.held = [z.held EXCEPT !["signal"] = @ - 1]
  <2> HIDE DEF z
  <2> QED
    BY <1>1, ReleaseFacts, ResourceIs
<1> HIDE DEF a
<1>4. NoSocket \in Socket
  BY DEF NoSocket, Socket
<1>5. /\ WellFormed(b) /\ Differs(a, b, {"socket", "misled"}) /\ b.queue = a.queue
      /\ b.socket = NoSocket /\ b.misled = FALSE
  BY <1>3, <1>4 DEF WellFormed, Differs, Field
<1>6. b.queue = Release(z, "signal").queue
  BY <1>5 DEF a
<1> HIDE DEF b, z
<1>7. /\ WellFormed(t) /\ Differs(b, t, {"queue"})
      /\ PurgedIn(z.queue) => PurgedIn(t.queue)
      /\ Len(t.queue) <= Len(z.queue)
      /\ Silent(t.queue)
  <2>1. /\ Listener["signal"] \subseteq (ServerWhat \cup SocketWhat) \cup {"IRISTICK_ERROR"}
        /\ ServerWhat \cup SocketWhat \subseteq What \ {"RESTART"}
    BY DEF Listener, ServerWhat, SocketWhat, What
  <2> QED
    BY <1>1, <1>5, <1>6, <2>1, Forgotten, ResourceIs
<1>8. CloseSignal(s) = t
  BY DEF CloseSignal, a, b, z
<1> HIDE DEF t
<1>9. Differs(s, t, {"held", "overtaken", "queue"} \cup {"out", "socket", "misled"})
  BY <1>1, <1>3, <1>5, <1>7 DEF Differs
<1>10. t.held = a.held /\ t.socket = b.socket /\ t.misled = b.misled
  BY <1>5, <1>7 DEF Differs, Field
<1> QED
  BY <1>2, <1>3, <1>5, <1>7, <1>8, <1>9, <1>10 DEF Without

-----------------------------------------------------------------------------
(* gotoState: taking down.                                                 *)

Drops(s, new, r) == s.state >= NeededFrom[r] /\ new <= NeededFrom[r]

TornFields == {"held", "overtaken", "queue", "out", "lit", "zoomed", "sink", "rtc",
               "headset", "glasses", "socket", "misled", "network"}

\* Fewer fields differ than may differ.
LEMMA DiffersWiden ==
    ASSUME NEW s, NEW t, NEW A, NEW B, A \subseteq B, Differs(s, t, A)
    PROVE  Differs(s, t, B)
BY DEF Differs

\* A call does not differ from itself.
LEMMA DiffersSame ==
    ASSUME NEW s, NEW A
    PROVE  Differs(s, s, A)
BY DEF Differs

\* Two changes of these fields are a change of these fields.
LEMMA DiffersTwice ==
    ASSUME NEW s, NEW t, NEW u, NEW A, Differs(s, t, A), Differs(t, u, A)
    PROVE  Differs(s, u, A)
BY DEF Differs

\* Two thinnings of a queue are one.
LEMMA ThinnedTwice ==
    ASSUME NEW q \in Seq(Message), NEW u \in Seq(Message), NEW v \in Seq(Message),
           Thinned(q, u), Thinned(u, v)
    PROVE  Thinned(q, v)
BY DEF Thinned

\* A queue that stays is thinned.
LEMMA ThinnedSame ==
    ASSUME NEW q \in Seq(Message)
    PROVE  Thinned(q, q)
BY DEF Thinned

\* What holds of s and of t that is s, or what is left of it.
Torn(s, t) ==
    /\ WellFormed(t) /\ Differs(s, t, TornFields)
    /\ PurgedIn(s.queue) => PurgedIn(t.queue)
    /\ Silent(s.queue) => Silent(t.queue)
    /\ Len(t.queue) <= Len(s.queue)

\* Nothing taken down.
LEMMA TornSame ==
    ASSUME NEW s, WellFormed(s)
    PROVE  Torn(s, s)
BY DiffersSame DEF Torn, WellFormed

\* Two steps of taking down.
LEMMA TornTwice ==
    ASSUME NEW s, NEW t, NEW u, WellFormed(s), Torn(s, t), Torn(t, u)
    PROVE  Torn(s, u)
<1>1. Differs(s, u, TornFields)
  BY DiffersTwice DEF Torn
<1>2. s.queue \in Seq(Message) /\ t.queue \in Seq(Message) /\ u.queue \in Seq(Message)
  BY DEF WellFormed, Torn
<1>3. Len(u.queue) <= Len(s.queue)
  BY <1>2 DEF Torn
<1> QED
  BY <1>1, <1>3 DEF Torn

\* Taking one resource down is a step of taking down.
LEMMA WithoutTorn ==
    ASSUME NEW s, NEW t, NEW r, NEW fields, fields \subseteq TornFields,
           Without(s, t, r, fields)
    PROVE  Torn(s, t)
<1>1. {"held", "overtaken", "queue"} \cup fields \subseteq TornFields
  BY DEF TornFields
<1>2. Differs(s, t, TornFields)
  BY <1>1, DiffersWiden DEF Without
<1> QED
  BY <1>2 DEF Without, Torn

\* The first half of gotoState: each resource the new state does not keep is taken down,
\* once, with its messages, and the others are left as they are.
LEMMA TeardownFacts ==
    ASSUME NEW s, WellFormed(s), NEW new \in State
    PROVE  LET t == Teardown(s, new)
           IN /\ WellFormed(t) /\ Differs(s, t, TornFields \cup {"delayed"})
              /\ PurgedIn(s.queue) => PurgedIn(t.queue)
              /\ Silent(s.queue) => Silent(t.queue)
              /\ Len(t.queue) <= Len(s.queue)
              /\ \A r \in Resource :
                    t.held[r] = IF Drops(s, new, r) THEN s.held[r] - 1 ELSE s.held[r]
              /\ t.headset = IF Drops(s, new, "iristick") THEN FALSE ELSE s.headset
              /\ IF Drops(s, new, "session")
                 THEN t.lit = [torch |-> FALSE, laser |-> FALSE] ELSE t.lit = s.lit
              /\ IF Drops(s, new, "signal")
                 THEN t.socket = NoSocket /\ t.misled = FALSE /\ Silent(t.queue)
                 ELSE /\ t.socket = s.socket /\ t.misled = s.misled
                      /\ Thinned(s.queue, t.queue)
              /\ t.delayed = IF s.state >= ERROR /\ new <= ERROR THEN 0 ELSE s.delayed
<1> DEFINE D(r) == s.state >= NeededFrom[r] /\ new <= NeededFrom[r]
           a == IF D("session") THEN CloseSession(s) ELSE s
           b == IF D("iristick") THEN Unregister(a) ELSE a
           c == IF D("signal") THEN CloseSignal(b) ELSE b
           d == IF D("monitor") THEN StopMonitor(c) ELSE c
           e == RemoveMessages(d, {"RESTART"})
           t == IF s.state >= ERROR /\ new <= ERROR THEN e ELSE d
<1>0. \A r : D(r) <=> Drops(s, new, r)
  BY DEF Drops
<1>t. Teardown(s, new) = t
  BY DEF Teardown
<1> HIDE DEF D
<1>a. /\ Torn(s, a) /\ Thinned(s.queue, a.queue)
      /\ IF D("session")
         THEN /\ a.lit = [torch |-> FALSE, laser |-> FALSE]
              /\ a.held = [s.held EXCEPT !["session"] = @ - 1]
         ELSE a.lit = s.lit /\ a.held = s.held
      /\ a.headset = s.headset /\ a.socket = s.socket /\ a.misled = s.misled
  <2>1. CASE D("session")
    <3>1. /\ Without(s, a, "session", {"out", "lit", "zoomed", "sink", "rtc"})
          /\ Thinned(s.queue, a.queue)
          /\ a.lit = [torch |-> FALSE, laser |-> FALSE]
      BY <2>1, CloseSessionFacts
    <3>2. {"out", "lit", "zoomed", "sink", "rtc"} \subseteq TornFields
      BY DEF TornFields
    <3> HIDE DEF a
    <3>3. Torn(s, a)
      BY <3>1, <3>2, WithoutTorn
    <3>4. a.headset = s.headset /\ a.socket = s.socket /\ a.misled = s.misled
      BY <3>1 DEF Without, Differs, Field
    <3> QED
      BY <2>1, <3>1, <3>3, <3>4 DEF Without
  <2>2. CASE ~ D("session")
    <3>1. a = s /\ s.queue \in Seq(Message)
      BY <2>2 DEF WellFormed
    <3> QED
      BY <2>2, <3>1, TornSame, ThinnedSame
  <2> QED
    BY <2>1, <2>2
<1> HIDE DEF a
<1>wa. WellFormed(a) /\ a.queue \in Seq(Message) /\ s.queue \in Seq(Message)
  BY <1>a DEF Torn, WellFormed
<1>b. /\ Torn(a, b) /\ Thinned(a.queue, b.queue)
      /\ IF D("iristick")
         THEN b.headset = FALSE /\ b.held = [a.held EXCEPT !["iristick"] = @ - 1]
         ELSE b.headset = a.headset /\ b.held = a.held
      /\ b.lit = a.lit /\ b.socket = a.socket /\ b.misled = a.misled
  <2>1. CASE D("iristick")
    <3>1. /\ Without(a, b, "iristick", {"headset", "glasses"})
          /\ Thinned(a.queue, b.queue) /\ b.headset = FALSE
      BY <1>wa, <2>1, UnregisterFacts
    <3>2. {"headset", "glasses"} \subseteq TornFields
      BY DEF TornFields
    <3> HIDE DEF b
    <3>3. Torn(a, b)
      BY <3>1, <3>2, WithoutTorn
    <3>4. b.lit = a.lit /\ b.socket = a.socket /\ b.misled = a.misled
      BY <3>1 DEF Without, Differs, Field
    <3> QED
      BY <2>1, <3>1, <3>3, <3>4 DEF Without
  <2>2. CASE ~ D("iristick")
    <3>1. b = a
      BY <2>2
    <3> QED
      BY <1>wa, <2>2, <3>1, TornSame, ThinnedSame
  <2> QED
    BY <2>1, <2>2
<1> HIDE DEF b
<1>wb. WellFormed(b) /\ b.queue \in Seq(Message)
  BY <1>b DEF Torn, WellFormed
<1>c. /\ Torn(b, c)
      /\ IF D("signal")
         THEN /\ c.held = [b.held EXCEPT !["signal"] = @ - 1]
              /\ c.socket = NoSocket /\ c.misled = FALSE /\ Silent(c.queue)
         ELSE /\ c.held = b.held /\ c.socket = b.socket /\ c.misled = b.misled
              /\ Thinned(b.queue, c.queue)
      /\ c.lit = b.lit /\ c.headset = b.headset
  <2>1. CASE D("signal")
    <3>1. /\ Without(b, c, "signal", {"out", "socket", "misled"})
          /\ Silent(c.queue) /\ c.socket = NoSocket /\ c.misled = FALSE
      BY <1>wb, <2>1, CloseSignalFacts
    <3>2. {"out", "socket", "misled"} \subseteq TornFields
      BY DEF TornFields
    <3> HIDE DEF c
    <3>3. Torn(b, c)
      BY <3>1, <3>2, WithoutTorn
    <3>4. c.lit = b.lit /\ c.headset = b.headset
      BY <3>1 DEF Without, Differs, Field
    <3> QED
      BY <2>1, <3>1, <3>3, <3>4 DEF Without
  <2>2. CASE ~ D("signal")
    <3>1. c = b
      BY <2>2
    <3> QED
      BY <1>wb, <2>2, <3>1, TornSame, ThinnedSame
  <2> QED
    BY <2>1, <2>2
<1> HIDE DEF c
<1>wc. WellFormed(c) /\ c.queue \in Seq(Message)
  BY <1>c DEF Torn, WellFormed
<1>d. /\ Torn(c, d) /\ Thinned(c.queue, d.queue)
      /\ d.held = IF D("monitor") THEN [c.held EXCEPT !["monitor"] = @ - 1] ELSE c.held
      /\ d.lit = c.lit /\ d.headset = c.headset /\ d.socket = c.socket
      /\ d.misled = c.misled
  <2>1. CASE D("monitor")
    <3>1. Without(c, d, "monitor", {"network"}) /\ Thinned(c.queue, d.queue)
      BY <1>wc, <2>1, StopMonitorFacts
    <3>2. {"network"} \subseteq TornFields
      BY DEF TornFields
    <3> HIDE DEF d
    <3>3. Torn(c, d)
      BY <3>1, <3>2, WithoutTorn
    <3>4. /\ d.lit = c.lit /\ d.headset = c.headset /\ d.socket = c.socket
          /\ d.misled = c.misled
      BY <3>1 DEF Without, Differs, Field
    <3> QED
      BY <2>1, <3>1, <3>3, <3>4 DEF Without
  <2>2. CASE ~ D("monitor")
    <3>1. d = c
      BY <2>2
    <3> QED
      BY <1>wc, <2>2, <3>1, TornSame, ThinnedSame
  <2> QED
    BY <2>1, <2>2
<1> HIDE DEF d
<1>wd. WellFormed(d) /\ d.queue \in Seq(Message)
  BY <1>d DEF Torn, WellFormed
<1>1. Torn(s, d)
  <2>1. Torn(s, b)
    BY <1>a, <1>b, TornTwice
  <2>2. Torn(s, c)
    BY <1>c, <2>1, TornTwice
  <2> QED
    BY <1>d, <2>2, TornTwice
<1>2. D("signal") => Silent(d.queue)
  BY <1>c, <1>d DEF Thinned
<1>3. ~ D("signal") => Thinned(s.queue, d.queue)
  <2>1. Thinned(s.queue, b.queue)
    BY <1>a, <1>b, <1>wa, <1>wb, ThinnedTwice
  <2>2. ~ D("signal") => Thinned(s.queue, c.queue)
    BY <1>c, <1>wa, <1>wb, <1>wc, <2>1, ThinnedTwice
  <2> QED
    BY <1>d, <1>wa, <1>wc, <1>wd, <2>2, ThinnedTwice
<1>4. \A r \in Resource : d.held[r] = IF D(r) THEN s.held[r] - 1 ELSE s.held[r]
  <2>1. s.held \in [Resource -> Int]
    BY DEF WellFormed
  <2>2. /\ a.held = IF D("session") THEN [s.held EXCEPT !["session"] = @ - 1] ELSE s.held
        /\ b.held = IF D("iristick") THEN [a.held EXCEPT !["iristick"] = @ - 1] ELSE a.held
        /\ c.held = IF D("signal") THEN [b.held EXCEPT !["signal"] = @ - 1] ELSE b.held
        /\ d.held = IF D("monitor") THEN [c.held EXCEPT !["monitor"] = @ - 1] ELSE c.held
    BY <1>a, <1>b, <1>c, <1>d
  <2> QED
    BY <2>1, <2>2, ResourceIs
<1>5. d.delayed = s.delayed
  BY <1>1 DEF Torn, Differs, TornFields, Field
<1>8. /\ d.headset = IF D("iristick") THEN FALSE ELSE s.headset
      /\ IF D("session") THEN d.lit = [torch |-> FALSE, laser |-> FALSE] ELSE d.lit = s.lit
      /\ IF D("signal") THEN d.socket = NoSocket /\ d.misled = FALSE
         ELSE d.socket = s.socket /\ d.misled = s.misled
  BY <1>a, <1>b, <1>c, <1>d
<1>e. /\ WellFormed(e) /\ Differs(d, e, {"queue", "delayed"}) /\ e.delayed = 0
      /\ Thinned(d.queue, e.queue) /\ (PurgedIn(d.queue) => PurgedIn(e.queue))
  <2>1. /\ WellFormed(e) /\ Differs(d, e, {"queue", "delayed"}) /\ e.delayed = 0
        /\ e.queue = Kept(d.queue, {"RESTART"})
    BY <1>wd, RemoveFacts
  <2> HIDE DEF e
  <2>2. {"RESTART"} \cap WordWhat = {}
    BY DEF WordWhat
  <2>3. /\ Thinned(d.queue, e.queue)
        /\ \A i \in DOMAIN e.queue : \E k \in DOMAIN d.queue : e.queue[i] = d.queue[k]
    BY <1>wd, <2>1, <2>2, RemoveQueue
  <2> QED
    BY <2>1, <2>3 DEF PurgedIn
<1> HIDE DEF e
<1>6. CASE s.state >= ERROR /\ new <= ERROR
  <2>1. t = e
    BY <1>6
  <2>2. /\ e.held = d.held /\ e.headset = d.headset /\ e.lit = d.lit
        /\ e.socket = d.socket /\ e.misled = d.misled
    BY <1>e DEF Differs, Field
  <2>3. Differs(s, e, TornFields \cup {"delayed"})
    <3>1. /\ TornFields \subseteq TornFields \cup {"delayed"}
          /\ {"queue", "delayed"} \subseteq TornFields \cup {"delayed"}
      BY DEF TornFields
    <3> QED
      BY <1>1, <1>e, <3>1, DiffersTwice, DiffersWiden DEF Torn
  <2>4. e.queue \in Seq(Message) /\ Len(e.queue) <= Len(s.queue)
    BY <1>1, <1>e, <1>wd, <1>wa DEF Torn, Thinned, WellFormed
  <2>5. ~ D("signal") => Thinned(s.queue, e.queue)
    BY <1>3, <1>e, <1>wa, <1>wd, <2>4, ThinnedTwice
  <2>6. Silent(d.queue) => Silent(e.queue)
    BY <1>e DEF Thinned
  <2> QED
    <3>1. /\ PurgedIn(s.queue) => PurgedIn(e.queue)
          /\ Silent(s.queue) => Silent(e.queue)
      BY <1>1, <1>e, <2>6 DEF Torn
    <3>2. t.delayed = 0
      BY <1>e, <2>1
    <3> HIDE DEF t
    <3> QED
      BY <1>0, <1>2, <1>4, <1>6, <1>8, <1>e, <1>t, <2>1, <2>2, <2>3, <2>4, <2>5, <2>6,
         <3>1, <3>2
<1>7. CASE ~ (s.state >= ERROR /\ new <= ERROR)
  <2>1. t = d
    BY <1>7
  <2>2. Differs(s, d, TornFields \cup {"delayed"})
    <3>1. TornFields \subseteq TornFields \cup {"delayed"}
      OBVIOUS
    <3> QED
      BY <1>1, <3>1, DiffersWiden DEF Torn
  <2> QED
    BY <1>0, <1>1, <1>2, <1>3, <1>4, <1>5, <1>7, <1>8, <1>t, <2>1, <2>2 DEF Torn
<1> QED
  BY <1>6, <1>7

-----------------------------------------------------------------------------
(* gotoState: building.                                                    *)

\* applyParameters sets lights and zoom to what the user wants.
LEMMA ApplyFacts ==
    ASSUME NEW s, WellFormed(s)
    PROVE  LET t == ApplyParameters(s)
           IN /\ WellFormed(t) /\ Differs(s, t, {"zoomed", "lit"})
              /\ t.zoomed = s.want.zoomed
              /\ t.lit = [torch |-> s.want.torch, laser |-> LaserOn(s.want)]
<1> DEFINE l == [torch |-> s.want.torch, laser |-> LaserOn(s.want)]
           z == s.want.zoomed
           t == [s EXCEPT !.zoomed = z, !.lit = l]
<1>1. s.want.torch \in BOOLEAN /\ z \in BOOLEAN /\ LaserOn(s.want) \in BOOLEAN
  BY DEF WellFormed, Want, LaserOn
<1>2. l \in Lights
  BY <1>1 DEF Lights
<1>3. ApplyParameters(s) = t
  BY DEF ApplyParameters
<1> HIDE DEF l, z
<1>4. WellFormed(t) /\ Differs(s, t, {"zoomed", "lit"}) /\ t.zoomed = z /\ t.lit = l
  BY <1>1, <1>2 DEF WellFormed, Differs, Field
<1> QED
  BY <1>3, <1>4 DEF l, z

\* The websocket's fields, while it is opened and joins.
LEMMA SocketIs ==
    ASSUME NEW k \in Socket
    PROVE  /\ DOMAIN k = {"at", "joined", "observer"}
           /\ k.observer \in BOOLEAN /\ k.joined \in BOOLEAN
           /\ [k EXCEPT !.at = "opening"] \in Socket
           /\ [k EXCEPT !.joined = TRUE] \in Socket
BY DEF Socket

BuiltFields == {"delayed", "held", "socket", "out", "zoomed", "lit", "rtc"}

\* t is s with what the state new needs besides.
Built(s, t, old, new) ==
    /\ WellFormed(t) /\ Differs(s, t, BuiltFields)
    /\ t.delayed = IF new = ERROR /\ s.error \in RetriedError THEN s.delayed + 1
                   ELSE s.delayed
    /\ \A r \in Resource :
          t.held[r] = IF new = NeededFrom[r] THEN s.held[r] + 1 ELSE s.held[r]
    /\ t.socket.observer = s.socket.observer
    /\ t.socket.at = IF new = CONNECTING_TO_SERVER THEN "opening" ELSE s.socket.at
    /\ t.socket.joined <=> \/ new = WAITING_FOR_OBSERVER /\ old < WAITING_FOR_OBSERVER
                           \/ s.socket.joined
    /\ IF new = CALL_IN_PROGRESS
       THEN /\ t.zoomed = s.want.zoomed
            /\ t.lit = [torch |-> s.want.torch, laser |-> LaserOn(s.want)]
       ELSE t.lit = s.lit

\* The second half of gotoState builds what the new state adds.
LEMMA ConstructFacts ==
    ASSUME NEW s, WellFormed(s), NEW old \in State, NEW new \in State
    PROVE  Built(s, Construct(s, old, new), old, new)
<1> DEFINE t == Construct(s, old, new)
<1> USE DEF IDLE, ERROR, WAITING_FOR_NETWORK, CONNECTING_TO_SERVER, WAITING_FOR_OBSERVER,
            WAITING_FOR_HEADSET, ESTABLISHING, CALL_IN_PROGRESS
<1>0. new \in 0 .. 7 /\ s.held \in [Resource -> Int] /\ s.socket \in Socket
  BY DEF State, WellFormed
<1>1. CASE new = ERROR
  <2>1. t = IF s.error \in RetriedError THEN [s EXCEPT !.delayed = @ + 1] ELSE s
    BY <1>1 DEF Construct
  <2>2. /\ WellFormed([s EXCEPT !.delayed = @ + 1])
        /\ Differs(s, [s EXCEPT !.delayed = @ + 1], BuiltFields)
        /\ [s EXCEPT !.delayed = @ + 1].delayed = s.delayed + 1
        /\ \A f \in Field \ {"delayed"} : [s EXCEPT !.delayed = @ + 1][f] = s[f]
    BY DEF WellFormed, Differs, BuiltFields, Field
  <2>3. \A r \in Resource : new # NeededFrom[r]
    BY <1>1, ResourceIs DEF NeededFrom
  <2>4. CASE s.error \in RetriedError
    <3> DEFINE u == [s EXCEPT !.delayed = @ + 1]
    <3>1. t = u
      BY <2>1, <2>4
    <3> HIDE DEF t, u
    <3>2. /\ WellFormed(u) /\ Differs(s, u, BuiltFields) /\ u.delayed = s.delayed + 1
          /\ u.held = s.held /\ u.socket = s.socket /\ u.lit = s.lit
      BY <2>2 DEF Field, u
    <3>3. Built(s, t, old, new)
      BY <1>1, <2>3, <2>4, <3>1, <3>2 DEF Built
    <3> QED
      BY <3>3 DEF t
  <2>5. CASE s.error \notin RetriedError
    <3>1. t = s
      BY <2>1, <2>5
    <3> HIDE DEF t
    <3>2. Built(s, s, old, new)
      BY <1>1, <2>3, <2>5, DiffersSame DEF Built
    <3> QED
      BY <3>1, <3>2 DEF t
  <2> QED
    BY <2>4, <2>5
<1>2. CASE new = WAITING_FOR_NETWORK
  <2> DEFINE h == [s.held EXCEPT !.monitor = @ + 1]
             u == [s EXCEPT !.held = h]
  <2>1. t = u
    BY <1>2 DEF Construct
  <2>2. h \in [Resource -> Int]
    BY <1>0
  <2>3. \A r \in Resource : h[r] = IF new = NeededFrom[r] THEN s.held[r] + 1 ELSE s.held[r]
    BY <1>0, <1>2, ResourceIs DEF NeededFrom
  <2> HIDE DEF h
  <2>4. /\ WellFormed(u) /\ Differs(s, u, BuiltFields) /\ u.held = h
        /\ \A f \in Field \ {"held"} : u[f] = s[f]
    BY <2>2 DEF WellFormed, Differs, BuiltFields, Field
  <2> HIDE DEF u
  <2> HIDE DEF t
  <2> QED
    BY <1>2, <2>1, <2>3, <2>4 DEF Built, Field, t
<1>3. CASE new = CONNECTING_TO_SERVER
  <2> DEFINE h == [s.held EXCEPT !.signal = @ + 1]
             k == [s.socket EXCEPT !.at = "opening"]
             u == [s EXCEPT !.held = h, !.socket = k]
  <2>1. t = u
    BY <1>3 DEF Construct
  <2>2. h \in [Resource -> Int]
    BY <1>0
  <2>3. \A r \in Resource : h[r] = IF new = NeededFrom[r] THEN s.held[r] + 1 ELSE s.held[r]
    BY <1>0, <1>3, ResourceIs DEF NeededFrom
  <2>4. /\ k \in Socket /\ k.at = "opening" /\ k.joined = s.socket.joined
        /\ k.observer = s.socket.observer
    BY <1>0, SocketIs
  <2> HIDE DEF h, k
  <2>5. /\ WellFormed(u) /\ Differs(s, u, BuiltFields) /\ u.held = h /\ u.socket = k
        /\ \A f \in Field \ {"held", "socket"} : u[f] = s[f]
    BY <2>2, <2>4 DEF WellFormed, Differs, BuiltFields, Field
  <2> HIDE DEF u
  <2> HIDE DEF t
  <2> QED
    BY <1>3, <2>1, <2>3, <2>4, <2>5 DEF Built, Field, t
<1>4. CASE new = WAITING_FOR_OBSERVER
  <2> DEFINE k == [s.socket EXCEPT !.joined = TRUE]
             u == [s EXCEPT !.socket = k]
  <2>1. t = IF old < WAITING_FOR_OBSERVER THEN Say(u, "join") ELSE s
    BY <1>4 DEF Construct
  <2>2. /\ k \in Socket /\ k.at = s.socket.at /\ k.joined = TRUE
        /\ k.observer = s.socket.observer
    BY <1>0, SocketIs
  <2>3. \A r \in Resource : new # NeededFrom[r]
    BY <1>4, ResourceIs DEF NeededFrom
  <2> HIDE DEF k
  <2>4. WellFormed(u) /\ u.socket = k /\ \A f \in Field \ {"socket"} : u[f] = s[f]
    BY <2>2 DEF WellFormed, Field
  <2> HIDE DEF u
  <2>5. WellFormed(Say(u, "join")) /\ Differs(u, Say(u, "join"), {"out"})
    BY <2>4, SayFacts
  <2>6. \A f \in Field \ {"socket", "out"} : Say(u, "join")[f] = s[f]
    BY <2>4, <2>5 DEF Differs
  <2>7. Differs(s, Say(u, "join"), BuiltFields) /\ Say(u, "join").socket = k
    BY <2>4, <2>5, <2>6 DEF Differs, BuiltFields, Field
  <2> HIDE DEF t
  <2> QED
    <3>1. CASE old < WAITING_FOR_OBSERVER
      <4> DEFINE v == Say(u, "join")
      <4>1. t = v
        BY <2>1, <3>1
      <4> HIDE DEF v
      <4>2. /\ WellFormed(v) /\ Differs(s, v, BuiltFields) /\ v.delayed = s.delayed
            /\ v.held = s.held /\ v.socket = k /\ v.lit = s.lit
        BY <2>5, <2>6, <2>7 DEF Field, v
      <4>3. Built(s, v, old, new)
        BY <1>4, <2>2, <2>3, <3>1, <4>2 DEF Built
      <4> QED
        BY <4>1, <4>3 DEF t
    <3>2. CASE ~ (old < WAITING_FOR_OBSERVER)
      <4>1. t = s
        BY <2>1, <3>2
      <4>2. Built(s, s, old, new)
        BY <1>4, <2>3, <3>2, DiffersSame DEF Built
      <4> QED
        BY <4>1, <4>2 DEF t
    <3> QED
      BY <3>1, <3>2
<1>5. CASE new = WAITING_FOR_HEADSET
  <2> DEFINE h == [s.held EXCEPT !.iristick = @ + 1]
             u == [s EXCEPT !.held = h]
  <2>1. t = u
    BY <1>5 DEF Construct
  <2>2. h \in [Resource -> Int]
    BY <1>0
  <2>3. \A r \in Resource : h[r] = IF new = NeededFrom[r] THEN s.held[r] + 1 ELSE s.held[r]
    BY <1>0, <1>5, ResourceIs DEF NeededFrom
  <2> HIDE DEF h
  <2>4. /\ WellFormed(u) /\ Differs(s, u, BuiltFields) /\ u.held = h
        /\ \A f \in Field \ {"held"} : u[f] = s[f]
    BY <2>2 DEF WellFormed, Differs, BuiltFields, Field
  <2> HIDE DEF u
  <2> HIDE DEF t
  <2> QED
    BY <1>5, <2>1, <2>3, <2>4 DEF Built, Field, t
<1>6. CASE new = ESTABLISHING
  <2> DEFINE h == [s.held EXCEPT !.session = @ + 1]
             z == s.want.zoomed
             c == [offer |-> "creating", ice |-> "new"]
             u == [s EXCEPT !.held = h, !.zoomed = z, !.rtc = c]
  <2>1. t = u
    BY <1>6 DEF Construct
  <2>2. h \in [Resource -> Int] /\ z \in BOOLEAN
    BY <1>0 DEF WellFormed, Want
  <2>3. \A r \in Resource : h[r] = IF new = NeededFrom[r] THEN s.held[r] + 1 ELSE s.held[r]
    BY <1>0, <1>6, ResourceIs DEF NeededFrom
  <2> HIDE DEF h, z, c
  <2>4. /\ WellFormed(u) /\ Differs(s, u, BuiltFields) /\ u.held = h
        /\ \A f \in Field \ {"held", "zoomed", "rtc"} : u[f] = s[f]
    BY <2>2 DEF WellFormed, Differs, BuiltFields, Field
  <2> HIDE DEF u
  <2> HIDE DEF t
  <2> QED
    BY <1>6, <2>1, <2>3, <2>4 DEF Built, Field, t
<1>7. CASE new = CALL_IN_PROGRESS
  <2>1. t = ApplyParameters(s)
    BY <1>7 DEF Construct
  <2> HIDE DEF t
  <2>2. /\ WellFormed(t) /\ Differs(s, t, {"zoomed", "lit"})
        /\ t.zoomed = s.want.zoomed
        /\ t.lit = [torch |-> s.want.torch, laser |-> LaserOn(s.want)]
    BY <2>1, ApplyFacts
  <2>3. Differs(s, t, BuiltFields)
    BY <2>2 DEF Differs, BuiltFields
  <2>4. \A r \in Resource : new # NeededFrom[r]
    BY <1>7, ResourceIs DEF NeededFrom
  <2> QED
    BY <1>7, <2>2, <2>3, <2>4 DEF Built, Differs, Field, t
<1>8. CASE new = IDLE
  <2>1. t = s
    BY <1>8 DEF Construct
  <2>2. \A r \in Resource : new # NeededFrom[r]
    BY <1>8, ResourceIs DEF NeededFrom
  <2> QED
    <3> HIDE DEF t
    <3>1. Built(s, s, old, new)
      BY <1>8, <2>2, DiffersSame DEF Built
    <3> QED
      BY <2>1, <3>1 DEF t
<1> QED
  BY <1>0, <1>1, <1>2, <1>3, <1>4, <1>5, <1>6, <1>7, <1>8

-----------------------------------------------------------------------------
(* gotoState.                                                              *)

\* Each thing exists exactly in the states that need it.
Rungs(s) ==
    /\ \A r \in Resource : s.held[r] = IF s.state >= NeededFrom[r] THEN 1 ELSE 0
    /\ s.socket.at # "none" <=> s.state >= CONNECTING_TO_SERVER
    /\ s.socket.joined <=> s.state >= WAITING_FOR_OBSERVER
    /\ s.state # CALL_IN_PROGRESS => s.lit = [torch |-> FALSE, laser |-> FALSE]

HeadsetKnown(s) == s.headset <=> s.state >= ESTABLISHING

\* gotoState builds one thing, the lowest from IDLE and ERROR.
OneUp(old, new) == new <= old + 1 \/ new <= WAITING_FOR_NETWORK

NothingHeard(s) == s.state < WAITING_FOR_OBSERVER => Silent(s.queue) /\ s.socket.observer = FALSE

\* gotoState, up by one state at most, or down: every resource is there from its state on.
LEMMA GotoFacts ==
    ASSUME NEW s, WellFormed(s), NEW new \in State, OneUp(s.state, new),
           Rungs(s), PurgedIn(s.queue), NothingHeard(s),
           s.headset <=> s.state >= ESTABLISHING \/ new >= ESTABLISHING
    PROVE  LET t == GotoState(s, new)
           IN /\ WellFormed(t) /\ t.state = new /\ t.error = s.error
              /\ Rungs(t) /\ HeadsetKnown(t) /\ PurgedIn(t.queue) /\ NothingHeard(t)
              /\ Len(t.queue) <= Len(s.queue)
              /\ t.delayed =
                    (IF s.state >= ERROR /\ new <= ERROR THEN 0 ELSE s.delayed)
                    + (IF new = ERROR /\ s.error \in RetriedError THEN 1 ELSE 0)
              /\ new >= WAITING_FOR_OBSERVER =>
                    /\ t.socket.observer = s.socket.observer /\ t.misled = s.misled
                    /\ Thinned(s.queue, t.queue)
              /\ new = CALL_IN_PROGRESS =>
                    /\ t.zoomed = t.want.zoomed
                    /\ t.lit = [torch |-> t.want.torch, laser |-> LaserOn(t.want)]
<1> DEFINE a == Teardown(s, new)
           b == [a EXCEPT !.state = new]
           t == Construct(b, s.state, new)
<1>0. GotoState(s, new) = t
  BY DEF GotoState
<1>1. /\ WellFormed(a) /\ Differs(s, a, TornFields \cup {"delayed"})
      /\ PurgedIn(a.queue)
      /\ Silent(s.queue) => Silent(a.queue)
      /\ Len(a.queue) <= Len(s.queue)
      /\ \A r \in Resource :
            a.held[r] = IF Drops(s, new, r) THEN s.held[r] - 1 ELSE s.held[r]
      /\ a.headset = IF Drops(s, new, "iristick") THEN FALSE ELSE s.headset
      /\ IF Drops(s, new, "session")
         THEN a.lit = [torch |-> FALSE, laser |-> FALSE] ELSE a.lit = s.lit
      /\ IF Drops(s, new, "signal")
         THEN a.socket = NoSocket /\ a.misled = FALSE /\ Silent(a.queue)
         ELSE /\ a.socket = s.socket /\ a.misled = s.misled
              /\ Thinned(s.queue, a.queue)
      /\ a.delayed = IF s.state >= ERROR /\ new <= ERROR THEN 0 ELSE s.delayed
  BY TeardownFacts
<1> HIDE DEF a
<1>2. WellFormed(b) /\ b.state = new /\ \A f \in Field \ {"state"} : b[f] = a[f]
  BY <1>1 DEF WellFormed, Field
<1> HIDE DEF b
<1>3. s.state \in State
  BY DEF WellFormed
<1>4. /\ WellFormed(t) /\ Differs(b, t, BuiltFields)
      /\ t.delayed = IF new = ERROR /\ b.error \in RetriedError THEN b.delayed + 1
                     ELSE b.delayed
      /\ \A r \in Resource :
            t.held[r] = IF new = NeededFrom[r] THEN b.held[r] + 1 ELSE b.held[r]
      /\ t.socket.observer = b.socket.observer
      /\ t.socket.at = IF new = CONNECTING_TO_SERVER THEN "opening" ELSE b.socket.at
      /\ t.socket.joined <=> \/ new = WAITING_FOR_OBSERVER /\ s.state < WAITING_FOR_OBSERVER
                             \/ b.socket.joined
      /\ IF new = CALL_IN_PROGRESS
         THEN /\ t.zoomed = b.want.zoomed
              /\ t.lit = [torch |-> b.want.torch, laser |-> LaserOn(b.want)]
         ELSE t.lit = b.lit
  <2>1. Built(b, t, s.state, new)
    BY <1>2, <1>3, ConstructFacts
  <2> HIDE DEF t
  <2> QED
    BY <2>1 DEF Built
<1> HIDE DEF t
<1> USE DEF IDLE, ERROR, WAITING_FOR_NETWORK, CONNECTING_TO_SERVER, WAITING_FOR_OBSERVER,
            WAITING_FOR_HEADSET, ESTABLISHING, CALL_IN_PROGRESS
<1>n. /\ s.state \in 0 .. 7 /\ new \in 0 .. 7
      /\ NeededFrom["monitor"] = 2 /\ NeededFrom["signal"] = 3
      /\ NeededFrom["iristick"] = 5 /\ NeededFrom["session"] = 6
      /\ \A r \in Resource : NeededFrom[r] \in 2 .. 6
      /\ \A r : Drops(s, new, r) <=> s.state >= NeededFrom[r] /\ new <= NeededFrom[r]
  BY <1>3, ResourceIs DEF State, NeededFrom, Drops
<1>5. /\ t.state = new /\ t.queue = a.queue /\ t.misled = a.misled /\ t.headset = a.headset
      /\ t.want = b.want
  BY <1>2, <1>4 DEF Differs, BuiltFields, Field
<1>6. /\ a.error = s.error /\ b.error = a.error /\ t.error = b.error
      /\ b.delayed = a.delayed /\ b.held = a.held
      /\ b.socket = a.socket /\ b.lit = a.lit
  BY <1>1, <1>2, <1>4 DEF Differs, BuiltFields, TornFields, Field
<1>7. \A r \in Resource : t.held[r] = IF new >= NeededFrom[r] THEN 1 ELSE 0
  <2> SUFFICES ASSUME NEW r \in Resource
               PROVE  t.held[r] = IF new >= NeededFrom[r] THEN 1 ELSE 0
    OBVIOUS
  <2>1. /\ s.held[r] = IF s.state >= NeededFrom[r] THEN 1 ELSE 0
        /\ a.held[r] = IF Drops(s, new, r) THEN s.held[r] - 1 ELSE s.held[r]
        /\ t.held[r] = IF new = NeededFrom[r] THEN a.held[r] + 1 ELSE a.held[r]
        /\ NeededFrom[r] \in 2 .. 6
        /\ Drops(s, new, r) <=> s.state >= NeededFrom[r] /\ new <= NeededFrom[r]
    BY <1>1, <1>4, <1>6, <1>n DEF Rungs
  <2> QED
    BY <1>n, <2>1 DEF OneUp
<1>8. /\ t.socket.at # "none" <=> new >= CONNECTING_TO_SERVER
      /\ t.socket.joined <=> new >= WAITING_FOR_OBSERVER
  <2>1. CASE Drops(s, new, "signal")
    BY <1>1, <1>4, <1>6, <1>n, <2>1 DEF OneUp, NoSocket
  <2>2. CASE ~ Drops(s, new, "signal")
    <3>1. a.socket = s.socket /\ (s.state < 3 \/ new > 3)
      BY <1>1, <1>n, <2>2
    <3>2. /\ s.socket.at # "none" <=> s.state >= 3
          /\ s.socket.joined <=> s.state >= 4
      BY DEF Rungs
    <3>3. t.socket.at = IF new = 3 THEN "opening" ELSE s.socket.at
      BY <1>4, <1>6, <3>1
    <3>4. t.socket.joined <=> (new = 4 /\ s.state < 4) \/ s.socket.joined
      BY <1>4, <1>6, <3>1
    <3>5. (s.state < 3 /\ new <= 3) \/ (s.state >= 3 /\ new > 3 /\ (new = 4 \/ s.state >= 4))
      BY <1>n, <3>1 DEF OneUp
    <3>6. t.socket.at # "none" <=> new >= 3
      BY <1>n, <3>2, <3>3, <3>5
    <3>7. t.socket.joined <=> new >= 4
      BY <1>n, <3>2, <3>4, <3>5
    <3> QED
      BY <3>6, <3>7
  <2> QED
    BY <2>1, <2>2
<1>9. new # CALL_IN_PROGRESS => t.lit = [torch |-> FALSE, laser |-> FALSE]
  BY <1>1, <1>4, <1>6, <1>n DEF Rungs
<1>10. HeadsetKnown(t)
  BY <1>1, <1>5, <1>n DEF HeadsetKnown, OneUp
<1>11. NothingHeard(t)
  <2> SUFFICES ASSUME new < WAITING_FOR_OBSERVER
               PROVE  Silent(a.queue) /\ a.socket.observer = FALSE
    BY <1>4, <1>5, <1>6 DEF NothingHeard
  <2>1. CASE Drops(s, new, "signal")
    BY <1>1, <2>1 DEF NoSocket
  <2>2. CASE ~ Drops(s, new, "signal")
    BY <1>1, <1>n, <2>2 DEF NothingHeard
  <2> QED
    BY <2>1, <2>2
<1>12. new >= WAITING_FOR_OBSERVER =>
         /\ t.socket.observer = s.socket.observer /\ t.misled = s.misled
         /\ Thinned(s.queue, t.queue)
  BY <1>1, <1>4, <1>5, <1>6, <1>n
<1>13. t.delayed = (IF s.state >= ERROR /\ new <= ERROR THEN 0 ELSE s.delayed)
                   + (IF new = ERROR /\ s.error \in RetriedError THEN 1 ELSE 0)
  BY <1>1, <1>4, <1>6 DEF WellFormed
<1>14. Rungs(t)
  BY <1>5, <1>7, <1>8, <1>9 DEF Rungs
<1> QED
  BY <1>0, <1>1, <1>4, <1>5, <1>6, <1>10, <1>11, <1>12, <1>13, <1>14

-----------------------------------------------------------------------------
(* The inductive invariant.                                                *)

\* The machine agrees with the last word on the observer that is on its way, or,
\* when there is none, with the last one that was.
Believed(s) ==
    s.state >= WAITING_FOR_OBSERVER /\ ~ s.misled =>
        \/ LastWord(s.queue, s.socket.observer)
        \/ Silent(s.queue) /\ (s.state > WAITING_FOR_OBSERVER <=> s.socket.observer)

\* ParametersApplied, of any call.
Shown(s) ==
    /\ s.state = CALL_IN_PROGRESS
    /\ \A i \in DOMAIN s.queue : s.queue[i].what # "PARAMETERS_CHANGED"
    => /\ s.zoomed = s.want.zoomed
       /\ s.lit = [torch |-> s.want.torch, laser |-> LaserOn(s.want)]

\* RetryArmed, of any call.
Retrying(s) ==
    /\ s.delayed > 0 => s.delayed = 1 /\ s.state = ERROR /\ s.error \in RetriedError
    /\ s.state = ERROR /\ s.error \in RetriedError
       => \/ s.delayed = 1
          \/ \E i \in DOMAIN s.queue : s.queue[i].what = "RESTART"

\* Others post below MaxQueue only; what the retry posts was counted before.
Sized(s) == Len(s.queue) + s.delayed <= MaxQueue + 1

CallInv(s) ==
    /\ WellFormed(s) /\ Rungs(s) /\ HeadsetKnown(s) /\ PurgedIn(s.queue)
    /\ NothingHeard(s) /\ Believed(s) /\ Shown(s) /\ Retrying(s) /\ Sized(s)

-----------------------------------------------------------------------------
(* The handler takes a message.                                            *)

\* The fields no part of the invariant depends on, beyond their shape.
Aside == {"out", "rtc", "sink", "view", "network", "glasses", "overtaken"}

\* What else changes does not touch the invariant.
LEMMA AsideFacts ==
    ASSUME NEW s, NEW t, WellFormed(t), Differs(s, t, Aside), CallInv(s)
    PROVE  CallInv(t)
<1>1. /\ t.state = s.state /\ t.error = s.error /\ t.queue = s.queue
      /\ t.delayed = s.delayed /\ t.held = s.held /\ t.headset = s.headset
      /\ t.want = s.want /\ t.lit = s.lit /\ t.zoomed = s.zoomed
      /\ t.socket = s.socket /\ t.misled = s.misled
  BY DEF Differs, Aside, Field
<1>2. /\ Rungs(s) /\ HeadsetKnown(s) /\ PurgedIn(s.queue)
      /\ NothingHeard(s) /\ Believed(s) /\ Shown(s) /\ Retrying(s) /\ Sized(s)
  BY DEF CallInv
<1>3. Rungs(t) /\ HeadsetKnown(t) /\ PurgedIn(t.queue) /\ NothingHeard(t)
  BY <1>1, <1>2 DEF Rungs, HeadsetKnown, NothingHeard
<1>4. Believed(t)
  BY <1>1, <1>2 DEF Believed
<1>5. Shown(t)
  BY <1>1, <1>2 DEF Shown
<1>6. Retrying(t) /\ Sized(t)
  BY <1>1, <1>2 DEF Retrying, Sized
<1> QED
  BY <1>3, <1>4, <1>5, <1>6 DEF CallInv

\* A queue is its head and its tail.
LEMMA TailFacts ==
    ASSUME NEW q \in Seq(Message), q # <<>>
    PROVE  /\ Head(q) \in Message /\ Tail(q) \in Seq(Message) /\ Len(Tail(q)) = Len(q) - 1
           /\ DOMAIN Tail(q) = 1 .. Len(q) - 1 /\ DOMAIN q = 1 .. Len(q) /\ 1 \in DOMAIN q
           /\ Len(q) \in Nat \ {0} /\ Head(q) = q[1]
           /\ \A i \in DOMAIN Tail(q) : i + 1 \in DOMAIN q /\ Tail(q)[i] = q[i + 1]
           /\ \A i \in DOMAIN q : i # 1 => i - 1 \in DOMAIN Tail(q) /\ Tail(q)[i - 1] = q[i]
<1>1. /\ Len(q) \in Nat \ {0} /\ DOMAIN q = 1 .. Len(q) /\ Head(q) = q[1]
      /\ \A i \in 1 .. Len(q) : q[i] \in Message
  OBVIOUS
<1>2. Tail(q) \in Seq(Message) /\ Len(Tail(q)) = Len(q) - 1
  OBVIOUS
<1>3. DOMAIN Tail(q) = 1 .. Len(q) - 1
  BY <1>2
<1>4. \A i \in 1 .. Len(q) - 1 : Tail(q)[i] = q[i + 1]
  OBVIOUS
<1>5. ASSUME NEW i \in 1 .. Len(q), i # 1
      PROVE  i - 1 \in 1 .. Len(q) - 1 /\ Tail(q)[i - 1] = q[i]
  <2>1. i - 1 \in 1 .. Len(q) - 1 /\ (i - 1) + 1 = i
    BY <1>1, <1>5
  <2> QED
    BY <1>4, <2>1
<1>6. \A i \in 1 .. Len(q) - 1 : i + 1 \in 1 .. Len(q)
  BY <1>1
<1>7. 1 \in 1 .. Len(q)
  BY <1>1
<1>8. Head(q) \in Message
  BY <1>1, <1>7
<1> DEFINE v == Tail(q)
<1>9. /\ v \in Seq(Message) /\ Len(v) = Len(q) - 1 /\ DOMAIN v = 1 .. Len(q) - 1
      /\ \A i \in 1 .. Len(q) - 1 : v[i] = q[i + 1]
      /\ \A i \in 1 .. Len(q) : i # 1 => i - 1 \in 1 .. Len(q) - 1 /\ v[i - 1] = q[i]
  BY <1>2, <1>3, <1>4, <1>5
<1> HIDE DEF v
<1>10. /\ \A i \in DOMAIN v : i + 1 \in DOMAIN q /\ v[i] = q[i + 1]
       /\ \A i \in DOMAIN q : i # 1 => i - 1 \in DOMAIN v /\ v[i - 1] = q[i]
  BY <1>1, <1>6, <1>9
<1>11. v = Tail(q)
  BY DEF v
<1> QED
  BY <1>1, <1>7, <1>8, <1>9, <1>10, <1>11

\* A queue without its head: the last word on the observer stays the last, unless it was
\* the head.
LEMMA TailQueue ==
    ASSUME NEW q \in Seq(Message), q # <<>>
    PROVE  /\ PurgedIn(q) => PurgedIn(Tail(q))
           /\ Silent(q) => Silent(Tail(q)) /\ ~ Word(Head(q))
           /\ \A b \in BOOLEAN : LastWord(q, b) =>
                \/ LastWord(Tail(q), b)
                \/ /\ Silent(Tail(q)) /\ Word(Head(q))
                   /\ (Head(q).what = "SIGNALING_OBSERVER_JOINED") <=> b
<1>1. PurgedIn(q) => PurgedIn(Tail(q))
  BY TailFacts DEF PurgedIn
<1>2. Silent(q) => Silent(Tail(q)) /\ ~ Word(Head(q))
  BY TailFacts DEF Silent
<1>3. ASSUME NEW b \in BOOLEAN, LastWord(q, b)
      PROVE  \/ LastWord(Tail(q), b)
             \/ /\ Silent(Tail(q)) /\ Word(Head(q))
                /\ (Head(q).what = "SIGNALING_OBSERVER_JOINED") <=> b
  <2>1. PICK i \in DOMAIN q : /\ Word(q[i])
                              /\ (q[i].what = "SIGNALING_OBSERVER_JOINED") <=> b
                              /\ \A j \in DOMAIN q : j > i => ~ Word(q[j])
    BY <1>3 DEF LastWord
  <2>2. \A j \in DOMAIN Tail(q) : j + 1 > i => ~ Word(Tail(q)[j])
    BY <2>1, TailFacts
  <2>3. CASE i = 1
    <3>1. Silent(Tail(q))
      BY <2>2, <2>3, TailFacts DEF Silent
    <3> QED
      BY <2>1, <2>3, <3>1, TailFacts
  <2>4. CASE i # 1
    <3>1. i - 1 \in DOMAIN Tail(q) /\ Tail(q)[i - 1] = q[i]
      BY <2>4, TailFacts
    <3>2. \A j \in DOMAIN Tail(q) : j > i - 1 => ~ Word(Tail(q)[j])
      BY <2>2, TailFacts
    <3> QED
      BY <2>1, <3>1, <3>2 DEF LastWord
  <2> QED
    BY <2>3, <2>4
<1> QED
  BY <1>1, <1>2, <1>3

\* What the handler of m, having taken it, finds of the invariant.
Between(s, m) ==
    /\ WellFormed(s) /\ m \in Message
    /\ Rungs(s) /\ HeadsetKnown(s) /\ PurgedIn(s.queue) /\ NothingHeard(s)
    /\ Len(s.queue) + s.delayed <= MaxQueue
    /\ s.delayed > 0 => s.delayed = 1 /\ s.state = ERROR /\ s.error \in RetriedError
    /\ s.state >= WAITING_FOR_OBSERVER /\ ~ s.misled =>
          \/ LastWord(s.queue, s.socket.observer)
          \/ /\ Silent(s.queue)
             /\ IF m.what \in WordWhat
                THEN (m.what = "SIGNALING_OBSERVER_JOINED") <=> s.socket.observer
                ELSE s.state > WAITING_FOR_OBSERVER <=> s.socket.observer

\* The call as the handler finds it, with the message it took.
LEMMA TakenFacts ==
    ASSUME CallInv(call), call.queue # <<>>
    PROVE  /\ Between(Taken, Head(call.queue)) /\ Taken.queue = Tail(call.queue)
           /\ Differs(call, Taken, {"queue", "out", "misled"})
<1> DEFINE q == Tail(call.queue)
           m == Head(call.queue)
           l == \/ call.misled
                \/ /\ m.age = "late"
                   /\ m.what \in Listener["signal"]
           t == [call EXCEPT !.queue = q, !.out = <<>>, !.misled = l]
<1>1. /\ WellFormed(call) /\ Rungs(call) /\ HeadsetKnown(call) /\ PurgedIn(call.queue)
      /\ NothingHeard(call) /\ Believed(call) /\ Retrying(call) /\ Sized(call)
  BY DEF CallInv
<1>2. call.queue \in Seq(Message) /\ call.misled \in BOOLEAN
  BY <1>1 DEF WellFormed
<1>3. /\ m \in Message /\ q \in Seq(Message) /\ Len(q) = Len(call.queue) - 1
      /\ Len(call.queue) \in Nat
  BY <1>2, TailFacts
<1>4. Taken = t
  BY DEF Taken
<1>5. l \in BOOLEAN /\ (l <=> call.misled \/ (m.age = "late" /\ m.what \in Listener["signal"]))
  BY <1>2
<1> HIDE DEF l
<1>q. /\ PurgedIn(call.queue) => PurgedIn(q)
      /\ Silent(call.queue) => Silent(q) /\ ~ Word(m)
      /\ \A b \in BOOLEAN : LastWord(call.queue, b) =>
            \/ LastWord(q, b)
            \/ Silent(q) /\ Word(m) /\ ((m.what = "SIGNALING_OBSERVER_JOINED") <=> b)
  BY <1>2, TailQueue
<1> HIDE DEF q, m
<1>6. /\ WellFormed(t) /\ Differs(call, t, {"queue", "out", "misled"})
      /\ t.queue = q /\ t.misled = l
  BY <1>1, <1>3, <1>5 DEF WellFormed, Differs, Field
<1> HIDE DEF t
<1>7. /\ t.state = call.state /\ t.error = call.error /\ t.delayed = call.delayed
      /\ t.held = call.held /\ t.headset = call.headset /\ t.lit = call.lit
      /\ t.socket = call.socket
  BY <1>6 DEF Differs, Field
<1>8. Rungs(t) /\ HeadsetKnown(t) /\ PurgedIn(t.queue) /\ NothingHeard(t)
  BY <1>1, <1>6, <1>7, <1>q DEF Rungs, HeadsetKnown, NothingHeard
<1>9. /\ Len(t.queue) + t.delayed <= MaxQueue
      /\ t.delayed > 0 => t.delayed = 1 /\ t.state = ERROR /\ t.error \in RetriedError
  BY <1>1, <1>3, <1>6, <1>7, Bounds DEF Sized, Retrying, WellFormed
<1>10. ASSUME t.state >= WAITING_FOR_OBSERVER, ~ t.misled
       PROVE  \/ LastWord(t.queue, t.socket.observer)
              \/ /\ Silent(t.queue)
                 /\ IF m.what \in WordWhat
                    THEN (m.what = "SIGNALING_OBSERVER_JOINED") <=> t.socket.observer
                    ELSE t.state > WAITING_FOR_OBSERVER <=> t.socket.observer
  <2>1. \/ LastWord(call.queue, call.socket.observer)
        \/ /\ Silent(call.queue)
           /\ call.state > WAITING_FOR_OBSERVER <=> call.socket.observer
    BY <1>1, <1>5, <1>6, <1>7, <1>10 DEF Believed
  <2>2. WordWhat \subseteq Listener["signal"]
    BY DEF WordWhat, Listener, ServerWhat
  <2>3. m.what \in WordWhat => Word(m)
    BY <1>5, <1>6, <1>10, <2>2 DEF Word
  <2>4. call.socket.observer \in BOOLEAN
    BY <1>1, SocketIs DEF WellFormed
  <2>5. Word(m) => m.what \in WordWhat
    BY DEF Word
  <2>6. CASE LastWord(call.queue, call.socket.observer)
    BY <1>6, <1>7, <1>q, <2>4, <2>5, <2>6
  <2>7. CASE /\ Silent(call.queue)
             /\ call.state > WAITING_FOR_OBSERVER <=> call.socket.observer
    BY <1>6, <1>7, <1>q, <2>3, <2>7
  <2> QED
    BY <2>1, <2>6, <2>7
<1> QED
  BY <1>3, <1>4, <1>6, <1>8, <1>9, <1>10 DEF Between, q, m

\* What makes going to state new keep the invariant.
Ready(s, new) ==
    /\ WellFormed(s) /\ Rungs(s) /\ PurgedIn(s.queue) /\ NothingHeard(s)
    /\ OneUp(s.state, new)
    /\ s.headset <=> s.state >= ESTABLISHING \/ new >= ESTABLISHING
    /\ Len(s.queue) <= MaxQueue
    /\ s.delayed = 0 \/ (s.state >= ERROR /\ new <= ERROR)
    /\ new >= WAITING_FOR_OBSERVER /\ ~ s.misled =>
          \/ LastWord(s.queue, s.socket.observer)
          \/ Silent(s.queue) /\ (new > WAITING_FOR_OBSERVER <=> s.socket.observer)

\* gotoState from a call that is ready for it restores the invariant.
LEMMA GotoKeeps ==
    ASSUME NEW s, NEW new \in State, Ready(s, new)
    PROVE  CallInv(GotoState(s, new))
<1> DEFINE t == GotoState(s, new)
<1>1. /\ WellFormed(s) /\ Rungs(s) /\ PurgedIn(s.queue) /\ NothingHeard(s)
      /\ OneUp(s.state, new)
      /\ s.headset <=> s.state >= ESTABLISHING \/ new >= ESTABLISHING
  BY DEF Ready
<1>2. /\ WellFormed(t) /\ t.state = new /\ t.error = s.error
      /\ Rungs(t) /\ HeadsetKnown(t) /\ PurgedIn(t.queue) /\ NothingHeard(t)
      /\ Len(t.queue) <= Len(s.queue)
      /\ t.delayed = (IF s.state >= ERROR /\ new <= ERROR THEN 0 ELSE s.delayed)
                     + (IF new = ERROR /\ s.error \in RetriedError THEN 1 ELSE 0)
      /\ new >= WAITING_FOR_OBSERVER =>
            /\ t.socket.observer = s.socket.observer /\ t.misled = s.misled
            /\ Thinned(s.queue, t.queue)
      /\ new = CALL_IN_PROGRESS =>
            /\ t.zoomed = t.want.zoomed
            /\ t.lit = [torch |-> t.want.torch, laser |-> LaserOn(t.want)]
  BY <1>1, GotoFacts
<1> HIDE DEF t
<1>3. Believed(t)
  <2> SUFFICES ASSUME new >= WAITING_FOR_OBSERVER, ~ t.misled
               PROVE  \/ LastWord(t.queue, t.socket.observer)
                      \/ /\ Silent(t.queue)
                         /\ new > WAITING_FOR_OBSERVER <=> t.socket.observer
    BY <1>2 DEF Believed
  <2>1. s.socket.observer \in BOOLEAN
    BY <1>1, SocketIs DEF WellFormed
  <2>2. \/ LastWord(s.queue, s.socket.observer)
        \/ /\ Silent(s.queue)
           /\ new > WAITING_FOR_OBSERVER <=> s.socket.observer
    BY <1>2 DEF Ready
  <2>3. CASE LastWord(s.queue, s.socket.observer)
    BY <1>2, <2>1, <2>3 DEF Thinned
  <2>4. CASE /\ Silent(s.queue)
             /\ new > WAITING_FOR_OBSERVER <=> s.socket.observer
    BY <1>2, <2>4 DEF Thinned
  <2> QED
    BY <2>2, <2>3, <2>4
<1>4. Shown(t)
  BY <1>2 DEF Shown
<1>5. s.delayed \in Nat /\ s.state \in 0 .. 7 /\ new \in 0 .. 7
  BY <1>1 DEF WellFormed, State, IDLE, CALL_IN_PROGRESS
<1>6. t.delayed = IF new = ERROR /\ s.error \in RetriedError THEN 1 ELSE 0
  BY <1>2, <1>5 DEF Ready
<1>7. Retrying(t)
  BY <1>2, <1>6 DEF Retrying
<1>8. Len(t.queue) \in Nat /\ Len(s.queue) \in Nat
  BY <1>1, <1>2 DEF WellFormed
<1>9. Sized(t)
  BY <1>2, <1>6, <1>8, Bounds DEF Ready, Sized
<1> QED
  BY <1>2, <1>3, <1>4, <1>7, <1>9 DEF CallInv, t

\* A state is one of the eight ordinals.
LEMMA StateIs ==
    ASSUME NEW s, WellFormed(s)
    PROVE  s.state \in 0 .. 7
BY DEF WellFormed, State, IDLE, CALL_IN_PROGRESS

\* The moves of the handlers that do not change anything else first.
LEMMA MoveKeeps ==
    ASSUME NEW s, NEW m, Between(s, m), NEW new \in State, OneUp(s.state, new),
           new >= ESTABLISHING => s.state >= ESTABLISHING,
           s.state = ERROR => new <= ERROR,
           new >= WAITING_FOR_OBSERVER =>
              IF m.what \in WordWhat
              THEN new = IF m.what = "SIGNALING_OBSERVER_JOINED" THEN WAITING_FOR_HEADSET
                         ELSE WAITING_FOR_OBSERVER
              ELSE new > WAITING_FOR_OBSERVER <=> s.state > WAITING_FOR_OBSERVER,
           m.what \in WordWhat => s.state >= WAITING_FOR_OBSERVER
    PROVE  CallInv(GotoState(s, new))
<1> USE DEF ERROR, WAITING_FOR_NETWORK, CONNECTING_TO_SERVER, WAITING_FOR_OBSERVER,
            WAITING_FOR_HEADSET, ESTABLISHING, CALL_IN_PROGRESS
<1>1. /\ WellFormed(s) /\ Rungs(s) /\ HeadsetKnown(s) /\ PurgedIn(s.queue) /\ NothingHeard(s)
      /\ Len(s.queue) + s.delayed <= MaxQueue
      /\ s.delayed > 0 => s.delayed = 1 /\ s.state = ERROR /\ s.error \in RetriedError
      /\ s.state \in 0 .. 7 /\ new \in 0 .. 7
  BY StateIs DEF Between, State, IDLE
<1>2. s.delayed \in Nat /\ Len(s.queue) \in Nat
  BY <1>1 DEF WellFormed
<1>3. s.headset <=> s.state >= ESTABLISHING \/ new >= ESTABLISHING
  BY <1>1 DEF HeadsetKnown
<1>4. /\ Len(s.queue) <= MaxQueue
      /\ s.delayed = 0 \/ (s.state >= ERROR /\ new <= ERROR)
  BY <1>1, <1>2, Bounds
<1>5. ASSUME new >= WAITING_FOR_OBSERVER, ~ s.misled
      PROVE  \/ LastWord(s.queue, s.socket.observer)
             \/ Silent(s.queue) /\ (new > WAITING_FOR_OBSERVER <=> s.socket.observer)
  <2>1. CASE s.state < WAITING_FOR_OBSERVER
    <3>1. Silent(s.queue) /\ s.socket.observer = FALSE
      BY <1>1, <2>1 DEF NothingHeard
    <3>2. ~ (new > WAITING_FOR_OBSERVER)
      BY <1>1, <2>1 DEF OneUp
    <3> QED
      BY <3>1, <3>2
  <2>2. CASE s.state >= WAITING_FOR_OBSERVER
    <3>1. \/ LastWord(s.queue, s.socket.observer)
          \/ /\ Silent(s.queue)
             /\ IF m.what \in WordWhat
                THEN (m.what = "SIGNALING_OBSERVER_JOINED") <=> s.socket.observer
                ELSE s.state > WAITING_FOR_OBSERVER <=> s.socket.observer
      BY <1>5, <2>2 DEF Between
    <3>2. CASE m.what \in WordWhat
      BY <1>5, <3>1, <3>2
    <3>3. CASE m.what \notin WordWhat
      BY <1>5, <3>1, <3>3
    <3> QED
      BY <3>2, <3>3
  <2> QED
    BY <1>1, <2>1, <2>2
<1>6. Ready(s, new)
  BY <1>1, <1>3, <1>4, <1>5 DEF Ready
<1> QED
  BY <1>6, GotoKeeps

\* gotoError keeps the invariant, from any state.
LEMMA ErrorKeeps ==
    ASSUME NEW s, NEW m, Between(s, m), NEW e \in CallError \cup {NoError}
    PROVE  CallInv(GotoError(s, e))
<1> DEFINE u == [s EXCEPT !.error = e]
<1>1. /\ WellFormed(s) /\ Rungs(s) /\ HeadsetKnown(s) /\ PurgedIn(s.queue) /\ NothingHeard(s)
      /\ Len(s.queue) + s.delayed <= MaxQueue
      /\ s.delayed > 0 => s.delayed = 1 /\ s.state = ERROR /\ s.error \in RetriedError
      /\ s.state \in 0 .. 7
  BY StateIs DEF Between
<1>2. s.delayed \in Nat /\ Len(s.queue) \in Nat
  BY <1>1 DEF WellFormed
<1>3. WellFormed(u) /\ \A f \in Field \ {"error"} : u[f] = s[f]
  BY <1>1 DEF WellFormed, Field
<1>4. GotoError(s, e) = GotoState(u, ERROR)
  BY DEF GotoError
<1> HIDE DEF u
<1>5. /\ u.state = s.state /\ u.delayed = s.delayed /\ u.held = s.held
      /\ u.queue = s.queue /\ u.headset = s.headset /\ u.socket = s.socket /\ u.lit = s.lit
  BY <1>3 DEF Field
<1>6. Rungs(u) /\ PurgedIn(u.queue) /\ NothingHeard(u)
  BY <1>1, <1>5 DEF Rungs, NothingHeard
<1>7. ERROR \in State /\ OneUp(u.state, ERROR)
  BY <1>1 DEF State, IDLE, ERROR, CALL_IN_PROGRESS, OneUp, WAITING_FOR_NETWORK
<1>8. u.headset <=> u.state >= ESTABLISHING \/ ERROR >= ESTABLISHING
  BY <1>1, <1>5 DEF HeadsetKnown, ESTABLISHING, ERROR
<1>9. /\ Len(u.queue) <= MaxQueue
      /\ u.delayed = 0 \/ (u.state >= ERROR /\ ERROR <= ERROR)
      /\ ~ (ERROR >= WAITING_FOR_OBSERVER)
  BY <1>1, <1>2, <1>5, Bounds DEF ERROR, WAITING_FOR_OBSERVER
<1>10. Ready(u, ERROR)
  BY <1>3, <1>6, <1>7, <1>8, <1>9 DEF Ready
<1> QED
  BY <1>4, <1>7, <1>10, GotoKeeps

\* A message that changes nothing, or is not handled in this state.
LEMMA StayKeeps ==
    ASSUME CallInv(call), call.queue # <<>>,
           Head(call.queue).what = "RESTART" => call.state # ERROR,
           Head(call.queue).what = "PARAMETERS_CHANGED" => call.state # CALL_IN_PROGRESS,
           Head(call.queue).what = "SIGNALING_OBSERVER_JOINED"
              => call.state # WAITING_FOR_OBSERVER,
           Head(call.queue).what = "SIGNALING_LEAVE"
              => call.state <= WAITING_FOR_OBSERVER
    PROVE  CallInv(Taken)
<1> DEFINE m == Head(call.queue)
           t == Taken
<1>1. /\ WellFormed(call) /\ Shown(call) /\ Retrying(call)
  BY DEF CallInv
<1>2. /\ Between(t, m) /\ t.queue = Tail(call.queue)
      /\ Differs(call, t, {"queue", "out", "misled"})
  BY TakenFacts
<1>3. call.queue \in Seq(Message) /\ call.state \in 0 .. 7
  BY <1>1, StateIs DEF WellFormed
<1>4. \A i \in DOMAIN call.queue :
         call.queue[i] = m \/ \E k \in DOMAIN t.queue : t.queue[k] = call.queue[i]
  <2> SUFFICES ASSUME NEW i \in DOMAIN call.queue, call.queue[i] # m
               PROVE  \E k \in DOMAIN Tail(call.queue) : Tail(call.queue)[k] = call.queue[i]
    BY <1>2
  <2>1. i # 1
    BY <1>3, TailFacts
  <2>2. /\ i - 1 \in DOMAIN Tail(call.queue)
        /\ Tail(call.queue)[i - 1] = call.queue[i]
    BY <1>3, <2>1, TailFacts
  <2> QED
    BY <2>2
<1> HIDE DEF t, m
<1>5. /\ t.state = call.state /\ t.error = call.error /\ t.delayed = call.delayed
      /\ t.want = call.want /\ t.lit = call.lit /\ t.zoomed = call.zoomed
  BY <1>2 DEF Differs, Field
<1>6. Believed(t)
  <2> SUFFICES ASSUME t.state >= WAITING_FOR_OBSERVER, ~ t.misled
               PROVE  \/ LastWord(t.queue, t.socket.observer)
                      \/ /\ Silent(t.queue)
                         /\ t.state > WAITING_FOR_OBSERVER <=> t.socket.observer
    BY DEF Believed
  <2>1. \/ LastWord(t.queue, t.socket.observer)
        \/ /\ Silent(t.queue)
           /\ IF m.what \in WordWhat
              THEN (m.what = "SIGNALING_OBSERVER_JOINED") <=> t.socket.observer
              ELSE t.state > WAITING_FOR_OBSERVER <=> t.socket.observer
    BY <1>2 DEF Between
  <2>2. ASSUME m.what \in WordWhat
        PROVE  (m.what = "SIGNALING_OBSERVER_JOINED") <=> t.state > WAITING_FOR_OBSERVER
    BY <1>3, <1>5, <2>2 DEF m, WordWhat, WAITING_FOR_OBSERVER
  <2>3. CASE m.what \in WordWhat
    BY <2>1, <2>2, <2>3
  <2>4. CASE m.what \notin WordWhat
    BY <2>1, <2>4
  <2> QED
    BY <2>3, <2>4
<1>7. Shown(t)
  <2> SUFFICES ASSUME t.state = CALL_IN_PROGRESS,
                      \A i \in DOMAIN t.queue : t.queue[i].what # "PARAMETERS_CHANGED"
               PROVE  /\ t.zoomed = t.want.zoomed
                      /\ t.lit = [torch |-> t.want.torch, laser |-> LaserOn(t.want)]
    BY DEF Shown
  <2>1. m.what # "PARAMETERS_CHANGED"
    BY <1>5 DEF m
  <2>2. \A i \in DOMAIN call.queue : call.queue[i].what # "PARAMETERS_CHANGED"
    BY <1>4, <2>1
  <2> QED
    BY <1>1, <1>5, <2>2 DEF Shown
<1>8. Retrying(t)
  <2>1. ASSUME t.state = ERROR, NEW i \in DOMAIN call.queue, call.queue[i].what = "RESTART"
        PROVE  \E k \in DOMAIN t.queue : t.queue[k].what = "RESTART"
    <3>1. m.what # "RESTART"
      BY <1>5, <2>1 DEF m
    <3> QED
      BY <1>4, <2>1, <3>1
  <2> QED
    BY <1>1, <1>5, <2>1 DEF Retrying
<1>9. Sized(t)
  <2>1. t.delayed \in Nat /\ Len(t.queue) \in Nat /\ Len(t.queue) + t.delayed <= MaxQueue
    BY <1>2 DEF Between, WellFormed
  <2> QED
    BY <2>1, Bounds DEF Sized
<1>10. /\ WellFormed(t) /\ Rungs(t) /\ HeadsetKnown(t) /\ PurgedIn(t.queue)
       /\ NothingHeard(t)
  BY <1>2 DEF Between
<1>11. CallInv(t)
  BY <1>6, <1>7, <1>8, <1>9, <1>10 DEF CallInv
<1> QED
  BY <1>11 DEF t

-----------------------------------------------------------------------------
(* The handlers.                                                           *)

\* The states in which handleMessage answers these kinds.
LEMMA HandledFacts ==
    /\ HandledIn["START"] = {IDLE} /\ HandledIn["STOP"] = State
    /\ HandledIn["RESTART"] = {ERROR}
    /\ HandledIn["NETWORK_AVAILABLE"] = {WAITING_FOR_NETWORK}
    /\ HandledIn["NETWORK_LOST"] = From(CONNECTING_TO_SERVER)
    /\ HandledIn["WEBSOCKET_CONNECTED"] = {CONNECTING_TO_SERVER}
    /\ HandledIn["WEBSOCKET_CLOSED"] = From(CONNECTING_TO_SERVER)
    /\ HandledIn["SIGNALING_OBSERVER_JOINED"] = {WAITING_FOR_OBSERVER}
    /\ HandledIn["SIGNALING_LEAVE"] = From(WAITING_FOR_HEADSET)
    /\ HandledIn["SIGNALING_RESET"] = From(ESTABLISHING)
    /\ HandledIn["HEADSET_CONNECTED"] = {WAITING_FOR_HEADSET}
    /\ HandledIn["HEADSET_DISCONNECTED"] = From(ESTABLISHING)
    /\ HandledIn["PC_ICE_CONNECTED"] = From(ESTABLISHING)
    /\ HandledIn["PC_ICE_FAILED"] = From(ESTABLISHING)
    /\ HandledIn["PARAMETERS_CHANGED"] = {CALL_IN_PROGRESS}
BY DEF HandledIn

\* The states from s on.
LEMMA FromIs ==
    ASSUME NEW s, NEW t \in From(s)
    PROVE  t \in State /\ t >= s
BY DEF From

\* What is known when a message is handled.
LEMMA TakeFacts ==
    ASSUME CallInv(call), NEW what, Take(what)
    PROVE  /\ call.queue # <<>> /\ Head(call.queue).what = what
           /\ call.state \in HandledIn[what] /\ call.state \in 0 .. 7
           /\ Between(Taken, Head(call.queue)) /\ WellFormed(Taken)
           /\ \A f \in Field \ {"queue", "out", "misled"} : Taken[f] = call[f]
           /\ Taken.state = call.state /\ Head(call.queue) \in Message
<1>1. /\ call.queue # <<>> /\ Head(call.queue).what = what
      /\ call.state \in HandledIn[what]
  BY DEF Take
<1>2. Between(Taken, Head(call.queue)) /\ Differs(call, Taken, {"queue", "out", "misled"})
  BY <1>1, TakenFacts
<1>3. call.state \in 0 .. 7
  BY StateIs DEF CallInv
<1>4. Taken.state = call.state
  BY <1>2 DEF Differs, Field
<1> QED
  BY <1>1, <1>2, <1>3, <1>4 DEF Between, Differs

\* MoveKeeps, for the handler of one kind of message.
LEMMA GoesKeep ==
    ASSUME CallInv(call), NEW what, Take(what), NEW new \in State, OneUp(call.state, new),
           new >= ESTABLISHING => call.state >= ESTABLISHING,
           call.state = ERROR => new <= ERROR,
           new >= WAITING_FOR_OBSERVER =>
              IF what \in WordWhat
              THEN new = IF what = "SIGNALING_OBSERVER_JOINED" THEN WAITING_FOR_HEADSET
                         ELSE WAITING_FOR_OBSERVER
              ELSE new > WAITING_FOR_OBSERVER <=> call.state > WAITING_FOR_OBSERVER,
           what \in WordWhat => call.state >= WAITING_FOR_OBSERVER
    PROVE  CallInv(GotoState(Taken, new))
<1> DEFINE s == Taken
           m == Head(call.queue)
<1>1. Between(s, m) /\ s.state = call.state /\ m.what = what
  BY TakeFacts
<1> HIDE DEF s, m
<1>2. CallInv(GotoState(s, new))
  BY <1>1, MoveKeeps
<1> QED
  BY <1>2 DEF s

\* The ordinals, all at once.
LEMMA Ordinals ==
    /\ IDLE = 0 /\ ERROR = 1 /\ WAITING_FOR_NETWORK = 2 /\ CONNECTING_TO_SERVER = 3
    /\ WAITING_FOR_OBSERVER = 4 /\ WAITING_FOR_HEADSET = 5 /\ ESTABLISHING = 6
    /\ CALL_IN_PROGRESS = 7 /\ State = 0 .. 7
BY DEF IDLE, ERROR, WAITING_FOR_NETWORK, CONNECTING_TO_SERVER, WAITING_FOR_OBSERVER,
       WAITING_FOR_HEADSET, ESTABLISHING, CALL_IN_PROGRESS, State

\* The messages that only move the machine keep the invariant.
LEMMA MovesKeep ==
    ASSUME CallInv(call),
           \/ NetworkAvailable \/ NetworkLost \/ WebsocketConnected \/ WebsocketClosed
           \/ ObserverJoined \/ ObserverLeft \/ SignalingReset \/ HeadsetDisconnected
    PROVE  CallInv(call')
<1> USE Ordinals
<1>1. CASE NetworkAvailable
  <2>1. Take("NETWORK_AVAILABLE") /\ call' = GotoState(Taken, CONNECTING_TO_SERVER)
    BY <1>1 DEF NetworkAvailable, Goes
  <2>2. call.state = 2
    BY <2>1, TakeFacts, HandledFacts
  <2> QED
    BY <2>1, <2>2, GoesKeep DEF OneUp, WordWhat
<1>2. CASE NetworkLost
  <2>1. Take("NETWORK_LOST") /\ call' = GotoState(Taken, WAITING_FOR_NETWORK)
    BY <1>2 DEF NetworkLost, Goes
  <2>2. call.state \in 3 .. 7
    BY <2>1, TakeFacts, HandledFacts, FromIs
  <2> QED
    BY <2>1, <2>2, GoesKeep DEF OneUp, WordWhat
<1>3. CASE WebsocketConnected
  <2>1. Take("WEBSOCKET_CONNECTED") /\ call' = GotoState(Taken, WAITING_FOR_OBSERVER)
    BY <1>3 DEF WebsocketConnected, Goes
  <2>2. call.state = 3
    BY <2>1, TakeFacts, HandledFacts
  <2> QED
    BY <2>1, <2>2, GoesKeep DEF OneUp, WordWhat
<1>4. CASE WebsocketClosed
  <2>1. /\ Take("WEBSOCKET_CLOSED")
        /\ call' = IF call.state = CONNECTING_TO_SERVER
                   THEN GotoError(Taken, "SERVER_UNREACHABLE")
                   ELSE GotoState(Taken, CONNECTING_TO_SERVER)
    BY <1>4 DEF WebsocketClosed
  <2>2. call.state \in 3 .. 7 /\ Between(Taken, Head(call.queue))
    BY <2>1, TakeFacts, HandledFacts, FromIs
  <2>3. CASE call.state = 3
    <3>1. "SERVER_UNREACHABLE" \in CallError \cup {NoError}
      BY DEF CallError, RetriedError
    <3> QED
      BY <2>1, <2>2, <2>3, <3>1, ErrorKeeps
  <2>4. CASE call.state # 3
    BY <2>1, <2>2, <2>4, GoesKeep DEF OneUp, WordWhat
  <2> QED
    BY <2>3, <2>4
<1>5. CASE ObserverJoined
  <2>1. /\ Take("SIGNALING_OBSERVER_JOINED")
        /\ call' = GotoState(Taken, WAITING_FOR_HEADSET)
    BY <1>5 DEF ObserverJoined, Goes
  <2>2. call.state = 4
    BY <2>1, TakeFacts, HandledFacts
  <2> QED
    BY <2>1, <2>2, GoesKeep DEF OneUp, WordWhat
<1>6. CASE ObserverLeft
  <2>1. Take("SIGNALING_LEAVE") /\ call' = GotoState(Taken, WAITING_FOR_OBSERVER)
    BY <1>6 DEF ObserverLeft, Goes
  <2>2. call.state \in 5 .. 7
    BY <2>1, TakeFacts, HandledFacts, FromIs
  <2> QED
    BY <2>1, <2>2, GoesKeep DEF OneUp, WordWhat
<1>7. CASE SignalingReset
  <2>1. Take("SIGNALING_RESET") /\ call' = GotoState(Taken, ESTABLISHING)
    BY <1>7 DEF SignalingReset, Goes
  <2>2. call.state \in 6 .. 7
    BY <2>1, TakeFacts, HandledFacts, FromIs
  <2> QED
    BY <2>1, <2>2, GoesKeep DEF OneUp, WordWhat
<1>8. CASE HeadsetDisconnected
  <2>1. Take("HEADSET_DISCONNECTED") /\ call' = GotoState(Taken, WAITING_FOR_HEADSET)
    BY <1>8 DEF HeadsetDisconnected, Goes
  <2>2. call.state \in 6 .. 7
    BY <2>1, TakeFacts, HandledFacts, FromIs
  <2> QED
    BY <2>1, <2>2, GoesKeep DEF OneUp, WordWhat
<1> QED
  BY <1>1, <1>2, <1>3, <1>4, <1>5, <1>6, <1>7, <1>8

\* The failures that are shown.
LEMMA FailuresKeep ==
    ASSUME CallInv(call), SignalingError \/ IristickError \/ SdpFails \/ CameraFails
    PROVE  CallInv(call')
<1>1. ASSUME NEW what, NEW e \in CallError \cup {NoError}, Fails(what, e)
      PROVE  CallInv(call')
  <2>1. Take(what) /\ call' = GotoError(Taken, e)
    BY <1>1 DEF Fails
  <2>2. Between(Taken, Head(call.queue))
    BY <2>1, TakeFacts
  <2> QED
    BY <2>1, <2>2, ErrorKeeps
<1>2. {"WEBRTC", "CAMERA"} \subseteq CallError \cup {NoError}
  BY DEF CallError, RetriedError
<1>3. CASE SignalingError \/ IristickError
  <2>1. PICK what : Fails(what, Head(call.queue).arg)
    BY <1>3 DEF SignalingError, IristickError
  <2>2. Head(call.queue).arg \in CallError \cup {NoError}
    BY <2>1, TakeFacts, MessageIs DEF Fails
  <2> QED
    BY <1>1, <2>1, <2>2
<1>4. CASE SdpFails
  BY <1>1, <1>2, <1>4 DEF SdpFails
<1>5. CASE CameraFails
  BY <1>1, <1>2, <1>5 DEF CameraFails
<1> QED
  BY <1>3, <1>4, <1>5

\* START and RESTART: the settings may be refused.
LEMMA StartsKeep ==
    ASSUME CallInv(call), Start \/ Restart
    PROVE  CallInv(call')
<1> USE Ordinals
<1>0. "INVALID_ICE_SERVERS" \in CallError \cup {NoError}
  BY DEF CallError
<1>1. CASE Start
  <2>1. /\ Take("START")
        /\ \/ call' = GotoState(Taken, WAITING_FOR_NETWORK)
           \/ call' = GotoError(Taken, "INVALID_ICE_SERVERS")
    BY <1>1 DEF Start, StartUp
  <2>2. call.state = 0 /\ Between(Taken, Head(call.queue))
    BY <2>1, TakeFacts, HandledFacts
  <2>3. CASE call' = GotoState(Taken, WAITING_FOR_NETWORK)
    BY <2>1, <2>2, <2>3, GoesKeep DEF OneUp, WordWhat
  <2>4. CASE call' = GotoError(Taken, "INVALID_ICE_SERVERS")
    BY <1>0, <2>2, <2>4, ErrorKeeps
  <2> QED
    BY <2>1, <2>3, <2>4
<1>2. CASE Restart
  <2> DEFINE s == RemoveMessages(Taken, {"RESTART"})
             m == Head(call.queue)
  <2>1. /\ Take("RESTART")
        /\ \/ call' = GotoState(s, WAITING_FOR_NETWORK)
           \/ call' = GotoError(s, "INVALID_ICE_SERVERS")
    BY <1>2 DEF Restart, StartUp
  <2>2. /\ call.state = 1 /\ Between(Taken, m) /\ WellFormed(Taken)
        /\ Taken.state = call.state
    BY <2>1, TakeFacts, HandledFacts
  <2> DEFINE t == Taken
  <2> HIDE DEF t, m
  <2>3. /\ WellFormed(s) /\ Differs(Taken, s, {"queue", "delayed"})
        /\ s.queue = Kept(Taken.queue, {"RESTART"}) /\ s.delayed = 0
    BY <2>2, RemoveFacts
  <2>4. /\ Len(s.queue) <= Len(Taken.queue)
        /\ Silent(Taken.queue) => Silent(s.queue)
        /\ \A i \in DOMAIN s.queue : \E k \in DOMAIN Taken.queue : s.queue[i] = Taken.queue[k]
    BY <2>2, <2>3, RemoveQueue DEF WellFormed
  <2> HIDE DEF s
  <2>5. /\ s.state = Taken.state /\ s.error = Taken.error /\ s.held = Taken.held
        /\ s.headset = Taken.headset /\ s.lit = Taken.lit /\ s.socket = Taken.socket
    BY <2>3 DEF Differs, Field
  <2>6. /\ Rungs(Taken) /\ HeadsetKnown(Taken) /\ PurgedIn(Taken.queue)
        /\ NothingHeard(Taken) /\ Len(Taken.queue) + Taken.delayed <= MaxQueue
    BY <2>2 DEF Between
  <2>7. Rungs(s) /\ HeadsetKnown(s) /\ PurgedIn(s.queue) /\ NothingHeard(s)
    BY <2>4, <2>5, <2>6 DEF Rungs, HeadsetKnown, PurgedIn, NothingHeard
  <2>8. Len(s.queue) + s.delayed <= MaxQueue /\ Len(s.queue) <= MaxQueue
    <3>1. /\ Len(s.queue) \in Nat /\ Len(Taken.queue) \in Nat /\ Taken.delayed \in Nat
      BY <2>2, <2>3 DEF WellFormed
    <3> QED
      BY <2>3, <2>4, <2>6, <3>1, Bounds
  <2>9. Between(s, m)
    BY <2>2, <2>3, <2>5, <2>7, <2>8 DEF Between
  <2>10. CASE call' = GotoState(s, WAITING_FOR_NETWORK)
    <3>1. Ready(s, WAITING_FOR_NETWORK)
      BY <2>2, <2>3, <2>5, <2>7, <2>8 DEF Ready, OneUp, HeadsetKnown
    <3> QED
      BY <2>10, <3>1, GotoKeeps
  <2>11. CASE call' = GotoError(s, "INVALID_ICE_SERVERS")
    BY <1>0, <2>9, <2>11, ErrorKeeps
  <2> QED
    BY <2>1, <2>10, <2>11
<1> QED
  BY <1>1, <1>2

\* The other moves: STOP from any state, the headset, the peer connection.
LEMMA OthersKeep ==
    ASSUME CallInv(call), Stop \/ HeadsetConnected \/ IceConnected \/ IceFailed
    PROVE  CallInv(call')
<1> USE Ordinals
<1>1. CASE Stop
  <2>1. Take("STOP") /\ call' = IF call.state = IDLE THEN Taken ELSE GotoState(Taken, IDLE)
    BY <1>1 DEF Stop
  <2>2. /\ call.state \in 0 .. 7 /\ call.queue # <<>> /\ Head(call.queue).what = "STOP"
    BY <2>1, TakeFacts
  <2>3. CASE call.state = IDLE
    BY <2>1, <2>2, <2>3, StayKeeps
  <2>4. CASE call.state # IDLE
    BY <2>1, <2>2, <2>4, GoesKeep DEF OneUp, WordWhat
  <2> QED
    BY <2>3, <2>4
<1>2. CASE HeadsetConnected
  <2> DEFINE s == [Taken EXCEPT !.headset = TRUE]
             m == Head(call.queue)
  <2>1. Take("HEADSET_CONNECTED") /\ call' = GotoState(s, ESTABLISHING)
    BY <1>2 DEF HeadsetConnected
  <2>2. /\ call.state = 5 /\ Between(Taken, m) /\ WellFormed(Taken)
        /\ Taken.state = call.state /\ m.what = "HEADSET_CONNECTED"
    BY <2>1, TakeFacts, HandledFacts
  <2> HIDE DEF m
  <2>3. /\ WellFormed(s) /\ s.headset = TRUE
        /\ \A f \in Field \ {"headset"} : s[f] = Taken[f]
    BY <2>2 DEF WellFormed, Field
  <2> HIDE DEF s
  <2>4. /\ s.state = Taken.state /\ s.held = Taken.held /\ s.queue = Taken.queue
        /\ s.delayed = Taken.delayed /\ s.misled = Taken.misled
        /\ s.lit = Taken.lit /\ s.socket = Taken.socket
    BY <2>3 DEF Field
  <2>5. /\ Rungs(Taken) /\ PurgedIn(Taken.queue) /\ NothingHeard(Taken)
        /\ Len(Taken.queue) + Taken.delayed <= MaxQueue
        /\ Taken.delayed > 0 => Taken.state = ERROR
    BY <2>2 DEF Between
  <2>6. Rungs(s) /\ PurgedIn(s.queue) /\ NothingHeard(s)
    BY <2>4, <2>5 DEF Rungs, NothingHeard
  <2>7. Len(s.queue) <= MaxQueue /\ s.delayed = 0
    <3>1. Len(Taken.queue) \in Nat /\ Taken.delayed \in Nat
      BY <2>2 DEF WellFormed
    <3> QED
      BY <2>2, <2>4, <2>5, <3>1, Bounds
  <2>8. ~ s.misled => \/ LastWord(s.queue, s.socket.observer)
                      \/ Silent(s.queue) /\ s.socket.observer
    <3>1. m.what \notin WordWhat
      BY <2>2 DEF WordWhat
    <3> QED
      BY <2>2, <2>4, <3>1 DEF Between
  <2>9. Ready(s, ESTABLISHING)
    BY <2>2, <2>3, <2>4, <2>6, <2>7, <2>8 DEF Ready, OneUp
  <2> QED
    BY <2>1, <2>9, GotoKeeps
<1>3. CASE IceConnected
  <2>1. /\ Take("PC_ICE_CONNECTED")
        /\ call' = IF call.state = ESTABLISHING THEN GotoState(Taken, CALL_IN_PROGRESS)
                   ELSE Taken
    BY <1>3 DEF IceConnected
  <2>2. /\ call.state \in 6 .. 7 /\ call.queue # <<>>
        /\ Head(call.queue).what = "PC_ICE_CONNECTED"
    BY <2>1, TakeFacts, HandledFacts, FromIs
  <2>3. CASE call.state = ESTABLISHING
    BY <2>1, <2>2, <2>3, GoesKeep DEF OneUp, WordWhat
  <2>4. CASE call.state # ESTABLISHING
    BY <2>1, <2>2, <2>4, StayKeeps
  <2> QED
    BY <2>3, <2>4
<1>4. CASE IceFailed
  <2>1. /\ Take("PC_ICE_FAILED")
        /\ call' = IF call.state = ESTABLISHING THEN GotoError(Taken, "ICE")
                   ELSE GotoState(Taken, ESTABLISHING)
    BY <1>4 DEF IceFailed
  <2>2. call.state \in 6 .. 7 /\ Between(Taken, Head(call.queue))
    BY <2>1, TakeFacts, HandledFacts, FromIs
  <2>3. CASE call.state = ESTABLISHING
    <3>1. "ICE" \in CallError \cup {NoError}
      BY DEF CallError, RetriedError
    <3> QED
      BY <2>1, <2>2, <2>3, <3>1, ErrorKeeps
  <2>4. CASE call.state # ESTABLISHING
    BY <2>1, <2>2, <2>4, GoesKeep DEF OneUp, WordWhat
  <2> QED
    BY <2>3, <2>4
<1> QED
  BY <1>1, <1>2, <1>3, <1>4

\* What is dropped, passed on, or changes only what stands aside.
LEMMA StaysKeep ==
    ASSUME CallInv(call),
           \/ Drop \/ OfferCreated \/ Answered \/ LocalCandidate
           \/ AddVideoSink \/ RemoveVideoSink \/ PassOn
    PROVE  CallInv(call')
<1> USE Ordinals
<1>1. CASE Drop
  <2> DEFINE m == Head(call.queue)
  <2>1. /\ call.queue # <<>> /\ call.state \notin HandledIn[m.what] /\ call' = Taken
    BY <1>1 DEF Drop
  <2>2. call.state \in 0 .. 7
    BY StateIs DEF CallInv
  <2> HIDE DEF m
  <2>3. /\ m.what = "RESTART" => call.state # ERROR
        /\ m.what = "PARAMETERS_CHANGED" => call.state # CALL_IN_PROGRESS
        /\ m.what = "SIGNALING_OBSERVER_JOINED" => call.state # WAITING_FOR_OBSERVER
    BY <2>1, HandledFacts
  <2>4. ASSUME m.what = "SIGNALING_LEAVE"
        PROVE  call.state <= WAITING_FOR_OBSERVER
    BY <2>1, <2>2, <2>4, HandledFacts DEF From
  <2> USE DEF m
  <2> QED
    BY <2>1, <2>3, <2>4, StayKeeps
<1>2. ASSUME NEW what, Take(what),
             what \notin {"RESTART", "PARAMETERS_CHANGED", "SIGNALING_OBSERVER_JOINED",
                          "SIGNALING_LEAVE"}
      PROVE  CallInv(Taken) /\ WellFormed(Taken)
  <2>1. call.queue # <<>> /\ Head(call.queue).what = what /\ WellFormed(Taken)
    BY <1>2, TakeFacts
  <2> QED
    BY <1>2, <2>1, StayKeeps
<1>3. CASE OfferCreated
  <2> DEFINE s == Taken
             r == [s.rtc EXCEPT !.offer =
                     IF Head(call.queue).age = "current" THEN "set" ELSE @]
             t == [s EXCEPT !.rtc = r]
  <2>1. Take("SDP_CREATE_SUCCESS") /\ call' = Say(t, "offer")
    BY <1>3 DEF OfferCreated
  <2>2. CallInv(s) /\ WellFormed(s)
    BY <1>2, <2>1
  <2> HIDE DEF s, r
  <2>3. WellFormed(t) /\ Differs(s, t, Aside)
    BY <2>2 DEF WellFormed, Differs, Aside, Field
  <2> HIDE DEF t
  <2>4. WellFormed(call') /\ Differs(t, call', {"out"})
    BY <2>1, <2>3, SayFacts
  <2>5. Differs(t, call', Aside)
    BY <2>4 DEF Differs, Aside
  <2>6. CallInv(t)
    BY <2>2, <2>3, AsideFacts
  <2> QED
    BY <2>4, <2>5, <2>6, AsideFacts
<1>4. CASE Answered
  <2> DEFINE s == Taken
             r == [s.rtc EXCEPT !.ice =
                     IF call.rtc = [offer |-> "set", ice |-> "new"] THEN "checking" ELSE @]
             t == [s EXCEPT !.rtc = r]
  <2>1. Take("SIGNALING_ANSWER") /\ call' = t
    BY <1>4 DEF Answered
  <2>2. CallInv(s) /\ WellFormed(s)
    BY <1>2, <2>1
  <2> HIDE DEF s, r
  <2>3. WellFormed(t) /\ Differs(s, t, Aside)
    BY <2>2 DEF WellFormed, Differs, Aside, Field
  <2> HIDE DEF t
  <2> QED
    BY <2>1, <2>2, <2>3, AsideFacts
<1>5. CASE LocalCandidate
  <2> DEFINE s == Taken
  <2>1. Take("PC_ICE_CANDIDATE") /\ call' = Say(s, "ice-candidate")
    BY <1>5 DEF LocalCandidate
  <2>2. CallInv(s) /\ WellFormed(s)
    BY <1>2, <2>1
  <2> HIDE DEF s
  <2>3. WellFormed(call') /\ Differs(s, call', {"out"})
    BY <2>1, <2>2, SayFacts
  <2>4. Differs(s, call', Aside)
    BY <2>3 DEF Differs, Aside
  <2> QED
    BY <2>2, <2>3, <2>4, AsideFacts
<1>6. CASE AddVideoSink \/ RemoveVideoSink
  <2> DEFINE s == Taken
             t == [s EXCEPT !.sink = TRUE]
  <2>1. /\ Take("ADD_VIDEO_SINK") \/ Take("REMOVE_VIDEO_SINK")
        /\ call' = t
    BY <1>6 DEF AddVideoSink, RemoveVideoSink
  <2>2. CallInv(s) /\ WellFormed(s)
    BY <1>2, <2>1
  <2> HIDE DEF s
  <2>3. WellFormed(t) /\ Differs(s, t, Aside)
    BY <2>2 DEF WellFormed, Differs, Aside, Field
  <2> HIDE DEF t
  <2> QED
    BY <2>1, <2>2, <2>3, AsideFacts
<1>7. CASE PassOn
  BY <1>2, <1>7 DEF PassOn
<1> QED
  BY <1>1, <1>3, <1>4, <1>5, <1>6, <1>7

\* PARAMETERS_CHANGED keeps the invariant: it shows what the user wants.
LEMMA ParametersKeep ==
    ASSUME CallInv(call), ParametersChanged
    PROVE  CallInv(call')
<1> USE Ordinals
<1> DEFINE s == Taken
           m == Head(call.queue)
           t == ApplyParameters(s)
<1>1. Take("PARAMETERS_CHANGED") /\ call' = t
  BY DEF ParametersChanged
<1>2. /\ call.state = 7 /\ s.state = call.state /\ Between(s, m) /\ WellFormed(s)
      /\ m.what = "PARAMETERS_CHANGED"
  BY <1>1, TakeFacts, HandledFacts
<1> HIDE DEF s, m
<1>3. /\ WellFormed(t) /\ Differs(s, t, {"zoomed", "lit"})
      /\ t.zoomed = s.want.zoomed
      /\ t.lit = [torch |-> s.want.torch, laser |-> LaserOn(s.want)]
  BY <1>2, ApplyFacts
<1> HIDE DEF t
<1>4. /\ t.state = s.state /\ t.error = s.error /\ t.queue = s.queue
      /\ t.delayed = s.delayed /\ t.held = s.held /\ t.headset = s.headset
      /\ t.want = s.want /\ t.socket = s.socket /\ t.misled = s.misled
  BY <1>3 DEF Differs, Field
<1>5. /\ Rungs(s) /\ HeadsetKnown(s) /\ PurgedIn(s.queue) /\ NothingHeard(s)
      /\ Len(s.queue) + s.delayed <= MaxQueue
      /\ s.delayed > 0 => s.state = ERROR
  BY <1>2 DEF Between
<1>6. Rungs(t) /\ HeadsetKnown(t) /\ PurgedIn(t.queue) /\ NothingHeard(t)
  BY <1>2, <1>4, <1>5 DEF Rungs, HeadsetKnown, NothingHeard
<1>7. Believed(t)
  <2>1. m.what \notin WordWhat
    BY <1>2 DEF WordWhat
  <2> QED
    BY <1>2, <1>4, <2>1 DEF Between, Believed
<1>8. Shown(t)
  BY <1>3, <1>4 DEF Shown
<1>9. Retrying(t) /\ Sized(t)
  <2>1. s.delayed \in Nat /\ Len(s.queue) \in Nat
    BY <1>2 DEF WellFormed
  <2> QED
    BY <1>2, <1>4, <1>5, <2>1, Bounds DEF Retrying, Sized
<1>10. CallInv(t)
  BY <1>3, <1>6, <1>7, <1>8, <1>9 DEF CallInv
<1> QED
  BY <1>1, <1>10

-----------------------------------------------------------------------------
(* What the other threads post.                                            *)

\* A queue and one message more: a word on the observer becomes the last.
LEMMA AppendQueue ==
    ASSUME NEW q \in Seq(Message), NEW m \in Message, m.age # "left"
    PROVE  LET u == Append(q, m)
           IN /\ u \in Seq(Message) /\ Len(u) = Len(q) + 1
              /\ PurgedIn(q) => PurgedIn(u)
              /\ ~ Word(m) => /\ Silent(q) => Silent(u)
                              /\ \A b \in BOOLEAN : LastWord(q, b) => LastWord(u, b)
              /\ Word(m) => LastWord(u, m.what = "SIGNALING_OBSERVER_JOINED")
              /\ \E i \in DOMAIN u : u[i] = m
              /\ \A i \in DOMAIN q : i \in DOMAIN u /\ u[i] = q[i]
<1> DEFINE u == Append(q, m)
           l == Len(q) + 1
<1>1. /\ u \in Seq(Message) /\ Len(u) = l /\ DOMAIN u = 1 .. l /\ DOMAIN q = 1 .. Len(q)
      /\ Len(q) \in Nat /\ u[l] = m
      /\ \A i \in 1 .. Len(q) : u[i] = q[i]
  OBVIOUS
<1> HIDE DEF u
<1>2. /\ \A i \in DOMAIN u : i = l \/ (i \in DOMAIN q /\ u[i] = q[i])
      /\ \A i \in DOMAIN q : i \in DOMAIN u /\ u[i] = q[i] /\ i < l
      /\ l \in DOMAIN u
  BY <1>1
<1> HIDE DEF l
<1>3. PurgedIn(q) => PurgedIn(u)
  BY <1>1, <1>2 DEF PurgedIn
<1>4. ASSUME ~ Word(m)
      PROVE  /\ Silent(q) => Silent(u)
             /\ \A b \in BOOLEAN : LastWord(q, b) => LastWord(u, b)
  BY <1>1, <1>2, <1>4 DEF Silent, LastWord
<1>5. ASSUME Word(m)
      PROVE  LastWord(u, m.what = "SIGNALING_OBSERVER_JOINED")
  <2>1. \A j \in DOMAIN u : ~ (j > l)
    BY <1>1 DEF l
  <2> QED
    BY <1>1, <1>2, <1>5, <2>1 DEF LastWord
<1> QED
  BY <1>1, <1>2, <1>3, <1>4, <1>5 DEF u, l

\* The fields a post may change, besides the queue.
Outer == {"queue", "delayed", "want", "view", "network", "glasses", "rtc", "socket",
          "overtaken"}

\* A post from another thread keeps the invariant.
LEMMA PostKeeps ==
    ASSUME NEW s, CallInv(s), NEW t, WellFormed(t), NEW m \in Message, m.age # "left",
           t.queue = Append(s.queue, m), Differs(s, t, Outer),
           t.want = s.want \/ m.what = "PARAMETERS_CHANGED",
           t.socket.at # "none" <=> s.socket.at # "none",
           t.socket.joined = s.socket.joined,
           IF Word(m)
           THEN /\ s.socket.joined
                /\ t.socket.observer = (m.what = "SIGNALING_OBSERVER_JOINED")
           ELSE t.socket.observer = s.socket.observer,
           \/ t.delayed = s.delayed /\ Len(s.queue) < MaxQueue
           \/ t.delayed = s.delayed - 1 /\ m.what = "RESTART"
    PROVE  CallInv(t)
<1> USE Ordinals
<1>1. /\ WellFormed(s) /\ Rungs(s) /\ HeadsetKnown(s) /\ PurgedIn(s.queue)
      /\ NothingHeard(s) /\ Believed(s) /\ Shown(s) /\ Retrying(s) /\ Sized(s)
  BY DEF CallInv
<1>2. /\ t.state = s.state /\ t.error = s.error /\ t.held = s.held
      /\ t.headset = s.headset /\ t.lit = s.lit /\ t.zoomed = s.zoomed
      /\ t.misled = s.misled
  BY DEF Differs, Outer, Field
<1>3. /\ s.queue \in Seq(Message) /\ s.delayed \in Nat /\ t.delayed \in Nat
      /\ s.socket.observer \in BOOLEAN /\ t.socket.observer \in BOOLEAN
      /\ s.state \in 0 .. 7
  BY <1>1, SocketIs, StateIs DEF WellFormed
<1>4. /\ Len(t.queue) = Len(s.queue) + 1 /\ Len(s.queue) \in Nat
      /\ PurgedIn(s.queue) => PurgedIn(t.queue)
      /\ ~ Word(m) => /\ Silent(s.queue) => Silent(t.queue)
                      /\ \A b \in BOOLEAN : LastWord(s.queue, b) => LastWord(t.queue, b)
      /\ Word(m) => LastWord(t.queue, m.what = "SIGNALING_OBSERVER_JOINED")
      /\ \E i \in DOMAIN t.queue : t.queue[i] = m
      /\ \A i \in DOMAIN s.queue : i \in DOMAIN t.queue /\ t.queue[i] = s.queue[i]
  BY <1>3, AppendQueue
<1>5. Rungs(t)
  BY <1>1, <1>2 DEF Rungs
<1>6. HeadsetKnown(t) /\ PurgedIn(t.queue)
  BY <1>1, <1>2, <1>4 DEF HeadsetKnown
<1>7. NothingHeard(t)
  <2>1. ASSUME s.state < WAITING_FOR_OBSERVER
        PROVE  ~ Word(m)
    BY <1>1, <1>3, <2>1 DEF Rungs
  <2> QED
    BY <1>1, <1>2, <1>4, <2>1 DEF NothingHeard
<1>8. Believed(t)
  <2> SUFFICES ASSUME s.state >= WAITING_FOR_OBSERVER, ~ s.misled
               PROVE  \/ LastWord(t.queue, t.socket.observer)
                      \/ /\ Silent(t.queue)
                         /\ s.state > WAITING_FOR_OBSERVER <=> t.socket.observer
    BY <1>2 DEF Believed
  <2>1. CASE Word(m)
    BY <1>4, <2>1
  <2>2. CASE ~ Word(m)
    BY <1>1, <1>3, <1>4, <2>2 DEF Believed
  <2> QED
    BY <2>1, <2>2
<1>9. Shown(t)
  <2> SUFFICES ASSUME t.state = CALL_IN_PROGRESS,
                      \A i \in DOMAIN t.queue : t.queue[i].what # "PARAMETERS_CHANGED"
               PROVE  /\ t.zoomed = t.want.zoomed
                      /\ t.lit = [torch |-> t.want.torch, laser |-> LaserOn(t.want)]
    BY DEF Shown
  <2>1. t.want = s.want
    BY <1>4
  <2>2. \A i \in DOMAIN s.queue : s.queue[i].what # "PARAMETERS_CHANGED"
    BY <1>4
  <2> QED
    BY <1>1, <1>2, <2>1, <2>2 DEF Shown
<1>10. Retrying(t)
  BY <1>1, <1>2, <1>3, <1>4 DEF Retrying
<1>11. Sized(t)
  BY <1>1, <1>3, <1>4, Bounds DEF Retrying, Sized
<1> QED
  BY <1>5, <1>6, <1>7, <1>8, <1>9, <1>10, <1>11 DEF CallInv

\* What a callback tells of its resource changes nothing of the Call object.
LEMMA OutsideFacts ==
    ASSUME NEW s, WellFormed(s), NEW what
    PROVE  LET t == Outside(s, what)
           IN /\ WellFormed(t) /\ Differs(s, t, {"network", "glasses", "rtc", "socket"})
              /\ t.socket.joined = s.socket.joined
              /\ t.socket.observer = IF what \in WordWhat
                                     THEN (what = "SIGNALING_OBSERVER_JOINED")
                                     ELSE s.socket.observer
              /\ what \notin SocketWhat => t.socket.at = s.socket.at
              /\ what \in SocketWhat => t.socket.at # "none"
<1> DEFINE t == Outside(s, what)
           Goal(u) == /\ WellFormed(u)
                      /\ Differs(s, u, {"network", "glasses", "rtc", "socket"})
                      /\ u.socket.joined = s.socket.joined
                      /\ u.socket.observer = IF what \in WordWhat
                                             THEN (what = "SIGNALING_OBSERVER_JOINED")
                                             ELSE s.socket.observer
                      /\ what \notin SocketWhat => u.socket.at = s.socket.at
                      /\ what \in SocketWhat => u.socket.at # "none"
<1>0. s.socket \in Socket
  BY DEF WellFormed
<1>s. ASSUME NEW k \in Socket
      PROVE  LET u == [s EXCEPT !.socket = k]
             IN /\ WellFormed(u) /\ Differs(s, u, {"network", "glasses", "rtc", "socket"})
                /\ u.socket = k
  BY DEF WellFormed, Differs, Field
<1>o. ASSUME NEW f \in {"network", "glasses", "rtc"}, NEW v,
             what \notin SocketWhat, what \notin WordWhat
      PROVE  Goal([s EXCEPT ![f] = v])
  <2> DEFINE u == [s EXCEPT ![f] = v]
  <2>1. /\ WellFormed(u) /\ Differs(s, u, {"network", "glasses", "rtc", "socket"})
        /\ u.socket = s.socket
    BY DEF WellFormed, Differs, Field
  <2> HIDE DEF u
  <2>2. Goal(u)
    BY <1>o, <2>1
  <2> QED
    BY <2>2 DEF u
<1>1. CASE what \in NetworkWhat
  <2>1. t = [s EXCEPT !.network = [s.network EXCEPT !.online = (what = "NETWORK_AVAILABLE")]]
    BY <1>1 DEF Outside, NetworkWhat, HeadsetWhat
  <2>2. what \notin SocketWhat /\ what \notin WordWhat
    BY <1>1 DEF NetworkWhat, SocketWhat, WordWhat
  <2> HIDE DEF Goal, t
  <2>3. Goal(t)
    BY <1>o, <2>1, <2>2
  <2> QED
    BY <2>3 DEF Goal, t
<1>2. CASE what \in SocketWhat \cup WordWhat
  <2>1. PICK k \in Socket :
           /\ t = [s EXCEPT !.socket = k] /\ k.joined = s.socket.joined
           /\ k.observer = IF what \in WordWhat
                           THEN (what = "SIGNALING_OBSERVER_JOINED")
                           ELSE s.socket.observer
           /\ what \notin SocketWhat => k.at = s.socket.at
           /\ what \in SocketWhat => k.at # "none"
    <3>1. CASE what = "WEBSOCKET_CONNECTED"
      <4>1. t = [s EXCEPT !.socket = [s.socket EXCEPT !.at = "open"]]
        BY <3>1 DEF Outside, NetworkWhat, HeadsetWhat
      <4>2. [s.socket EXCEPT !.at = "open"] \in Socket
        BY <1>0 DEF Socket
      <4> QED
        BY <1>0, <3>1, <4>1, <4>2, SocketIs DEF SocketWhat, WordWhat
    <3>2. CASE what = "WEBSOCKET_CLOSED"
      <4>1. t = [s EXCEPT !.socket = [s.socket EXCEPT !.at = "closed"]]
        BY <3>2 DEF Outside, NetworkWhat, HeadsetWhat
      <4>2. [s.socket EXCEPT !.at = "closed"] \in Socket
        BY <1>0 DEF Socket
      <4> QED
        BY <1>0, <3>2, <4>1, <4>2, SocketIs DEF SocketWhat, WordWhat
    <3>3. CASE what = "SIGNALING_OBSERVER_JOINED"
      <4>1. t = [s EXCEPT !.socket = [s.socket EXCEPT !.observer = TRUE]]
        BY <3>3 DEF Outside, NetworkWhat, HeadsetWhat
      <4>2. [s.socket EXCEPT !.observer = TRUE] \in Socket
        BY <1>0 DEF Socket
      <4> QED
        BY <1>0, <3>3, <4>1, <4>2, SocketIs DEF SocketWhat, WordWhat
    <3>4. CASE what = "SIGNALING_LEAVE"
      <4>1. t = [s EXCEPT !.socket = [s.socket EXCEPT !.observer = FALSE]]
        BY <3>4 DEF Outside, NetworkWhat, HeadsetWhat
      <4>2. [s.socket EXCEPT !.observer = FALSE] \in Socket
        BY <1>0 DEF Socket
      <4> QED
        BY <1>0, <3>4, <4>1, <4>2, SocketIs DEF SocketWhat, WordWhat
    <3> QED
      BY <1>2, <3>1, <3>2, <3>3, <3>4 DEF SocketWhat, WordWhat
  <2> HIDE DEF t
  <2>2. Goal(t)
    BY <1>s, <2>1
  <2> QED
    BY <2>2 DEF t
<1>3. CASE what \notin NetworkWhat \cup SocketWhat \cup WordWhat
  <2>1. \/ t = s
        \/ \E f \in {"network", "glasses", "rtc"} : \E v : t = [s EXCEPT ![f] = v]
    <3>1. CASE what \in HeadsetWhat
      <4>1. t = [s EXCEPT !.glasses = [s.glasses EXCEPT !.docked = (what = "HEADSET_CONNECTED")]]
        BY <3>1 DEF Outside, HeadsetWhat, NetworkWhat
      <4> QED
        BY <4>1
    <3>2. CASE what = "SDP_CREATE_SUCCESS"
      <4>1. t = [s EXCEPT !.rtc = [s.rtc EXCEPT !.offer = "created"]]
        BY <3>2 DEF Outside, HeadsetWhat, NetworkWhat
      <4> QED
        BY <4>1
    <3>3. CASE what = "SDP_CREATE_FAILURE"
      <4>1. t = [s EXCEPT !.rtc = [s.rtc EXCEPT !.offer = "failed"]]
        BY <3>3 DEF Outside, HeadsetWhat, NetworkWhat
      <4> QED
        BY <4>1
    <3>4. CASE what = "PC_ICE_CONNECTED"
      <4>1. t = [s EXCEPT !.rtc = [s.rtc EXCEPT !.ice = "connected"]]
        BY <3>4 DEF Outside, HeadsetWhat, NetworkWhat
      <4> QED
        BY <4>1
    <3>5. CASE what = "PC_ICE_DISCONNECTED"
      <4>1. t = [s EXCEPT !.rtc = [s.rtc EXCEPT !.ice = "disconnected"]]
        BY <3>5 DEF Outside, HeadsetWhat, NetworkWhat
      <4> QED
        BY <4>1
    <3>6. CASE what = "PC_ICE_FAILED"
      <4>1. t = [s EXCEPT !.rtc = [s.rtc EXCEPT !.ice = "failed"]]
        BY <3>6 DEF Outside, HeadsetWhat, NetworkWhat
      <4> QED
        BY <4>1
    <3>7. CASE what \notin HeadsetWhat \cup {"SDP_CREATE_SUCCESS", "SDP_CREATE_FAILURE",
                       "PC_ICE_CONNECTED", "PC_ICE_DISCONNECTED", "PC_ICE_FAILED"}
      BY <1>3, <3>7 DEF Outside, SocketWhat, WordWhat
    <3> QED
      BY <3>1, <3>2, <3>3, <3>4, <3>5, <3>6, <3>7
  <2>2. Goal(s)
    BY <1>3, DiffersSame
  <2> HIDE DEF t, Goal
  <2>3. Goal(t)
    BY <1>3, <1>o, <2>1, <2>2
  <2> QED
    BY <2>3 DEF Goal, t
<1> QED
  BY <1>1, <1>2, <1>3

\* Words on the observer and of the websocket come from the websocket only.
LEMMA ListenerIs ==
    /\ \A r \in Resource : Listener[r] \subseteq What
    /\ \A r \in Resource : (Listener[r] \cap (WordWhat \cup SocketWhat)) # {} => r = "signal"
    /\ UserWhat \subseteq What /\ UserWhat \cap (WordWhat \cup SocketWhat) = {}
BY ResourceIs DEF Listener, What, WordWhat, NetworkWhat, SocketWhat, ServerWhat, HeadsetWhat,
                  SessionWhat, UserWhat

\* What is posted is a message.
LEMMA MsgIs ==
    ASSUME NEW what \in What, NEW arg \in CallError \cup {NoError}
    PROVE  /\ Msg(what) \in Message /\ Msg(what).what = what /\ Msg(what).age = "current"
           /\ [Msg(what) EXCEPT !.arg = arg] \in Message
           /\ [Msg(what) EXCEPT !.arg = arg].what = what
           /\ [Msg(what) EXCEPT !.arg = arg].age = "current"
           /\ [what |-> what, arg |-> arg, age |-> "late"] \in Message
BY DEF Msg, Message

\* A message carries an error or nothing.
LEMMA ArgumentsAre ==
    ASSUME NEW what
    PROVE  Arguments(what) \subseteq CallError \cup {NoError}
BY DEF Arguments, SignalingErrors, ServicesErrors, CallError, RetriedError

\* A callback of a resource that exists keeps the invariant.
LEMMA CallbackKeeps ==
    ASSUME CallInv(call), Callback
    PROVE  CallInv(call')
<1>a. PICK r \in Resource, what \in Posted :
         /\ call.held[r] > 0 /\ Len(call.queue) < MaxQueue /\ what \in Possible(call, r)
         /\ \E arg \in Arguments(what) :
               call' = [Outside(call, what) EXCEPT
                           !.queue = Append(@, [Msg(what) EXCEPT !.arg = arg])]
  BY DEF Callback, Room
<1>1. PICK arg \in Arguments(what) :
         call' = [Outside(call, what) EXCEPT
                     !.queue = Append(@, [Msg(what) EXCEPT !.arg = arg])]
  BY <1>a
<1> DEFINE m == [Msg(what) EXCEPT !.arg = arg]
           o == Outside(call, what)
           q == Append(call.queue, m)
           t == [o EXCEPT !.queue = q]
<1>2. what \in Listener[r] /\ what \in What
  BY <1>a, PossibleIs, ListenerIs
<1>3. m \in Message /\ m.what = what /\ m.age = "current"
  BY <1>2, ArgumentsAre, MsgIs
<1>4. WellFormed(call) /\ Rungs(call)
  BY DEF CallInv
<1>5. /\ WellFormed(o) /\ Differs(call, o, {"network", "glasses", "rtc", "socket"})
      /\ o.socket.joined = call.socket.joined
      /\ o.socket.observer = IF what \in WordWhat THEN (what = "SIGNALING_OBSERVER_JOINED")
                             ELSE call.socket.observer
      /\ what \notin SocketWhat => o.socket.at = call.socket.at
      /\ what \in SocketWhat => o.socket.at # "none"
  BY <1>4, OutsideFacts
<1>6. call' = [o EXCEPT !.queue = Append(o.queue, m)]
  BY <1>1
<1> HIDE DEF o, m
<1>7. o.queue = call.queue
  BY <1>5 DEF Differs, Field
<1>8. q \in Seq(Message)
  BY <1>3, <1>4, AppendQueue DEF WellFormed
<1>9. call' = t
  BY <1>6, <1>7
<1> HIDE DEF q
<1>10. WellFormed(t) /\ t.queue = q /\ \A f \in Field \ {"queue"} : t[f] = o[f]
  BY <1>5, <1>8 DEF WellFormed, Field
<1> HIDE DEF t
<1>11. Differs(call, t, Outer)
  BY <1>5, <1>10 DEF Differs, Outer
<1>12. t.want = call.want /\ t.socket = o.socket /\ t.delayed = call.delayed
  BY <1>5, <1>10 DEF Differs, Field
<1>13. t.socket.at # "none" <=> call.socket.at # "none"
  <2>1. CASE what \in SocketWhat
    <3>1. r = "signal"
      BY <1>2, <2>1, ListenerIs
    <3>2. call.state >= CONNECTING_TO_SERVER
      BY <1>a, <1>4, <3>1 DEF Rungs, NeededFrom
    <3> QED
      BY <1>4, <1>5, <1>12, <2>1, <3>2 DEF Rungs
  <2>2. CASE what \notin SocketWhat
    BY <1>5, <1>12, <2>2
  <2> QED
    BY <2>1, <2>2
<1>14. IF Word(m)
       THEN call.socket.joined /\ t.socket.observer = (m.what = "SIGNALING_OBSERVER_JOINED")
       ELSE t.socket.observer = call.socket.observer
  <2>1. Word(m) <=> what \in WordWhat
    BY <1>3 DEF Word
  <2>2. ASSUME what \in WordWhat
        PROVE  call.socket.joined
    <3>1. r = "signal"
      BY <1>2, <2>2, ListenerIs
    <3> QED
      BY <1>a, <2>2, <3>1 DEF Possible, WordWhat, SocketWhat
  <2> QED
    BY <1>3, <1>5, <1>12, <2>1, <2>2
<1>15. CallInv(t)
  BY <1>a, <1>3, <1>5, <1>10, <1>11, <1>12, <1>13, <1>14, PostKeeps DEF q
<1> QED
  BY <1>9, <1>15

\* A callback that overtook the silencing of its listener keeps the invariant.
LEMMA LateCallbackKeeps ==
    ASSUME CallInv(call), LateCallback
    PROVE  CallInv(call')
<1>a. PICK r \in Resource, what \in call.overtaken :
         /\ Len(call.queue) < MaxQueue
         /\ \E arg \in Arguments(what) :
               call' = [call EXCEPT
                           !.queue = Append(@, [what |-> what, arg |-> arg, age |-> "late"]),
                           !.overtaken = @ \ Listener[r]]
  BY DEF LateCallback, Room
<1>1. PICK arg \in Arguments(what) :
         call' = [call EXCEPT
                     !.queue = Append(@, [what |-> what, arg |-> arg, age |-> "late"]),
                     !.overtaken = @ \ Listener[r]]
  BY <1>a
<1> DEFINE m == [what |-> what, arg |-> arg, age |-> "late"]
           q == Append(call.queue, m)
           o == call.overtaken \ Listener[r]
           t == [call EXCEPT !.queue = q, !.overtaken = o]
<1>2. WellFormed(call)
  BY DEF CallInv
<1>3. m \in Message /\ m.age = "late"
  BY <1>2, ArgumentsAre, MsgIs DEF WellFormed
<1>4. call' = t
  BY <1>1
<1> HIDE DEF m
<1>5. q \in Seq(Message) /\ o \subseteq What
  BY <1>2, <1>3, AppendQueue DEF WellFormed
<1> HIDE DEF q, o
<1>6. WellFormed(t) /\ t.queue = q /\ \A f \in Field \ {"queue", "overtaken"} : t[f] = call[f]
  BY <1>2, <1>5 DEF WellFormed, Field
<1> HIDE DEF t
<1>7. Differs(call, t, Outer)
  BY <1>6 DEF Differs, Outer
<1>8. t.want = call.want /\ t.socket = call.socket /\ t.delayed = call.delayed
  BY <1>6 DEF Field
<1>9. ~ Word(m)
  BY <1>3 DEF Word
<1>10. CallInv(t)
  BY <1>a, <1>3, <1>6, <1>7, <1>8, <1>9, PostKeeps DEF q
<1> QED
  BY <1>4, <1>10

\* A post of the user or of the retry, with what it changes besides.
LEMMA UserKeeps ==
    ASSUME CallInv(call), NEW what \in UserWhat, NEW t, WellFormed(t),
           t.queue = Append(call.queue, Msg(what)),
           Differs(call, t, {"queue", "delayed", "want", "view"}),
           t.want = call.want \/ what = "PARAMETERS_CHANGED",
           \/ t.delayed = call.delayed /\ Len(call.queue) < MaxQueue
           \/ t.delayed = call.delayed - 1 /\ what = "RESTART"
    PROVE  CallInv(t)
<1> DEFINE m == Msg(what)
<1>1. m \in Message /\ m.what = what /\ m.age = "current"
  <2>1. what \in What /\ NoError \in CallError \cup {NoError}
    BY ListenerIs
  <2> QED
    BY <2>1, MsgIs
<1> HIDE DEF m
<1>2. ~ Word(m)
  BY <1>1, ListenerIs DEF Word
<1>3. Differs(call, t, Outer) /\ t.socket = call.socket
  BY DEF Differs, Outer, Field
<1>4. t.queue = Append(call.queue, m)
  BY DEF m
<1> QED
  BY <1>1, <1>2, <1>3, <1>4, PostKeeps

\* The retry, the user interface and the call fragment keep the invariant.
LEMMA PostsKeep ==
    ASSUME CallInv(call),
           RetryDue \/ UserPosts \/ SetParameters \/ ViewStarts \/ ViewStops
    PROVE  CallInv(call')
<1>1. WellFormed(call)
  BY DEF CallInv
<1>2. ASSUME NEW what \in UserWhat, NEW d \in Nat, NEW w \in Want, NEW v \in BOOLEAN,
             call' = [call EXCEPT !.queue = Append(call.queue, Msg(what)), !.delayed = d,
                                  !.want = w, !.view = v],
             w = call.want \/ what = "PARAMETERS_CHANGED",
             \/ d = call.delayed /\ Len(call.queue) < MaxQueue
             \/ d = call.delayed - 1 /\ what = "RESTART"
      PROVE  CallInv(call')
  <2> DEFINE q == Append(call.queue, Msg(what))
             t == [call EXCEPT !.queue = q, !.delayed = d, !.want = w, !.view = v]
  <2>1. q \in Seq(Message)
    <3>1. Msg(what) \in Message
      BY ListenerIs, MsgIs
    <3> QED
      BY <1>1, <3>1 DEF WellFormed
  <2>2. call' = t
    BY <1>2
  <2> HIDE DEF q
  <2>3. /\ WellFormed(t) /\ t.queue = q /\ t.delayed = d /\ t.want = w
        /\ Differs(call, t, {"queue", "delayed", "want", "view"})
    BY <1>1, <2>1 DEF WellFormed, Differs, Field
  <2> HIDE DEF t
  <2> QED
    BY <1>2, <2>2, <2>3, UserKeeps DEF q
<1>3. call.delayed \in Nat /\ call.want \in Want /\ call.view \in BOOLEAN
  BY <1>1 DEF WellFormed
<1>s. ASSUME NEW q, NEW d, NEW w, NEW v
      PROVE  /\ [call EXCEPT !.queue = q]
                  = [call EXCEPT !.queue = q, !.delayed = call.delayed, !.want = call.want,
                                 !.view = call.view]
             /\ [call EXCEPT !.queue = q, !.delayed = d]
                  = [call EXCEPT !.queue = q, !.delayed = d, !.want = call.want,
                                 !.view = call.view]
             /\ [call EXCEPT !.queue = q, !.want = w]
                  = [call EXCEPT !.queue = q, !.delayed = call.delayed, !.want = w,
                                 !.view = call.view]
             /\ [call EXCEPT !.queue = q, !.view = v]
                  = [call EXCEPT !.queue = q, !.delayed = call.delayed, !.want = call.want,
                                 !.view = v]
  BY <1>1 DEF WellFormed, Field
<1>4. CASE RetryDue
  <2>1. /\ call.delayed > 0
        /\ call' = [call EXCEPT !.queue = Append(@, Msg("RESTART")),
                                !.delayed = call.delayed - 1]
    BY <1>1, <1>4 DEF RetryDue, Post, WellFormed, Field
  <2>2. call.delayed - 1 \in Nat /\ "RESTART" \in UserWhat
    BY <1>3, <2>1 DEF UserWhat
  <2> DEFINE q == Append(call.queue, Msg("RESTART"))
  <2>3. call' = [call EXCEPT !.queue = q, !.delayed = call.delayed - 1, !.want = call.want,
                             !.view = call.view]
    BY <1>s, <2>1
  <2> HIDE DEF q
  <2>5. call' = [call EXCEPT !.queue = q, !.delayed = call.delayed - 1,
                             !.want = call.want, !.view = call.view]
    BY <2>3
  <2> QED
    BY <1>2, <1>3, <2>2, <2>5 DEF q
<1>5. CASE UserPosts
  <2>1. PICK what \in {"STOP", "RESTART", "TRIGGER_AF", "TAKE_PICTURE"} :
           /\ Len(call.queue) < MaxQueue
           /\ call' = [call EXCEPT !.queue = Append(@, Msg(what))]
    BY <1>5 DEF UserPosts, Room, Post
  <2>2. what \in UserWhat
    BY DEF UserWhat
  <2> DEFINE q == Append(call.queue, Msg(what))
  <2>3. call' = [call EXCEPT !.queue = q, !.delayed = call.delayed, !.want = call.want,
                             !.view = call.view]
    BY <1>s, <2>1
  <2>4. Len(call.queue) < MaxQueue
    BY <2>1
  <2> HIDE DEF q
  <2>5. call' = [call EXCEPT !.queue = q, !.delayed = call.delayed,
                             !.want = call.want, !.view = call.view]
    BY <2>3
  <2> QED
    BY <1>2, <1>3, <2>2, <2>4, <2>5 DEF q
<1>6. CASE SetParameters
  <2>1. PICK w \in Want :
           /\ Len(call.queue) < MaxQueue
           /\ call' = [call EXCEPT !.queue = Append(@, Msg("PARAMETERS_CHANGED")),
                                   !.want = w]
    <3> DEFINE torch == [call.want EXCEPT !.torch = ~@]
               zoomed == [call.want EXCEPT !.zoomed = ~@]
               laser == [call.want EXCEPT !.laser =
                           CASE @ = "OFF" -> "ON" [] @ = "ON" -> "AUTO" [] @ = "AUTO" -> "OFF"]
    <3>1. torch \in Want /\ zoomed \in Want /\ laser \in Want
      BY <1>3 DEF Want
    <3>2. /\ Len(call.queue) < MaxQueue
          /\ \E w \in {torch, zoomed, laser} :
                call' = [call EXCEPT !.queue = Append(@, Msg("PARAMETERS_CHANGED")),
                                     !.want = w]
      BY <1>1, <1>6 DEF SetParameters, Room, Post, WellFormed, Field
    <3> HIDE DEF torch, zoomed, laser
    <3> QED
      BY <3>1, <3>2
  <2>2. "PARAMETERS_CHANGED" \in UserWhat
    BY DEF UserWhat
  <2> DEFINE q == Append(call.queue, Msg("PARAMETERS_CHANGED"))
  <2>3. call' = [call EXCEPT !.queue = q, !.delayed = call.delayed, !.want = w,
                             !.view = call.view]
    BY <1>s, <2>1
  <2> QED
    BY <1>2, <1>3, <2>1, <2>2, <2>3
<1>7. CASE ViewStarts
  <2>1. /\ Len(call.queue) < MaxQueue
        /\ call' = [call EXCEPT !.queue = Append(@, Msg("ADD_VIDEO_SINK")), !.view = TRUE]
    BY <1>1, <1>7 DEF ViewStarts, Room, Post
  <2>2. "ADD_VIDEO_SINK" \in UserWhat
    BY DEF UserWhat
  <2> DEFINE q == Append(call.queue, Msg("ADD_VIDEO_SINK"))
  <2>3. call' = [call EXCEPT !.queue = q, !.delayed = call.delayed, !.want = call.want,
                             !.view = TRUE]
    BY <1>s, <2>1
  <2> QED
    BY <1>2, <1>3, <2>1, <2>2, <2>3
<1>8. CASE ViewStops
  <2>1. /\ Len(call.queue) < MaxQueue
        /\ call' = [call EXCEPT !.queue = Append(@, Msg("REMOVE_VIDEO_SINK")),
                                !.view = FALSE]
    BY <1>1, <1>8 DEF ViewStops, Room, Post
  <2>2. "REMOVE_VIDEO_SINK" \in UserWhat
    BY DEF UserWhat
  <2> DEFINE q == Append(call.queue, Msg("REMOVE_VIDEO_SINK"))
  <2>3. call' = [call EXCEPT !.queue = q, !.delayed = call.delayed, !.want = call.want,
                             !.view = FALSE]
    BY <1>s, <2>1
  <2> QED
    BY <1>2, <1>3, <2>1, <2>2, <2>3
<1> QED
  BY <1>4, <1>5, <1>6, <1>7, <1>8

-----------------------------------------------------------------------------
(* The theorems.                                                           *)

\* The constructor, which posts START, establishes the invariant.
LEMMA InitInv ==
    ASSUME Init
    PROVE  CallInv(call)
<1> USE Ordinals
<1>1. PICK laser \in {"AUTO", "OFF"} :
         call = [state |-> IDLE, error |-> NoError, queue |-> <<Msg("START")>>,
                 delayed |-> 0, held |-> [r \in Resource |-> 0], headset |-> FALSE,
                 want |-> [torch |-> FALSE, laser |-> laser, zoomed |-> FALSE],
                 lit |-> [torch |-> FALSE, laser |-> FALSE],
                 zoomed |-> FALSE, sink |-> FALSE, view |-> FALSE,
                 network |-> NoNetwork, socket |-> NoSocket,
                 glasses |-> NoGlasses, rtc |-> NoSession,
                 overtaken |-> {}, out |-> <<>>, misled |-> FALSE]
  BY Zenon DEF Init
<1> DEFINE q == <<Msg("START")>>
           h == [r \in Resource |-> 0]
<1>2. Msg("START") \in Message /\ Msg("START").what = "START" /\ Msg("START").age = "current"
  <2>1. "START" \in What /\ NoError \in CallError \cup {NoError}
    BY DEF What, UserWhat
  <2> QED
    BY <2>1, MsgIs
<1>3. q \in Seq(Message) /\ Len(q) = 1 /\ DOMAIN q = {1} /\ q[1] = Msg("START")
  BY <1>2
<1>4. /\ [torch |-> FALSE, laser |-> laser, zoomed |-> FALSE] \in Want
      /\ [torch |-> FALSE, laser |-> FALSE] \in Lights /\ NoSocket \in Socket
      /\ NoSocket.at = "none" /\ NoSocket.joined = FALSE /\ NoSocket.observer = FALSE
  BY DEF Want, Lights, NoSocket, Socket
<1>5. h \in [Resource -> Int] /\ \A r \in Resource : h[r] = 0
  OBVIOUS
<1> HIDE DEF q, h
<1>6. /\ DOMAIN call = Field /\ call.state = 0 /\ call.error = NoError /\ call.queue = q
      /\ call.delayed = 0 /\ call.held = h /\ call.headset = FALSE
      /\ call.want = [torch |-> FALSE, laser |-> laser, zoomed |-> FALSE]
      /\ call.lit = [torch |-> FALSE, laser |-> FALSE]
      /\ call.zoomed = FALSE /\ call.sink = FALSE /\ call.view = FALSE
      /\ call.socket = NoSocket /\ call.overtaken = {} /\ call.misled = FALSE
  BY <1>1 DEF Field, q, h
<1>7. WellFormed(call)
  <2>1. /\ call.queue \in Seq(Message) /\ call.delayed \in Nat
        /\ call.held \in [Resource -> Int]
    BY <1>3, <1>5, <1>6
  <2>2. /\ call.want \in Want /\ call.lit \in Lights /\ call.socket \in Socket
    BY <1>4, <1>6
  <2>3. 0 \in State /\ call.overtaken \subseteq What
    BY <1>6
  <2> QED
    BY <1>6, <2>1, <2>2, <2>3 DEF WellFormed
<1>8. Rungs(call) /\ HeadsetKnown(call)
  <2>1. \A r \in Resource : ~ (0 >= NeededFrom[r])
    BY ResourceIs DEF NeededFrom
  <2> QED
    BY <1>4, <1>5, <1>6, <2>1 DEF Rungs, HeadsetKnown
<1>9. PurgedIn(call.queue) /\ Silent(call.queue)
  BY <1>2, <1>3, <1>6 DEF PurgedIn, Silent, Word, WordWhat
<1>10. NothingHeard(call) /\ Believed(call) /\ Shown(call) /\ Retrying(call)
  BY <1>4, <1>6, <1>9 DEF NothingHeard, Believed, Shown, Retrying
<1>11. Sized(call)
  <2>1. Len(call.queue) = 1 /\ call.delayed = 0 /\ MaxQueue \in Nat
    BY <1>3, <1>6, Bounds
  <2> QED
    BY <2>1 DEF Sized
<1> QED
  BY <1>7, <1>8, <1>9, <1>10, <1>11 DEF CallInv

\* Every step keeps the invariant.
LEMMA NextInv ==
    ASSUME CallInv(call), [Next]_call
    PROVE  CallInv(call')
<1>1. CASE HandleMessage
  BY <1>1, MovesKeep, FailuresKeep, StartsKeep, OthersKeep, StaysKeep, ParametersKeep
     DEF HandleMessage
<1>2. CASE Callback
  BY <1>2, CallbackKeeps
<1>3. CASE LateCallback
  BY <1>3, LateCallbackKeeps
<1>4. CASE RetryDue \/ UserPosts \/ SetParameters \/ ViewStarts \/ ViewStops
  BY <1>4, PostsKeep
<1>5. CASE UNCHANGED call
  BY <1>5
<1> QED
  BY <1>1, <1>2, <1>3, <1>4, <1>5 DEF Next

\* The inductive invariant holds in every reachable state of the call, for any kinds of
\* message that are posted, in time or late, and any bound on what others queue: it ties
\* the state of Call.java to the resources gotoState holds, to the messages in the queue
\* and to the delayed retry.
THEOREM CallInvariant == Spec => []CallInv(call)
<1>1. Init => CallInv(call)
  BY InitInv
<1>2. CallInv(call) /\ [Next]_call => CallInv(call)'
  BY NextInv
<1> QED
  BY <1>1, <1>2, PTL DEF Spec

\* The fields of Call stay well formed: gotoState never holds a resource twice, at most one
\* retry is delayed, and the handler's own posts exceed what others may queue by one.
THEOREM CallTypeOK == Spec => []TypeOK
<1>1. CallInv(call) => TypeOK
  <2> SUFFICES ASSUME CallInv(call)
               PROVE  TypeOK
    OBVIOUS
  <2>1. WellFormed(call) /\ Rungs(call) /\ Retrying(call) /\ Sized(call)
    BY DEF CallInv
  <2>2. call.delayed \in 0 .. 1 /\ Len(call.queue) <= MaxQueue + 1
    BY <2>1, Bounds DEF WellFormed, Retrying, Sized
  <2>3. call.held \in [Resource -> 0 .. 1]
    BY <2>1 DEF WellFormed, Rungs
  <2> QED
    BY <2>1, <2>2, <2>3 DEF WellFormed, Want, Lights, TypeOK
<1> QED
  BY <1>1, CallInvariant, PTL

\* Whatever the order of messages, each thing a state needs exists exactly once in that
\* state and above, and not below: gotoState leaks no monitor, socket, headset listener or
\* session and leaves no light on.
THEOREM CallLadder == Spec => []Ladder
<1>1. CallInv(call) => Ladder
  BY DEF CallInv, Rungs, HeadsetKnown, Ladder
<1> QED
  BY <1>1, CallInvariant, PTL

\* gotoState removes from the queue what the listeners it silences had posted, except what
\* the code leaves there (the kinds of the peer connection and IRISTICK_ERROR).
THEOREM CallPurged == Spec => []Purged
<1>1. CallInv(call) => Purged
  BY DEF CallInv, PurgedIn, Purged
<1> QED
  BY <1>1, CallInvariant, PTL

\* During a call applyParameters has shown the latest choices of the user, unless a
\* PARAMETERS_CHANGED is still queued.
THEOREM CallParametersApplied == Spec => []ParametersApplied
<1>1. CallInv(call) => ParametersApplied
  BY DEF CallInv, Shown, ParametersApplied
<1> QED
  BY <1>1, CallInvariant, PTL

\* The delayed RESTART runs exactly while an error with a retryTimeout is shown: gotoError
\* arms it, and every way out of the error removes it.
THEOREM CallRetryArmed == Spec => []RetryArmed
<1>1. CallInv(call) => RetryArmed
  BY DEF CallInv, Retrying, RetryArmed
<1> QED
  BY <1>1, CallInvariant, PTL

\* Once no message of the server is queued, the machine is past WAITING_FOR_OBSERVER
\* exactly when the last word of the server was that the observer is there, unless a
\* callback of a closed websocket has misled it.
THEOREM CallObserverBelieved == Spec => []ObserverBelieved
<1>1. CallInv(call) => ObserverBelieved
  <2>1. WordWhat \subseteq ServerWhat
    BY DEF WordWhat, ServerWhat
  <2>2. ASSUME \A i \in DOMAIN call.queue : call.queue[i].what \notin ServerWhat,
               NEW b
        PROVE  ~ LastWord(call.queue, b)
    BY <2>1, <2>2 DEF LastWord, Word
  <2> QED
    BY <2>2 DEF CallInv, Believed, ObserverBelieved
<1> QED
  BY <1>1, CallInvariant, PTL

=============================================================================
