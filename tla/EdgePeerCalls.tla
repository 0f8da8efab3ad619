-------------------------- MODULE EdgePeerCalls --------------------------
(***************************************************************************)
(* The connection of module EdgePeer in the states it can be in (EInv),    *)
(* and what each call of the page leaves of it: the operators of the shim  *)
(* one by one, first of any connection, then of a live one.  Module        *)
(* EdgePeerProofs goes on with what the browser and the other end do, and  *)
(* concludes.                                                              *)
(***************************************************************************)
EXTENDS EdgePeer, SequenceTheorems, TLAPS

-----------------------------------------------------------------------------
(* The types.                                                              *)

IceKinds == {"new", "checking", "connected", "completed", "disconnected", "failed"}
FoundKinds == {"host", "relay", END}

GathererType ==
    [line : DOMAIN Lines, state : {"new", "gathering", "completed"}, next : 1 .. 4,
     handler : {"buffer", "direct", "none"}, buffer : Seq(FoundKinds)]

TimerType == [gatherer : DOMAIN Lines, found : Seq(FoundKinds)]

LineType ==
    [kind : {"audio", "video"}, sends : BOOLEAN, takes : BOOLEAN,
     codecs : SUBSET UNION {LocalCodecs.audio, LocalCodecs.video}, cands : SUBSET FoundKinds]

PCType ==
    [role : Roles, found : {<<"host", END>>, <<"host", "relay", END>>},
     signaling : {"stable", "have-local-offer", "have-remote-offer", "closed"},
     closed : BOOLEAN, bundle : BOOLEAN,
     transceivers : Seq(TransceiverType), gatherers : Seq(GathererType),
     transports : Seq(TransportType),
     created : Seq(LineType), local : Seq(LineType),
     remote : Seq(SUBSET (RemoteCands \cup {END})),
     gathering : {"new", "gathering", "complete"}, ice : IceKinds,
     timers : Seq(TimerType), late : BOOLEAN,
     surfaced : Seq(LocalCands), told : IceKinds]

-----------------------------------------------------------------------------
(* The inductive invariant.                                                *)

\* The gatherer and transport of the second line.
Second(p) == IF p.bundle THEN 1 ELSE 2

\* Nothing was called yet.
Bare(p) == p = New(p.role)

\* Two lines, audio and video: the first takes its own gatherer, transport, sender and
\* receiver, the second its own, or the first's when bundled, or none when rejected.
Lined(p) ==
    LET x == p.transceivers[1]
        y == p.transceivers[2]
        e == Second(p)
    IN /\ Len(p.transceivers) = 2
       /\ x.kind = "audio" /\ ~x.rejected /\ x.gatherer = 1 /\ x.transport = 1
       /\ x.sender \in {None, 1} /\ x.receiver = 1
       /\ y.kind = "video"
       /\ IF y.rejected THEN y = Refused("video")
          ELSE /\ y.gatherer = e /\ y.transport = e
               /\ y.sender \in {None, e} /\ y.receiver \in {None, e}
       /\ x.sending => x.sender # None
       /\ y.sending => y.sender # None
       /\ y.receiving => y.receiver # None
       /\ Len(p.transports) = Len(p.gatherers)
       /\ Len(p.gatherers) = IF p.role = "observer" THEN e ELSE 2

\* The descriptions have the lines of the connection.
Written(p) ==
    /\ p.created # <<>> =>
        /\ Len(p.created) = 2
        /\ \A i \in 1 .. 2 :
             /\ p.created[i].cands = {}
             /\ p.transceivers[i].sender # None => p.created[i].sends
             /\ p.transceivers[i].receiver # None => p.created[i].takes
    /\ p.local # <<>> =>
        /\ Len(p.local) = 2
        /\ p.created # <<>>
        /\ \A i \in 1 .. 2 : /\ p.local[i].sends = p.created[i].sends
                              /\ p.local[i].takes = p.created[i].takes
    /\ p.remote # <<>> => Len(p.remote) = 2

\* How far an observer has come that has these calls left of its chain.
AnswerStage(p, left) ==
    /\ p.remote # <<>>
    /\ ~p.transceivers[2].rejected /\ p.transceivers[2].sender = None
    /\ p.signaling \in {"have-remote-offer", "stable", "closed"}
    /\ left # <<>> => p.local = <<>> /\ p.signaling # "stable"
    /\ \/ /\ left = <<"addStream", "createAnswer", "setLocal">>
          /\ p.transceivers[1].sender = None /\ p.created = <<>>
       \/ left = <<"createAnswer", "setLocal">> /\ p.created = <<>>
       \/ left = <<"setLocal">> /\ p.created # <<>>
       \/ left = <<>> /\ (p.closed \/ (p.signaling = "stable" /\ p.local # <<>>))

\* How far the end that offers has come.
OfferStage(p, left) ==
    /\ p.created # <<>>
    /\ p.remote # <<>> => p.local # <<>>
    /\ p.remote = <<>> => ~p.bundle /\ ~p.transceivers[2].rejected
    /\ p.signaling # "have-remote-offer"
    /\ \/ left = <<"setLocal">> /\ p.local = <<>> /\ p.signaling # "have-local-offer"
       \/ /\ left = <<>>
          /\ \/ p.closed
             \/ /\ p.local # <<>>
                /\ p.signaling = IF p.remote = <<>> THEN "have-local-offer" ELSE "stable"

\* The transports: started once both ends are described, heard by the page unless they
\* are the bundled second, and the page is told the worst of their states.
Running(p) ==
    /\ p.closed = (p.signaling = "closed")
    /\ \A t \in DOMAIN p.transports :
        /\ ~p.transports[t].started => p.transports[t].ice \in {"new", "closed"}
        /\ p.transports[t].started => p.local # <<>> /\ p.remote # <<>>
        /\ ~p.closed => p.transports[t].ice # "closed"
        /\ (t = 2 /\ p.bundle) \/ p.transports[t].attached
    /\ (~p.closed /\ ~Broken(p)) => p.told = p.ice /\ p.ice = IceState(p)
    /\ p.told = "failed" => p.closed

\* f is what was found first.
Prefix(f, found) == Len(f) <= Len(found) /\ \A n \in 1 .. Len(f) : f[n] = found[n]

\* The gatherers: until the local description is set a gatherer buffers what it finds;
\* then one timer at most replays the buffer of each, and what is written down was found
\* and is no longer to be replayed.
Gathering(p) ==
    /\ \A g \in DOMAIN p.gatherers :
        LET x == p.gatherers[g]
        IN /\ x.line = g
           /\ x.next \in 1 .. Len(p.found) + 1
           /\ x.handler = "buffer" => Prefix(x.buffer, p.found) /\ Len(x.buffer) = x.next - 1
           /\ (x.handler = "buffer") <=> p.local = <<>>
           /\ x.handler = "none" => p.bundle /\ g = 2
           /\ (p.local # <<>>) =>
                \A n \in DOMAIN p.found : p.found[n] \in p.local[g].cands =>
                   /\ n < x.next
                   /\ \A k \in DOMAIN p.timers : p.timers[k].gatherer = g => Len(p.timers[k].found) < n
    /\ p.local = <<>> => p.timers = <<>>
    /\ \A k \in DOMAIN p.timers :
        /\ p.timers[k].gatherer \in DOMAIN p.gatherers
        /\ Prefix(p.timers[k].found, p.found)
        /\ Len(p.timers[k].found) < p.gatherers[p.timers[k].gatherer].next
        /\ \A j \in DOMAIN p.timers : p.timers[j].gatherer = p.timers[k].gatherer => j = k

\* What a gatherer found has reached the page or waits in its timer.
Kept(p) ==
    \A g \in DOMAIN p.gatherers :
        \/ p.closed \/ (p.bundle /\ g = 2) \/ p.local = <<>>
        \/ \A n \in 1 .. p.gatherers[g].next - 1 :
              \/ p.found[n] = END
              \/ <<g, p.found[n]>> \in ToSet(p.surfaced)
              \/ \E k \in DOMAIN p.timers : p.timers[k].gatherer = g /\ n <= Len(p.timers[k].found)

\* The page has made its first call and has these left of the chain.
Live(p, left) ==
    /\ p.transceivers # <<>>
    /\ Lined(p) /\ Written(p)
    /\ IF p.role = "observer" THEN AnswerStage(p, left) ELSE OfferStage(p, left)
    /\ Running(p) /\ Gathering(p) /\ Kept(p)

Good(p, left) == (Bare(p) /\ left = Chain(p.role)) \/ Live(p, left)

EInv ==
    /\ pc \in PCType
    /\ trickles \in Nat
    /\ Good(pc, calls)

USE DEF None

-----------------------------------------------------------------------------
(* Types of the parts.                                                     *)

LEMMA Codecs ==
    /\ LocalCodecs.audio = {"opus"} /\ LocalCodecs.video = {"h264"}
    /\ LocalCodecs["audio"] = {"opus"} /\ LocalCodecs["video"] = {"h264"}
BY DEF LocalCodecs

LEMMA LinesAre == DOMAIN Lines = 1 .. 2 /\ Lines[1] = "audio" /\ Lines[2] = "video"
BY DEF Lines

LEMMA NoneFound == <<>> \in Seq(FoundKinds)
OBVIOUS

LEMMA FoundIs ==
    ASSUME NEW urls
    PROVE  Found(urls) \in {<<"host", END>>, <<"host", "relay", END>>}
BY DEF Found

LEMMA FoundParts ==
    ASSUME NEW f \in {<<"host", END>>, <<"host", "relay", END>>}
    PROVE  /\ f \in Seq(FoundKinds) /\ Len(f) \in 2 .. 3
           /\ \A m, n \in 1 .. Len(f) : f[m] = f[n] => m = n
           /\ \A n \in 1 .. Len(f) : f[n] \in FoundKinds
<1>1. CASE f = <<"host", END>>
  <2>1. Len(f) = 2 /\ f[1] = "host" /\ f[2] = END
    BY <1>1
  <2>2. f \in Seq(FoundKinds)
    BY <1>1 DEF FoundKinds
  <2> QED
    BY <2>1, <2>2 DEF FoundKinds, END
<1>2. CASE f = <<"host", "relay", END>>
  <2>1. Len(f) = 3 /\ f[1] = "host" /\ f[2] = "relay" /\ f[3] = END
    BY <1>2
  <2>2. f \in Seq(FoundKinds)
    BY <1>2 DEF FoundKinds
  <2> QED
    BY <2>1, <2>2 DEF FoundKinds, END
<1> QED
  BY <1>1, <1>2

LEMMA NewTyped ==
    ASSUME NEW role \in Roles
    PROVE  New(role) \in PCType
<1>1. /\ <<>> \in Seq(TransceiverType) /\ <<>> \in Seq(GathererType)
      /\ <<>> \in Seq(TransportType) /\ <<>> \in Seq(LineType)
      /\ <<>> \in Seq(SUBSET (RemoteCands \cup {END})) /\ <<>> \in Seq(TimerType)
      /\ <<>> \in Seq(LocalCands)
  OBVIOUS
<1> QED
  BY <1>1, FoundIs DEF New, PCType, IceKinds

LEMMA InitGood == Init => EInv
BY NewTyped DEF Init, EInv, Good, Bare, New

LEMMA TransportTyped == Transport \in TransportType
BY DEF Transport, TransportType

NewGatherer(i) ==
    [line |-> i, state |-> "new", next |-> 1, handler |-> "buffer", buffer |-> <<>>]

LEMMA NewGathererTyped ==
    ASSUME NEW i \in 1 .. 2
    PROVE  NewGatherer(i) \in GathererType
BY NoneFound, LinesAre DEF NewGatherer, GathererType

NewTransceiver(kind, t) ==
    [kind |-> kind, rejected |-> FALSE, gatherer |-> None, transport |-> t,
     sender |-> None, receiver |-> None, codecs |-> {},
     sending |-> FALSE, receiving |-> FALSE]

LEMMA NewTransceiverTyped ==
    ASSUME NEW kind \in {"audio", "video"}, NEW t \in 1 .. 2
    PROVE  NewTransceiver(kind, t) \in TransceiverType
BY LinesAre DEF NewTransceiver, TransceiverType

LEMMA RefusedTyped == Refused("video") \in TransceiverType
BY DEF Refused, TransceiverType

-----------------------------------------------------------------------------
(* Short sequences.                                                        *)

LEMMA PairIs ==
    ASSUME NEW S, NEW s \in Seq(S), Len(s) = 2
    PROVE  s = <<s[1], s[2]>> /\ DOMAIN s = 1 .. 2 /\ s[1] \in S /\ s[2] \in S /\ s # <<>>
OBVIOUS

LEMMA Tuples ==
    ASSUME NEW a, NEW b
    PROVE  /\ Append(<<>>, a) = <<a>> /\ Append(<<a>>, b) = <<a, b>>
           /\ Len(<<a>>) = 1 /\ Len(<<a, b>>) = 2
           /\ DOMAIN <<a>> = {1} /\ DOMAIN <<a, b>> = {1, 2}
           /\ <<a>>[1] = a /\ <<a, b>>[1] = a /\ <<a, b>>[2] = b
<1>1. <<>> \in Seq({a, b}) /\ <<a>> \in Seq({a, b}) /\ <<a, b>> \in Seq({a, b})
  OBVIOUS
<1>2. Append(<<>>, a) = <<a>>
  BY <1>1
<1>3. Append(<<a>>, b) = <<a, b>>
  <2> DEFINE s == Append(<<a>>, b)
  <2>1. s \in Seq({a, b}) /\ Len(s) = 2 /\ s[1] = a /\ s[2] = b
    BY <1>1
  <2> QED
    BY <2>1, PairIs
<1>4. Len(<<a>>) = 1 /\ Len(<<a, b>>) = 2
  OBVIOUS
<1>5. DOMAIN <<a>> = {1} /\ DOMAIN <<a, b>> = {1, 2}
  OBVIOUS
<1> QED
  BY <1>2, <1>3, <1>4, <1>5

LEMMA TupleExcept ==
    ASSUME NEW a, NEW b, NEW c
    PROVE  /\ [<<a>> EXCEPT ![1] = c] = <<c>>
           /\ [<<a, b>> EXCEPT ![1] = c] = <<c, b>>
           /\ [<<a, b>> EXCEPT ![2] = c] = <<a, c>>
OBVIOUS

LEMMA PairTyped ==
    ASSUME NEW S, NEW a \in S, NEW b \in S
    PROVE  <<a, b>> \in Seq(S) /\ <<a>> \in Seq(S)
OBVIOUS

LEMMA PairExcept ==
    ASSUME NEW S, NEW s \in Seq(S), NEW i \in DOMAIN s, NEW x \in S
    PROVE  [s EXCEPT ![i] = x] \in Seq(S)
OBVIOUS

LEMMA AppendExcept ==
    ASSUME NEW S, NEW s \in Seq(S), NEW x \in S, NEW y \in S
    PROVE  [Append(s, x) EXCEPT ![Len(s) + 1] = y] = Append(s, y)
<1> DEFINE u == Append(s, x)
           v == [u EXCEPT ![Len(s) + 1] = y]
           w == Append(s, y)
<1>1. /\ u \in Seq(S) /\ Len(u) = Len(s) + 1 /\ \A i \in 1 .. Len(s) : u[i] = s[i]
      /\ w \in Seq(S) /\ Len(w) = Len(s) + 1 /\ \A i \in 1 .. Len(s) : w[i] = s[i]
      /\ w[Len(s) + 1] = y
  BY AppendProperties
<1>2. Len(s) \in Nat
  OBVIOUS
<1> HIDE DEF u, w
<1>3. v \in Seq(S) /\ Len(v) = Len(u)
  BY <1>1, <1>2
<1>4. \A i \in 1 .. Len(v) : v[i] = w[i]
  BY <1>1, <1>2, <1>3
<1> HIDE DEF v
<1>5. v = w
  BY <1>1, <1>3, <1>4, SeqEqual
<1> QED
  BY <1>5 DEF v, u, w

LEMMA FunctionIsPair ==
    ASSUME NEW f, DOMAIN f = 1 .. 2, f = [i \in 1 .. 2 |-> f[i]]
    PROVE  f = <<f[1], f[2]>>
OBVIOUS

LEMMA ExceptIs ==
    ASSUME NEW S, NEW s \in Seq(S), NEW i \in DOMAIN s, NEW x \in S
    PROVE  LET r == [s EXCEPT ![i] = x]
           IN /\ r \in Seq(S) /\ Len(r) = Len(s) /\ DOMAIN r = DOMAIN s /\ r[i] = x
              /\ \A j \in DOMAIN s : j # i => r[j] = s[j]
OBVIOUS

LEMMA FunctionIsSeq ==
    ASSUME NEW S, NEW T, NEW s \in Seq(S), NEW f, f = [i \in DOMAIN s |-> f[i]],
           \A i \in DOMAIN s : f[i] \in T
    PROVE  f \in Seq(T) /\ Len(f) = Len(s) /\ DOMAIN f = DOMAIN s
<1>1. DOMAIN s = 1 .. Len(s) /\ Len(s) \in Nat
  OBVIOUS
<1>2. f \in [1 .. Len(s) -> T]
  BY <1>1
<1>3. f \in Seq(T)
  BY <1>1, <1>2, SeqDef
<1> QED
  BY <1>1, <1>2, <1>3

-----------------------------------------------------------------------------
(* The operators that make a line.                                         *)

\* What a line of a description leaves alone.
Rest(p, q) ==
    /\ q.role = p.role /\ q.found = p.found
    /\ q.signaling = p.signaling /\ q.closed = p.closed /\ q.bundle = p.bundle
    /\ q.created = p.created /\ q.local = p.local /\ q.remote = p.remote
    /\ q.gathering = p.gathering /\ q.ice = p.ice /\ q.late = p.late
    /\ q.surfaced = p.surfaced /\ q.told = p.told

LEMMA RestTransitive ==
    ASSUME NEW p, NEW q, NEW r, Rest(p, q), Rest(q, r)
    PROVE  Rest(p, r)
BY DEF Rest

LEMMA SharedTransceiver ==
    ASSUME NEW p \in PCType, NEW kind \in {"audio", "video"},
           p.bundle, p.transceivers # <<>>, p.transceivers[1].transport \in 1 .. 2
    PROVE  LET q == CreateTransceiver(p, kind)
           IN /\ q \in PCType /\ Rest(p, q) /\ q.gatherers = p.gatherers /\ q.timers = p.timers
              /\ q.transports = p.transports
              /\ q.transceivers =
                     Append(p.transceivers, NewTransceiver(kind, p.transceivers[1].transport))
<1> DEFINE ts == Append(p.transceivers, NewTransceiver(kind, p.transceivers[1].transport))
<1>1. CreateTransceiver(p, kind) = [p EXCEPT !.transceivers = ts]
  BY DEF CreateTransceiver, NewTransceiver
<1>2. ts \in Seq(TransceiverType)
  BY NewTransceiverTyped DEF PCType
<1> HIDE DEF ts
<1> QED
  BY <1>1, <1>2 DEF PCType, Rest, ts

LEMMA OwnTransceiver ==
    ASSUME NEW p \in PCType, NEW kind \in {"audio", "video"},
           ~p.bundle \/ p.transceivers = <<>>, Len(p.transports) <= 1
    PROVE  LET q == CreateTransceiver(p, kind)
           IN /\ q \in PCType /\ Rest(p, q) /\ q.gatherers = p.gatherers /\ q.timers = p.timers
              /\ q.transports = Append(p.transports, Transport)
              /\ q.transceivers =
                     Append(p.transceivers, NewTransceiver(kind, Len(p.transports) + 1))
<1> DEFINE t == Len(p.transports) + 1
           ts == Append(p.transceivers, NewTransceiver(kind, t))
           us == Append(p.transports, Transport)
<1>1. Len(us) = t /\ t \in 1 .. 2
  BY DEF PCType
<1>2. CreateTransceiver(p, kind) = [[p EXCEPT !.transports = us] EXCEPT !.transceivers = ts]
  BY <1>1 DEF CreateTransceiver, AddTransport, NewTransceiver, PCType
<1>3. ts \in Seq(TransceiverType) /\ us \in Seq(TransportType)
  BY <1>1, NewTransceiverTyped, TransportTyped DEF PCType
<1> HIDE DEF ts, us, t
<1> QED
  BY <1>2, <1>3 DEF PCType, Rest, ts, us, t

LEMMA TransceiverIs ==
    TransceiverType =
        [kind : {"audio", "video"}, rejected : BOOLEAN, gatherer : 0 .. 2, transport : 0 .. 2,
         sender : 0 .. 2, receiver : 0 .. 2, codecs : SUBSET {"opus", "h264"},
         sending : BOOLEAN, receiving : BOOLEAN]
<1>1. {None} \cup DOMAIN Lines = 0 .. 2
  BY LinesAre
<1>2. UNION {LocalCodecs.audio, LocalCodecs.video} = {"opus", "h264"}
  BY Codecs
<1> QED
  BY <1>1, <1>2 DEF TransceiverType

LEMMA SameTransceiver ==
    ASSUME NEW x \in TransceiverType, NEW y \in TransceiverType,
           x.kind = y.kind, x.rejected = y.rejected, x.gatherer = y.gatherer,
           x.transport = y.transport, x.sender = y.sender, x.receiver = y.receiver,
           x.codecs = y.codecs, x.sending = y.sending, x.receiving = y.receiving
    PROVE  x = y
BY TransceiverIs

WithGatherer(x, g) == [x EXCEPT !.gatherer = g]

LEMMA WithGathererIs ==
    ASSUME NEW x \in TransceiverType, NEW g \in 0 .. 2
    PROVE  LET y == WithGatherer(x, g)
           IN /\ y \in TransceiverType
              /\ y.kind = x.kind /\ y.rejected = x.rejected /\ y.gatherer = g
              /\ y.transport = x.transport /\ y.sender = x.sender /\ y.receiver = x.receiver
              /\ y.codecs = x.codecs /\ y.sending = x.sending /\ y.receiving = x.receiving
BY TransceiverIs DEF WithGatherer

LEMMA OwnGatherer ==
    ASSUME NEW p \in PCType, NEW i \in DOMAIN p.transceivers, ~p.bundle \/ i = 1,
           Len(p.gatherers) + 1 = i, i \in 1 .. 2
    PROVE  LET q == CreateIceGatherer(p, i)
           IN /\ q \in PCType /\ Rest(p, q) /\ q.timers = p.timers /\ q.transports = p.transports
              /\ q.gatherers = Append(p.gatherers, NewGatherer(i))
              /\ q.transceivers =
                     [p.transceivers EXCEPT ![i] = WithGatherer(p.transceivers[i], i)]
<1> DEFINE gs == Append(p.gatherers, NewGatherer(i))
           ts == [p.transceivers EXCEPT ![i] = WithGatherer(p.transceivers[i], i)]
<1>1. CreateIceGatherer(p, i) = [[p EXCEPT !.gatherers = gs] EXCEPT !.transceivers = ts]
  <2> DEFINE q == [p EXCEPT !.gatherers = gs]
  <2>1. CreateIceGatherer(p, i) = [q EXCEPT !.transceivers[i].gatherer = i]
    <3>1. CreateIceGatherer(p, i) = [q EXCEPT !.transceivers[i].gatherer = Len(p.gatherers) + 1]
      <4>1. ~ (p.bundle /\ i > 1)
        OBVIOUS
      <4> QED
        BY <4>1, Zenon DEF CreateIceGatherer, NewGatherer
    <3> QED
      BY <3>1
  <2>2. q.transceivers = p.transceivers
    BY DEF PCType
  <2>3. [q.transceivers EXCEPT ![i].gatherer = i] = ts
    BY <2>2 DEF WithGatherer
  <2> HIDE DEF q, ts
  <2>4. [q EXCEPT !.transceivers[i].gatherer = i] = [q EXCEPT !.transceivers = ts]
    BY <2>3
  <2> QED
    BY <2>1, <2>4 DEF q
<1>2. WithGatherer(p.transceivers[i], i) \in TransceiverType
  <2>1. p.transceivers[i] \in TransceiverType
    BY DEF PCType
  <2> QED
    BY <2>1, WithGathererIs
<1>3. ts \in Seq(TransceiverType) /\ gs \in Seq(GathererType)
  BY <1>2, NewGathererTyped DEF PCType
<1> HIDE DEF ts, gs
<1>4. LET q == CreateIceGatherer(p, i)
      IN /\ q \in PCType /\ Rest(p, q) /\ q.timers = p.timers /\ q.transports = p.transports
         /\ q.gatherers = gs /\ q.transceivers = ts
  BY <1>1, <1>3, ZenonT(30) DEF PCType, Rest
<1> QED
  BY <1>4 DEF ts, gs

LEMMA SharedGatherer ==
    ASSUME NEW p \in PCType, NEW i \in DOMAIN p.transceivers, p.bundle, i = 2,
           p.transceivers[1].gatherer = 1
    PROVE  LET q == CreateIceGatherer(p, i)
           IN /\ q \in PCType /\ Rest(p, q) /\ q.timers = p.timers /\ q.transports = p.transports
              /\ q.gatherers = p.gatherers
              /\ q.transceivers =
                     [p.transceivers EXCEPT ![i] = WithGatherer(p.transceivers[i], 1)]
<1> DEFINE ts == [p.transceivers EXCEPT ![i] = WithGatherer(p.transceivers[i], 1)]
<1>1. CreateIceGatherer(p, i) = [p EXCEPT !.transceivers = ts]
  <2>1. CreateIceGatherer(p, i) = [p EXCEPT !.transceivers[i].gatherer = 1]
    BY DEF CreateIceGatherer
  <2>2. [p.transceivers EXCEPT ![i].gatherer = 1] = ts
    BY DEF WithGatherer
  <2> QED
    BY <2>1, <2>2
<1>2. WithGatherer(p.transceivers[i], 1) \in TransceiverType
  <2>1. p.transceivers[i] \in TransceiverType
    BY DEF PCType
  <2> QED
    BY <2>1, WithGathererIs
<1>3. ts \in Seq(TransceiverType)
  BY <1>2 DEF PCType
<1> HIDE DEF ts
<1>4. LET q == [p EXCEPT !.transceivers = ts]
      IN /\ q \in PCType /\ Rest(p, q) /\ q.timers = p.timers /\ q.transports = p.transports
         /\ q.gatherers = p.gatherers /\ q.transceivers = ts
  BY <1>3 DEF PCType, Rest
<1> QED
  BY <1>1, <1>4 DEF ts

-----------------------------------------------------------------------------
(* The first offer.                                                        *)

Sends(kind, t) ==
    [kind |-> kind, rejected |-> FALSE, gatherer |-> None, transport |-> t,
     sender |-> t, receiver |-> None, codecs |-> {}, sending |-> FALSE, receiving |-> FALSE]

Offered(kind, t) ==
    [kind |-> kind, rejected |-> FALSE, gatherer |-> t, transport |-> t,
     sender |-> t, receiver |-> t, codecs |-> {}, sending |-> FALSE, receiving |-> FALSE]

LEMMA SendsIs ==
    ASSUME NEW kind \in {"audio", "video"}, NEW t \in 1 .. 2
    PROVE  /\ Sends(kind, t) \in TransceiverType
           /\ [NewTransceiver(kind, t) EXCEPT !.sender = t] = Sends(kind, t)
<1>1. Sends(kind, t) \in TransceiverType
  BY TransceiverIs DEF Sends
<1> DEFINE x == NewTransceiver(kind, t)
<1>2. x \in TransceiverType
  BY NewTransceiverTyped
<1>3. /\ x.kind = kind /\ x.rejected = FALSE /\ x.gatherer = None /\ x.transport = t
      /\ x.receiver = None /\ x.codecs = {} /\ x.sending = FALSE /\ x.receiving = FALSE
  BY DEF NewTransceiver
<1> HIDE DEF x
<1>4. [x EXCEPT !.sender = t] = Sends(kind, t)
  <2> DEFINE y == [x EXCEPT !.sender = t]
             z == Sends(kind, t)
  <2>1. y \in TransceiverType /\ z \in TransceiverType
    BY <1>1, <1>2, TransceiverIs
  <2>2. /\ y.kind = z.kind /\ y.rejected = z.rejected /\ y.gatherer = z.gatherer
        /\ y.transport = z.transport /\ y.sender = z.sender /\ y.receiver = z.receiver
        /\ y.codecs = z.codecs /\ y.sending = z.sending /\ y.receiving = z.receiving
    BY <1>2, <1>3, TransceiverIs DEF Sends
  <2> HIDE DEF y, z
  <2>3. y = z
    BY <2>1, <2>2, SameTransceiver
  <2> QED
    BY <2>3 DEF y, z
<1> QED
  BY <1>1, <1>4 DEF x

LEMMA OfferedIs ==
    ASSUME NEW kind \in {"audio", "video"}, NEW t \in 1 .. 2
    PROVE  /\ Offered(kind, t) \in TransceiverType
           /\ [WithGatherer(Sends(kind, t), t) EXCEPT !.receiver = t] = Offered(kind, t)
<1>1. Offered(kind, t) \in TransceiverType
  BY TransceiverIs DEF Offered
<1> DEFINE x == Sends(kind, t)
           y == WithGatherer(x, t)
<1>2. x \in TransceiverType
  BY SendsIs
<1>3. /\ x.kind = kind /\ x.rejected = FALSE /\ x.sender = t /\ x.transport = t
      /\ x.receiver = None /\ x.codecs = {} /\ x.sending = FALSE /\ x.receiving = FALSE
  BY DEF Sends
<1> HIDE DEF x
<1>4. /\ y \in TransceiverType
      /\ y.kind = kind /\ y.rejected = FALSE /\ y.sender = t /\ y.transport = t
      /\ y.gatherer = t /\ y.codecs = {} /\ y.sending = FALSE /\ y.receiving = FALSE
  BY <1>2, <1>3, WithGathererIs
<1> HIDE DEF y
<1>5. [y EXCEPT !.receiver = t] = Offered(kind, t)
  <2> DEFINE w == [y EXCEPT !.receiver = t]
             z == Offered(kind, t)
  <2>1. w \in TransceiverType /\ z \in TransceiverType
    BY <1>1, <1>4, TransceiverIs
  <2>2. /\ w.kind = z.kind /\ w.rejected = z.rejected /\ w.gatherer = z.gatherer
        /\ w.transport = z.transport /\ w.sender = z.sender /\ w.receiver = z.receiver
        /\ w.codecs = z.codecs /\ w.sending = z.sending /\ w.receiving = z.receiving
    BY <1>4, TransceiverIs DEF Offered
  <2> HIDE DEF w, z
  <2>3. w = z
    BY <2>1, <2>2, SameTransceiver
  <2> QED
    BY <2>3 DEF w, z
<1> QED
  BY <1>1, <1>5 DEF x, y

LEMMA AddTrackMakes ==
    ASSUME NEW p \in PCType, NEW kind \in {"audio", "video"}, Len(p.transports) <= 1,
           \A i \in DOMAIN p.transceivers : p.transceivers[i].kind # kind,
           ~p.bundle
    PROVE  LET q == AddTrack(p, kind)
           IN /\ q \in PCType /\ Rest(p, q) /\ q.gatherers = p.gatherers /\ q.timers = p.timers
              /\ q.transports = Append(p.transports, Transport)
              /\ q.transceivers = Append(p.transceivers, Sends(kind, Len(p.transports) + 1))
<1> DEFINE t == Len(p.transports) + 1
           q == CreateTransceiver(p, kind)
           n == Len(q.transceivers)
           x == NewTransceiver(kind, t)
           y == Sends(kind, t)
           s == p.transceivers
           ts == Append(s, y)
<1>1. {i \in DOMAIN p.transceivers : /\ p.transceivers[i].kind = kind
                                     /\ p.transceivers[i].sender = None} = {}
  OBVIOUS
<1>2. /\ q \in PCType /\ Rest(p, q) /\ q.gatherers = p.gatherers /\ q.timers = p.timers
      /\ q.transports = Append(p.transports, Transport)
      /\ q.transceivers = Append(s, x)
  BY OwnTransceiver
<1>3. t \in 1 .. 2 /\ s \in Seq(TransceiverType)
  BY DEF PCType
<1>4. x \in TransceiverType /\ y \in TransceiverType /\ x.transport = t
      /\ [x EXCEPT !.sender = t] = y
  BY <1>3, NewTransceiverTyped, SendsIs DEF NewTransceiver
<1>5. AddTrack(p, kind) = [q EXCEPT !.transceivers[n].sender = q.transceivers[n].transport]
  BY <1>1 DEF AddTrack
<1> HIDE DEF q, x, y, s, t
<1>6. n = Len(s) + 1 /\ q.transceivers[n] = x
  BY <1>2, <1>3, <1>4
<1>7. [q.transceivers EXCEPT ![n].sender = q.transceivers[n].transport] = ts
  <2>1. [Append(s, x) EXCEPT ![Len(s) + 1] = y] = Append(s, y)
    BY <1>3, <1>4, AppendExcept
  <2>2. [q.transceivers EXCEPT ![n].sender = q.transceivers[n].transport]
          = [q.transceivers EXCEPT ![n] = y]
    BY <1>4, <1>6
  <2> QED
    BY <2>1, <2>2, <1>2, <1>6
<1>8. ts \in Seq(TransceiverType)
  BY <1>3, <1>4
<1>9. AddTrack(p, kind) = [q EXCEPT !.transceivers = ts]
  BY <1>5, <1>7
<1> HIDE DEF ts
<1>10. LET r == [q EXCEPT !.transceivers = ts]
       IN /\ r \in PCType /\ Rest(q, r) /\ r.gatherers = q.gatherers /\ r.timers = q.timers
          /\ r.transports = q.transports /\ r.transceivers = ts
  BY <1>2, <1>8 DEF PCType, Rest
<1> QED
  BY <1>2, <1>9, <1>10, RestTransitive DEF ts, s, y, t

LEMMA OfferLineMakes ==
    ASSUME NEW p \in PCType, NEW i \in DOMAIN p.transceivers, NEW kind \in {"audio", "video"},
           p.transceivers[i] = Sends(kind, i), ~p.bundle, Len(p.gatherers) + 1 = i,
           i \in 1 .. 2
    PROVE  LET q == OfferLine(p, i)
           IN /\ q \in PCType /\ Rest(p, q) /\ q.timers = p.timers /\ q.transports = p.transports
              /\ q.gatherers = Append(p.gatherers, NewGatherer(i))
              /\ q.transceivers = [p.transceivers EXCEPT ![i] = Offered(kind, i)]
<1> DEFINE q == CreateIceGatherer(p, i)
           x == p.transceivers[i]
           y == WithGatherer(x, i)
           z == Offered(kind, i)
           ts == [p.transceivers EXCEPT ![i] = z]
<1>1. x.gatherer = None /\ x.transport = i
  BY DEF Sends
<1>2. /\ q \in PCType /\ Rest(p, q) /\ q.timers = p.timers /\ q.transports = p.transports
      /\ q.gatherers = Append(p.gatherers, NewGatherer(i))
      /\ q.transceivers = [p.transceivers EXCEPT ![i] = y]
  BY OwnGatherer
<1>3. z \in TransceiverType /\ [y EXCEPT !.receiver = i] = z
  BY OfferedIs
<1>4. OfferLine(p, i) = [q EXCEPT !.transceivers[i].receiver = i]
  BY <1>1 DEF OfferLine
<1>5. ts \in Seq(TransceiverType)
  BY <1>3 DEF PCType
<1> HIDE DEF q, y, z
<1>6. [q.transceivers EXCEPT ![i].receiver = i] = ts
  BY <1>2, <1>3
<1>7. OfferLine(p, i) = [q EXCEPT !.transceivers = ts]
  BY <1>4, <1>6
<1> HIDE DEF ts
<1>8. LET r == [q EXCEPT !.transceivers = ts]
      IN /\ r \in PCType /\ Rest(q, r) /\ r.gatherers = q.gatherers /\ r.timers = q.timers
         /\ r.transports = q.transports /\ r.transceivers = ts
  BY <1>2, <1>5 DEF PCType, Rest
<1> QED
  BY <1>2, <1>7, <1>8, RestTransitive DEF ts, z

WearersOffer ==
    <<Line("audio", TRUE, TRUE, {"opus"}, {}), Line("video", TRUE, TRUE, {"h264"}, {})>>

\* What the first offer of a wearer makes of a new connection.
IsOffered(p, r) ==
    /\ r \in PCType
    /\ r.transports = <<Transport, Transport>>
    /\ r.gatherers = <<NewGatherer(1), NewGatherer(2)>>
    /\ r.transceivers = <<Offered("audio", 1), Offered("video", 2)>>
    /\ r.created = WearersOffer
    /\ r.role = p.role /\ r.found = p.found
    /\ r.signaling = p.signaling /\ r.closed = p.closed /\ r.bundle = p.bundle
    /\ r.local = p.local /\ r.remote = p.remote /\ r.timers = p.timers
    /\ r.gathering = p.gathering /\ r.ice = p.ice /\ r.late = p.late
    /\ r.surfaced = p.surfaced /\ r.told = p.told

LEMMA OffersTracks ==
    ASSUME NEW p \in PCType, p.role # "observer", Bare(p)
    PROVE  LET q == AddStream(p)
           IN /\ q \in PCType /\ Rest(p, q) /\ q.gatherers = <<>> /\ q.timers = p.timers
              /\ q.transports = <<Transport, Transport>>
              /\ q.transceivers = <<Sends("audio", 1), Sends("video", 2)>>
<1> DEFINE q == AddTrack(p, "audio")
           r == AddTrack(q, "video")
           a == Sends("audio", 1)
           v == Sends("video", 2)
<1>1. /\ p.transceivers = <<>> /\ p.transports = <<>> /\ p.gatherers = <<>> /\ ~p.bundle
  BY DEF Bare, New
<1>2. AddStream(p) = r
  BY DEF AddStream, Tracks
<1>3. /\ q \in PCType /\ Rest(p, q) /\ q.gatherers = p.gatherers /\ q.timers = p.timers
      /\ q.transports = Append(p.transports, Transport)
      /\ q.transceivers = Append(p.transceivers, a)
  <2>1. /\ \A i \in DOMAIN p.transceivers : p.transceivers[i].kind # "audio"
        /\ Len(p.transports) = 0
    BY <1>1
  <2>2. Len(p.transports) <= 1 /\ Len(p.transports) + 1 = 1
    BY <2>1
  <2> QED
    BY <1>1, <2>1, <2>2, AddTrackMakes
<1> HIDE DEF q
<1>4. q.transports = <<Transport>> /\ q.transceivers = <<a>>
  BY <1>1, <1>3, Tuples
<1>5. /\ r \in PCType /\ Rest(q, r) /\ r.gatherers = q.gatherers /\ r.timers = q.timers
      /\ r.transports = Append(q.transports, Transport)
      /\ r.transceivers = Append(q.transceivers, v)
  <2>1. \A i \in DOMAIN q.transceivers : q.transceivers[i].kind # "video"
    BY <1>4 DEF Sends
  <2>2. Len(q.transports) <= 1 /\ Len(q.transports) + 1 = 2
    BY <1>4
  <2>3. ~q.bundle
    BY <1>1, <1>3 DEF Rest
  <2> QED
    BY <1>3, <2>1, <2>2, <2>3, AddTrackMakes, ZenonT(30)
<1> HIDE DEF r, a, v
<1>6. r.transports = <<Transport, Transport>> /\ r.transceivers = <<a, v>>
  BY <1>4, <1>5, Tuples
<1> QED
  BY <1>1, <1>2, <1>3, <1>5, <1>6, RestTransitive DEF a, v

LEMMA OfferMade ==
    ASSUME NEW p \in PCType, p.role # "observer", Bare(p)
    PROVE  IsOffered(p, CreateOffer(AddStream(p)))
<1> DEFINE q == AddStream(p)
           r == OfferLine(q, 1)
           s == OfferLine(r, 2)
           a == Sends("audio", 1)
           v == Sends("video", 2)
           oa == Offered("audio", 1)
           ov == Offered("video", 2)
           g1 == NewGatherer(1)
           g2 == NewGatherer(2)
<1>1. /\ q \in PCType /\ Rest(p, q) /\ q.gatherers = <<>> /\ q.timers = p.timers
      /\ q.transports = <<Transport, Transport>> /\ q.transceivers = <<a, v>>
  BY OffersTracks
<1>2. ~p.bundle
  BY DEF Bare, New
<1>3. EachLine(OfferLine, q) = s
  BY DEF EachLine
<1> HIDE DEF q
<1>4. /\ r \in PCType /\ Rest(q, r) /\ r.timers = q.timers /\ r.transports = q.transports
      /\ r.gatherers = Append(q.gatherers, g1)
      /\ r.transceivers = [q.transceivers EXCEPT ![1] = oa]
  <2>1. 1 \in DOMAIN q.transceivers /\ q.transceivers[1] = a /\ Len(q.gatherers) + 1 = 1
    BY <1>1
  <2>2. ~q.bundle
    BY <1>1, <1>2 DEF Rest
  <2> QED
    BY <1>1, <2>1, <2>2, OfferLineMakes, "audio" \in {"audio", "video"}, 1 \in 1 .. 2
<1> HIDE DEF r, g1, g2, a, v, oa, ov
<1>5. r.gatherers = <<g1>> /\ r.transceivers = <<oa, v>>
  BY <1>1, <1>4, Tuples, TupleExcept
<1>6. /\ s \in PCType /\ Rest(r, s) /\ s.timers = r.timers /\ s.transports = r.transports
      /\ s.gatherers = Append(r.gatherers, g2)
      /\ s.transceivers = [r.transceivers EXCEPT ![2] = ov]
  <2>1. 2 \in DOMAIN r.transceivers /\ r.transceivers[2] = v /\ Len(r.gatherers) + 1 = 2
    BY <1>5
  <2>2. ~r.bundle
    BY <1>1, <1>2, <1>4 DEF Rest
  <2> QED
    BY <1>4, <2>1, <2>2, OfferLineMakes, "video" \in {"audio", "video"}, 2 \in 1 .. 2
       DEF v, ov, g2
<1> HIDE DEF s
<1>7. s.gatherers = <<g1, g2>> /\ s.transceivers = <<oa, ov>>
  BY <1>5, <1>6, Tuples, TupleExcept
<1>8. Rest(p, s) /\ s.timers = p.timers /\ s.transports = <<Transport, Transport>>
  BY <1>1, <1>4, <1>6, RestTransitive
<1>9. [i \in DOMAIN s.transceivers |->
          MediaSection(s.transceivers[i], LocalCodecs[s.transceivers[i].kind])] = WearersOffer
  <2> DEFINE f == [i \in DOMAIN s.transceivers |->
                      MediaSection(s.transceivers[i], LocalCodecs[s.transceivers[i].kind])]
  <2>1. /\ oa.kind = "audio" /\ oa.sender # None /\ oa.receiver # None
        /\ ov.kind = "video" /\ ov.sender # None /\ ov.receiver # None
    BY DEF oa, ov, Offered
  <2>2. /\ f[1] = Line("audio", oa.sender # None, oa.receiver # None, {"opus"}, {})
        /\ f[2] = Line("video", ov.sender # None, ov.receiver # None, {"h264"}, {})
    BY <1>7, <2>1, Codecs DEF MediaSection
  <2>3. DOMAIN f = 1 .. 2 /\ f = [i \in 1 .. 2 |-> f[i]]
    BY <1>7
  <2> HIDE DEF f
  <2>4. f = <<f[1], f[2]>>
    BY <2>3, FunctionIsPair
  <2>5. (oa.sender # None) = TRUE /\ (oa.receiver # None) = TRUE
        /\ (ov.sender # None) = TRUE /\ (ov.receiver # None) = TRUE
    BY <2>1
  <2> QED
    BY <2>2, <2>4, <2>5 DEF f, WearersOffer
<1>10. CreateOffer(AddStream(p)) = [s EXCEPT !.created = WearersOffer]
  BY <1>3, <1>9 DEF CreateOffer, q
<1>11. WearersOffer \in Seq(LineType)
  <2>1. /\ Line("audio", TRUE, TRUE, {"opus"}, {}) \in LineType
        /\ Line("video", TRUE, TRUE, {"h264"}, {}) \in LineType
    BY Codecs DEF Line, LineType
  <2> QED
    BY <2>1, PairTyped DEF WearersOffer
<1>12. LET t == [s EXCEPT !.created = WearersOffer]
       IN /\ t \in PCType /\ t.transports = s.transports /\ t.gatherers = s.gatherers
          /\ t.transceivers = s.transceivers /\ t.created = WearersOffer
          /\ t.role = s.role /\ t.found = s.found
          /\ t.signaling = s.signaling /\ t.closed = s.closed /\ t.bundle = s.bundle
          /\ t.local = s.local /\ t.remote = s.remote /\ t.timers = s.timers
          /\ t.gathering = s.gathering /\ t.ice = s.ice /\ t.late = s.late
          /\ t.surfaced = s.surfaced /\ t.told = s.told
  BY <1>6, <1>11 DEF PCType
<1> QED
  BY <1>7, <1>8, <1>10, <1>12 DEF Rest, IsOffered, oa, ov, g1, g2

-----------------------------------------------------------------------------
(* The offer of the other end.                                             *)

\* Two sequences of transports that differ in what they were told of the other end.
SameIce(us, vs) ==
    /\ DOMAIN vs = DOMAIN us /\ Len(vs) = Len(us)
    /\ \A t \in DOMAIN us : /\ vs[t].ice = us[t].ice /\ vs[t].started = us[t].started
                            /\ vs[t].attached = us[t].attached

LEMMA AddCandidatesIs ==
    ASSUME NEW p \in PCType, NEW i \in DOMAIN p.transceivers,
           NEW cands \in SUBSET (RemoteCands \cup {END}),
           p.transceivers[i].transport \in DOMAIN p.transports
    PROVE  LET q == AddCandidates(p, i, cands)
           IN /\ q \in PCType /\ Rest(p, q) /\ q.gatherers = p.gatherers /\ q.timers = p.timers
              /\ q.transceivers = p.transceivers /\ SameIce(p.transports, q.transports)
<1> DEFINE t == p.transceivers[i].transport
           x == p.transports[t]
           y == [x EXCEPT !.remote = IF x.ice = "new" THEN @ \cup cands ELSE @]
           us == [p.transports EXCEPT ![t] = y]
<1>1. x \in TransportType
  BY DEF PCType
<1>2. /\ y \in TransportType /\ y.ice = x.ice /\ y.started = x.started
      /\ y.attached = x.attached
  BY <1>1, Zenon DEF TransportType
<1>3. AddCandidates(p, i, cands) = [p EXCEPT !.transports = us]
  BY DEF AddCandidates
<1> HIDE DEF y
<1>4. us \in Seq(TransportType) /\ SameIce(p.transports, us)
  BY <1>2 DEF PCType, SameIce
<1> HIDE DEF us
<1>5. LET q == [p EXCEPT !.transports = us]
      IN /\ q \in PCType /\ Rest(p, q) /\ q.gatherers = p.gatherers /\ q.timers = p.timers
         /\ q.transceivers = p.transceivers /\ q.transports = us
  BY <1>4 DEF PCType, Rest
<1> QED
  BY <1>3, <1>4, <1>5

LEMMA CommonIs ==
    ASSUME NEW x \in TransceiverType
    PROVE  /\ CommonCodecs(x) \in SUBSET {"opus", "h264"}
           /\ (x.kind = "audio" /\ x.codecs = {"opus"}) => CommonCodecs(x) = {"opus"}
           /\ (x.kind = "video" /\ x.codecs = {"h264"}) => CommonCodecs(x) = {"h264"}
           /\ (x.kind = "video") => CommonCodecs(x) = {} \/ CommonCodecs(x) = {"h264"}
BY TransceiverIs, Codecs DEF CommonCodecs

LEMMA TransceiveIs ==
    ASSUME NEW x \in TransceiverType, NEW send \in BOOLEAN, NEW recv \in BOOLEAN
    PROVE  LET y == Transceive(x, send, recv)
           IN /\ y \in TransceiverType
              /\ y.kind = x.kind /\ y.rejected = x.rejected /\ y.gatherer = x.gatherer
              /\ y.transport = x.transport /\ y.sender = x.sender /\ y.receiver = x.receiver
              /\ y.codecs = x.codecs
              /\ y.sending => x.sending \/ x.sender # None
              /\ y.receiving => x.receiving \/ x.receiver # None
<1> DEFINE s == x.sending \/ (send /\ x.sender # None)
           r == x.receiving \/ (recv /\ x.receiver # None /\ CommonCodecs(x) # {})
<1>1. s \in BOOLEAN /\ r \in BOOLEAN
  BY TransceiverIs
<1>2. s => x.sending \/ x.sender # None
  OBVIOUS
<1>3. r => x.receiving \/ x.receiver # None
  OBVIOUS
<1>4. Transceive(x, send, recv) = [[x EXCEPT !.sending = s] EXCEPT !.receiving = r]
  BY DEF Transceive
<1> HIDE DEF s, r
<1> QED
  BY <1>1, <1>2, <1>3, <1>4, TransceiverIs

\* The transceiver of an accepted line whose end sends no track, over transport t.
IsLine(x, kind, t) ==
    /\ x.kind = kind /\ ~x.rejected /\ x.gatherer = t /\ x.transport = t
    /\ x.sender = None /\ x.receiver = t /\ ~x.sending

Fresh(us) == \A t \in DOMAIN us : us[t].ice = "new" /\ ~us[t].started /\ us[t].attached

LEMMA FreshTransport ==
    ASSUME NEW us \in Seq(TransportType), Fresh(us)
    PROVE  Fresh(Append(us, Transport))
BY TransportTyped DEF Fresh, Transport

LEMMA FreshSame ==
    ASSUME NEW us, NEW vs, Fresh(us), SameIce(us, vs)
    PROVE  Fresh(vs)
BY DEF Fresh, SameIce

\* The last part of OfferedLine, once the line has its transports.
Accepts(p, i, s) ==
    LET x == [p.transceivers[i] EXCEPT !.codecs = s.codecs,
                  !.receiver = IF s.sends THEN p.transceivers[i].transport ELSE None]
    IN [p EXCEPT !.transceivers[i] = Transceive(x, FALSE, s.sends)]

LEMMA AcceptsIs ==
    ASSUME NEW p \in PCType, NEW i \in DOMAIN p.transceivers, NEW s \in LineType, s.sends,
           LET x == p.transceivers[i]
           IN /\ ~x.rejected /\ x.gatherer = x.transport /\ x.transport \in 1 .. 2
              /\ x.sender = None /\ ~x.sending
    PROVE  LET q == Accepts(p, i, s)
           IN /\ q \in PCType /\ Rest(p, q) /\ q.gatherers = p.gatherers /\ q.timers = p.timers
              /\ q.transports = p.transports
              /\ q.transceivers = [p.transceivers EXCEPT ![i] = q.transceivers[i]]
              /\ IsLine(q.transceivers[i], p.transceivers[i].kind, p.transceivers[i].transport)
<1> DEFINE x == p.transceivers[i]
           kind == x.kind
           t == x.transport
           y == [[x EXCEPT !.codecs = s.codecs] EXCEPT !.receiver = t]
           z == Transceive(y, FALSE, TRUE)
           ts == [p.transceivers EXCEPT ![i] = z]
<1>1. x \in TransceiverType
  BY DEF PCType
<1>2. s.codecs \in SUBSET {"opus", "h264"}
  BY Codecs DEF LineType
<1>3. /\ y \in TransceiverType /\ y.kind = kind /\ ~y.rejected /\ y.gatherer = t
      /\ y.transport = t /\ y.sender = None /\ y.receiver = t /\ ~y.sending
  BY <1>1, <1>2, TransceiverIs
<1>4. s.sends = TRUE
  BY DEF LineType
<1>5. Accepts(p, i, s) = [p EXCEPT !.transceivers = ts]
  BY <1>4 DEF Accepts
<1> HIDE DEF y
<1>6. z \in TransceiverType /\ IsLine(z, kind, t)
  BY <1>3, TransceiveIs DEF IsLine
<1> HIDE DEF z
<1>7. ts \in Seq(TransceiverType) /\ ts[i] = z
  BY <1>6 DEF PCType
<1>8. ts = [p.transceivers EXCEPT ![i] = ts[i]]
  BY <1>7
<1> HIDE DEF ts
<1>9. LET q == [p EXCEPT !.transceivers = ts]
      IN /\ q \in PCType /\ Rest(p, q) /\ q.gatherers = p.gatherers /\ q.timers = p.timers
         /\ q.transports = p.transports /\ q.transceivers = ts
  BY <1>7 DEF PCType, Rest
<1> QED
  BY <1>5, <1>6, <1>7, <1>8, <1>9

\* What the section s of an offer, the next one, makes of connection p: connection q.
LineMade(p, i, s, q) ==
    LET t == IF p.bundle THEN 1 ELSE i
    IN /\ q \in PCType /\ Rest(p, q) /\ q.timers = p.timers
       /\ Fresh(q.transports) /\ Len(q.transports) = t
       /\ q.gatherers = IF t = i THEN Append(p.gatherers, NewGatherer(i)) ELSE p.gatherers
       /\ Len(q.transceivers) = i
       /\ \A j \in DOMAIN p.transceivers : q.transceivers[j] = p.transceivers[j]
       /\ IsLine(q.transceivers[i], s.kind, t)

LEMMA OfferedLineMakes ==
    ASSUME NEW p \in PCType, NEW i \in 1 .. 2, NEW s \in LineType,
           i = Len(p.transceivers) + 1, s.sends, s.cands = {},
           Fresh(p.transports), Len(p.gatherers) = Len(p.transports),
           Len(p.transports) = i - 1,
           \A j \in DOMAIN p.transceivers :
               p.transceivers[j].gatherer = 1 /\ p.transceivers[j].transport = 1
    PROVE  LineMade(p, i, s, OfferedLine(p, i, s))
<1> DEFINE t == IF p.bundle THEN 1 ELSE i
<1>t. t \in 1 .. 2 /\ t = IF p.bundle THEN 1 ELSE i
  OBVIOUS
<1> HIDE DEF t
<1> DEFINE made == CreateTransceiver(p, s.kind)
           q == CreateIceGatherer(made, i)
           r == AddCandidates(q, i, s.cands)
           x == NewTransceiver(s.kind, t)
           us == IF t = i THEN Append(p.transports, Transport) ELSE p.transports
           gs == IF t = i THEN Append(p.gatherers, NewGatherer(i)) ELSE p.gatherers
<1>0. /\ p.transceivers \in Seq(TransceiverType) /\ p.transports \in Seq(TransportType)
      /\ p.gatherers \in Seq(GathererType) /\ s.kind \in {"audio", "video"}
      /\ x \in TransceiverType
  BY <1>t, NewTransceiverTyped DEF PCType, LineType
<1>1. /\ made \in PCType /\ Rest(p, made) /\ made.gatherers = p.gatherers
      /\ made.timers = p.timers /\ made.transports = us
      /\ made.transceivers = Append(p.transceivers, x)
  <2>1. CASE p.bundle /\ i = 2
    <3>1. p.transceivers # <<>> /\ p.transceivers[1].transport = 1 /\ 1 \in 1 .. 2
      BY <2>1, <1>0
    <3>2. t = 1 /\ us = p.transports
      BY <2>1, <1>t
    <3> QED
      BY <2>1, <3>1, <3>2, <1>0, SharedTransceiver
  <2>2. CASE ~p.bundle \/ i = 1
    <3>1. t = i /\ Len(p.transports) <= 1 /\ Len(p.transports) + 1 = i
      BY <2>2, <1>0, <1>t
    <3>2. ~p.bundle \/ p.transceivers = <<>>
      BY <2>2, <1>0
    <3>3. /\ made \in PCType /\ Rest(p, made) /\ made.gatherers = p.gatherers
          /\ made.timers = p.timers /\ made.transports = Append(p.transports, Transport)
          /\ made.transceivers =
                 Append(p.transceivers, NewTransceiver(s.kind, Len(p.transports) + 1))
      BY <3>1, <3>2, <1>0, OwnTransceiver
    <3> HIDE DEF made
    <3> QED
      BY <3>1, <3>3
  <2> QED
    BY <2>1, <2>2
<1>2. /\ x.kind = s.kind /\ ~x.rejected /\ x.gatherer = None /\ x.transport = t
      /\ x.sender = None /\ ~x.sending
  BY DEF NewTransceiver
<1>3. i \notin DOMAIN p.transceivers
  BY <1>0
<1> HIDE DEF made, x
<1>4. /\ Len(made.transceivers) = i /\ i \in DOMAIN made.transceivers
      /\ made.transceivers[i] = x
      /\ \A j \in 1 .. i - 1 : made.transceivers[j] = p.transceivers[j]
  BY <1>0, <1>1
<1>5. /\ q \in PCType /\ Rest(made, q) /\ q.timers = made.timers /\ q.transports = us
      /\ q.gatherers = gs
      /\ q.transceivers = [made.transceivers EXCEPT ![i] = WithGatherer(x, t)]
  <2>1. made.bundle = p.bundle
    BY <1>1 DEF Rest
  <2>2. CASE p.bundle /\ i = 2
    <3>1. made.transceivers[1].gatherer = 1 /\ t = 1 /\ gs = p.gatherers
      BY <1>4, <2>2, <1>t
    <3>2. made.bundle /\ i \in DOMAIN made.transceivers /\ i = 2
      BY <2>1, <2>2, <1>4
    <3>3. /\ q \in PCType /\ Rest(made, q) /\ q.timers = made.timers
          /\ q.transports = made.transports /\ q.gatherers = made.gatherers
          /\ q.transceivers =
                 [made.transceivers EXCEPT ![i] = WithGatherer(made.transceivers[i], 1)]
      BY <3>1, <3>2, <1>1, SharedGatherer
    <3> HIDE DEF q
    <3> QED
      BY <3>1, <3>3, <1>1, <1>4
  <2>3. CASE ~p.bundle \/ i = 1
    <3>1. t = i /\ Len(made.gatherers) + 1 = i
      BY <2>3, <1>0, <1>1, <1>t
    <3>2. ~made.bundle \/ i = 1
      BY <2>1, <2>3
    <3>3. /\ q \in PCType /\ Rest(made, q) /\ q.timers = made.timers
          /\ q.transports = made.transports
          /\ q.gatherers = Append(made.gatherers, NewGatherer(i))
          /\ q.transceivers =
                 [made.transceivers EXCEPT ![i] = WithGatherer(made.transceivers[i], i)]
      BY <3>1, <3>2, <1>1, <1>4, OwnGatherer
    <3> HIDE DEF q
    <3> QED
      BY <3>1, <3>3, <1>1, <1>4
  <2> QED
    BY <2>2, <2>3
<1> DEFINE y == WithGatherer(x, t)
<1>6. /\ y \in TransceiverType
      /\ y.kind = s.kind /\ ~y.rejected /\ y.gatherer = t /\ y.transport = t
      /\ y.sender = None /\ ~y.sending
  BY <1>0, <1>2, <1>t, WithGathererIs
<1> HIDE DEF q, y
<1>7. /\ Len(q.transceivers) = i /\ i \in DOMAIN q.transceivers /\ q.transceivers[i] = y
      /\ \A j \in 1 .. i - 1 : q.transceivers[j] = p.transceivers[j]
  <2>1. made.transceivers \in Seq(TransceiverType)
    BY <1>1 DEF PCType
  <2>2. q.transceivers = [made.transceivers EXCEPT ![i] = y]
    BY <1>5 DEF y
  <2> QED
    BY <1>4, <1>6, <2>1, <2>2, ExceptIs
<1>8. Len(us) = t /\ Fresh(us) /\ t \in DOMAIN us
  BY <1>0, <1>t, FreshTransport
<1> HIDE DEF us, gs
<1>9. /\ r \in PCType /\ Rest(q, r) /\ r.gatherers = q.gatherers /\ r.timers = q.timers
      /\ r.transceivers = q.transceivers /\ SameIce(q.transports, r.transports)
  <2>1. s.cands \in SUBSET (RemoteCands \cup {END})
    OBVIOUS
  <2>2. q.transceivers[i].transport \in DOMAIN q.transports
    BY <1>5, <1>6, <1>7, <1>8
  <2> QED
    BY <2>1, <2>2, <1>5, <1>7, AddCandidatesIs
<1>10. OfferedLine(p, i, s) = Accepts(r, i, s)
  <2>1. made.transceivers[i].gatherer = None
    BY <1>2, <1>4
  <2> QED
    BY <1>3, <2>1, Zenon DEF OfferedLine, Accepts, made, q
<1> HIDE DEF r
<1> DEFINE a == Accepts(r, i, s)
<1>11. /\ a \in PCType /\ Rest(r, a) /\ a.gatherers = r.gatherers /\ a.timers = r.timers
       /\ a.transports = r.transports
       /\ a.transceivers = [r.transceivers EXCEPT ![i] = a.transceivers[i]]
       /\ IsLine(a.transceivers[i], s.kind, t)
  <2>1. i \in DOMAIN r.transceivers /\ r.transceivers[i] = y
    BY <1>7, <1>9
  <2>2. LET z == r.transceivers[i]
        IN /\ ~z.rejected /\ z.gatherer = z.transport /\ z.transport \in 1 .. 2
           /\ z.sender = None /\ ~z.sending
    BY <1>6, <2>1, <1>t
  <2>3. r.transceivers[i].kind = s.kind /\ r.transceivers[i].transport = t
    BY <1>6, <2>1
  <2>4. /\ a \in PCType /\ Rest(r, a) /\ a.gatherers = r.gatherers /\ a.timers = r.timers
        /\ a.transports = r.transports
        /\ a.transceivers = [r.transceivers EXCEPT ![i] = a.transceivers[i]]
        /\ IsLine(a.transceivers[i], r.transceivers[i].kind, r.transceivers[i].transport)
    BY <1>9, <2>1, <2>2, AcceptsIs
  <2> HIDE DEF a
  <2> QED
    BY <2>3, <2>4
<1> HIDE DEF a
<1>12. /\ Len(a.transceivers) = i
       /\ \A j \in 1 .. i - 1 : a.transceivers[j] = p.transceivers[j]
  <2>1. r.transceivers \in Seq(TransceiverType) /\ a.transceivers \in Seq(TransceiverType)
    BY <1>9, <1>11 DEF PCType
  <2>2. \A j \in 1 .. i - 1 : j # i /\ j \in DOMAIN r.transceivers
    BY <1>7, <1>9, <2>1
  <2>3. Len(a.transceivers) = Len(r.transceivers)
    BY <1>11, <2>1
  <2>4. \A j \in DOMAIN r.transceivers : j # i => a.transceivers[j] = r.transceivers[j]
    BY <1>11, <2>1
  <2> QED
    BY <1>7, <1>9, <2>2, <2>3, <2>4
<1>13. Fresh(a.transports) /\ Len(a.transports) = t
  BY <1>5, <1>8, <1>9, <1>11, FreshSame DEF SameIce
<1>14. Rest(p, a) /\ a.timers = p.timers /\ a.gatherers = gs
  BY <1>1, <1>5, <1>9, <1>11, RestTransitive
<1>15. DOMAIN p.transceivers = 1 .. i - 1
  BY <1>0
<1> QED
  BY <1>10, <1>11, <1>12, <1>13, <1>14, <1>15 DEF a, gs, t, LineMade

LEMMA SecondLineMakes ==
    ASSUME NEW q \in PCType, NEW s \in LineType,
           Len(q.transceivers) = 1, s.sends, s.cands = {},
           Fresh(q.transports), Len(q.gatherers) = 1, Len(q.transports) = 1,
           q.transceivers[1].gatherer = 1, q.transceivers[1].transport = 1
    PROVE  LET r == OfferedLine(q, 2, s)
               e == IF q.bundle THEN 1 ELSE 2
           IN /\ r \in PCType /\ Rest(q, r) /\ r.timers = q.timers
              /\ Fresh(r.transports) /\ Len(r.transports) = e
              /\ r.gatherers = IF q.bundle THEN q.gatherers
                               ELSE Append(q.gatherers, NewGatherer(2))
              /\ Len(r.transceivers) = 2
              /\ r.transceivers[1] = q.transceivers[1]
              /\ IsLine(r.transceivers[2], s.kind, e)
<1>1. PICK i \in 1 .. 2 : i = 2
  OBVIOUS
<1> DEFINE r == OfferedLine(q, i, s)
<1>2. i = Len(q.transceivers) + 1 /\ Len(q.transports) = i - 1 /\ DOMAIN q.transceivers = {1}
      /\ Len(q.gatherers) = Len(q.transports)
  BY <1>1 DEF PCType
<1>3. \A j \in DOMAIN q.transceivers :
          q.transceivers[j].gatherer = 1 /\ q.transceivers[j].transport = 1
  BY <1>2
<1>4. LineMade(q, i, s, r)
  BY <1>2, <1>3, OfferedLineMakes
<1>5. r = OfferedLine(q, 2, s)
  BY <1>1
<1> HIDE DEF r
<1> QED
  BY <1>1, <1>2, <1>4, <1>5 DEF LineMade

LEMMA OffersAre ==
    ASSUME NEW d \in Offers
    PROVE  /\ d.bundle \in BOOLEAN /\ DOMAIN d.lines = 1 .. 2 /\ Len(d.lines) = 2
           /\ d.lines[1] \in LineType /\ d.lines[1].kind = "audio" /\ d.lines[1].sends
           /\ d.lines[1].codecs = {"opus"} /\ d.lines[1].cands = {}
           /\ d.lines[2] \in LineType /\ d.lines[2].kind = "video" /\ d.lines[2].sends
           /\ d.lines[2].codecs = {"h264"} /\ d.lines[2].cands = {}
<1> DEFINE a == Line("audio", TRUE, TRUE, {"opus"}, {})
           v == Line("video", TRUE, FALSE, {"h264"}, {})
<1>1. a \in LineType /\ v \in LineType
  BY Codecs DEF Line, LineType
<1>2. a.kind = "audio" /\ a.sends = TRUE /\ a.codecs = {"opus"} /\ a.cands = {}
  BY DEF Line
<1>3. v.kind = "video" /\ v.sends = TRUE /\ v.codecs = {"h264"} /\ v.cands = {}
  BY DEF Line
<1>4. PICK b \in BOOLEAN : d = [bundle |-> b, lines |-> <<a, v>>]
  BY Codecs DEF Offers
<1> HIDE DEF a, v
<1>5. d.bundle = b /\ d.lines = <<a, v>>
  BY <1>4
<1> QED
  BY <1>1, <1>2, <1>3, <1>5

\* What the offer of a wearer makes of a new connection.
IsAsked(p, q) ==
    /\ q \in PCType
    /\ q.role = p.role /\ q.found = p.found /\ q.closed = p.closed
    /\ q.signaling = "have-remote-offer"
    /\ q.created = p.created /\ q.local = p.local /\ Len(q.remote) = 2 /\ q.remote # <<>>
    /\ q.gathering = p.gathering /\ q.ice = p.ice /\ q.timers = p.timers
    /\ q.surfaced = p.surfaced /\ q.told = p.told
    /\ Len(q.transceivers) = 2
    /\ IsLine(q.transceivers[1], "audio", 1)
    /\ IsLine(q.transceivers[2], "video", Second(q))
    /\ Fresh(q.transports) /\ Len(q.transports) = Second(q)
    /\ q.gatherers = IF q.bundle THEN <<NewGatherer(1)>>
                     ELSE <<NewGatherer(1), NewGatherer(2)>>

LEMMA OfferTaken ==
    ASSUME NEW p \in PCType, Bare(p), NEW d \in Offers
    PROVE  IsAsked(p, SetRemoteDescription(p, "offer", d, TRUE))
<1> DEFINE b == d.bundle
           s1 == d.lines[1]
           s2 == d.lines[2]
           o == [p EXCEPT !.bundle = b]
           q == OfferedLine(o, 1, s1)
           r == OfferedLine(q, 2, s2)
           m == [i \in DOMAIN d.lines |-> d.lines[i].cands]
           g1 == NewGatherer(1)
           g2 == NewGatherer(2)
           e == IF b THEN 1 ELSE 2
<1>1. /\ b \in BOOLEAN /\ DOMAIN d.lines = 1 .. 2
      /\ s1 \in LineType /\ s1.kind = "audio" /\ s1.sends /\ s1.codecs # {} /\ s1.cands = {}
      /\ s2 \in LineType /\ s2.kind = "video" /\ s2.sends /\ s2.codecs # {} /\ s2.cands = {}
  BY OffersAre
<1>2. /\ p.transceivers = <<>> /\ p.transports = <<>> /\ p.gatherers = <<>>
  BY DEF Bare, New
<1>3. /\ o \in PCType /\ o.bundle = b /\ o.transceivers = <<>> /\ o.transports = <<>>
      /\ o.gatherers = <<>> /\ o.timers = p.timers
      /\ o.role = p.role /\ o.found = p.found /\ o.closed = p.closed
      /\ o.created = p.created /\ o.local = p.local
      /\ o.gathering = p.gathering /\ o.ice = p.ice
      /\ o.surfaced = p.surfaced /\ o.told = p.told
  BY <1>1, <1>2 DEF PCType
<1> HIDE DEF o, s1, s2, b
<1>4. RemoteLine(o, "offer", 1, s1, TRUE) = q
  BY <1>1 DEF RemoteLine, Rejects
<1>5. /\ q \in PCType /\ Rest(o, q) /\ q.timers = o.timers
      /\ Fresh(q.transports) /\ Len(q.transports) = 1
      /\ q.gatherers = Append(o.gatherers, g1)
      /\ Len(q.transceivers) = 1
      /\ IsLine(q.transceivers[1], "audio", 1)
  <2>1. Len(o.transceivers) + 1 = 1 /\ Fresh(o.transports) /\ Len(o.transports) = 1 - 1
        /\ Len(o.gatherers) = Len(o.transports)
    BY <1>3 DEF Fresh
  <2> QED
    BY <1>1, <1>3, <2>1, 1 \in 1 .. 2, OfferedLineMakes DEF LineMade
<1> HIDE DEF q
<1>6. q.gatherers = <<g1>> /\ q.bundle = b
  BY <1>3, <1>5, Tuples DEF Rest
<1>7. RemoteLine(q, "offer", 2, s2, TRUE) = r
  <2>1. 2 \notin DOMAIN q.transceivers
    BY <1>5 DEF PCType
  <2> QED
    BY <1>1, <2>1 DEF RemoteLine, Rejects
<1>8. /\ r \in PCType /\ Rest(q, r) /\ r.timers = q.timers
      /\ Fresh(r.transports) /\ Len(r.transports) = e
      /\ r.gatherers = IF e = 2 THEN Append(q.gatherers, g2) ELSE q.gatherers
      /\ Len(r.transceivers) = 2
      /\ r.transceivers[1] = q.transceivers[1]
      /\ IsLine(r.transceivers[2], "video", e)
  <2>1. Len(q.gatherers) = 1 /\ q.transceivers[1].gatherer = 1
        /\ q.transceivers[1].transport = 1
    BY <1>5, <1>6 DEF IsLine
  <2>2. /\ r \in PCType /\ Rest(q, r) /\ r.timers = q.timers
        /\ Fresh(r.transports) /\ Len(r.transports) = IF q.bundle THEN 1 ELSE 2
        /\ r.gatherers = IF q.bundle THEN q.gatherers ELSE Append(q.gatherers, g2)
        /\ Len(r.transceivers) = 2
        /\ r.transceivers[1] = q.transceivers[1]
        /\ IsLine(r.transceivers[2], s2.kind, IF q.bundle THEN 1 ELSE 2)
    BY <1>1, <1>5, <2>1, SecondLineMakes
  <2> HIDE DEF r, g2
  <2> QED
    BY <1>1, <1>6, <2>2
<1> HIDE DEF r
<1>9. EachLine(LAMBDA x, i : RemoteLine(x, "offer", i, d.lines[i], TRUE), o) = r
  BY <1>4, <1>7 DEF EachLine, s1, s2
<1>10. m \in Seq(SUBSET (RemoteCands \cup {END})) /\ Len(m) = 2 /\ m # <<>>
  <2>1. \A i \in 1 .. 2 : d.lines[i].cands \in SUBSET (RemoteCands \cup {END})
    BY <1>1 DEF s1, s2
  <2>2. DOMAIN m = 1 .. 2 /\ m = [i \in 1 .. 2 |-> m[i]]
        /\ m[1] \in SUBSET (RemoteCands \cup {END}) /\ m[2] \in SUBSET (RemoteCands \cup {END})
    BY <1>1, <2>1
  <2> HIDE DEF m
  <2>3. m = <<m[1], m[2]>>
    BY <2>2, FunctionIsPair
  <2>4. <<m[1], m[2]>> \in Seq(SUBSET (RemoteCands \cup {END}))
    BY <2>2, PairTyped
  <2> QED
    BY <2>2, <2>3, <2>4
<1>11. SetRemoteDescription(p, "offer", d, TRUE) =
           [[[r EXCEPT !.remote = m] EXCEPT !.signaling = "have-remote-offer"] EXCEPT !.late = TRUE]
  BY <1>9 DEF SetRemoteDescription, o, b
<1> HIDE DEF m
<1> DEFINE a == [[[r EXCEPT !.remote = m] EXCEPT !.signaling = "have-remote-offer"] EXCEPT !.late = TRUE]
<1>12. /\ a \in PCType /\ a.remote = m /\ a.signaling = "have-remote-offer"
       /\ a.role = r.role /\ a.found = r.found /\ a.closed = r.closed /\ a.bundle = r.bundle
       /\ a.created = r.created /\ a.local = r.local
       /\ a.gathering = r.gathering /\ a.ice = r.ice /\ a.timers = r.timers
       /\ a.surfaced = r.surfaced /\ a.told = r.told
       /\ a.transceivers = r.transceivers /\ a.transports = r.transports
       /\ a.gatherers = r.gatherers
  BY <1>8, <1>10 DEF PCType
<1> HIDE DEF a
<1>13. r.bundle = b /\ e = Second(a) /\ a.bundle = b
  BY <1>6, <1>8, <1>12 DEF Rest, Second
<1>14. r.gatherers = IF b THEN <<g1>> ELSE <<g1, g2>>
  <2>1. Append(<<g1>>, g2) = <<g1, g2>>
    BY Tuples
  <2> HIDE DEF g1, g2
  <2>2. CASE b
    BY <2>2, <1>6, <1>8
  <2>3. CASE ~b
    BY <2>1, <2>3, <1>6, <1>8
  <2> QED
    BY <2>2, <2>3
<1>15. a.role = p.role /\ a.found = p.found /\ a.closed = p.closed
       /\ a.created = p.created /\ a.local = p.local
       /\ a.gathering = p.gathering /\ a.ice = p.ice /\ a.timers = p.timers
       /\ a.surfaced = p.surfaced /\ a.told = p.told
  BY <1>3, <1>5, <1>8, <1>12 DEF Rest
<1>16. IsAsked(p, a)
  BY <1>5, <1>8, <1>10, <1>12, <1>13, <1>14, <1>15 DEF IsAsked
<1> QED
  BY <1>11, <1>16 DEF a

-----------------------------------------------------------------------------
(* The state of the whole.                                                 *)

Worst == <<"failed", "checking", "disconnected", "new", "connected", "completed">>

LEMMA MinIs ==
    ASSUME NEW S \in SUBSET (1 .. 6), S # {}
    PROVE  Min(S) \in S /\ \A n \in S : Min(S) <= n
<1>1. \E m \in S : \A n \in S : m <= n
  <2>1. CASE 1 \in S
    BY <2>1
  <2>2. CASE 1 \notin S /\ 2 \in S
    BY <2>2
  <2>3. CASE 1 \notin S /\ 2 \notin S /\ 3 \in S
    BY <2>3
  <2>4. CASE 1 \notin S /\ 2 \notin S /\ 3 \notin S /\ 4 \in S
    BY <2>4
  <2>5. CASE 1 \notin S /\ 2 \notin S /\ 3 \notin S /\ 4 \notin S /\ 5 \in S
    BY <2>5
  <2>6. CASE 1 \notin S /\ 2 \notin S /\ 3 \notin S /\ 4 \notin S /\ 5 \notin S
    <3>1. \A n \in S : n = 6
      BY <2>6
    <3>2. 6 \in S
      BY <3>1
    <3> QED
      BY <3>1, <3>2
  <2> QED
    BY <2>1, <2>2, <2>3, <2>4, <2>5, <2>6
<1> QED
  BY <1>1 DEF Min

LEMMA WorstIs ==
    /\ DOMAIN Worst = 1 .. 6
    /\ Worst[1] = "failed" /\ Worst[2] = "checking" /\ Worst[3] = "disconnected"
    /\ Worst[4] = "new" /\ Worst[5] = "connected" /\ Worst[6] = "completed"
BY DEF Worst

\* What the state of a connection is, given those of its transports in use.
LEMMA IceStateIs ==
    ASSUME NEW p
    PROVE  /\ IceState(p) \in IceKinds
           /\ (\A t \in InUse(p) : p.transports[t].ice = "new") => IceState(p) = "new"
           /\ (InUse(p) # {} /\ \A t \in InUse(p) : p.transports[t].ice \in IceKinds) =>
                  (IceState(p) \in Up <=> \A t \in InUse(p) : p.transports[t].ice \in Up)
           /\ IceState(p) = "disconnected" =>
                  \E t \in InUse(p) : p.transports[t].ice = "disconnected"
<1> DEFINE present == {n \in DOMAIN Worst : \E t \in InUse(p) : p.transports[t].ice = Worst[n]}
           m == Min(present)
<1>1. present \in SUBSET (1 .. 6)
  BY WorstIs
<1>2. IceState(p) = IF present = {} THEN "new" ELSE Worst[m]
  BY DEF IceState, FirstIn, Worst
<1>3. present # {} => m \in 1 .. 6 /\ m \in present /\ \A n \in present : m <= n
  <2> HIDE DEF present
  <2> QED
    BY <1>1, MinIs
<1>4. \A n \in 1 .. 6 : n \in present <=> \E t \in InUse(p) : p.transports[t].ice = Worst[n]
  BY WorstIs
<1> HIDE DEF present, m
<1>5. IceState(p) \in IceKinds
  BY <1>2, <1>3, WorstIs DEF IceKinds
<1>6. ASSUME \A t \in InUse(p) : p.transports[t].ice = "new"
      PROVE  IceState(p) = "new"
  BY <1>2, <1>3, <1>4, <1>6, WorstIs
<1>7. ASSUME IceState(p) = "disconnected"
      PROVE  \E t \in InUse(p) : p.transports[t].ice = "disconnected"
  <2>1. present # {} /\ Worst[m] = "disconnected"
    BY <1>2, <1>7
  <2> QED
    BY <2>1, <1>3, <1>4
<1>8. ASSUME InUse(p) # {}, \A t \in InUse(p) : p.transports[t].ice \in IceKinds
      PROVE  IceState(p) \in Up <=> \A t \in InUse(p) : p.transports[t].ice \in Up
  <2>1. \A t \in InUse(p) : \E n \in 1 .. 6 : p.transports[t].ice = Worst[n]
    BY <1>8, WorstIs DEF IceKinds
  <2>2. \A n \in 1 .. 6 : Worst[n] \in Up <=> n \in {5, 6}
    BY WorstIs DEF Up
  <2>3. present # {}
    BY <1>4, <1>8, <2>1
  <2>4. IceState(p) = Worst[m] /\ m \in present /\ m \in 1 .. 6 /\ \A n \in present : m <= n
    BY <1>2, <1>3, <2>3
  <2>5. ASSUME m \in {5, 6}, NEW t \in InUse(p)
        PROVE  p.transports[t].ice \in Up
    <3>1. PICK n \in 1 .. 6 : p.transports[t].ice = Worst[n]
      BY <2>1
    <3>2. n \in present
      BY <1>4, <3>1
    <3>3. n \in {5, 6}
      BY <2>4, <2>5, <3>2
    <3> QED
      BY <2>2, <3>1, <3>3
  <2>6. ASSUME \A t \in InUse(p) : p.transports[t].ice \in Up
        PROVE  m \in {5, 6}
    BY <1>4, <2>2, <2>4, <2>6
  <2> QED
    BY <2>2, <2>4, <2>5, <2>6
<1> QED
  BY <1>5, <1>6, <1>7, <1>8

LEMMA LinedInUse ==
    ASSUME NEW p \in PCType, Lined(p)
    PROVE  /\ InUse(p) = {1, p.transceivers[2].transport}
           /\ Broken(p) <=> p.transceivers[2].rejected
           /\ ~Broken(p) => InUse(p) \subseteq DOMAIN p.transports
           /\ 1 \in DOMAIN p.transports /\ Len(p.transports) \in 1 .. 2
<1>1. /\ DOMAIN p.transceivers = {1, 2} /\ ~p.transceivers[1].rejected
      /\ p.transceivers[1].transport = 1
  BY DEF Lined, PCType
<1>2. /\ Len(p.transports) \in 1 .. 2
      /\ ~p.transceivers[2].rejected => p.transceivers[2].transport \in 1 .. Len(p.transports)
  BY DEF Lined, Second
<1>3. DOMAIN p.transports = 1 .. Len(p.transports)
  BY DEF PCType
<1>4. InUse(p) = {1, p.transceivers[2].transport}
  BY <1>1 DEF InUse
<1>5. Broken(p) <=> p.transceivers[2].rejected
  BY <1>1 DEF Broken
<1>6. p.transceivers[2] \in TransceiverType
  BY <1>1 DEF PCType
<1>7. p.transceivers[2].rejected \in BOOLEAN
  BY <1>6, TransceiverIs
<1>8. 1 \in DOMAIN p.transports
  BY <1>2, <1>3
<1>9. ASSUME ~Broken(p)
      PROVE  InUse(p) \subseteq DOMAIN p.transports
  <2>1. p.transceivers[2].transport \in DOMAIN p.transports
    BY <1>2, <1>3, <1>5, <1>9
  <2> QED
    BY <2>1, <1>4, <1>8
<1> QED
  BY <1>2, <1>4, <1>5, <1>8, <1>9

-----------------------------------------------------------------------------
(* The first description.                                                  *)

LEMMA BareIs ==
    ASSUME NEW p, Bare(p)
    PROVE  /\ p.signaling = "stable" /\ p.closed = FALSE /\ p.bundle = FALSE
           /\ p.transceivers = <<>> /\ p.gatherers = <<>> /\ p.transports = <<>>
           /\ p.created = <<>> /\ p.local = <<>> /\ p.remote = <<>>
           /\ p.ice = "new" /\ p.told = "new" /\ p.timers = <<>> /\ p.surfaced = <<>>
<1>1. p = New(p.role)
  BY DEF Bare
<1>2. \A role : LET n == New(role)
                IN /\ n.signaling = "stable" /\ n.closed = FALSE /\ n.bundle = FALSE
                   /\ n.transceivers = <<>> /\ n.gatherers = <<>> /\ n.transports = <<>>
                   /\ n.created = <<>> /\ n.local = <<>> /\ n.remote = <<>>
                   /\ n.ice = "new" /\ n.told = "new" /\ n.timers = <<>> /\ n.surfaced = <<>>
  BY DEF New
<1> QED
  BY <1>1, <1>2

\* Gatherers that have found nothing yet.
LEMMA NewGatherers ==
    ASSUME NEW p \in PCType, p.local = <<>>, p.timers = <<>>,
           \A g \in DOMAIN p.gatherers : p.gatherers[g] = NewGatherer(g)
    PROVE  Gathering(p) /\ Kept(p)
<1>1. Len(p.found) \in 2 .. 3
  BY FoundParts DEF PCType
<1>2. Prefix(<<>>, p.found) /\ Len(<<>>) = 1 - 1
  BY <1>1 DEF Prefix
<1>3. \A g \in DOMAIN p.gatherers :
          LET x == p.gatherers[g]
          IN x.line = g /\ x.next = 1 /\ x.handler = "buffer" /\ x.buffer = <<>>
  <2>1. \A i : LET x == NewGatherer(i)
               IN x.line = i /\ x.next = 1 /\ x.handler = "buffer" /\ x.buffer = <<>>
    BY DEF NewGatherer
  <2> QED
    BY <2>1
<1>4. DOMAIN p.timers = {}
  OBVIOUS
<1>5. Gathering(p)
  BY <1>1, <1>2, <1>3, <1>4 DEF Gathering
<1>6. Kept(p)
  BY DEF Kept
<1> QED
  BY <1>5, <1>6

\* Transports that have not begun.
LEMMA NotRunning ==
    ASSUME NEW p \in PCType, ~p.closed, p.signaling # "closed", Fresh(p.transports),
           Lined(p), p.ice = "new", p.told = "new"
    PROVE  Running(p)
<1>1. p.closed = (p.signaling = "closed")
  BY DEF PCType
<1>2. ~Broken(p) => IceState(p) = "new"
  <2> SUFFICES ASSUME ~Broken(p) PROVE IceState(p) = "new"
    OBVIOUS
  <2>1. \A t \in InUse(p) : p.transports[t].ice = "new"
    BY LinedInUse DEF Fresh
  <2> QED
    BY <2>1, IceStateIs
<1> QED
  BY <1>1, <1>2 DEF Running, Fresh

LEMMA OfferedGood ==
    ASSUME NEW p \in PCType, Bare(p), p.role # "observer", NEW r, IsOffered(p, r)
    PROVE  Live(r, <<"setLocal">>)
<1> DEFINE x == Offered("audio", 1)
           y == Offered("video", 2)
           la == Line("audio", TRUE, TRUE, {"opus"}, {})
           lv == Line("video", TRUE, TRUE, {"h264"}, {})
<1>1. /\ r \in PCType
      /\ r.transports = <<Transport, Transport>>
      /\ r.gatherers = <<NewGatherer(1), NewGatherer(2)>>
      /\ r.transceivers = <<x, y>>
      /\ r.created = <<la, lv>>
      /\ r.role # "observer" /\ r.signaling = "stable" /\ r.closed = FALSE /\ r.bundle = FALSE
      /\ r.local = <<>> /\ r.remote = <<>> /\ r.timers = <<>>
      /\ r.ice = "new" /\ r.told = "new"
  BY BareIs DEF IsOffered, WearersOffer
<1>2. /\ x.kind = "audio" /\ ~x.rejected /\ x.gatherer = 1 /\ x.transport = 1
      /\ x.sender = 1 /\ x.receiver = 1 /\ ~x.sending /\ ~x.receiving
      /\ y.kind = "video" /\ ~y.rejected /\ y.gatherer = 2 /\ y.transport = 2
      /\ y.sender = 2 /\ y.receiver = 2 /\ ~y.sending /\ ~y.receiving
  BY DEF Offered
<1>3. la.cands = {} /\ la.sends /\ la.takes /\ lv.cands = {} /\ lv.sends /\ lv.takes
  BY DEF Line
<1> HIDE DEF x, y, la, lv
<1>4. Lined(r)
  BY <1>1, <1>2 DEF Lined, Second
<1>5. Written(r)
  <2>1. Len(r.created) = 2 /\ r.created[1] = la /\ r.created[2] = lv
    BY <1>1
  <2>2. \A i \in 1 .. 2 : r.created[i].cands = {} /\ r.created[i].sends /\ r.created[i].takes
    BY <1>3, <2>1
  <2> QED
    BY <1>1, <2>1, <2>2 DEF Written
<1>6. OfferStage(r, <<"setLocal">>)
  BY <1>1, <1>2 DEF OfferStage
<1>7. Fresh(r.transports)
  BY <1>1 DEF Fresh, Transport
<1>8. Running(r)
  BY <1>1, <1>4, <1>7, NotRunning
<1>9. Gathering(r) /\ Kept(r)
  <2>1. \A g \in DOMAIN r.gatherers : r.gatherers[g] = NewGatherer(g)
    BY <1>1
  <2> QED
    BY <1>1, <2>1, NewGatherers
<1>10. r.transceivers # <<>>
  BY <1>1
<1> QED
  BY <1>1, <1>4, <1>5, <1>6, <1>8, <1>9, <1>10 DEF Live

LEMMA AskedGood ==
    ASSUME NEW p \in PCType, Bare(p), p.role = "observer", NEW r, IsAsked(p, r)
    PROVE  Live(r, <<"addStream", "createAnswer", "setLocal">>)
<1> DEFINE x == r.transceivers[1]
           y == r.transceivers[2]
           e == Second(r)
<1>1. /\ r \in PCType
      /\ r.role = "observer" /\ r.signaling = "have-remote-offer" /\ r.closed = FALSE
      /\ r.local = <<>> /\ r.created = <<>> /\ Len(r.remote) = 2 /\ r.remote # <<>>
      /\ r.timers = <<>> /\ r.ice = "new" /\ r.told = "new"
      /\ Len(r.transceivers) = 2 /\ r.transceivers \in Seq(TransceiverType)
      /\ Fresh(r.transports) /\ Len(r.transports) = e
      /\ r.gatherers = IF r.bundle THEN <<NewGatherer(1)>> ELSE <<NewGatherer(1), NewGatherer(2)>>
  BY BareIs DEF IsAsked, PCType
<1>2. /\ x.kind = "audio" /\ ~x.rejected /\ x.gatherer = 1 /\ x.transport = 1
      /\ x.sender = None /\ x.receiver = 1 /\ ~x.sending
      /\ y.kind = "video" /\ ~y.rejected /\ y.gatherer = e /\ y.transport = e
      /\ y.sender = None /\ y.receiver = e /\ ~y.sending
  BY DEF IsAsked, IsLine
<1>3. e \in 1 .. 2 /\ e = IF r.bundle THEN 1 ELSE 2
  BY DEF Second
<1>4. Len(r.gatherers) = e
  BY <1>1, <1>3
<1> HIDE DEF x, y, e
<1>5. Lined(r)
  BY <1>1, <1>2, <1>3, <1>4 DEF Lined, x, y, e
<1>6. Written(r)
  BY <1>1 DEF Written
<1>7. AnswerStage(r, <<"addStream", "createAnswer", "setLocal">>)
  BY <1>1, <1>2 DEF AnswerStage, x, y
<1>8. Running(r)
  BY <1>1, <1>5, NotRunning
<1>9. Gathering(r) /\ Kept(r)
  <2>1. \A g \in DOMAIN r.gatherers : r.gatherers[g] = NewGatherer(g)
    BY <1>1
  <2> QED
    BY <1>1, <2>1, NewGatherers
<1>10. r.transceivers # <<>>
  BY <1>1
<1> QED
  BY <1>1, <1>5, <1>6, <1>7, <1>8, <1>9, <1>10 DEF Live

-----------------------------------------------------------------------------
(* Close.                                                                  *)

\* What closing leaves of a connection.
IsClosed(p, q) ==
    /\ q \in PCType /\ q.closed = TRUE /\ q.signaling = "closed"
    /\ q.role = p.role /\ q.found = p.found /\ q.bundle = p.bundle
    /\ q.created = p.created /\ q.local = p.local /\ q.remote = p.remote
    /\ q.gathering = p.gathering /\ q.ice = p.ice /\ q.late = p.late
    /\ q.surfaced = p.surfaced /\ q.told = p.told
    /\ q.gatherers = p.gatherers /\ q.timers = p.timers
    /\ Len(q.transceivers) = Len(p.transceivers) /\ DOMAIN q.transceivers = DOMAIN p.transceivers
    /\ \A i \in DOMAIN p.transceivers :
        q.transceivers[i] = [p.transceivers[i] EXCEPT !.sending = FALSE, !.receiving = FALSE]
    /\ Len(q.transports) = Len(p.transports) /\ DOMAIN q.transports = DOMAIN p.transports
    /\ \A t \in DOMAIN p.transports :
        /\ q.transports[t].started = p.transports[t].started
        /\ q.transports[t].attached = p.transports[t].attached
        /\ q.transports[t].ice \in {"closed", p.transports[t].ice}

LEMMA CloseIs ==
    ASSUME NEW p \in PCType
    PROVE  IsClosed(p, Close(p))
<1> DEFINE us == [t \in DOMAIN p.transports |->
                     IF t \in InUse(p) THEN [p.transports[t] EXCEPT !.ice = "closed"]
                     ELSE p.transports[t]]
           xs == [i \in DOMAIN p.transceivers |->
                     [p.transceivers[i] EXCEPT !.sending = FALSE, !.receiving = FALSE]]
<1>1. p.transports \in Seq(TransportType) /\ p.transceivers \in Seq(TransceiverType)
  BY DEF PCType
<1>2. \A t \in DOMAIN p.transports :
          /\ us[t] \in TransportType
          /\ us[t].started = p.transports[t].started
          /\ us[t].attached = p.transports[t].attached
          /\ us[t].ice \in {"closed", p.transports[t].ice}
  <2> SUFFICES ASSUME NEW t \in DOMAIN p.transports
               PROVE  /\ us[t] \in TransportType
                      /\ us[t].started = p.transports[t].started
                      /\ us[t].attached = p.transports[t].attached
                      /\ us[t].ice \in {"closed", p.transports[t].ice}
    OBVIOUS
  <2>1. p.transports[t] \in TransportType
    BY <1>1
  <2>2. us[t] = IF t \in InUse(p) THEN [p.transports[t] EXCEPT !.ice = "closed"]
                ELSE p.transports[t]
    OBVIOUS
  <2> HIDE DEF us
  <2>3. CASE t \in InUse(p)
    BY <2>1, <2>2, <2>3 DEF TransportType
  <2>4. CASE t \notin InUse(p)
    BY <2>1, <2>2, <2>4
  <2> QED
    BY <2>3, <2>4
<1>3. us \in Seq(TransportType) /\ Len(us) = Len(p.transports) /\ DOMAIN us = DOMAIN p.transports
  <2>1. us = [t \in DOMAIN p.transports |-> us[t]]
    OBVIOUS
  <2> HIDE DEF us
  <2> QED
    BY <1>1, <1>2, <2>1, FunctionIsSeq
<1>4. \A i \in DOMAIN p.transceivers :
          /\ xs[i] \in TransceiverType
          /\ xs[i] = [p.transceivers[i] EXCEPT !.sending = FALSE, !.receiving = FALSE]
  <2> SUFFICES ASSUME NEW i \in DOMAIN p.transceivers
               PROVE  [p.transceivers[i] EXCEPT !.sending = FALSE, !.receiving = FALSE]
                          \in TransceiverType
    OBVIOUS
  <2>1. p.transceivers[i] \in TransceiverType
    BY <1>1
  <2> QED
    BY <2>1, TransceiverIs
<1>5. /\ xs \in Seq(TransceiverType) /\ Len(xs) = Len(p.transceivers)
      /\ DOMAIN xs = DOMAIN p.transceivers
  <2>1. xs = [i \in DOMAIN p.transceivers |-> xs[i]]
    OBVIOUS
  <2> HIDE DEF xs
  <2> QED
    BY <1>1, <1>4, <2>1, FunctionIsSeq
<1>6. Close(p) = [[[[p EXCEPT !.transports = us] EXCEPT !.transceivers = xs]
                       EXCEPT !.closed = TRUE] EXCEPT !.signaling = "closed"]
  BY DEF Close, PCType
<1> HIDE DEF us, xs
<1>7. LET q == [[[[p EXCEPT !.transports = us] EXCEPT !.transceivers = xs]
                       EXCEPT !.closed = TRUE] EXCEPT !.signaling = "closed"]
      IN /\ q \in PCType /\ q.closed = TRUE /\ q.signaling = "closed"
         /\ q.role = p.role /\ q.found = p.found /\ q.bundle = p.bundle
         /\ q.created = p.created /\ q.local = p.local /\ q.remote = p.remote
         /\ q.gathering = p.gathering /\ q.ice = p.ice /\ q.late = p.late
         /\ q.surfaced = p.surfaced /\ q.told = p.told
         /\ q.gatherers = p.gatherers /\ q.timers = p.timers
         /\ q.transceivers = xs /\ q.transports = us
  BY <1>3, <1>5 DEF PCType
<1>8. PICK q : q = [[[[p EXCEPT !.transports = us] EXCEPT !.transceivers = xs]
                       EXCEPT !.closed = TRUE] EXCEPT !.signaling = "closed"]
  OBVIOUS
<1>9. /\ q \in PCType /\ q.closed = TRUE /\ q.signaling = "closed"
      /\ q.role = p.role /\ q.found = p.found /\ q.bundle = p.bundle
      /\ q.created = p.created /\ q.local = p.local /\ q.remote = p.remote
      /\ q.gathering = p.gathering /\ q.ice = p.ice /\ q.late = p.late
      /\ q.surfaced = p.surfaced /\ q.told = p.told
      /\ q.gatherers = p.gatherers /\ q.timers = p.timers
      /\ q.transceivers = xs /\ q.transports = us
  BY <1>7, <1>8
<1>10. IsClosed(p, q)
  BY <1>2, <1>3, <1>4, <1>5, <1>9 DEF IsClosed
<1> QED
  BY <1>6, <1>8, <1>10

\* A live connection but for what it was told and whether it kept its candidates.
Ready(p, left) ==
    /\ p.transceivers # <<>>
    /\ Lined(p) /\ Written(p)
    /\ IF p.role = "observer" THEN AnswerStage(p, left) ELSE OfferStage(p, left)
    /\ Gathering(p)
    /\ p.closed = (p.signaling = "closed")
    /\ \A t \in DOMAIN p.transports :
        /\ ~p.transports[t].started => p.transports[t].ice \in {"new", "closed"}
        /\ p.transports[t].started => p.local # <<>> /\ p.remote # <<>>
        /\ ~p.closed => p.transports[t].ice # "closed"
        /\ (t = 2 /\ p.bundle) \/ p.transports[t].attached

LEMMA ReadyLive ==
    ASSUME NEW p, NEW left, Live(p, left)
    PROVE  Ready(p, left) /\ Kept(p)
BY DEF Live, Ready, Running

LEMMA ReadyCloses ==
    ASSUME NEW p \in PCType, NEW left, Ready(p, left), NEW q, IsClosed(p, q),
           NEW rest \in {left, <<>>}
    PROVE  q \in PCType /\ Live(q, rest)
<1> DEFINE x == p.transceivers[1]
           y == p.transceivers[2]
           u == q.transceivers[1]
           v == q.transceivers[2]
<1>1. /\ Len(p.transceivers) = 2 /\ DOMAIN p.transceivers = {1, 2}
      /\ x \in TransceiverType /\ y \in TransceiverType
  BY DEF Ready, Lined, PCType
<1>2. /\ u = [x EXCEPT !.sending = FALSE, !.receiving = FALSE]
      /\ v = [y EXCEPT !.sending = FALSE, !.receiving = FALSE]
  BY <1>1 DEF IsClosed
<1>3. /\ u.kind = x.kind /\ u.rejected = x.rejected /\ u.gatherer = x.gatherer
      /\ u.transport = x.transport /\ u.sender = x.sender /\ u.receiver = x.receiver
      /\ ~u.sending /\ ~u.receiving
      /\ v.kind = y.kind /\ v.rejected = y.rejected /\ v.gatherer = y.gatherer
      /\ v.transport = y.transport /\ v.sender = y.sender /\ v.receiver = y.receiver
      /\ ~v.sending /\ ~v.receiving
  BY <1>1, <1>2, TransceiverIs
<1>4. y.rejected => v = y
  <2> SUFFICES ASSUME y.rejected PROVE v = y
    OBVIOUS
  <2>1. y = Refused("video")
    BY DEF Ready, Lined
  <2>2. y.sending = FALSE /\ y.receiving = FALSE
    BY <2>1 DEF Refused
  <2>3. v \in TransceiverType /\ v.codecs = y.codecs /\ v.sending = FALSE /\ v.receiving = FALSE
    BY <1>1, <1>2, TransceiverIs
  <2> QED
    BY <1>1, <1>3, <2>2, <2>3, SameTransceiver, ZenonT(30)
<1>5. /\ q \in PCType /\ q.closed = TRUE /\ q.signaling = "closed"
      /\ q.role = p.role /\ q.found = p.found /\ q.bundle = p.bundle
      /\ q.created = p.created /\ q.local = p.local /\ q.remote = p.remote
      /\ q.surfaced = p.surfaced /\ q.told = p.told
      /\ q.gatherers = p.gatherers /\ q.timers = p.timers
      /\ Len(q.transceivers) = Len(p.transceivers)
      /\ Len(q.transports) = Len(p.transports) /\ DOMAIN q.transports = DOMAIN p.transports
      /\ \A t \in DOMAIN p.transports :
          /\ q.transports[t].started = p.transports[t].started
          /\ q.transports[t].attached = p.transports[t].attached
          /\ q.transports[t].ice \in {"closed", p.transports[t].ice}
  BY DEF IsClosed
<1> HIDE DEF x, y, u, v
<1>6. Lined(q)
  BY <1>1, <1>3, <1>4, <1>5 DEF Ready, Lined, Second, x, y, u, v
<1>7. Written(q)
  <2>1. \A i \in 1 .. 2 : /\ q.transceivers[i].sender = p.transceivers[i].sender
                          /\ q.transceivers[i].receiver = p.transceivers[i].receiver
    BY <1>3 DEF x, y, u, v
  <2> QED
    BY <1>5, <2>1 DEF Ready, Written
<1>8. IF q.role = "observer" THEN AnswerStage(q, rest) ELSE OfferStage(q, rest)
  <2>1. CASE q.role = "observer"
    BY <1>3, <1>5, <2>1 DEF Ready, AnswerStage, x, y, u, v
  <2>2. CASE q.role # "observer"
    BY <1>3, <1>5, <2>2 DEF Ready, OfferStage, x, y, u, v
  <2> QED
    BY <2>1, <2>2
<1>9. Running(q)
  BY <1>5 DEF Ready, Running
<1>10. Gathering(q)
  BY <1>5 DEF Ready, Gathering
<1>11. Kept(q)
  <2>1. \A g \in DOMAIN q.gatherers : q.closed
    BY <1>5
  <2> QED
    BY <2>1 DEF Kept
<1>12. q.transceivers # <<>>
  <2>1. q.transceivers \in Seq(TransceiverType) /\ Len(q.transceivers) = 2
    BY <1>1, <1>5 DEF PCType
  <2> QED
    BY <2>1, PairIs
<1> QED
  BY <1>5, <1>6, <1>7, <1>8, <1>9, <1>10, <1>11, <1>12 DEF Live

\* A connection that is closed can only have been told less.
LEMMA ClosedLive ==
    ASSUME NEW p \in PCType, NEW left, Live(p, left), NEW q, IsClosed(p, q),
           NEW rest \in {left, <<>>}
    PROVE  q \in PCType /\ Live(q, rest)
<1>1. Ready(p, left)
  BY ReadyLive
<1> QED
  BY <1>1, ReadyCloses

-----------------------------------------------------------------------------
(* What steps leave of the transports.                                     *)

\* Before both descriptions are set no transport has begun.
LEMMA NotBegun ==
    ASSUME NEW p \in PCType, Lined(p), Running(p), ~p.closed, ~Broken(p),
           p.local = <<>> \/ p.remote = <<>>
    PROVE  /\ p.ice = "new" /\ p.told = "new"
           /\ \A t \in DOMAIN p.transports : p.transports[t].ice = "new" /\ ~p.transports[t].started
<1>1. \A t \in DOMAIN p.transports : p.transports[t].ice = "new" /\ ~p.transports[t].started
  BY DEF Running
<1>2. IceState(p) = "new"
  BY <1>1, LinedInUse, IceStateIs
<1> QED
  BY <1>1, <1>2 DEF Running

LEMMA Begins ==
    ASSUME NEW q \in PCType, Lined(q), ~q.closed, q.signaling # "closed",
           q.ice = "new", q.told = "new",
           \A t \in DOMAIN q.transports :
               /\ q.transports[t].ice = "new"
               /\ q.transports[t].started => q.local # <<>> /\ q.remote # <<>>
               /\ (t = 2 /\ q.bundle) \/ q.transports[t].attached
    PROVE  Running(q)
<1>1. q.closed = (q.signaling = "closed")
  BY DEF PCType
<1>2. ~Broken(q) => IceState(q) = "new"
  <2> SUFFICES ASSUME ~Broken(q) PROVE IceState(q) = "new"
    OBVIOUS
  <2>1. \A t \in InUse(q) : q.transports[t].ice = "new"
    BY LinedInUse
  <2> QED
    BY <2>1, IceStateIs
<1> QED
  BY <1>1, <1>2 DEF Running

LEMMA SameIceState ==
    ASSUME NEW p, NEW q, InUse(q) = InUse(p), InUse(p) \subseteq DOMAIN p.transports,
           SameIce(p.transports, q.transports)
    PROVE  IceState(q) = IceState(p)
<1>1. \A t \in InUse(p) : q.transports[t].ice = p.transports[t].ice
  BY DEF SameIce
<1>2. {n \in DOMAIN Worst : \E t \in InUse(q) : q.transports[t].ice = Worst[n]}
      = {n \in DOMAIN Worst : \E t \in InUse(p) : p.transports[t].ice = Worst[n]}
  BY <1>1
<1>3. \A r : LET present == {n \in DOMAIN Worst : \E t \in InUse(r) : r.transports[t].ice = Worst[n]}
             IN IceState(r) = IF present = {} THEN "new" ELSE Worst[Min(present)]
  BY DEF IceState, FirstIn, Worst
<1> QED
  BY <1>2, <1>3

\* The transceivers stay on their transports, whose states stay.
LEMMA StillRunning ==
    ASSUME NEW p \in PCType, NEW q \in PCType, Lined(p), Lined(q), Running(p),
           q.closed = p.closed, q.signaling = p.signaling,
           SameIce(p.transports, q.transports),
           q.bundle = p.bundle, q.ice = p.ice, q.told = p.told,
           p.local # <<>> => q.local # <<>>, p.remote # <<>> => q.remote # <<>>,
           q.transceivers[2].transport = p.transceivers[2].transport,
           q.transceivers[2].rejected = p.transceivers[2].rejected
    PROVE  Running(q)
<1>1. InUse(q) = InUse(p) /\ (Broken(q) <=> Broken(p))
  BY LinedInUse
<1>2. ~Broken(p) => IceState(q) = IceState(p)
  BY <1>1, LinedInUse, SameIceState
<1> QED
  BY <1>1, <1>2 DEF Running, SameIce

-----------------------------------------------------------------------------
(* The answer of an observer.                                              *)

LEMMA MaxOfOne == Max({1}) = 1
BY DEF Max

LEMMA StreamAdded ==
    ASSUME NEW p \in PCType, p.role = "observer", ~p.closed,
           Live(p, <<"addStream", "createAnswer", "setLocal">>)
    PROVE  LET q == AddStream(p)
           IN q \in PCType /\ Live(q, <<"createAnswer", "setLocal">>) /\ Rest(p, q)
<1> DEFINE x == p.transceivers[1]
           y == p.transceivers[2]
           z == [x EXCEPT !.sender = 1]
           ts == [p.transceivers EXCEPT ![1] = z]
<1>0. /\ Lined(p) /\ Written(p) /\ Running(p) /\ Gathering(p) /\ Kept(p)
      /\ AnswerStage(p, <<"addStream", "createAnswer", "setLocal">>)
  BY DEF Live
<1>1. /\ Len(p.transceivers) = 2 /\ DOMAIN p.transceivers = {1, 2}
      /\ x \in TransceiverType /\ y \in TransceiverType
  BY <1>0 DEF Lined, PCType
<1>2. /\ x.sender = None /\ x.kind = "audio" /\ x.transport = 1 /\ y.kind = "video"
      /\ p.created = <<>> /\ p.local = <<>> /\ ~y.rejected /\ p.remote # <<>>
      /\ p.signaling # "closed"
  BY <1>0 DEF AnswerStage, Lined, Running
<1>3. {i \in DOMAIN p.transceivers : p.transceivers[i].kind = "audio"
                                     /\ p.transceivers[i].sender = None} = {1}
  BY <1>1, <1>2
<1>4. AddTrack(p, "audio") = [p EXCEPT !.transceivers[1].sender = 1]
  BY <1>2, <1>3, MaxOfOne, ZenonT(30) DEF AddTrack
<1>5. AddStream(p) = [p EXCEPT !.transceivers = ts]
  BY <1>4 DEF AddStream, Tracks
<1>6. /\ z \in TransceiverType /\ z.kind = x.kind /\ z.rejected = x.rejected
      /\ z.gatherer = x.gatherer /\ z.transport = x.transport /\ z.sender = 1
      /\ z.receiver = x.receiver /\ z.sending = x.sending /\ z.receiving = x.receiving
  BY <1>1, TransceiverIs
<1> HIDE DEF z
<1>7. ts \in Seq(TransceiverType) /\ ts[1] = z /\ ts[2] = y /\ Len(ts) = 2
  BY <1>1, <1>6 DEF PCType
<1> HIDE DEF ts
<1>8. PICK q : q = [p EXCEPT !.transceivers = ts]
  OBVIOUS
<1>9. /\ q \in PCType /\ Rest(p, q) /\ q.gatherers = p.gatherers /\ q.timers = p.timers
      /\ q.transports = p.transports /\ q.transceivers = ts
  BY <1>7, <1>8 DEF PCType, Rest
<1>10. Lined(q)
  BY <1>0, <1>6, <1>7, <1>9 DEF Lined, Rest, Second
<1>11. Written(q)
  BY <1>0, <1>2, <1>9 DEF Written, Rest
<1>12. AnswerStage(q, <<"createAnswer", "setLocal">>)
  <2>1. /\ q.remote # <<>> /\ ~ts[2].rejected /\ ts[2].sender = None
        /\ q.signaling = "have-remote-offer" /\ q.local = <<>> /\ q.created = <<>>
    BY <1>0, <1>2, <1>7, <1>9 DEF AnswerStage, Rest
  <2> QED
    BY <1>9, <2>1 DEF AnswerStage
<1>13. Running(q)
  BY <1>0, <1>7, <1>9, <1>10, StillRunning DEF Rest, SameIce
<1>14. Gathering(q) /\ Kept(q)
  BY <1>0, <1>9 DEF Gathering, Kept, Rest
<1>15. q.transceivers # <<>> /\ q.role = "observer"
  BY <1>7, <1>9, PairIs DEF Rest
<1> QED
  BY <1>5, <1>8, <1>9, <1>10, <1>11, <1>12, <1>13, <1>14, <1>15 DEF Live

LEMMA ClosedEnds ==
    ASSUME NEW p \in PCType, NEW left, Live(p, left), p.closed
    PROVE  Live(p, <<>>)
<1>1. p.role = "observer" => AnswerStage(p, <<>>)
  BY DEF Live, AnswerStage
<1>2. p.role # "observer" => OfferStage(p, <<>>)
  BY DEF Live, OfferStage
<1> QED
  BY <1>1, <1>2 DEF Live

LEMMA AnswerCreated ==
    ASSUME NEW p \in PCType, p.role = "observer", ~p.closed,
           Live(p, <<"createAnswer", "setLocal">>)
    PROVE  LET q == CreateAnswer(p)
           IN /\ q \in PCType /\ Live(q, <<"setLocal">>)
              /\ q.signaling = p.signaling /\ q.local = p.local /\ q.remote = p.remote
              /\ q.surfaced = p.surfaced /\ q.told = p.told
<1> DEFINE sec(i) == LET x == p.transceivers[i]
                     IN MediaSection(x, IF x.rejected THEN {} ELSE CommonCodecs(x))
           m == [i \in DOMAIN p.remote |-> sec(i)]
<1>0. /\ Lined(p) /\ Written(p) /\ Running(p) /\ Gathering(p) /\ Kept(p)
      /\ AnswerStage(p, <<"createAnswer", "setLocal">>)
  BY DEF Live
<1>1. /\ p.created = <<>> /\ p.local = <<>> /\ p.remote # <<>> /\ Len(p.remote) = 2
      /\ ~p.transceivers[2].rejected /\ p.transceivers[2].sender = None
      /\ p.signaling = "have-remote-offer"
  BY <1>0 DEF AnswerStage, Written, Running
<1>2. DOMAIN p.remote = 1 .. 2 /\ DOMAIN p.transceivers = 1 .. 2
  BY <1>0, <1>1 DEF PCType, Lined
<1>3. \A i \in 1 .. 2 :
          /\ sec(i) \in LineType /\ sec(i).cands = {}
          /\ sec(i).sends = (p.transceivers[i].sender # None)
          /\ sec(i).takes = (p.transceivers[i].receiver # None)
  <2> SUFFICES ASSUME NEW i \in 1 .. 2
               PROVE  /\ sec(i) \in LineType /\ sec(i).cands = {}
                      /\ sec(i).sends = (p.transceivers[i].sender # None)
                      /\ sec(i).takes = (p.transceivers[i].receiver # None)
    OBVIOUS
  <2> DEFINE x == p.transceivers[i]
             c == IF x.rejected THEN {} ELSE CommonCodecs(x)
  <2>1. x \in TransceiverType
    BY <1>2 DEF PCType
  <2>2. c \in SUBSET {"opus", "h264"} /\ x.kind \in {"audio", "video"}
    BY <2>1, CommonIs, TransceiverIs
  <2>3. sec(i) = Line(x.kind, x.sender # None, x.receiver # None, c, {})
    BY DEF MediaSection
  <2> HIDE DEF c, x
  <2>4. PICK s : s = Line(x.kind, x.sender # None, x.receiver # None, c, {})
    OBVIOUS
  <2>5. UNION {LocalCodecs.audio, LocalCodecs.video} = {"opus", "h264"}
    BY Codecs
  <2>6. s \in LineType /\ s.cands = {} /\ s.sends = (x.sender # None)
        /\ s.takes = (x.receiver # None)
    BY <2>2, <2>4, <2>5 DEF LineType, Line
  <2> QED
    BY <2>3, <2>4, <2>6 DEF x
<1> HIDE DEF sec
<1>4. m \in Seq(LineType) /\ Len(m) = 2 /\ m # <<>> /\ \A i \in 1 .. 2 : m[i] = sec(i)
  <2>1. DOMAIN m = 1 .. 2 /\ m = [i \in 1 .. 2 |-> m[i]] /\ \A i \in 1 .. 2 : m[i] = sec(i)
    BY <1>2
  <2>2. m[1] \in LineType /\ m[2] \in LineType
    BY <1>3, <2>1
  <2> HIDE DEF m
  <2>3. m = <<m[1], m[2]>>
    BY <2>1, FunctionIsPair
  <2>4. <<m[1], m[2]>> \in Seq(LineType)
    BY <2>2, PairTyped
  <2> QED
    BY <2>1, <2>3, <2>4
<1>5. CreateAnswer(p) = [p EXCEPT !.created = m]
  BY DEF CreateAnswer, sec
<1> HIDE DEF m
<1>6. PICK q : q = [p EXCEPT !.created = m]
  OBVIOUS
<1>7. /\ q \in PCType /\ q.created = m
      /\ q.role = p.role /\ q.found = p.found
      /\ q.signaling = p.signaling /\ q.closed = p.closed /\ q.bundle = p.bundle
      /\ q.local = p.local /\ q.remote = p.remote
      /\ q.gathering = p.gathering /\ q.ice = p.ice /\ q.late = p.late
      /\ q.surfaced = p.surfaced /\ q.told = p.told
      /\ q.gatherers = p.gatherers /\ q.timers = p.timers
      /\ q.transports = p.transports /\ q.transceivers = p.transceivers
  BY <1>4, <1>6 DEF PCType
<1>8. Lined(q)
  BY <1>0, <1>7 DEF Lined, Second
<1>9. Written(q)
  <2>1. \A i \in 1 .. 2 :
             /\ m[i].cands = {}
             /\ p.transceivers[i].sender # None => m[i].sends
             /\ p.transceivers[i].receiver # None => m[i].takes
    BY <1>3, <1>4
  <2> QED
    BY <1>0, <1>1, <1>4, <1>7, <2>1 DEF Written
<1>10. AnswerStage(q, <<"setLocal">>)
  BY <1>1, <1>4, <1>7 DEF AnswerStage
<1>11. Running(q)
  BY <1>0, <1>7, <1>8, StillRunning DEF SameIce
<1>12. Gathering(q) /\ Kept(q)
  BY <1>0, <1>7 DEF Gathering, Kept
<1>13. q.transceivers # <<>> /\ q.role = "observer"
  BY <1>7 DEF Live
<1> QED
  BY <1>5, <1>6, <1>7, <1>8, <1>9, <1>10, <1>11, <1>12, <1>13 DEF Live

-----------------------------------------------------------------------------
(* The local description.                                                  *)

\* Transports in the same states and heard as before; some may have been started.
SameStates(us, vs) ==
    /\ DOMAIN vs = DOMAIN us /\ Len(vs) = Len(us)
    /\ \A t \in DOMAIN us : vs[t].ice = us[t].ice /\ vs[t].attached = us[t].attached

\* What Gather makes of the gatherers.
HandsOver(gs, hs, g) ==
    /\ DOMAIN hs = DOMAIN gs /\ Len(hs) = Len(gs)
    /\ hs[g].line = gs[g].line /\ hs[g].next = gs[g].next /\ hs[g].handler = "direct"
    /\ \A k \in DOMAIN gs : k # g => hs[k] = gs[k]

Task(gs, g) == [gatherer |-> g, found |-> gs[g].buffer]

LEMMA GatherIs ==
    ASSUME NEW p \in PCType, NEW i \in DOMAIN p.transceivers,
           NEW g \in DOMAIN p.gatherers, p.transceivers[i].gatherer = g, g \in 1 .. 2,
           p.gatherers[g].handler = "buffer"
    PROVE  LET q == Gather(p, i)
           IN /\ q \in PCType /\ Rest(p, q) /\ q.transports = p.transports
              /\ q.transceivers = p.transceivers
              /\ HandsOver(p.gatherers, q.gatherers, g)
              /\ q.timers = Append(p.timers, Task(p.gatherers, g))
<1> DEFINE x == p.gatherers[g]
           y == [[x EXCEPT !.handler = "direct"] EXCEPT !.buffer = <<>>]
           gs == [p.gatherers EXCEPT ![g] = y]
           ts == Append(p.timers, Task(p.gatherers, g))
<1>1. x \in GathererType /\ p.gatherers \in Seq(GathererType) /\ p.timers \in Seq(TimerType)
  BY DEF PCType
<1>2. y \in GathererType /\ y.line = x.line /\ y.next = x.next /\ y.handler = "direct"
  BY <1>1, NoneFound DEF GathererType
<1>3. Task(p.gatherers, g) \in TimerType
  BY <1>1, LinesAre DEF Task, TimerType, GathererType
<1>4. Gather(p, i) = [[p EXCEPT !.gatherers = gs] EXCEPT !.timers = ts]
  <2>1. Gather(p, i) = [p EXCEPT !.gatherers[g].handler = "direct", !.gatherers[g].buffer = <<>>,
                      !.timers = Append(@, Task(p.gatherers, g))]
    BY DEF Gather, Task
  <2> DEFINE q == [p EXCEPT !.gatherers[g].handler = "direct", !.gatherers[g].buffer = <<>>]
  <2>2. Gather(p, i) = [q EXCEPT !.timers = Append(@, Task(p.gatherers, g))]
    BY <2>1
  <2>3. q = [p EXCEPT !.gatherers = gs]
    <3> DEFINE hs == [p.gatherers EXCEPT ![g].handler = "direct"]
    <3>1. q = [[p EXCEPT !.gatherers = hs] EXCEPT !.gatherers[g].buffer = <<>>]
      OBVIOUS
    <3>2. [hs EXCEPT ![g].buffer = <<>>] = gs
      <4>1. hs = [p.gatherers EXCEPT ![g] = [x EXCEPT !.handler = "direct"]]
        OBVIOUS
      <4>2. hs[g] = [x EXCEPT !.handler = "direct"]
        BY <1>1
      <4> QED
        BY <1>1, <4>1, <4>2
    <3> HIDE DEF hs, gs
    <3>3. [[p EXCEPT !.gatherers = hs] EXCEPT !.gatherers[g].buffer = <<>>]
          = [p EXCEPT !.gatherers = [hs EXCEPT ![g].buffer = <<>>]]
      BY DEF PCType
    <3> QED
      BY <3>1, <3>2, <3>3
  <2>4. q.timers = p.timers
    BY DEF PCType
  <2> HIDE DEF q, gs
  <2>5. [q EXCEPT !.timers = Append(@, Task(p.gatherers, g))]
        = [q EXCEPT !.timers = ts]
    BY <2>4
  <2> QED
    BY <2>2, <2>3, <2>5
<1> HIDE DEF y
<1>5. gs \in Seq(GathererType) /\ HandsOver(p.gatherers, gs, g) /\ ts \in Seq(TimerType)
  BY <1>1, <1>2, <1>3 DEF HandsOver
<1> HIDE DEF gs, ts
<1>6. PICK q : q = [[p EXCEPT !.gatherers = gs] EXCEPT !.timers = ts]
  OBVIOUS
<1>7. /\ q \in PCType /\ Rest(p, q) /\ q.transports = p.transports
      /\ q.transceivers = p.transceivers /\ q.gatherers = gs /\ q.timers = ts
  BY <1>5, <1>6 DEF PCType, Rest
<1> QED
  BY <1>4, <1>5, <1>6, <1>7 DEF ts

LEMMA StartIs ==
    ASSUME NEW p \in PCType, NEW i \in DOMAIN p.transceivers,
           NEW t \in DOMAIN p.transports, p.transceivers[i].transport = t
    PROVE  LET q == Start(p, i)
           IN /\ q \in PCType /\ Rest(p, q) /\ q.gatherers = p.gatherers /\ q.timers = p.timers
              /\ q.transceivers = p.transceivers /\ SameStates(p.transports, q.transports)
<1> DEFINE x == p.transports[t]
           y == [x EXCEPT !.started = TRUE]
           us == [p.transports EXCEPT ![t] = y]
<1>1. x \in TransportType /\ p.transports \in Seq(TransportType)
  BY DEF PCType
<1>2. y \in TransportType /\ y.ice = x.ice /\ y.attached = x.attached
  BY <1>1 DEF TransportType
<1>3. Start(p, i) = [p EXCEPT !.transports = us]
  BY DEF Start
<1> HIDE DEF y
<1>4. us \in Seq(TransportType) /\ SameStates(p.transports, us)
  BY <1>1, <1>2 DEF SameStates
<1> HIDE DEF us
<1>5. PICK q : q = [p EXCEPT !.transports = us]
  OBVIOUS
<1>6. /\ q \in PCType /\ Rest(p, q) /\ q.gatherers = p.gatherers /\ q.timers = p.timers
      /\ q.transceivers = p.transceivers /\ q.transports = us
  BY <1>4, <1>5 DEF PCType, Rest
<1> QED
  BY <1>3, <1>4, <1>5, <1>6

\* The transceiver of a line after it was told to send or receive.
SameLine(x, z) ==
    /\ z.kind = x.kind /\ z.rejected = x.rejected /\ z.gatherer = x.gatherer
    /\ z.transport = x.transport /\ z.sender = x.sender /\ z.receiver = x.receiver
    /\ z.codecs = x.codecs
    /\ z.sending => x.sending \/ x.sender # None
    /\ z.receiving => x.receiving \/ x.receiver # None

\* Only what line i sends and receives has changed.
OnlyLine(xs, zs, i) ==
    /\ Len(zs) = Len(xs) /\ DOMAIN zs = DOMAIN xs
    /\ SameLine(xs[i], zs[i])
    /\ \A j \in DOMAIN xs : j # i => zs[j] = xs[j]

LEMMA TransceivesIs ==
    ASSUME NEW p \in PCType, NEW i \in DOMAIN p.transceivers,
           NEW send \in BOOLEAN, NEW recv \in BOOLEAN
    PROVE  LET q == [p EXCEPT !.transceivers[i] = Transceive(p.transceivers[i], send, recv)]
           IN /\ q \in PCType /\ Rest(p, q) /\ q.gatherers = p.gatherers /\ q.timers = p.timers
              /\ q.transports = p.transports
              /\ OnlyLine(p.transceivers, q.transceivers, i)
<1> DEFINE x == p.transceivers[i]
           z == Transceive(x, send, recv)
           ts == [p.transceivers EXCEPT ![i] = z]
<1>1. p.transceivers \in Seq(TransceiverType) /\ x \in TransceiverType
  BY DEF PCType
<1>2. z \in TransceiverType /\ SameLine(x, z)
  BY <1>1, TransceiveIs DEF SameLine
<1> HIDE DEF z
<1>3. ts \in Seq(TransceiverType) /\ OnlyLine(p.transceivers, ts, i)
  BY <1>1, <1>2 DEF OnlyLine
<1>4. [p EXCEPT !.transceivers[i] = z] = [p EXCEPT !.transceivers = ts]
  OBVIOUS
<1> HIDE DEF ts
<1>5. PICK q : q = [p EXCEPT !.transceivers = ts]
  OBVIOUS
<1>6. /\ q \in PCType /\ Rest(p, q) /\ q.gatherers = p.gatherers /\ q.timers = p.timers
      /\ q.transports = p.transports /\ q.transceivers = ts
  BY <1>3, <1>5 DEF PCType, Rest
<1> QED
  BY <1>3, <1>4, <1>5, <1>6 DEF z

LEMMA LeadingLine ==
    ASSUME NEW p \in PCType, NEW i \in DOMAIN p.transceivers, i \in 1 .. 2,
           i \in DOMAIN p.gatherers, i \in DOMAIN p.transports,
           ~p.transceivers[i].rejected, p.transceivers[i].gatherer = i,
           p.transceivers[i].transport = i, Leads(p, i), p.gatherers[i].handler = "buffer"
    PROVE  LET q == AnswerLine(p, i)
           IN /\ q \in PCType /\ Rest(p, q)
              /\ SameStates(p.transports, q.transports)
              /\ OnlyLine(p.transceivers, q.transceivers, i)
              /\ HandsOver(p.gatherers, q.gatherers, i)
              /\ q.timers = Append(p.timers, Task(p.gatherers, i))
<1> DEFINE x == p.transceivers[i]
           send == CommonCodecs(x) # {}
           q == Gather(p, i)
           r == Start(q, i)
           s == [r EXCEPT !.transceivers[i] = Transceive(x, send, FALSE)]
<1>1. AnswerLine(p, i) = s
  BY DEF AnswerLine
<1>2. /\ q \in PCType /\ Rest(p, q) /\ q.transports = p.transports
      /\ q.transceivers = p.transceivers /\ HandsOver(p.gatherers, q.gatherers, i)
      /\ q.timers = Append(p.timers, Task(p.gatherers, i))
  BY GatherIs
<1> HIDE DEF q
<1>3. /\ r \in PCType /\ Rest(q, r) /\ r.gatherers = q.gatherers /\ r.timers = q.timers
      /\ r.transceivers = q.transceivers /\ SameStates(q.transports, r.transports)
  BY <1>2, StartIs
<1> HIDE DEF r
<1>4. /\ s \in PCType /\ Rest(r, s) /\ s.gatherers = r.gatherers /\ s.timers = r.timers
      /\ s.transports = r.transports /\ OnlyLine(r.transceivers, s.transceivers, i)
  <2>1. i \in DOMAIN r.transceivers /\ x = r.transceivers[i] /\ send \in BOOLEAN
        /\ FALSE \in BOOLEAN
    BY <1>2, <1>3
  <2>2. s = [r EXCEPT !.transceivers[i] = Transceive(r.transceivers[i], send, FALSE)]
    BY <2>1
  <2> HIDE DEF x, send, s
  <2> QED
    BY <1>3, <2>1, <2>2, TransceivesIs, ZenonT(30)
<1> HIDE DEF s
<1>5. Rest(p, s)
  BY <1>2, <1>3, <1>4, RestTransitive
<1> QED
  BY <1>1, <1>2, <1>3, <1>4, <1>5

LEMMA FollowingLine ==
    ASSUME NEW p \in PCType, NEW i \in DOMAIN p.transceivers,
           ~p.transceivers[i].rejected, ~Leads(p, i)
    PROVE  LET q == AnswerLine(p, i)
           IN /\ q \in PCType /\ Rest(p, q) /\ q.transports = p.transports
              /\ OnlyLine(p.transceivers, q.transceivers, i)
              /\ q.gatherers = p.gatherers /\ q.timers = p.timers
<1> DEFINE x == p.transceivers[i]
           send == CommonCodecs(x) # {}
           s == [p EXCEPT !.transceivers[i] = Transceive(x, send, FALSE)]
<1>1. AnswerLine(p, i) = s
  BY DEF AnswerLine
<1>2. send \in BOOLEAN /\ FALSE \in BOOLEAN
  OBVIOUS
<1> HIDE DEF send
<1>s. s = [p EXCEPT !.transceivers[i] = Transceive(p.transceivers[i], send, FALSE)]
  OBVIOUS
<1> HIDE DEF s
<1>3. /\ s \in PCType /\ Rest(p, s) /\ s.gatherers = p.gatherers /\ s.timers = p.timers
      /\ s.transports = p.transports /\ OnlyLine(p.transceivers, s.transceivers, i)
  BY <1>2, <1>s, TransceivesIs
<1> QED
  BY <1>1, <1>3

\* All gatherers have given their buffers to timers.
AllHandOver(p, q) ==
    /\ DOMAIN q.gatherers = DOMAIN p.gatherers /\ Len(q.gatherers) = Len(p.gatherers)
    /\ \A g \in DOMAIN p.gatherers :
        /\ q.gatherers[g].line = p.gatherers[g].line
        /\ q.gatherers[g].next = p.gatherers[g].next
        /\ q.gatherers[g].handler = "direct"
    /\ DOMAIN q.timers = DOMAIN p.gatherers
    /\ \A k \in DOMAIN q.timers : q.timers[k] = Task(p.gatherers, k)

LEMMA HandedOver ==
    ASSUME NEW p \in PCType, NEW q \in PCType, Gathering(p), p.local = <<>>,
           AllHandOver(p, q), q.found = p.found, q.local # <<>>,
           \A g \in DOMAIN p.gatherers : q.local[g].cands = {}
    PROVE  Gathering(q) /\ Kept(q)
<1>1. \A g \in DOMAIN p.gatherers :
        /\ p.gatherers[g].line = g /\ p.gatherers[g].next \in 1 .. Len(p.found) + 1
        /\ Prefix(p.gatherers[g].buffer, p.found)
        /\ Len(p.gatherers[g].buffer) = p.gatherers[g].next - 1
  BY DEF Gathering
<1>2. \A k \in DOMAIN q.timers :
        /\ q.timers[k].gatherer = k /\ q.timers[k].found = p.gatherers[k].buffer
        /\ k \in DOMAIN p.gatherers
  <2>1. \A k : Task(p.gatherers, k).gatherer = k /\ Task(p.gatherers, k).found = p.gatherers[k].buffer
    BY DEF Task
  <2> QED
    BY <2>1 DEF AllHandOver
<1>3. Len(p.found) \in Nat
  BY FoundParts DEF PCType
<1>4. Gathering(q)
  <2>1. \A g \in DOMAIN q.gatherers :
          LET x == q.gatherers[g]
          IN /\ x.line = g /\ x.next \in 1 .. Len(q.found) + 1
             /\ x.handler = "direct" /\ q.local[g].cands = {}
    BY <1>1 DEF AllHandOver
  <2>2. \A k \in DOMAIN q.timers :
            /\ q.timers[k].gatherer \in DOMAIN q.gatherers
            /\ Prefix(q.timers[k].found, q.found)
            /\ Len(q.timers[k].found) < q.gatherers[q.timers[k].gatherer].next
            /\ \A j \in DOMAIN q.timers : q.timers[j].gatherer = q.timers[k].gatherer => j = k
    BY <1>1, <1>2, <1>3 DEF AllHandOver
  <2> QED
    BY <2>1, <2>2 DEF Gathering
<1>5. Kept(q)
  <2>1. \A g \in DOMAIN q.gatherers : \A n \in 1 .. q.gatherers[g].next - 1 :
            g \in DOMAIN q.timers /\ q.timers[g].gatherer = g /\ n <= Len(q.timers[g].found)
    BY <1>1, <1>2, <1>3 DEF AllHandOver
  <2> QED
    BY <2>1 DEF Kept
<1> QED
  BY <1>4, <1>5

\* What setting the answer of an observer makes.
LEMMA AnswerLinesDone ==
    ASSUME NEW p \in PCType, Lined(p), p.role = "observer", ~p.transceivers[2].rejected,
           p.timers = <<>>,
           \A g \in DOMAIN p.gatherers : p.gatherers[g].handler = "buffer"
    PROVE  LET q == EachLine(AnswerLine, p)
           IN /\ q \in PCType /\ Rest(p, q) /\ SameStates(p.transports, q.transports)
              /\ Len(q.transceivers) = 2
              /\ SameLine(p.transceivers[1], q.transceivers[1])
              /\ SameLine(p.transceivers[2], q.transceivers[2])
              /\ AllHandOver(p, q)
<1> DEFINE q == AnswerLine(p, 1)
           r == AnswerLine(q, 2)
           e == Second(p)
<1>1. /\ e \in 1 .. 2 /\ (p.bundle => e = 1) /\ (~p.bundle => e = 2)
      /\ Len(p.gatherers) = e /\ Len(p.transports) = e
      /\ DOMAIN p.gatherers = 1 .. e /\ DOMAIN p.transports = 1 .. e
      /\ Len(p.transceivers) = 2 /\ DOMAIN p.transceivers = {1, 2}
      /\ ~p.transceivers[1].rejected /\ p.transceivers[1].gatherer = 1
      /\ p.transceivers[1].transport = 1
      /\ p.transceivers[2].gatherer = e /\ p.transceivers[2].transport = e
  <2>1. e \in 1 .. 2 /\ (p.bundle => e = 1) /\ (~p.bundle => e = 2)
    BY DEF Second
  <2>2. /\ p.gatherers \in Seq(GathererType) /\ p.transports \in Seq(TransportType)
        /\ p.transceivers \in Seq(TransceiverType)
    BY DEF PCType
  <2>3. /\ Len(p.gatherers) = e /\ Len(p.transports) = e /\ Len(p.transceivers) = 2
        /\ ~p.transceivers[1].rejected /\ p.transceivers[1].gatherer = 1
        /\ p.transceivers[1].transport = 1
        /\ p.transceivers[2].gatherer = e /\ p.transceivers[2].transport = e
    BY DEF Lined
  <2> HIDE DEF e
  <2> QED
    BY <2>1, <2>2, <2>3
<1>2. EachLine(AnswerLine, p) = r
  BY DEF EachLine
<1> HIDE DEF e
<1>3. /\ q \in PCType /\ Rest(p, q)
      /\ SameStates(p.transports, q.transports)
      /\ OnlyLine(p.transceivers, q.transceivers, 1)
      /\ HandsOver(p.gatherers, q.gatherers, 1)
      /\ q.timers = Append(p.timers, Task(p.gatherers, 1))
  <2>1. 1 \in DOMAIN p.transceivers /\ 1 \in 1 .. 2 /\ 1 \in DOMAIN p.gatherers
        /\ 1 \in DOMAIN p.transports /\ Leads(p, 1)
    BY <1>1 DEF Leads
  <2> QED
    BY <1>1, <2>1, LeadingLine
<1> HIDE DEF q
<1> DEFINE T(g) == Task(p.gatherers, g)
<1>4. q.timers = <<T(1)>>
  BY <1>3, Tuples
<1>5. /\ q.transceivers[2] = p.transceivers[2] /\ 2 \in DOMAIN q.transceivers
      /\ q.bundle = p.bundle
  BY <1>1, <1>3 DEF OnlyLine, Rest
<1>6. CASE p.bundle
  <2>1. ~Leads(q, 2)
    BY <1>5, <1>6 DEF Leads
  <2>2. /\ r \in PCType /\ Rest(q, r) /\ r.transports = q.transports
        /\ OnlyLine(q.transceivers, r.transceivers, 2)
        /\ r.gatherers = q.gatherers /\ r.timers = q.timers
    BY <1>3, <1>5, <2>1, FollowingLine
  <2> HIDE DEF r
  <2>3. Rest(p, r) /\ SameStates(p.transports, r.transports)
    BY <1>3, <2>2, RestTransitive
  <2>4. /\ Len(r.transceivers) = 2
        /\ SameLine(p.transceivers[1], r.transceivers[1])
        /\ SameLine(p.transceivers[2], r.transceivers[2])
    BY <1>1, <1>3, <1>5, <2>2 DEF OnlyLine
  <2>5. AllHandOver(p, r)
    <3>1. DOMAIN r.timers = {1} /\ r.timers[1] = T(1)
      BY <1>4, <2>2
    <3>2. DOMAIN p.gatherers = {1}
      BY <1>1, <1>6
    <3> HIDE DEF T
    <3>3. \A k \in DOMAIN r.timers : r.timers[k] = T(k)
      BY <3>1
    <3> QED
      BY <1>3, <2>2, <3>1, <3>2, <3>3 DEF AllHandOver, HandsOver, T
  <2> QED
    BY <1>2, <2>2, <2>3, <2>4, <2>5
<1>7. CASE ~p.bundle
  <2>1. Leads(q, 2) /\ e = 2 /\ DOMAIN p.gatherers = {1, 2} /\ DOMAIN p.transports = {1, 2}
    BY <1>1, <1>5, <1>7 DEF Leads
  <2>2. /\ 2 \in DOMAIN q.gatherers /\ 2 \in DOMAIN q.transports /\ 2 \in 1 .. 2
        /\ q.gatherers[2] = p.gatherers[2]
    BY <1>3, <2>1 DEF HandsOver, SameStates
  <2>3. /\ ~q.transceivers[2].rejected /\ q.transceivers[2].gatherer = 2
        /\ q.transceivers[2].transport = 2 /\ q.gatherers[2].handler = "buffer"
    BY <1>1, <1>5, <2>1, <2>2
  <2>4. /\ r \in PCType /\ Rest(q, r)
        /\ SameStates(q.transports, r.transports)
        /\ OnlyLine(q.transceivers, r.transceivers, 2)
        /\ HandsOver(q.gatherers, r.gatherers, 2)
        /\ r.timers = Append(q.timers, Task(q.gatherers, 2))
    BY <1>3, <1>5, <2>1, <2>2, <2>3, LeadingLine
  <2> HIDE DEF r
  <2>5. Rest(p, r) /\ SameStates(p.transports, r.transports)
    BY <1>3, <2>4, RestTransitive DEF SameStates
  <2>6. /\ Len(r.transceivers) = 2
        /\ SameLine(p.transceivers[1], r.transceivers[1])
        /\ SameLine(p.transceivers[2], r.transceivers[2])
    BY <1>1, <1>3, <1>5, <2>4 DEF OnlyLine
  <2>7. AllHandOver(p, r)
    <3>1. Task(q.gatherers, 2) = T(2)
      BY <2>2 DEF Task
    <3> HIDE DEF T
    <3>2. r.timers = <<T(1), T(2)>>
      BY <1>4, <2>4, <3>1, Tuples
    <3>3. DOMAIN r.timers = {1, 2} /\ r.timers[1] = T(1) /\ r.timers[2] = T(2)
      BY <3>2
    <3>4. \A k \in DOMAIN r.timers : r.timers[k] = T(k)
      BY <3>3
    <3>5. \A g \in {1, 2} :
            /\ r.gatherers[g].line = p.gatherers[g].line
            /\ r.gatherers[g].next = p.gatherers[g].next
            /\ r.gatherers[g].handler = "direct"
      BY <1>3, <2>1, <2>2, <2>4 DEF HandsOver
    <3> QED
      BY <1>3, <2>1, <2>4, <3>3, <3>4, <3>5 DEF AllHandOver, HandsOver, T
  <2> QED
    BY <1>2, <2>4, <2>5, <2>6, <2>7
<1> QED
  BY <1>6, <1>7

\* A local description is set, for the first time.
LEMMA LocalSet ==
    ASSUME NEW p \in PCType, NEW left, Live(p, left), ~p.closed, ~p.transceivers[2].rejected,
           p.local = <<>>, p.created # <<>>,
           NEW r \in PCType, Rest(p, r), SameStates(p.transports, r.transports),
           p.remote # <<>> \/ r.transports = p.transports,
           Len(r.transceivers) = 2,
           SameLine(p.transceivers[1], r.transceivers[1]),
           SameLine(p.transceivers[2], r.transceivers[2]),
           AllHandOver(p, r),
           NEW state \in {"have-local-offer", "stable"}
    PROVE  LET q == [r EXCEPT !.local = p.created, !.signaling = state]
           IN /\ q \in PCType /\ q.transceivers # <<>>
              /\ Lined(q) /\ Written(q) /\ Running(q) /\ Gathering(q) /\ Kept(q)
              /\ q.role = p.role /\ q.remote = p.remote /\ q.bundle = p.bundle
              /\ q.local # <<>> /\ q.created # <<>> /\ q.signaling = state
              /\ q.local = p.created /\ q.surfaced = p.surfaced /\ q.told = p.told
              /\ q.transceivers[2].rejected = p.transceivers[2].rejected
              /\ q.transceivers[2].sender = p.transceivers[2].sender
<1>0. Lined(p) /\ Written(p) /\ Running(p) /\ Gathering(p)
  BY DEF Live
<1>1. PICK q : q = [[r EXCEPT !.local = p.created] EXCEPT !.signaling = state]
  OBVIOUS
<1>2. /\ q \in PCType /\ q.local = p.created /\ q.signaling = state
      /\ q.role = r.role /\ q.found = r.found /\ q.closed = r.closed /\ q.bundle = r.bundle
      /\ q.created = r.created /\ q.remote = r.remote /\ q.surfaced = r.surfaced
      /\ q.ice = r.ice /\ q.told = r.told
      /\ q.gatherers = r.gatherers /\ q.timers = r.timers
      /\ q.transports = r.transports /\ q.transceivers = r.transceivers
  <2>1. p.created \in Seq(LineType)
    BY DEF PCType
  <2> QED
    BY <1>1, <2>1 DEF PCType
<1>3. /\ q.role = p.role /\ q.found = p.found /\ q.closed = p.closed /\ q.bundle = p.bundle
      /\ q.created = p.created /\ q.remote = p.remote /\ q.ice = p.ice /\ q.told = p.told
      /\ q.surfaced = p.surfaced
  BY <1>2 DEF Rest
<1> DEFINE x == p.transceivers[1]
           y == p.transceivers[2]
           u == q.transceivers[1]
           v == q.transceivers[2]
<1>4. /\ u.kind = x.kind /\ u.rejected = x.rejected /\ u.gatherer = x.gatherer
      /\ u.transport = x.transport /\ u.sender = x.sender /\ u.receiver = x.receiver
      /\ (u.sending => x.sending \/ x.sender # None)
      /\ v.kind = y.kind /\ v.rejected = y.rejected /\ v.gatherer = y.gatherer
      /\ v.transport = y.transport /\ v.sender = y.sender /\ v.receiver = y.receiver
      /\ (v.sending => y.sending \/ y.sender # None)
      /\ (v.receiving => y.receiving \/ y.receiver # None)
  BY <1>2 DEF SameLine
<1>5. Len(q.transports) = Len(p.transports) /\ Len(q.gatherers) = Len(p.gatherers)
      /\ DOMAIN q.gatherers = DOMAIN p.gatherers /\ DOMAIN q.transports = DOMAIN p.transports
  BY <1>2 DEF SameStates, AllHandOver
<1>6. Lined(q)
  <2> HIDE DEF x, y, u, v
  <2>1. /\ x.kind = "audio" /\ ~x.rejected /\ x.gatherer = 1 /\ x.transport = 1
        /\ x.sender \in {None, 1} /\ x.receiver = 1 /\ y.kind = "video"
        /\ ~y.rejected /\ y.gatherer = Second(p) /\ y.transport = Second(p)
        /\ y.sender \in {None, Second(p)} /\ y.receiver \in {None, Second(p)}
        /\ (x.sending => x.sender # None) /\ (y.sending => y.sender # None)
        /\ (y.receiving => y.receiver # None)
        /\ Len(p.transports) = Len(p.gatherers)
        /\ Len(p.gatherers) = IF p.role = "observer" THEN Second(p) ELSE 2
    BY <1>0 DEF Lined, x, y
  <2>2. Second(q) = Second(p)
    BY <1>3 DEF Second
  <2> QED
    BY <1>2, <1>3, <1>4, <1>5, <2>1, <2>2 DEF Lined, u, v
<1>7. Written(q)
  <2>1. \A i \in 1 .. 2 : /\ q.transceivers[i].sender = p.transceivers[i].sender
                          /\ q.transceivers[i].receiver = p.transceivers[i].receiver
    BY <1>4
  <2> QED
    BY <1>0, <1>2, <1>3, <2>1 DEF Written
<1>8. Running(q)
  <2>1. ~Broken(p)
    BY <1>0, LinedInUse
  <2>2. /\ p.ice = "new" /\ p.told = "new"
        /\ \A t \in DOMAIN p.transports : p.transports[t].ice = "new" /\ ~p.transports[t].started
    BY <1>0, <2>1, NotBegun
  <2>3. \A t \in DOMAIN q.transports :
            /\ q.transports[t].ice = "new"
            /\ q.transports[t].started => q.local # <<>> /\ q.remote # <<>>
            /\ (t = 2 /\ q.bundle) \/ q.transports[t].attached
    <3> SUFFICES ASSUME NEW t \in DOMAIN q.transports
                 PROVE  /\ q.transports[t].ice = "new"
                        /\ q.transports[t].started => q.local # <<>> /\ q.remote # <<>>
                        /\ (t = 2 /\ q.bundle) \/ q.transports[t].attached
      OBVIOUS
    <3>1. t \in DOMAIN p.transports /\ q.transports[t].ice = p.transports[t].ice
          /\ q.transports[t].attached = p.transports[t].attached
      BY <1>2 DEF SameStates
    <3>2. (t = 2 /\ p.bundle) \/ p.transports[t].attached
      BY <1>0, <3>1 DEF Running
    <3> QED
      BY <1>2, <1>3, <2>2, <3>1, <3>2
  <2> QED
    BY <1>2, <1>3, <1>6, <2>2, <2>3, Begins
<1>9. Gathering(q) /\ Kept(q)
  <2>1. AllHandOver(p, q)
    BY <1>2 DEF AllHandOver
  <2>2. \A g \in DOMAIN p.gatherers : q.local[g].cands = {}
    <3>1. \A g \in DOMAIN p.gatherers : g \in 1 .. 2
      <4>1. p.gatherers \in Seq(GathererType) /\ Len(p.gatherers) <= 2
        BY <1>0 DEF Lined, PCType, Second
      <4> QED
        BY <4>1
    <3> QED
      BY <1>0, <1>2, <3>1 DEF Written
  <2> QED
    BY <1>0, <1>2, <1>3, <2>1, <2>2, HandedOver
<1>10. q.transceivers # <<>>
  <2>1. q.transceivers \in Seq(TransceiverType) /\ Len(q.transceivers) = 2
    BY <1>2 DEF PCType
  <2> QED
    BY <2>1, PairIs
<1>11. q = [r EXCEPT !.local = p.created, !.signaling = state]
  BY <1>1
<1> QED
  BY <1>2, <1>3, <1>4, <1>6, <1>7, <1>8, <1>9, <1>10, <1>11

LEMMA AnswerSet ==
    ASSUME NEW p \in PCType, p.role = "observer", ~p.closed, Live(p, <<"setLocal">>)
    PROVE  LET q == SetLocalDescription(p, "answer")
           IN /\ Allowed("local", "answer", p.signaling)
              /\ q \in PCType /\ Live(q, <<>>)
              /\ q.local = p.created /\ q.remote = p.remote
              /\ q.surfaced = p.surfaced /\ q.told = p.told
              /\ q.signaling = "stable"
<1> DEFINE r == EachLine(AnswerLine, p)
           q == [r EXCEPT !.local = p.created, !.signaling = "stable"]
<1>0. Lined(p) /\ Gathering(p) /\ Running(p) /\ AnswerStage(p, <<"setLocal">>)
  BY DEF Live
<1>1. /\ p.local = <<>> /\ p.created # <<>> /\ p.remote # <<>>
      /\ ~p.transceivers[2].rejected /\ p.transceivers[2].sender = None
      /\ p.signaling = "have-remote-offer"
  BY <1>0 DEF AnswerStage, Running
<1>2. p.timers = <<>> /\ \A g \in DOMAIN p.gatherers : p.gatherers[g].handler = "buffer"
  BY <1>0, <1>1 DEF Gathering
<1>3. /\ r \in PCType /\ Rest(p, r) /\ SameStates(p.transports, r.transports)
      /\ Len(r.transceivers) = 2
      /\ SameLine(p.transceivers[1], r.transceivers[1])
      /\ SameLine(p.transceivers[2], r.transceivers[2])
      /\ AllHandOver(p, r)
  BY <1>0, <1>1, <1>2, AnswerLinesDone
<1>4. SetLocalDescription(p, "answer") = q
  BY DEF SetLocalDescription
<1> HIDE DEF r
<1>5. /\ q \in PCType /\ q.transceivers # <<>>
      /\ Lined(q) /\ Written(q) /\ Running(q) /\ Gathering(q) /\ Kept(q)
      /\ q.role = p.role /\ q.remote = p.remote /\ q.bundle = p.bundle
      /\ q.local # <<>> /\ q.created # <<>> /\ q.signaling = "stable"
      /\ q.local = p.created /\ q.surfaced = p.surfaced /\ q.told = p.told
      /\ q.transceivers[2].rejected = p.transceivers[2].rejected
      /\ q.transceivers[2].sender = p.transceivers[2].sender
  <2>1. "stable" \in {"have-local-offer", "stable"}
    OBVIOUS
  <2> QED
    BY <1>1, <1>3, <2>1, LocalSet
<1> HIDE DEF q
<1>6. AnswerStage(q, <<>>)
  BY <1>1, <1>5 DEF AnswerStage
<1>7. Allowed("local", "answer", p.signaling)
  BY <1>1 DEF Allowed
<1> QED
  BY <1>4, <1>5, <1>6, <1>7 DEF Live

LEMMA OfferLinesDone ==
    ASSUME NEW p \in PCType, Lined(p), p.role # "observer", ~p.bundle,
           ~p.transceivers[2].rejected, p.timers = <<>>,
           \A g \in DOMAIN p.gatherers : p.gatherers[g].handler = "buffer"
    PROVE  LET q == EachLine(Gather, p)
           IN /\ q \in PCType /\ Rest(p, q) /\ q.transports = p.transports
              /\ q.transceivers = p.transceivers /\ AllHandOver(p, q)
<1> DEFINE q == Gather(p, 1)
           r == Gather(q, 2)
           T(g) == Task(p.gatherers, g)
<1>1. /\ DOMAIN p.gatherers = {1, 2}
      /\ DOMAIN p.transceivers = {1, 2}
      /\ p.transceivers[1].gatherer = 1 /\ p.transceivers[2].gatherer = 2
  <2>1. /\ p.gatherers \in Seq(GathererType) /\ p.transceivers \in Seq(TransceiverType)
    BY DEF PCType
  <2>2. Len(p.gatherers) = 2 /\ Len(p.transceivers) = 2
        /\ p.transceivers[1].gatherer = 1 /\ p.transceivers[2].gatherer = 2
    BY DEF Lined, Second
  <2> QED
    BY <2>1, <2>2
<1>2. EachLine(Gather, p) = r
  BY DEF EachLine
<1>3. /\ q \in PCType /\ Rest(p, q) /\ q.transports = p.transports
      /\ q.transceivers = p.transceivers
      /\ HandsOver(p.gatherers, q.gatherers, 1)
      /\ q.timers = Append(p.timers, Task(p.gatherers, 1))
  <2>1. 1 \in DOMAIN p.transceivers /\ 1 \in DOMAIN p.gatherers /\ 1 \in 1 .. 2
        /\ p.gatherers[1].handler = "buffer"
    BY <1>1
  <2> QED
    BY <1>1, <2>1, GatherIs
<1> HIDE DEF q
<1>4. /\ r \in PCType /\ Rest(q, r) /\ r.transports = q.transports
      /\ r.transceivers = q.transceivers
      /\ HandsOver(q.gatherers, r.gatherers, 2)
      /\ r.timers = Append(q.timers, Task(q.gatherers, 2))
  <2>1. 2 \in DOMAIN q.transceivers /\ 2 \in DOMAIN q.gatherers /\ 2 \in 1 .. 2
        /\ q.gatherers[2].handler = "buffer" /\ q.transceivers[2].gatherer = 2
    BY <1>1, <1>3 DEF HandsOver
  <2> QED
    BY <1>3, <2>1, GatherIs
<1> HIDE DEF r
<1>5. Task(q.gatherers, 2) = T(2)
  BY <1>1, <1>3 DEF Task, HandsOver
<1> HIDE DEF T
<1>6. q.timers = <<T(1)>>
  BY <1>3, Tuples DEF T
<1>7. r.timers = <<T(1), T(2)>>
  BY <1>4, <1>5, <1>6, Tuples
<1>8. DOMAIN r.timers = {1, 2} /\ r.timers[1] = T(1) /\ r.timers[2] = T(2)
  BY <1>7
<1>9. \A k \in DOMAIN r.timers : r.timers[k] = T(k)
  BY <1>8
<1>10. \A g \in {1, 2} :
         /\ r.gatherers[g].line = p.gatherers[g].line
         /\ r.gatherers[g].next = p.gatherers[g].next
         /\ r.gatherers[g].handler = "direct"
  BY <1>1, <1>3, <1>4 DEF HandsOver
<1>11. AllHandOver(p, r)
  BY <1>1, <1>3, <1>4, <1>8, <1>9, <1>10 DEF AllHandOver, HandsOver, T
<1>12. Rest(p, r)
  BY <1>3, <1>4, RestTransitive
<1> QED
  BY <1>2, <1>3, <1>4, <1>11, <1>12

LEMMA OfferSet ==
    ASSUME NEW p \in PCType, p.role # "observer", ~p.closed, Live(p, <<"setLocal">>)
    PROVE  LET q == SetLocalDescription(p, "offer")
           IN /\ Allowed("local", "offer", p.signaling)
              /\ q \in PCType /\ Live(q, <<>>)
              /\ q.local = p.created /\ q.remote = p.remote
              /\ q.surfaced = p.surfaced /\ q.told = p.told
              /\ q.signaling = "have-local-offer"
<1> DEFINE r == EachLine(Gather, p)
           q == [r EXCEPT !.local = p.created, !.signaling = "have-local-offer"]
<1>0. Lined(p) /\ Gathering(p) /\ Running(p) /\ OfferStage(p, <<"setLocal">>)
  BY DEF Live
<1>1. /\ p.local = <<>> /\ p.created # <<>> /\ p.remote = <<>>
      /\ ~p.transceivers[2].rejected /\ ~p.bundle
      /\ p.signaling = "stable"
  BY <1>0 DEF OfferStage, Running, PCType
<1>2. p.timers = <<>> /\ \A g \in DOMAIN p.gatherers : p.gatherers[g].handler = "buffer"
  BY <1>0, <1>1 DEF Gathering
<1>3. /\ r \in PCType /\ Rest(p, r) /\ r.transports = p.transports
      /\ r.transceivers = p.transceivers /\ AllHandOver(p, r)
  BY <1>0, <1>1, <1>2, OfferLinesDone
<1>4. SetLocalDescription(p, "offer") = q
  BY DEF SetLocalDescription
<1> HIDE DEF r
<1>5. /\ q \in PCType /\ q.transceivers # <<>>
      /\ Lined(q) /\ Written(q) /\ Running(q) /\ Gathering(q) /\ Kept(q)
      /\ q.role = p.role /\ q.remote = p.remote /\ q.bundle = p.bundle
      /\ q.local # <<>> /\ q.created # <<>> /\ q.signaling = "have-local-offer"
      /\ q.local = p.created /\ q.surfaced = p.surfaced /\ q.told = p.told
      /\ q.transceivers[2].rejected = p.transceivers[2].rejected
      /\ q.transceivers[2].sender = p.transceivers[2].sender
  <2>1. "have-local-offer" \in {"have-local-offer", "stable"}
    OBVIOUS
  <2>2. /\ SameStates(p.transports, r.transports) /\ Len(r.transceivers) = 2
        /\ SameLine(p.transceivers[1], r.transceivers[1])
        /\ SameLine(p.transceivers[2], r.transceivers[2])
    BY <1>0, <1>3 DEF SameStates, SameLine, Lined
  <2> QED
    BY <1>1, <1>3, <2>1, <2>2, LocalSet
<1> HIDE DEF q
<1>6. OfferStage(q, <<>>)
  BY <1>1, <1>5 DEF OfferStage
<1>7. Allowed("local", "offer", p.signaling)
  BY <1>1 DEF Allowed
<1> QED
  BY <1>1, <1>4, <1>5, <1>6, <1>7 DEF Live

-----------------------------------------------------------------------------
(* The answer a wearer takes.                                              *)

LEMMA AnswersAre ==
    ASSUME NEW d \in Answers
    PROVE  /\ d.bundle \in BOOLEAN /\ DOMAIN d.lines = 1 .. 2 /\ Len(d.lines) = 2
           /\ d.lines[1].kind = "audio" /\ d.lines[1].sends = TRUE /\ d.lines[1].takes = TRUE
           /\ d.lines[1].codecs = {"opus"} /\ d.lines[1].cands \in SUBSET (RemoteCands \cup {END})
           /\ d.lines[2].kind = "video" /\ d.lines[2].sends = FALSE /\ d.lines[2].takes = TRUE
           /\ d.lines[2].codecs \in SUBSET {"opus", "h264"} /\ d.lines[2].cands = {}
<1> DEFINE f(b, cs, v) ==
               [bundle |-> b, lines |-> <<Line("audio", TRUE, TRUE, {"opus"}, cs),
                                          Line("video", FALSE, TRUE, v \cap LocalCodecs.video, {})>>]
<1>0. Answers = {f(b, cs, v) : b \in BOOLEAN, cs \in SUBSET RemoteCands, v \in VideoCodecs}
  BY SMT DEF Answers
<1> HIDE DEF f
<1>1. PICK b \in BOOLEAN, cs \in SUBSET RemoteCands, v \in VideoCodecs : d = f(b, cs, v)
  BY <1>0
<1> DEFINE a == Line("audio", TRUE, TRUE, {"opus"}, cs)
           w == Line("video", FALSE, TRUE, v \cap LocalCodecs.video, {})
<1>2. a.kind = "audio" /\ a.sends = TRUE /\ a.takes = TRUE /\ a.codecs = {"opus"} /\ a.cands = cs
  BY DEF Line
<1>3. w.kind = "video" /\ w.sends = FALSE /\ w.takes = TRUE
      /\ w.codecs = v \cap LocalCodecs.video /\ w.cands = {}
  BY DEF Line
<1> HIDE DEF a, w
<1>4. d.bundle = b /\ d.lines = <<a, w>>
  BY <1>1 DEF a, w, f
<1> QED
  BY <1>2, <1>3, <1>4, Codecs

\* The transceiver x of an accepted line becomes z, over transport e.
Holds(x, z, e) ==
    /\ z.kind = x.kind /\ ~z.rejected /\ z.gatherer = e /\ z.transport = e
    /\ z.sender = (IF x.sender = None THEN None ELSE e)
    /\ z.receiver \in {None, e} /\ (z.receiver # None => x.receiver # None)
    /\ (z.sending => z.sender # None) /\ (z.receiving => z.receiver # None)

\* The sequences of two records differ in their member i at most.
OnlyAt(xs, zs, i) ==
    /\ Len(zs) = Len(xs) /\ DOMAIN zs = DOMAIN xs
    /\ \A j \in DOMAIN xs : j # i => zs[j] = xs[j]

LEMMA AnsweredIs ==
    ASSUME NEW p \in PCType, NEW i \in DOMAIN p.transceivers,
           p.transceivers[i].transport \in DOMAIN p.transports,
           p.transceivers[i].transport \in 1 .. 2,
           NEW x, Holds(x, p.transceivers[i], p.transceivers[i].transport),
           NEW s, s.sends \in BOOLEAN, s.takes \in BOOLEAN,
           s.codecs \in SUBSET {"opus", "h264"}, s.cands \in SUBSET (RemoteCands \cup {END})
    PROVE  LET q == AnsweredLine(p, i, s)
           IN /\ q \in PCType /\ Rest(p, q) /\ q.gatherers = p.gatherers /\ q.timers = p.timers
              /\ SameStates(p.transports, q.transports)
              /\ OnlyAt(p.transceivers, q.transceivers, i)
              /\ Holds(x, q.transceivers[i], p.transceivers[i].transport)
              /\ s.sends => q.transceivers[i].receiver = p.transceivers[i].receiver
<1> DEFINE q == AddCandidates(p, i, s.cands)
           r == IF Leads(q, i) THEN Start(q, i) ELSE q
           y == p.transceivers[i]
           e == y.transport
           w == [y EXCEPT !.codecs = s.codecs]
           u == Transceive(w, s.takes, s.sends)
           z == IF s.sends THEN u ELSE [[u EXCEPT !.receiver = None] EXCEPT !.receiving = FALSE]
           ts == [p.transceivers EXCEPT ![i] = z]
<1>1. /\ q \in PCType /\ Rest(p, q) /\ q.gatherers = p.gatherers /\ q.timers = p.timers
      /\ q.transceivers = p.transceivers /\ SameIce(p.transports, q.transports)
  BY AddCandidatesIs
<1> HIDE DEF q
<1>2. /\ r \in PCType /\ Rest(p, r) /\ r.gatherers = p.gatherers /\ r.timers = p.timers
      /\ r.transceivers = p.transceivers /\ SameStates(p.transports, r.transports)
  <2>1. CASE Leads(q, i)
    <3>1. i \in DOMAIN q.transceivers /\ e \in DOMAIN q.transports /\ q.transceivers[i].transport = e
      BY <1>1 DEF SameIce
    <3>2. r = Start(q, i)
      BY <2>1
    <3> HIDE DEF r
    <3>3. /\ r \in PCType /\ Rest(q, r) /\ r.gatherers = q.gatherers /\ r.timers = q.timers
          /\ r.transceivers = q.transceivers /\ SameStates(q.transports, r.transports)
      BY <1>1, <3>1, <3>2, StartIs
    <3>4. Rest(p, r)
      BY <1>1, <3>3, RestTransitive
    <3> QED
      BY <1>1, <3>3, <3>4 DEF SameIce, SameStates
  <2>2. CASE ~Leads(q, i)
    BY <1>1, <2>2 DEF SameIce, SameStates
  <2> QED
    BY <2>1, <2>2
<1>3. y \in TransceiverType /\ p.transceivers \in Seq(TransceiverType)
  BY DEF PCType
<1>4. AnsweredLine(p, i, s) = [r EXCEPT !.transceivers = ts]
  <2>1. AnsweredLine(p, i, s) = [r EXCEPT !.transceivers[i] = z]
    BY <1>1, <1>2 DEF AnsweredLine, q
  <2> HIDE DEF r, z
  <2>2. [r EXCEPT !.transceivers[i] = z] = [r EXCEPT !.transceivers = ts]
    BY <1>2
  <2> QED
    BY <2>1, <2>2
<1> HIDE DEF r, y
<1>5. /\ w \in TransceiverType /\ w.kind = y.kind /\ w.rejected = y.rejected
      /\ w.gatherer = y.gatherer /\ w.transport = y.transport /\ w.sender = y.sender
      /\ w.receiver = y.receiver /\ w.sending = y.sending /\ w.receiving = y.receiving
  BY <1>3, TransceiverIs
<1> HIDE DEF w
<1>6. /\ u \in TransceiverType /\ u.kind = y.kind /\ u.rejected = y.rejected
      /\ u.gatherer = y.gatherer /\ u.transport = y.transport /\ u.sender = y.sender
      /\ u.receiver = y.receiver
      /\ (u.sending => y.sending \/ y.sender # None)
      /\ (u.receiving => y.receiving \/ y.receiver # None)
  BY <1>5, TransceiveIs
<1> HIDE DEF u
<1>7. z \in TransceiverType /\ Holds(x, z, e) /\ (s.sends => z.receiver = y.receiver)
  <2>1. CASE s.sends
    BY <1>6, <2>1 DEF Holds, y
  <2>2. CASE ~s.sends
    <3> DEFINE n == [u EXCEPT !.receiver = None]
    <3>1. z = [n EXCEPT !.receiving = FALSE]
      BY <2>2
    <3>3. /\ n \in TransceiverType /\ n.kind = u.kind /\ n.rejected = u.rejected
          /\ n.gatherer = u.gatherer /\ n.transport = u.transport /\ n.sender = u.sender
          /\ n.receiver = None /\ n.sending = u.sending
      BY <1>6, TransceiverIs
    <3> HIDE DEF z, n
    <3>2. /\ z \in TransceiverType /\ z.kind = u.kind /\ z.rejected = u.rejected
          /\ z.gatherer = u.gatherer /\ z.transport = u.transport /\ z.sender = u.sender
          /\ z.receiver = None /\ z.receiving = FALSE /\ z.sending = u.sending
      BY <3>1, <3>3, TransceiverIs
    <3> QED
      BY <1>6, <2>2, <3>2 DEF Holds, y
  <2> QED
    BY <2>1, <2>2
<1> HIDE DEF z
<1>8. ts \in Seq(TransceiverType) /\ OnlyAt(p.transceivers, ts, i) /\ ts[i] = z
  BY <1>3, <1>7 DEF OnlyAt
<1> HIDE DEF ts
<1>9. PICK a : a = [r EXCEPT !.transceivers = ts]
  OBVIOUS
<1>10. /\ a \in PCType /\ Rest(r, a) /\ a.gatherers = r.gatherers /\ a.timers = r.timers
       /\ a.transports = r.transports /\ a.transceivers = ts
  BY <1>2, <1>8, <1>9 DEF PCType, Rest
<1>11. Rest(p, a)
  BY <1>2, <1>10, RestTransitive
<1> QED
  BY <1>2, <1>4, <1>7, <1>8, <1>9, <1>10, <1>11 DEF y

LEMMA DisposeIs ==
    ASSUME NEW p \in PCType, NEW i \in DOMAIN p.transceivers, NEW detaches \in BOOLEAN,
           i \in DOMAIN p.gatherers, i \in DOMAIN p.transports,
           p.transceivers[i].gatherer = i, p.transceivers[i].transport = i
    PROVE  LET q == Dispose(p, i, detaches)
           IN /\ q \in PCType /\ Rest(p, q) /\ q.timers = p.timers
              /\ q.transceivers = p.transceivers
              /\ OnlyAt(p.gatherers, q.gatherers, i) /\ OnlyAt(p.transports, q.transports, i)
              /\ q.gatherers[i].line = p.gatherers[i].line
              /\ q.gatherers[i].next = p.gatherers[i].next
              /\ q.gatherers[i].handler \in {"none", p.gatherers[i].handler}
              /\ q.transports[i].ice = p.transports[i].ice
<1> DEFINE x == p.gatherers[i]
           y == p.transports[i]
           u == [x EXCEPT !.handler = IF detaches THEN "none" ELSE @]
           v == [y EXCEPT !.attached = ~detaches]
           gs == [p.gatherers EXCEPT ![i] = u]
           ts == [p.transports EXCEPT ![i] = v]
<1>1. /\ x \in GathererType /\ p.gatherers \in Seq(GathererType)
      /\ y \in TransportType /\ p.transports \in Seq(TransportType)
  BY DEF PCType
<1>2. /\ u \in GathererType /\ u.line = x.line /\ u.next = x.next /\ u.handler \in {"none", x.handler}
  BY <1>1 DEF GathererType
<1>3. v \in TransportType /\ v.ice = y.ice
  BY <1>1 DEF TransportType
<1>4. Dispose(p, i, detaches) = [[p EXCEPT !.gatherers = gs] EXCEPT !.transports = ts]
  <2>1. Dispose(p, i, detaches) = [p EXCEPT !.gatherers[i].handler = IF detaches THEN "none" ELSE @,
                                            !.transports[i].attached = ~detaches]
    BY DEF Dispose
  <2> DEFINE q == [p EXCEPT !.gatherers[i].handler = IF detaches THEN "none" ELSE @]
  <2>2. Dispose(p, i, detaches) = [q EXCEPT !.transports[i].attached = ~detaches]
    BY <2>1
  <2>3. q = [p EXCEPT !.gatherers = gs]
    OBVIOUS
  <2>4. q.transports = p.transports
    BY DEF PCType
  <2> HIDE DEF q, gs
  <2>5. [q EXCEPT !.transports[i].attached = ~detaches] = [q EXCEPT !.transports = ts]
    BY <2>4
  <2> QED
    BY <2>2, <2>3, <2>5
<1> HIDE DEF u, v
<1>5. /\ gs \in Seq(GathererType) /\ OnlyAt(p.gatherers, gs, i) /\ gs[i] = u
      /\ ts \in Seq(TransportType) /\ OnlyAt(p.transports, ts, i) /\ ts[i] = v
  BY <1>1, <1>2, <1>3 DEF OnlyAt
<1> HIDE DEF gs, ts
<1>6. PICK q : q = [[p EXCEPT !.gatherers = gs] EXCEPT !.transports = ts]
  OBVIOUS
<1>7. /\ q \in PCType /\ Rest(p, q) /\ q.timers = p.timers
      /\ q.transceivers = p.transceivers /\ q.gatherers = gs /\ q.transports = ts
  BY <1>5, <1>6 DEF PCType, Rest
<1> QED
  BY <1>2, <1>3, <1>4, <1>5, <1>6, <1>7

\* The transceiver of a line moves to the transports of the first.
LEMMA MovedIs ==
    ASSUME NEW x \in TransceiverType, NEW y, Holds(y, x, 2)
    PROVE  LET moved(t) == IF t = None THEN None ELSE 1
               z == [x EXCEPT !.gatherer = 1, !.transport = 1,
                              !.sender = moved(@), !.receiver = moved(@)]
           IN z \in TransceiverType /\ Holds(y, z, 1)
<1> DEFINE s == IF x.sender = None THEN None ELSE 1
           r == IF x.receiver = None THEN None ELSE 1
<1>0. s \in 0 .. 2 /\ r \in 0 .. 2
  OBVIOUS
<1> DEFINE g == [x EXCEPT !.gatherer = 1]
           a == [g EXCEPT !.transport = 1]
<1>1. /\ g \in TransceiverType /\ g.kind = x.kind /\ g.rejected = x.rejected
      /\ g.gatherer = 1 /\ g.sender = x.sender /\ g.receiver = x.receiver
      /\ g.sending = x.sending /\ g.receiving = x.receiving
  BY TransceiverIs, 1 \in 0 .. 2
<1> HIDE DEF g
<1>2. /\ a \in TransceiverType /\ a.kind = x.kind /\ a.rejected = x.rejected
      /\ a.gatherer = 1 /\ a.transport = 1 /\ a.sender = x.sender /\ a.receiver = x.receiver
      /\ a.sending = x.sending /\ a.receiving = x.receiving
  BY <1>1, TransceiverIs, 1 \in 0 .. 2
<1> HIDE DEF a
<1>3. PICK z : z = [[a EXCEPT !.sender = s] EXCEPT !.receiver = r]
  OBVIOUS
<1>4. z = [x EXCEPT !.gatherer = 1, !.transport = 1,
                    !.sender = IF @ = None THEN None ELSE 1,
                    !.receiver = IF @ = None THEN None ELSE 1]
  <2>1. z = [a EXCEPT !.sender = IF @ = None THEN None ELSE 1,
                      !.receiver = IF @ = None THEN None ELSE 1]
    BY <1>2, <1>3, TransceiverIs
  <2> QED
    BY <2>1 DEF a, g
<1> HIDE DEF s, r
<1>5. /\ z \in TransceiverType /\ z.kind = x.kind /\ z.rejected = x.rejected
      /\ z.gatherer = 1 /\ z.transport = 1 /\ z.sender = s /\ z.receiver = r
      /\ z.sending = x.sending /\ z.receiving = x.receiving
  BY <1>0, <1>2, <1>3, TransceiverIs
<1>6. Holds(y, z, 1)
  BY <1>5 DEF Holds, s, r
<1> QED
  BY <1>4, <1>5, <1>6

LEMMA ShareIs ==
    ASSUME NEW p \in PCType, NEW detaches \in BOOLEAN, NEW i \in DOMAIN p.transceivers, i = 2,
           i \in DOMAIN p.gatherers, i \in DOMAIN p.transports,
           p.transceivers[1].gatherer = 1, p.transceivers[1].transport = 1,
           NEW y, Holds(y, p.transceivers[i], 2)
    PROVE  LET q == ShareTransports(p, i, detaches)
           IN /\ q \in PCType /\ Rest(p, q) /\ q.timers = p.timers
              /\ OnlyAt(p.transceivers, q.transceivers, i) /\ Holds(y, q.transceivers[i], 1)
              /\ OnlyAt(p.gatherers, q.gatherers, i) /\ OnlyAt(p.transports, q.transports, i)
              /\ q.gatherers[i].line = p.gatherers[i].line
              /\ q.gatherers[i].next = p.gatherers[i].next
              /\ q.gatherers[i].handler \in {"none", p.gatherers[i].handler}
              /\ q.transports[i].ice = p.transports[i].ice
<1> DEFINE o == Dispose(p, i, detaches)
           x == p.transceivers[i]
           moved(t) == IF t = None THEN None ELSE 1
           z == [x EXCEPT !.gatherer = 1, !.transport = 1,
                          !.sender = moved(@), !.receiver = moved(@)]
           xs == [p.transceivers EXCEPT ![i] = z]
<1>1. x \in TransceiverType /\ p.transceivers \in Seq(TransceiverType)
  BY DEF PCType
<1>2. /\ o \in PCType /\ Rest(p, o) /\ o.timers = p.timers
      /\ o.transceivers = p.transceivers
      /\ OnlyAt(p.gatherers, o.gatherers, i) /\ OnlyAt(p.transports, o.transports, i)
      /\ o.gatherers[i].line = p.gatherers[i].line
      /\ o.gatherers[i].next = p.gatherers[i].next
      /\ o.gatherers[i].handler \in {"none", p.gatherers[i].handler}
      /\ o.transports[i].ice = p.transports[i].ice
  BY DisposeIs DEF Holds
<1> HIDE DEF o
<1>3. z \in TransceiverType /\ Holds(y, z, 1)
  BY <1>1, MovedIs
<1>4. ShareTransports(p, i, detaches) = [o EXCEPT !.transceivers = xs]
  <2>2. ShareTransports(p, i, detaches) = [o EXCEPT !.transceivers[i] = z]
    BY DEF ShareTransports, o
  <2> HIDE DEF z
  <2>3. [o EXCEPT !.transceivers[i] = z] = [o EXCEPT !.transceivers = xs]
    BY <1>2
  <2> QED
    BY <2>2, <2>3
<1> HIDE DEF z
<1>5. xs \in Seq(TransceiverType) /\ OnlyAt(p.transceivers, xs, i) /\ xs[i] = z
  BY <1>1, <1>3 DEF OnlyAt
<1> HIDE DEF xs
<1>6. PICK q : q = [o EXCEPT !.transceivers = xs]
  OBVIOUS
<1>7. /\ q \in PCType /\ Rest(o, q) /\ q.timers = o.timers /\ q.gatherers = o.gatherers
      /\ q.transports = o.transports /\ q.transceivers = xs
  BY <1>2, <1>5, <1>6 DEF PCType, Rest
<1>8. Rest(p, q)
  BY <1>2, <1>7, RestTransitive
<1> QED
  BY <1>2, <1>3, <1>4, <1>5, <1>6, <1>7, <1>8

\* What the lines of an answer make of connection p: connection r.
Taken(p, r, b) ==
    /\ Len(r.gatherers) = 2 /\ DOMAIN r.gatherers = 1 .. 2
    /\ \A g \in 1 .. 2 :
        /\ r.gatherers[g].line = p.gatherers[g].line /\ r.gatherers[g].next = p.gatherers[g].next
        /\ \/ r.gatherers[g].handler = p.gatherers[g].handler
           \/ b /\ g = 2 /\ r.gatherers[g].handler = "none"
    /\ Len(r.transports) = 2 /\ DOMAIN r.transports = 1 .. 2
    /\ \A t \in 1 .. 2 :
        /\ r.transports[t].ice = p.transports[t].ice
        /\ (b /\ t = 2) \/ r.transports[t].attached = p.transports[t].attached
    /\ Len(r.transceivers) = 2
    /\ Holds(p.transceivers[1], r.transceivers[1], 1) /\ r.transceivers[1].receiver = 1
    /\ \/ r.transceivers[2] = Refused("video")
       \/ Holds(p.transceivers[2], r.transceivers[2], IF b THEN 1 ELSE 2)

LEMMA FirstAnswered ==
    ASSUME NEW p \in PCType, Lined(p), p.role # "observer", ~p.bundle,
           NEW s, s.sends \in BOOLEAN, s.takes \in BOOLEAN, s.codecs \in SUBSET {"opus", "h264"},
           s.cands \in SUBSET (RemoteCands \cup {END}),
           NEW o \in PCType, o.timers = p.timers,
           o.gatherers = p.gatherers, o.transports = p.transports, o.transceivers = p.transceivers
    PROVE  LET q == AnsweredLine(o, 1, s)
           IN /\ q \in PCType /\ Rest(o, q) /\ q.timers = p.timers /\ q.gatherers = p.gatherers
              /\ SameStates(p.transports, q.transports)
              /\ OnlyAt(p.transceivers, q.transceivers, 1)
              /\ Holds(p.transceivers[1], q.transceivers[1], 1)
              /\ s.sends => q.transceivers[1].receiver = 1
<1> DEFINE x == p.transceivers[1]
<1>1. /\ DOMAIN p.transceivers = {1, 2} /\ DOMAIN p.transports = {1, 2}
      /\ x.kind = "audio" /\ ~x.rejected /\ x.gatherer = 1 /\ x.transport = 1
      /\ x.sender \in {None, 1} /\ x.receiver = 1 /\ (x.sending => x.sender # None)
  <2>1. p.transceivers \in Seq(TransceiverType) /\ p.transports \in Seq(TransportType)
    BY DEF PCType
  <2>2. Len(p.transceivers) = 2 /\ Len(p.transports) = 2
        /\ x.kind = "audio" /\ ~x.rejected /\ x.gatherer = 1 /\ x.transport = 1
        /\ x.sender \in {None, 1} /\ x.receiver = 1 /\ (x.sending => x.sender # None)
    BY DEF Lined, Second
  <2> QED
    BY <2>1, <2>2
<1>2. Holds(x, x, 1)
  BY <1>1 DEF Holds
<1>0. PICK i \in DOMAIN o.transceivers : i = 1
  BY <1>1
<1>3. i \in DOMAIN o.transceivers /\ i \in DOMAIN o.transports
      /\ Holds(x, o.transceivers[i], i) /\ o.transceivers[i].transport = i
      /\ o.transceivers[i].receiver = 1
  BY <1>0, <1>1, <1>2
<1> DEFINE q == AnsweredLine(o, i, s)
<1>5. /\ q \in PCType /\ Rest(o, q) /\ q.gatherers = o.gatherers /\ q.timers = o.timers
      /\ SameStates(o.transports, q.transports)
      /\ OnlyAt(o.transceivers, q.transceivers, i)
      /\ Holds(x, q.transceivers[i], i)
      /\ (s.sends => q.transceivers[i].receiver = o.transceivers[i].receiver)
  <2> HIDE DEF x
  <2>1. LET z == AnsweredLine(o, i, s)
        IN /\ z \in PCType /\ Rest(o, z) /\ z.gatherers = o.gatherers /\ z.timers = o.timers
           /\ SameStates(o.transports, z.transports)
           /\ OnlyAt(o.transceivers, z.transceivers, i)
           /\ Holds(x, z.transceivers[i], o.transceivers[i].transport)
           /\ (s.sends => z.transceivers[i].receiver = o.transceivers[i].receiver)
    <3>1. /\ o.transceivers[i].transport \in DOMAIN o.transports
          /\ o.transceivers[i].transport \in 1 .. 2
          /\ Holds(x, o.transceivers[i], o.transceivers[i].transport)
      <4>1. o.transceivers[i].transport = i
        BY <1>3
      <4>2. i \in 1 .. 2
        BY <1>0
      <4> QED
        BY <1>3, <4>1, <4>2
    <3>2. i \in DOMAIN o.transceivers
      BY <1>3
    <3> QED
      BY <3>1, <3>2, AnsweredIs
  <2> QED
    BY <1>3, <2>1
<1> HIDE DEF q, x
<1> QED
  BY <1>0, <1>3, <1>5 DEF x, q

LEMMA AnsweredOnFirst ==
    ASSUME NEW m \in PCType, NEW i \in DOMAIN m.transceivers, 1 \in DOMAIN m.transports,
           NEW y, Holds(y, m.transceivers[i], 1),
           NEW s, s.sends = FALSE, s.takes = TRUE,
           s.codecs \in SUBSET {"opus", "h264"}, s.cands = {}
    PROVE  LET r == AnsweredLine(m, i, s)
           IN /\ r \in PCType /\ Rest(m, r) /\ r.gatherers = m.gatherers /\ r.timers = m.timers
              /\ SameStates(m.transports, r.transports)
              /\ OnlyAt(m.transceivers, r.transceivers, i)
              /\ Holds(y, r.transceivers[i], 1)
<1>1. PICK e \in DOMAIN m.transports : e = 1
  OBVIOUS
<1>2. Holds(y, m.transceivers[i], e) /\ e \in 1 .. 2
  BY <1>1
<1>4. m.transceivers[i].transport = e
  BY <1>1 DEF Holds
<1>5. s.sends \in BOOLEAN /\ s.takes \in BOOLEAN /\ s.cands \in SUBSET (RemoteCands \cup {END})
  OBVIOUS
<1> DEFINE r == AnsweredLine(m, i, s)
<1>3. /\ r \in PCType /\ Rest(m, r) /\ r.gatherers = m.gatherers /\ r.timers = m.timers
      /\ SameStates(m.transports, r.transports)
      /\ OnlyAt(m.transceivers, r.transceivers, i)
      /\ Holds(y, r.transceivers[i], e)
  BY <1>2, <1>4, <1>5, AnsweredIs
<1> HIDE DEF r
<1> QED
  BY <1>1, <1>3 DEF r

\* The video line of an answer, after the audio line.
LEMMA SecondAnswered ==
    ASSUME NEW q \in PCType, NEW detaches \in BOOLEAN,
           NEW s, s.kind = "video", s.sends = FALSE, s.takes = TRUE,
           s.codecs \in SUBSET {"opus", "h264"}, s.cands = {},
           DOMAIN q.transceivers = {1, 2}, DOMAIN q.gatherers = {1, 2},
           DOMAIN q.transports = {1, 2},
           q.transceivers[1].gatherer = 1, q.transceivers[1].transport = 1,
           NEW y, Holds(y, q.transceivers[2], 2)
    PROVE  LET r == RemoteLine(q, "answer", 2, s, detaches)
           IN /\ r \in PCType /\ Rest(q, r) /\ r.timers = q.timers
              /\ OnlyAt(q.transceivers, r.transceivers, 2)
              /\ OnlyAt(q.gatherers, r.gatherers, 2)
              /\ r.gatherers[2].line = q.gatherers[2].line
              /\ r.gatherers[2].next = q.gatherers[2].next
              /\ \/ r.gatherers[2].handler = q.gatherers[2].handler
                 \/ q.bundle /\ r.gatherers[2].handler = "none"
              /\ DOMAIN r.transports = DOMAIN q.transports /\ Len(r.transports) = Len(q.transports)
              /\ \A t \in 1 .. 2 :
                   /\ r.transports[t].ice = q.transports[t].ice
                   /\ (q.bundle /\ t = 2) \/ r.transports[t].attached = q.transports[t].attached
              /\ \/ r.transceivers[2] = Refused("video")
                 \/ Holds(y, r.transceivers[2], IF q.bundle THEN 1 ELSE 2)
<1> DEFINE b == q.bundle
           r == RemoteLine(q, "answer", 2, s, detaches)
<1>0. PICK i \in DOMAIN q.transceivers : i = 2
  OBVIOUS
<1>1. s.sends \in BOOLEAN /\ s.takes \in BOOLEAN /\ s.cands \in SUBSET (RemoteCands \cup {END})
      /\ i \in DOMAIN q.gatherers /\ i \in DOMAIN q.transports
      /\ q.transceivers[i].gatherer = 2 /\ q.transceivers[i].transport = 2
  BY <1>0 DEF Holds
<1>2. CASE s.codecs = {}
  <2> DEFINE ts == [q.transceivers EXCEPT ![2] = Refused("video")]
  <2>1. r = [q EXCEPT !.transceivers = ts]
    BY <1>2 DEF RemoteLine, Rejects
  <2>2. ts \in Seq(TransceiverType) /\ OnlyAt(q.transceivers, ts, 2) /\ ts[2] = Refused("video")
    BY RefusedTyped DEF PCType, OnlyAt
  <2> HIDE DEF ts, r
  <2>3. /\ r \in PCType /\ Rest(q, r) /\ r.timers = q.timers /\ r.gatherers = q.gatherers
        /\ r.transports = q.transports /\ r.transceivers = ts
    BY <2>1, <2>2 DEF PCType, Rest
  <2> QED
    BY <2>2, <2>3 DEF OnlyAt, r
<1>3. CASE s.codecs # {} /\ b
  <2>m. PICK m : m = ShareTransports(q, i, detaches)
    OBVIOUS
  <2>1. r = AnsweredLine(m, i, s)
    BY <1>0, <1>3, <2>m DEF RemoteLine, Rejects
  <2>2. /\ m \in PCType /\ Rest(q, m) /\ m.timers = q.timers
        /\ OnlyAt(q.transceivers, m.transceivers, i) /\ Holds(y, m.transceivers[i], 1)
        /\ OnlyAt(q.gatherers, m.gatherers, i) /\ OnlyAt(q.transports, m.transports, i)
        /\ m.gatherers[i].line = q.gatherers[i].line
        /\ m.gatherers[i].next = q.gatherers[i].next
        /\ m.gatherers[i].handler \in {"none", q.gatherers[i].handler}
        /\ m.transports[i].ice = q.transports[i].ice
    BY <1>0, <1>1, <2>m, ShareIs
  <2> HIDE DEF r
  <2>3. /\ 1 \in DOMAIN m.transports /\ i \in DOMAIN m.transceivers /\ m \in PCType
        /\ Holds(y, m.transceivers[i], 1)
    BY <1>1, <2>2 DEF OnlyAt
  <2>4. /\ r \in PCType /\ Rest(m, r) /\ r.gatherers = m.gatherers /\ r.timers = m.timers
        /\ SameStates(m.transports, r.transports)
        /\ OnlyAt(m.transceivers, r.transceivers, i)
        /\ Holds(y, r.transceivers[i], 1)
    <3>1. LET z == AnsweredLine(m, i, s)
          IN /\ z \in PCType /\ Rest(m, z) /\ z.gatherers = m.gatherers /\ z.timers = m.timers
             /\ SameStates(m.transports, z.transports)
             /\ OnlyAt(m.transceivers, z.transceivers, i)
             /\ Holds(y, z.transceivers[i], 1)
      BY <2>3, AnsweredOnFirst
    <3> QED
      BY <2>1, <3>1
  <2>5. Rest(q, r) /\ OnlyAt(q.transceivers, r.transceivers, i)
    BY <2>2, <2>4, RestTransitive DEF OnlyAt
  <2>6. /\ DOMAIN r.transports = DOMAIN q.transports /\ Len(r.transports) = Len(q.transports)
        /\ \A t \in 1 .. 2 : /\ r.transports[t].ice = q.transports[t].ice
                             /\ t = 2 \/ r.transports[t].attached = q.transports[t].attached
    BY <1>0, <2>2, <2>4 DEF SameStates, OnlyAt
  <2> QED
    BY <1>0, <1>3, <2>2, <2>4, <2>5, <2>6 DEF r
<1>4. CASE s.codecs # {} /\ ~b
  <2>1. r = AnsweredLine(q, i, s)
    BY <1>0, <1>4 DEF RemoteLine, Rejects
  <2> HIDE DEF r
  <2>2. 2 \in DOMAIN q.transports /\ 2 \in 1 .. 2 /\ Holds(y, q.transceivers[i], 2)
    BY <1>0
  <2>3. /\ r \in PCType /\ Rest(q, r) /\ r.gatherers = q.gatherers /\ r.timers = q.timers
        /\ SameStates(q.transports, r.transports)
        /\ OnlyAt(q.transceivers, r.transceivers, i)
        /\ Holds(y, r.transceivers[i], 2)
    BY <1>1, <2>1, <2>2, AnsweredIs
  <2> QED
    BY <1>0, <1>4, <2>3 DEF SameStates, OnlyAt, r
<1> QED
  BY <1>2, <1>3, <1>4

LEMMA AnswerTaken ==
    ASSUME NEW p \in PCType, Live(p, <<>>), p.role # "observer", ~p.closed, p.remote = <<>>,
           p.signaling = "have-local-offer", NEW d \in Answers, NEW detaches \in BOOLEAN
    PROVE  LET q == SetRemoteDescription(p, "answer", d, detaches)
           IN /\ q \in PCType /\ Taken(p, q, d.bundle)
              /\ q.role = p.role /\ q.found = p.found /\ q.closed = p.closed
              /\ q.bundle = d.bundle /\ q.signaling = "stable"
              /\ q.created = p.created /\ q.local = p.local /\ Len(q.remote) = 2 /\ q.remote # <<>>
              /\ q.gathering = p.gathering /\ q.ice = p.ice /\ q.timers = p.timers
              /\ q.surfaced = p.surfaced /\ q.told = p.told
<1> DEFINE b == d.bundle
           s1 == d.lines[1]
           s2 == d.lines[2]
           o == [p EXCEPT !.bundle = b]
           q == AnsweredLine(o, 1, s1)
           r == RemoteLine(q, "answer", 2, s2, detaches)
           m == [i \in DOMAIN d.lines |-> d.lines[i].cands]
           x == p.transceivers[1]
           y == p.transceivers[2]
<1>1. /\ b \in BOOLEAN /\ DOMAIN d.lines = 1 .. 2
      /\ s1.kind = "audio" /\ s1.sends = TRUE /\ s1.takes = TRUE
      /\ s1.codecs = {"opus"} /\ s1.cands \in SUBSET (RemoteCands \cup {END})
      /\ s2.kind = "video" /\ s2.sends = FALSE /\ s2.takes = TRUE
      /\ s2.codecs \in SUBSET {"opus", "h264"} /\ s2.cands = {}
  BY AnswersAre
<1>2. Lined(p) /\ ~p.bundle /\ ~y.rejected
  BY DEF Live, OfferStage
<1>3. /\ o \in PCType /\ o.bundle = b /\ o.transceivers = p.transceivers
      /\ o.transports = p.transports /\ o.gatherers = p.gatherers /\ o.timers = p.timers
      /\ Rest(o, o)
  BY <1>1 DEF PCType, Rest
<1>4. /\ p.transceivers \in Seq(TransceiverType) /\ p.gatherers \in Seq(GathererType)
      /\ p.transports \in Seq(TransportType)
  BY DEF PCType
<1>5. /\ DOMAIN p.transceivers = {1, 2} /\ DOMAIN p.gatherers = {1, 2}
      /\ DOMAIN p.transports = {1, 2}
      /\ Len(p.transceivers) = 2 /\ Len(p.gatherers) = 2 /\ Len(p.transports) = 2
  BY <1>2, <1>4 DEF Lined, Second
<1>6. Holds(y, y, 2)
  BY <1>2 DEF Lined, Second, Holds
<1> HIDE DEF s1, s2, b
<1>7. /\ q \in PCType /\ Rest(o, q) /\ q.timers = p.timers /\ q.gatherers = p.gatherers
      /\ SameStates(p.transports, q.transports)
      /\ OnlyAt(p.transceivers, q.transceivers, 1)
      /\ Holds(x, q.transceivers[1], 1)
      /\ q.transceivers[1].receiver = 1
  <2> HIDE DEF o
  <2>1. LET z == AnsweredLine(o, 1, s1)
        IN /\ z \in PCType /\ Rest(o, z) /\ z.timers = p.timers /\ z.gatherers = p.gatherers
           /\ SameStates(p.transports, z.transports)
           /\ OnlyAt(p.transceivers, z.transceivers, 1)
           /\ Holds(p.transceivers[1], z.transceivers[1], 1)
           /\ s1.sends => z.transceivers[1].receiver = 1
    <3>1. /\ s1.sends \in BOOLEAN /\ s1.takes \in BOOLEAN /\ s1.codecs \in SUBSET {"opus", "h264"}
          /\ s1.cands \in SUBSET (RemoteCands \cup {END})
      BY <1>1
    <3>2. /\ o \in PCType /\ o.timers = p.timers /\ o.gatherers = p.gatherers
          /\ o.transports = p.transports /\ o.transceivers = p.transceivers
      BY <1>3
    <3>3. Lined(p) /\ ~p.bundle
      BY <1>2
    <3> QED
      BY <3>1, <3>2, <3>3, FirstAnswered
  <2> QED
    BY <1>1, <2>1
<1>8. RemoteLine(o, "answer", 1, s1, detaches) = q
  BY <1>1 DEF RemoteLine, Rejects
<1>9. EachLine(LAMBDA a, i : RemoteLine(a, "answer", i, d.lines[i], detaches), o) = r
  BY <1>8 DEF EachLine, s1, s2
<1> HIDE DEF q
<1>10. /\ q.bundle = b /\ DOMAIN q.transceivers = {1, 2} /\ DOMAIN q.gatherers = {1, 2}
       /\ DOMAIN q.transports = {1, 2}
       /\ q.transceivers[1].gatherer = 1 /\ q.transceivers[1].transport = 1
       /\ Holds(y, q.transceivers[2], 2)
  <2>1. q.transceivers[2] = y
    BY <1>5, <1>7 DEF OnlyAt
  <2>2. q.bundle = b
    BY <1>3, <1>7 DEF Rest
  <2>3. q.transceivers[1].gatherer = 1 /\ q.transceivers[1].transport = 1
    BY <1>7 DEF Holds
  <2> QED
    BY <1>5, <1>6, <1>7, <2>1, <2>2, <2>3 DEF OnlyAt, SameStates
<1>11. /\ r \in PCType /\ Rest(q, r) /\ r.timers = q.timers
       /\ OnlyAt(q.transceivers, r.transceivers, 2)
       /\ OnlyAt(q.gatherers, r.gatherers, 2)
       /\ r.gatherers[2].line = q.gatherers[2].line
       /\ r.gatherers[2].next = q.gatherers[2].next
       /\ \/ r.gatherers[2].handler = q.gatherers[2].handler
          \/ b /\ r.gatherers[2].handler = "none"
       /\ DOMAIN r.transports = DOMAIN q.transports /\ Len(r.transports) = Len(q.transports)
       /\ \A t \in 1 .. 2 :
            /\ r.transports[t].ice = q.transports[t].ice
            /\ (b /\ t = 2) \/ r.transports[t].attached = q.transports[t].attached
       /\ \/ r.transceivers[2] = Refused("video")
          \/ Holds(y, r.transceivers[2], IF b THEN 1 ELSE 2)
  <2>1. LET z == RemoteLine(q, "answer", 2, s2, detaches)
        IN /\ z \in PCType /\ Rest(q, z) /\ z.timers = q.timers
           /\ OnlyAt(q.transceivers, z.transceivers, 2)
           /\ OnlyAt(q.gatherers, z.gatherers, 2)
           /\ z.gatherers[2].line = q.gatherers[2].line
           /\ z.gatherers[2].next = q.gatherers[2].next
           /\ \/ z.gatherers[2].handler = q.gatherers[2].handler
              \/ q.bundle /\ z.gatherers[2].handler = "none"
           /\ DOMAIN z.transports = DOMAIN q.transports /\ Len(z.transports) = Len(q.transports)
           /\ \A t \in 1 .. 2 :
                /\ z.transports[t].ice = q.transports[t].ice
                /\ (q.bundle /\ t = 2) \/ z.transports[t].attached = q.transports[t].attached
           /\ \/ z.transceivers[2] = Refused("video")
              \/ Holds(y, z.transceivers[2], IF q.bundle THEN 1 ELSE 2)
    BY <1>1, <1>7, <1>10, SecondAnswered
  <2> QED
    BY <1>10, <2>1
<1> HIDE DEF r, x, y
<1>12. Rest(o, r)
  BY <1>7, <1>11, RestTransitive
<1>13. Taken(p, r, b)
  <2>1. /\ Len(r.gatherers) = 2 /\ DOMAIN r.gatherers = 1 .. 2
        /\ \A g \in 1 .. 2 :
            /\ r.gatherers[g].line = p.gatherers[g].line /\ r.gatherers[g].next = p.gatherers[g].next
            /\ \/ r.gatherers[g].handler = p.gatherers[g].handler
               \/ b /\ g = 2 /\ r.gatherers[g].handler = "none"
    BY <1>5, <1>7, <1>11 DEF OnlyAt
  <2>2. /\ Len(r.transports) = 2 /\ DOMAIN r.transports = 1 .. 2
        /\ \A t \in 1 .. 2 :
            /\ r.transports[t].ice = p.transports[t].ice
            /\ (b /\ t = 2) \/ r.transports[t].attached = p.transports[t].attached
    BY <1>5, <1>7, <1>11 DEF SameStates
  <2>3. /\ Len(r.transceivers) = 2
        /\ Holds(x, r.transceivers[1], 1) /\ r.transceivers[1].receiver = 1
    BY <1>5, <1>7, <1>11 DEF OnlyAt
  <2> QED
    BY <1>11, <2>1, <2>2, <2>3 DEF Taken, x, y
<1>14. m \in Seq(SUBSET (RemoteCands \cup {END})) /\ Len(m) = 2 /\ m # <<>>
  <2>1. \A i \in 1 .. 2 : d.lines[i].cands \in SUBSET (RemoteCands \cup {END})
    BY <1>1 DEF s1, s2
  <2>2. DOMAIN m = 1 .. 2 /\ m = [i \in 1 .. 2 |-> m[i]]
        /\ m[1] \in SUBSET (RemoteCands \cup {END}) /\ m[2] \in SUBSET (RemoteCands \cup {END})
    BY <1>1, <2>1
  <2> HIDE DEF m
  <2>3. m = <<m[1], m[2]>>
    BY <2>2, FunctionIsPair
  <2>4. <<m[1], m[2]>> \in Seq(SUBSET (RemoteCands \cup {END}))
    BY <2>2, PairTyped
  <2> QED
    BY <2>2, <2>3, <2>4
<1>15. SetRemoteDescription(p, "answer", d, detaches) =
           [[[r EXCEPT !.remote = m] EXCEPT !.signaling = "stable"] EXCEPT !.late = TRUE]
  BY <1>9 DEF SetRemoteDescription, o, b
<1> HIDE DEF m
<1>16. PICK a : a = [[[r EXCEPT !.remote = m] EXCEPT !.signaling = "stable"] EXCEPT !.late = TRUE]
  OBVIOUS
<1>17. /\ a \in PCType /\ a.remote = m /\ a.signaling = "stable"
       /\ a.role = r.role /\ a.found = r.found /\ a.closed = r.closed /\ a.bundle = r.bundle
       /\ a.created = r.created /\ a.local = r.local
       /\ a.gathering = r.gathering /\ a.ice = r.ice /\ a.timers = r.timers
       /\ a.surfaced = r.surfaced /\ a.told = r.told
       /\ a.transceivers = r.transceivers /\ a.transports = r.transports
       /\ a.gatherers = r.gatherers
  BY <1>11, <1>14, <1>16 DEF PCType
<1>18. /\ a.role = p.role /\ a.found = p.found /\ a.closed = p.closed /\ a.bundle = b
       /\ a.created = p.created /\ a.local = p.local
       /\ a.gathering = p.gathering /\ a.ice = p.ice /\ a.timers = p.timers
       /\ a.surfaced = p.surfaced /\ a.told = p.told
  <2>1. /\ o.role = p.role /\ o.found = p.found /\ o.closed = p.closed /\ o.bundle = b
        /\ o.created = p.created /\ o.local = p.local
        /\ o.gathering = p.gathering /\ o.ice = p.ice /\ o.timers = p.timers
        /\ o.surfaced = p.surfaced /\ o.told = p.told
    BY DEF PCType
  <2> HIDE DEF o
  <2> QED
    BY <1>7, <1>11, <1>12, <1>17, <2>1 DEF Rest
<1>19. Taken(p, a, b)
  BY <1>13, <1>17 DEF Taken
<1>20. SetRemoteDescription(p, "answer", d, detaches) = a
  BY <1>15, <1>16, Zenon
<1>21. /\ a \in PCType /\ Taken(p, a, d.bundle)
       /\ a.role = p.role /\ a.found = p.found /\ a.closed = p.closed
       /\ a.bundle = d.bundle /\ a.signaling = "stable"
       /\ a.created = p.created /\ a.local = p.local /\ Len(a.remote) = 2 /\ a.remote # <<>>
       /\ a.gathering = p.gathering /\ a.ice = p.ice /\ a.timers = p.timers
       /\ a.surfaced = p.surfaced /\ a.told = p.told
  BY <1>14, <1>17, <1>18, <1>19, Zenon DEF b
<1> QED
  BY <1>20, <1>21, Zenon

LEMMA TakenGood ==
    ASSUME NEW p \in PCType, Live(p, <<>>), p.role # "observer", ~p.closed, p.remote = <<>>,
           p.local # <<>>,
           NEW b \in BOOLEAN, NEW q \in PCType, Taken(p, q, b),
           q.role = p.role, q.found = p.found, q.closed = p.closed,
           q.bundle = b, q.signaling = "stable",
           q.created = p.created, q.local = p.local, Len(q.remote) = 2, q.remote # <<>>,
           q.ice = p.ice, q.timers = p.timers,
           q.surfaced = p.surfaced, q.told = p.told
    PROVE  Live(q, <<>>)
<1> DEFINE x == p.transceivers[1]
           y == p.transceivers[2]
           u == q.transceivers[1]
           v == q.transceivers[2]
           e == IF b THEN 1 ELSE 2
<1>1. /\ Lined(p) /\ Written(p) /\ Running(p) /\ Gathering(p) /\ Kept(p) /\ OfferStage(p, <<>>)
      /\ ~p.bundle /\ ~y.rejected
  BY DEF Live, OfferStage
<1>2. /\ Len(p.gatherers) = 2 /\ DOMAIN p.gatherers = 1 .. 2
      /\ Len(p.transports) = 2 /\ DOMAIN p.transports = 1 .. 2
  <2>1. p.gatherers \in Seq(GathererType) /\ p.transports \in Seq(TransportType)
    BY DEF PCType
  <2> QED
    BY <1>1, <2>1 DEF Lined, Second
<1>3. Second(q) = e
  BY DEF Second
<1>4. /\ x.kind = "audio" /\ x.sender \in {None, 1} /\ y.kind = "video"
  BY <1>1 DEF Lined
<1>5. /\ u.kind = "audio" /\ ~u.rejected /\ u.gatherer = 1 /\ u.transport = 1
      /\ u.sender \in {None, 1} /\ u.receiver = 1 /\ (u.sending => u.sender # None)
      /\ (u.sender # None => x.sender # None)
  BY <1>4 DEF Taken, Holds
<1>6. /\ v.kind = "video"
      /\ IF v.rejected THEN v = Refused("video")
         ELSE /\ v.gatherer = e /\ v.transport = e
              /\ v.sender \in {None, e} /\ v.receiver \in {None, e}
      /\ (v.sending => v.sender # None) /\ (v.receiving => v.receiver # None)
      /\ (v.sender # None => y.sender # None) /\ (v.receiver # None => y.receiver # None)
  <2>1. CASE v = Refused("video")
    <3>1. /\ v.kind = "video" /\ v.rejected = TRUE /\ v.sender = None /\ v.receiver = None
          /\ v.sending = FALSE /\ v.receiving = FALSE
      BY <2>1 DEF Refused
    <3> QED
      BY <2>1, <3>1
  <2>2. CASE Holds(y, v, e)
    BY <1>4, <2>2 DEF Holds
  <2> QED
    BY <2>1, <2>2 DEF Taken
<1>7. x.receiver # None
  BY <1>1 DEF Lined
<1> HIDE DEF u, v, x, y, e
<1>8. Lined(q)
  BY <1>2, <1>3, <1>5, <1>6 DEF Taken, Lined, u, v
<1>9. Written(q)
  <2>1. \A i \in 1 .. 2 :
            /\ q.transceivers[i].sender # None => p.transceivers[i].sender # None
            /\ q.transceivers[i].receiver # None => p.transceivers[i].receiver # None
    BY <1>5, <1>6, <1>7 DEF x, y, u, v
  <2> QED
    BY <1>1, <2>1 DEF Written
<1>10. OfferStage(q, <<>>)
  BY <1>1 DEF OfferStage
<1>11. Running(q)
  <2>1. ~Broken(p)
    BY <1>1, LinedInUse DEF y
  <2>2. /\ p.ice = "new" /\ p.told = "new"
        /\ \A t \in DOMAIN p.transports : p.transports[t].ice = "new" /\ ~p.transports[t].started
    BY <1>1, <2>1, NotBegun
  <2>3. \A t \in DOMAIN q.transports :
            /\ q.transports[t].ice = "new"
            /\ q.transports[t].started => q.local # <<>> /\ q.remote # <<>>
            /\ (t = 2 /\ q.bundle) \/ q.transports[t].attached
    <3> SUFFICES ASSUME NEW t \in DOMAIN q.transports
                 PROVE  /\ q.transports[t].ice = "new"
                        /\ q.transports[t].started => q.local # <<>> /\ q.remote # <<>>
                        /\ (t = 2 /\ q.bundle) \/ q.transports[t].attached
      OBVIOUS
    <3>1. /\ t \in DOMAIN p.transports /\ q.transports[t].ice = p.transports[t].ice
          /\ (b /\ t = 2) \/ q.transports[t].attached = p.transports[t].attached
      BY <1>2 DEF Taken
    <3>2. p.transports[t].attached
      BY <1>1, <3>1 DEF Running
    <3> QED
      BY <2>2, <3>1, <3>2
  <2> QED
    BY <1>8, <2>2, <2>3, Begins
<1>12. \A g \in 1 .. 2 :
          /\ q.gatherers[g].line = p.gatherers[g].line /\ q.gatherers[g].next = p.gatherers[g].next
          /\ \/ q.gatherers[g].handler = p.gatherers[g].handler
             \/ q.bundle /\ g = 2 /\ q.gatherers[g].handler = "none"
  BY DEF Taken
<1>13. DOMAIN q.gatherers = 1 .. 2
  BY DEF Taken
<1>14. Gathering(q)
  <2>1. \A g \in 1 .. 2 : p.gatherers[g].handler # "buffer"
    BY <1>1, <1>2 DEF Gathering
  <2>2. \A g \in 1 .. 2 : q.gatherers[g].handler # "buffer"
    BY <1>12, <2>1
  <2>3. \A g \in 1 .. 2 : q.gatherers[g].handler = "none" => q.bundle /\ g = 2
    BY <1>1, <1>2, <1>12 DEF Gathering
  <2> QED
    BY <1>1, <1>2, <1>12, <1>13, <2>2, <2>3 DEF Gathering
<1>15. Kept(q)
  BY <1>1, <1>2, <1>12, <1>13 DEF Kept
<1>16. q.transceivers # <<>>
  <2>1. q.transceivers \in Seq(TransceiverType) /\ Len(q.transceivers) = 2
    BY <1>8 DEF PCType, Lined
  <2> QED
    BY <2>1, PairIs
<1> QED
  BY <1>8, <1>9, <1>10, <1>11, <1>14, <1>15, <1>16 DEF Live
=============================================================================
