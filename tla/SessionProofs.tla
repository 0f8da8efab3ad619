--------------------------- MODULE SessionProofs ---------------------------
(***************************************************************************)
(* What holds of a session (module Session) whatever its bounds: the types *)
(* of pages, phone and room, that a page has one open connection, and that *)
(* a call is shown only while it is with the other end or news is coming.  *)
(*                                                                         *)
(* Types: every task of a page is a composition of operators on its        *)
(* record, so each operator has a lemma: what it keeps, and, of those that *)
(* end a task, that they leave the page Sound.  The three folds (over what *)
(* a promise holds, what waits for the microphone and what is sent) are    *)
(* unfolded and followed by induction on their length.                     *)
(*                                                                         *)
(* Calls: what a task does, as far as the other end can tell, is Does for  *)
(* a page and PhoneDoes for the phone; both are Moves.  What the two ends  *)
(* know of each other is Between; a step of one end is a Turn, which keeps *)
(* it, and each action of the session is shown to be a turn.               *)
(***************************************************************************)
EXTENDS Session, SiftProofs

-----------------------------------------------------------------------------
(* The types.                                                              *)

Types == {"join", "leave", "reset", "offer", "answer", "ice-candidate"}
Message == [type : Types, of : Nat, re : Nat]

Connection ==
    [desc : {"making", "made", "closed"}, peer : Nat,
     ice : {"new", "connected", "failed", "closed"}, gathers : BOOLEAN]

PageType ==
    [role : {"observer", "glass-wearer"}, state : PageState, err : Err \cup {NoErr},
     ws : {"connecting", "open", "closed"},
     mic : {"unasked", "asked", "granted", "denied"}, waiting : Seq(Nat),
     promise : Nat, held : Seq(Message), rejected : BOOLEAN, pcs : Seq(Connection),
     outbox : Seq(Message), overlapped : BOOLEAN]

-----------------------------------------------------------------------------
(* A page, also in the midst of a task.                                    *)

\* A page whose socket is connecting has done nothing yet.
Fresh(p) ==
    /\ p.state = WEBSOCKET_CONNECT /\ p.mic = "unasked"
    /\ p.promise = Pending /\ p.held = <<>> /\ ~p.rejected

\* No offer comes to a wearer: nothing that waits has one, nothing an observer says is one.
OffersToObserver(p) ==
    IF p.role = "observer" THEN \A k \in DOMAIN p.outbox : p.outbox[k].type # "offer"
    ELSE \A k \in DOMAIN p.waiting : p.waiting[k] = NoPeer

\* The connections: none is open before the microphone is granted, and none but that of
\* the promise, unless two offers waited.
Connected(p) ==
    /\ p.promise \in 0 .. Len(p.pcs)
    /\ p.promise # Pending => p.mic = "granted"
    /\ \A i \in DOMAIN p.pcs : IsOpen(p.pcs[i]) => p.mic = "granted"
    /\ p.role = "glass-wearer" /\ p.promise # Pending => p.state >= ESTABLISHING
    /\ p.overlapped \/ \A i \in DOMAIN p.pcs : IsOpen(p.pcs[i]) => i = p.promise

Sound(p) ==
    /\ p \in PageType
    /\ p.state = ERROR <=> p.err # NoErr
    /\ p.ws = "connecting" => Fresh(p)
    /\ p.mic = "asked" <=> p.waiting # <<>>
    /\ p.held # <<>> => p.promise = Pending
    /\ OffersToObserver(p)
    /\ Connected(p)

\* What a step that is not the prompt's leaves alone.
Keeps(p, q) ==
    /\ q.role = p.role /\ q.overlapped = p.overlapped
    /\ q.mic = p.mic /\ q.waiting = p.waiting

USE DEF NoPeer, Pending

-----------------------------------------------------------------------------
(* The folds: each is the function by which it is defined.                 *)

\* Release, after the message m of those held.
Released(q, m) == IF q.promise = Pending THEN q ELSE Apply(q, m)

Releases(f, p, held, m) ==
    f = [n \in 0 .. m |-> IF n = 0 THEN p ELSE Released(f[n - 1], held[n])]

LEMMA ReleaseIs ==
    ASSUME NEW p, NEW held, Len(held) \in Nat
    PROVE  \E f : Releases(f, p, held, Len(held)) /\ Release(p, held) = f[Len(held)]
<1> DEFINE N == Len(held)
           Has == {m \in Nat : \E f : Releases(f, p, held, m)}
<1>1. 0 \in Has
  <2> DEFINE f == [n \in 0 .. 0 |-> p]
  <2>1. Releases(f, p, held, 0)
    BY DEF Releases
  <2> QED
    BY <2>1
<1>2. ASSUME NEW m \in Nat, m \in Has
      PROVE  m + 1 \in Has
  <2>1. PICK f : Releases(f, p, held, m)
    BY <1>2
  <2> DEFINE g == [n \in 0 .. m + 1 |-> IF n = m + 1 THEN Released(f[m], held[m + 1]) ELSE f[n]]
  <2>2. \A n \in 0 .. m + 1 : g[n] = IF n = 0 THEN p ELSE Released(g[n - 1], held[n])
    <3> SUFFICES ASSUME NEW n \in 0 .. m + 1
                 PROVE  g[n] = IF n = 0 THEN p ELSE Released(g[n - 1], held[n])
      OBVIOUS
    <3>1. CASE n = m + 1
      BY <3>1
    <3>2. CASE n # m + 1
      <4>1. n \in 0 .. m /\ g[n] = f[n] /\ (n # 0 => g[n - 1] = f[n - 1])
        BY <3>2
      <4>2. f[n] = IF n = 0 THEN p ELSE Released(f[n - 1], held[n])
        BY <2>1, <4>1 DEF Releases
      <4> QED
        BY <4>1, <4>2
    <3> QED
      BY <3>1, <3>2
  <2>3. g = [n \in 0 .. m + 1 |-> g[n]]
    OBVIOUS
  <2>4. Releases(g, p, held, m + 1)
    <3> HIDE DEF g
    <3> QED
      BY <2>2, <2>3 DEF Releases
  <2> QED
    BY <2>4
<1>3. PICK f : Releases(f, p, held, N)
  <2> HIDE DEF Has
  <2>1. Nat \subseteq Has
    BY <1>1, <1>2, SetInduction
  <2> QED
    BY <2>1 DEF Has
<1> DEFINE h == CHOOSE u : u = [n \in 0 .. N |-> IF n = 0 THEN p ELSE Released(u[n - 1], held[n])]
<1>4. Releases(h, p, held, N)
  <2>1. \E u : u = [n \in 0 .. N |-> IF n = 0 THEN p ELSE Released(u[n - 1], held[n])]
    BY <1>3, Zenon DEF Releases
  <2> QED
    BY <2>1, Zenon DEF Releases
<1>5. Release(p, held) = h[N]
  BY DEF Release, Released
<1> QED
  BY <1>4, <1>5

\* ContinueAll, after each of the offers.
Continues(f, p, offers, m) ==
    f = [n \in 0 .. m |-> IF n = 0 THEN p ELSE Continue(f[n - 1], offers[n])]

LEMMA ContinueAllIs ==
    ASSUME NEW p, NEW offers, Len(offers) \in Nat
    PROVE  \E f : Continues(f, p, offers, Len(offers)) /\ ContinueAll(p, offers) = f[Len(offers)]
<1> DEFINE N == Len(offers)
           Has == {m \in Nat : \E f : Continues(f, p, offers, m)}
<1>1. 0 \in Has
  <2> DEFINE f == [n \in 0 .. 0 |-> p]
  <2>1. Continues(f, p, offers, 0)
    BY DEF Continues
  <2> QED
    BY <2>1
<1>2. ASSUME NEW m \in Nat, m \in Has
      PROVE  m + 1 \in Has
  <2>1. PICK f : Continues(f, p, offers, m)
    BY <1>2
  <2> DEFINE g == [n \in 0 .. m + 1 |-> IF n = m + 1 THEN Continue(f[m], offers[m + 1]) ELSE f[n]]
  <2>2. \A n \in 0 .. m + 1 : g[n] = IF n = 0 THEN p ELSE Continue(g[n - 1], offers[n])
    <3> SUFFICES ASSUME NEW n \in 0 .. m + 1
                 PROVE  g[n] = IF n = 0 THEN p ELSE Continue(g[n - 1], offers[n])
      OBVIOUS
    <3>1. CASE n = m + 1
      BY <3>1
    <3>2. CASE n # m + 1
      <4>1. n \in 0 .. m /\ g[n] = f[n] /\ (n # 0 => g[n - 1] = f[n - 1])
        BY <3>2
      <4>2. f[n] = IF n = 0 THEN p ELSE Continue(f[n - 1], offers[n])
        BY <2>1, <4>1 DEF Continues
      <4> QED
        BY <4>1, <4>2
    <3> QED
      BY <3>1, <3>2
  <2>3. g = [n \in 0 .. m + 1 |-> g[n]]
    OBVIOUS
  <2>4. Continues(g, p, offers, m + 1)
    <3> HIDE DEF g
    <3> QED
      BY <2>2, <2>3 DEF Continues
  <2> QED
    BY <2>4
<1>3. PICK f : Continues(f, p, offers, N)
  <2> HIDE DEF Has
  <2>1. Nat \subseteq Has
    BY <1>1, <1>2, SetInduction
  <2> QED
    BY <2>1 DEF Has
<1> DEFINE h == CHOOSE u : u = [n \in 0 .. N |-> IF n = 0 THEN p ELSE Continue(u[n - 1], offers[n])]
<1>4. Continues(h, p, offers, N)
  <2>1. \E u : u = [n \in 0 .. N |-> IF n = 0 THEN p ELSE Continue(u[n - 1], offers[n])]
    BY <1>3, Zenon DEF Continues
  <2> QED
    BY <2>1, Zenon DEF Continues
<1>5. ContinueAll(p, offers) = h[N]
  BY DEF ContinueAll
<1> QED
  BY <1>4, <1>5

\* HandleAll, after each message sent.
Handles(f, room, s, sent, m) ==
    f = [n \in 0 .. m |-> IF n = 0 THEN room ELSE Handle(f[n - 1], s, sent[n])]

LEMMA HandleAllIs ==
    ASSUME NEW room, NEW s, NEW sent, Len(sent) \in Nat
    PROVE  \E f : Handles(f, room, s, sent, Len(sent)) /\ HandleAll(room, s, sent) = f[Len(sent)]
<1> DEFINE N == Len(sent)
           Has == {m \in Nat : \E f : Handles(f, room, s, sent, m)}
<1>1. 0 \in Has
  <2> DEFINE f == [n \in 0 .. 0 |-> room]
  <2>1. Handles(f, room, s, sent, 0)
    BY DEF Handles
  <2> QED
    BY <2>1
<1>2. ASSUME NEW m \in Nat, m \in Has
      PROVE  m + 1 \in Has
  <2>1. PICK f : Handles(f, room, s, sent, m)
    BY <1>2
  <2> DEFINE g == [n \in 0 .. m + 1 |-> IF n = m + 1 THEN Handle(f[m], s, sent[m + 1]) ELSE f[n]]
  <2>2. \A n \in 0 .. m + 1 : g[n] = IF n = 0 THEN room ELSE Handle(g[n - 1], s, sent[n])
    <3> SUFFICES ASSUME NEW n \in 0 .. m + 1
                 PROVE  g[n] = IF n = 0 THEN room ELSE Handle(g[n - 1], s, sent[n])
      OBVIOUS
    <3>1. CASE n = m + 1
      BY <3>1
    <3>2. CASE n # m + 1
      <4>1. n \in 0 .. m /\ g[n] = f[n] /\ (n # 0 => g[n - 1] = f[n - 1])
        BY <3>2
      <4>2. f[n] = IF n = 0 THEN room ELSE Handle(f[n - 1], s, sent[n])
        BY <2>1, <4>1 DEF Handles
      <4> QED
        BY <4>1, <4>2
    <3> QED
      BY <3>1, <3>2
  <2>3. g = [n \in 0 .. m + 1 |-> g[n]]
    OBVIOUS
  <2>4. Handles(g, room, s, sent, m + 1)
    <3> HIDE DEF g
    <3> QED
      BY <2>2, <2>3 DEF Handles
  <2> QED
    BY <2>4
<1>3. PICK f : Handles(f, room, s, sent, N)
  <2> HIDE DEF Has
  <2>1. Nat \subseteq Has
    BY <1>1, <1>2, SetInduction
  <2> QED
    BY <2>1 DEF Has
<1> DEFINE h == CHOOSE u : u = [n \in 0 .. N |-> IF n = 0 THEN room ELSE Handle(u[n - 1], s, sent[n])]
<1>4. Handles(h, room, s, sent, N)
  <2>1. \E u : u = [n \in 0 .. N |-> IF n = 0 THEN room ELSE Handle(u[n - 1], s, sent[n])]
    BY <1>3, Zenon DEF Handles
  <2> QED
    BY <2>1, Zenon DEF Handles
<1>5. HandleAll(room, s, sent) = h[N]
  BY DEF HandleAll
<1> QED
  BY <1>4, <1>5
-----------------------------------------------------------------------------
(* The operators of a page, one by one.                                    *)

LEMMA Typed ==
    /\ \A type \in Types : Msg(type) \in Message /\ Msg(type).type = type
    /\ \A i \in Nat : /\ Offer(i) \in Message /\ Offer(i).type = "offer"
                      /\ Candidate(i) \in Message /\ Candidate(i).type = "ice-candidate"
    /\ \A i, j \in Nat : Answer(i, j) \in Message /\ Answer(i, j).type = "answer"
    /\ \A i \in Nat : PC(i) \in Connection /\ PC(i).peer = i /\ IsOpen(PC(i))
    /\ ClosedPC \in Connection /\ ~IsOpen(ClosedPC)
BY DEF Types, Message, Connection, Msg, Offer, Candidate, Answer, PC, ClosedPC, IsOpen

LEMMA States ==
    /\ ERROR \in PageState /\ WEBSOCKET_CONNECT \in PageState
    /\ WAITING_FOR_JOIN \in PageState /\ GET_USER_MEDIA \in PageState
    /\ ESTABLISHING \in PageState /\ CALL_IN_PROGRESS \in PageState
    /\ \A s \in PageState : s \in Int
    /\ ERROR < WEBSOCKET_CONNECT /\ WEBSOCKET_CONNECT < WAITING_FOR_JOIN
    /\ WAITING_FOR_JOIN < GET_USER_MEDIA /\ GET_USER_MEDIA < ESTABLISHING
    /\ ESTABLISHING < CALL_IN_PROGRESS
BY DEF PageState, ERROR, WEBSOCKET_CONNECT, WAITING_FOR_JOIN, GET_USER_MEDIA,
       ESTABLISHING, CALL_IN_PROGRESS

LEMMA LoadedSound ==
    ASSUME NEW role \in {"observer", "glass-wearer"}
    PROVE  /\ Sound(Loaded(role)) /\ ~Loaded(role).rejected /\ Loaded(role).outbox = <<>>
           /\ Loaded(role).role = role
<1> DEFINE p == Loaded(role)
<1>1. <<>> \in Seq(Nat) /\ <<>> \in Seq(Message) /\ <<>> \in Seq(Connection)
  OBVIOUS
<1>2. p \in PageType
  BY <1>1, States DEF Loaded, PageType, NoErr
<1>3. Fresh(p) /\ OffersToObserver(p) /\ Connected(p)
  BY DEF Loaded, Fresh, OffersToObserver, Connected
<1>4. p.state # ERROR /\ p.err = NoErr
  BY States DEF Loaded
<1> QED
  BY <1>2, <1>3, <1>4 DEF Loaded, Sound

\* The page loaded anew, after connections that are closed.
LEMMA ReloadedSound ==
    ASSUME NEW pcs \in Seq(Connection), \A i \in DOMAIN pcs : pcs[i] = ClosedPC,
           NEW q, q = [Loaded("observer") EXCEPT !.pcs = pcs]
    PROVE  Sound(q) /\ ~q.rejected /\ q.outbox = <<>> /\ q.role = "observer"
<1>1. PICK p : p = Loaded("observer")
  OBVIOUS
<1>2. /\ Sound(p) /\ ~p.rejected /\ p.outbox = <<>> /\ p.role = "observer" /\ p \in PageType
      /\ p.promise = Pending /\ Fresh(p) /\ p.waiting = <<>> /\ ~p.overlapped
  BY <1>1, LoadedSound DEF Sound, Loaded, Fresh
<1>3. q = [p EXCEPT !.pcs = pcs]
  BY <1>1
<1>4. /\ q \in PageType /\ Keeps(p, q) /\ q.pcs = pcs /\ q.promise = p.promise
      /\ q.state = p.state /\ q.err = p.err /\ q.ws = p.ws /\ q.outbox = p.outbox
      /\ q.held = p.held /\ q.rejected = p.rejected
  BY <1>2, <1>3 DEF PageType, Keeps
<1>5. \A i \in DOMAIN pcs : ~IsOpen(pcs[i])
  BY Typed
<1>6. OffersToObserver(q) /\ Connected(q) /\ Fresh(q)
  BY <1>2, <1>4, <1>5 DEF Sound, OffersToObserver, Connected, Fresh, Keeps
<1> QED
  BY <1>2, <1>4, <1>6 DEF Sound, Keeps

\* The state of a page that shows no error is set.
LEMMA SetStateIs ==
    ASSUME NEW p \in PageType, NEW s \in PageState, s # ERROR
    PROVE  LET q == SetState(p, s)
           IN /\ q \in PageType
              /\ q.state = IF p.state = ERROR THEN ERROR ELSE s
              /\ Keeps(p, q)
              /\ q.err = p.err /\ q.ws = p.ws /\ q.promise = p.promise /\ q.held = p.held
              /\ q.rejected = p.rejected /\ q.pcs = p.pcs /\ q.outbox = p.outbox
BY DEF SetState, PageType, Keeps

LEMMA SendToIs ==
    ASSUME NEW p \in PageType, NEW m \in Message
    PROVE  LET q == SendTo(p, m)
           IN /\ q \in PageType
              /\ q.outbox = IF p.ws = "open" THEN Append(p.outbox, m) ELSE p.outbox
              /\ Keeps(p, q)
              /\ q.err = p.err /\ q.ws = p.ws /\ q.promise = p.promise /\ q.held = p.held
              /\ q.rejected = p.rejected /\ q.pcs = p.pcs /\ q.state = p.state
<1>1. p.outbox \in Seq(Message) /\ Append(p.outbox, m) \in Seq(Message)
  BY DEF PageType
<1>2. CASE p.ws = "open"
  <2>1. PICK out : out = Append(p.outbox, m)
    OBVIOUS
  <2>2. SendTo(p, m) = [p EXCEPT !.outbox = out]
    BY <1>2, <2>1 DEF SendTo
  <2> QED
    BY <1>1, <1>2, <2>1, <2>2 DEF PageType, Keeps
<1>3. CASE p.ws # "open"
  BY <1>3 DEF SendTo, Keeps
<1> QED
  BY <1>2, <1>3

\* The state of a page may become s where the rules on states allow it.
LEMMA SetStateSound ==
    ASSUME NEW p, Sound(p), NEW s \in PageState, s # ERROR, p.ws # "connecting",
           p.role = "glass-wearer" /\ p.promise # Pending => s >= ESTABLISHING
    PROVE  LET q == SetState(p, s)
           IN Sound(q) /\ Keeps(p, q)
<1> PICK q : q = SetState(p, s)
  OBVIOUS
<1>1. /\ q \in PageType
      /\ q.state = IF p.state = ERROR THEN ERROR ELSE s
      /\ Keeps(p, q)
      /\ q.err = p.err /\ q.ws = p.ws /\ q.promise = p.promise /\ q.held = p.held
      /\ q.rejected = p.rejected /\ q.pcs = p.pcs /\ q.outbox = p.outbox
  BY SetStateIs DEF Sound
<1>2. OffersToObserver(q)
  BY <1>1 DEF Sound, OffersToObserver, Keeps
<1>3. Connected(q)
  BY <1>1, States DEF Sound, Connected, Keeps
<1> QED
  BY <1>1, <1>2, <1>3 DEF Sound, Keeps

\* A message is sent: an observer has no offers to send.
LEMMA SendToSound ==
    ASSUME NEW p, Sound(p), NEW m \in Message, p.role = "observer" => m.type # "offer"
    PROVE  LET q == SendTo(p, m)
           IN Sound(q) /\ Keeps(p, q)
<1> PICK q : q = SendTo(p, m)
  OBVIOUS
<1>1. /\ q \in PageType
      /\ q.outbox = IF p.ws = "open" THEN Append(p.outbox, m) ELSE p.outbox
      /\ Keeps(p, q)
      /\ q.err = p.err /\ q.ws = p.ws /\ q.promise = p.promise /\ q.held = p.held
      /\ q.rejected = p.rejected /\ q.pcs = p.pcs /\ q.state = p.state
  BY SendToIs DEF Sound
<1>2. OffersToObserver(q)
  <2>1. p.outbox \in Seq(Message)
    BY DEF Sound, PageType
  <2> QED
    BY <1>1, <2>1 DEF Sound, OffersToObserver, Keeps
<1>3. Connected(q) /\ (Fresh(p) => Fresh(q))
  BY <1>1 DEF Sound, Connected, Fresh, Keeps
<1> QED
  BY <1>1, <1>2, <1>3 DEF Sound, Keeps

LEMMA ClosePCIs ==
    ASSUME NEW p, Sound(p)
    PROVE  LET q == ClosePC(p)
           IN /\ Sound(q) /\ Keeps(p, q)
              /\ q.promise = Pending /\ q.held = <<>> /\ Len(q.pcs) = Len(p.pcs)
              /\ q.state = p.state /\ q.err = p.err /\ q.ws = p.ws /\ q.outbox = p.outbox
              /\ q.rejected = (p.rejected \/ p.held # <<>>)
<1> DEFINE close == [i \in DOMAIN p.pcs |-> IF i = p.promise THEN ClosedPC ELSE p.pcs[i]]
<1>0. p \in PageType /\ p.pcs \in Seq(Connection)
  BY DEF Sound, PageType
<1>1. PICK pcs : /\ pcs = close /\ pcs \in Seq(Connection) /\ Len(pcs) = Len(p.pcs)
                 /\ \A i \in DOMAIN p.pcs :
                      pcs[i] = IF i = p.promise THEN ClosedPC ELSE p.pcs[i]
  <2>1. close \in [1 .. Len(p.pcs) -> Connection]
    BY <1>0, Typed
  <2> HIDE DEF close
  <2>2. close \in Seq(Connection) /\ Len(close) = Len(p.pcs)
    BY <1>0, <2>1
  <2> QED
    BY <2>2 DEF close
<1>2. PICK rej \in BOOLEAN : rej = (p.rejected \/ p.held # <<>>)
  BY <1>0 DEF PageType
<1>3. PICK q : q = [p EXCEPT !.pcs = pcs, !.promise = Pending, !.rejected = rej, !.held = <<>>]
  OBVIOUS
<1>4. ClosePC(p) = q
  BY <1>1, <1>2, <1>3 DEF ClosePC
<1>5. <<>> \in Seq(Message)
  OBVIOUS
<1>6. /\ q \in PageType /\ Keeps(p, q)
      /\ q.promise = Pending /\ q.held = <<>> /\ q.pcs = pcs
      /\ q.state = p.state /\ q.err = p.err /\ q.ws = p.ws /\ q.outbox = p.outbox
      /\ q.rejected = rej
  BY <1>0, <1>1, <1>2, <1>3, <1>5 DEF PageType, Keeps
<1>7. OffersToObserver(q)
  BY <1>6 DEF Sound, OffersToObserver, Keeps
<1>8. Fresh(p) => Fresh(q)
  BY <1>2, <1>6 DEF Fresh, Keeps
<1>9. Connected(q)
  <2>1. Len(pcs) \in Nat
    BY <1>1
  <2>2. ASSUME ~p.overlapped, NEW i \in DOMAIN pcs, IsOpen(pcs[i])
        PROVE  FALSE
    <3>1. i \in DOMAIN p.pcs
      BY <1>0, <1>1
    <3>2. CASE i = p.promise
      BY <1>1, <2>2, <3>1, <3>2, Typed
    <3>3. CASE i # p.promise
      BY <1>1, <2>2, <3>1, <3>3 DEF Sound, Connected
    <3> QED
      BY <3>2, <3>3
  <2>3. p.overlapped \in BOOLEAN
    BY <1>0 DEF PageType
  <2>4. \A i \in DOMAIN pcs : IsOpen(pcs[i]) => p.mic = "granted"
    <3>1. \A i \in DOMAIN pcs : IsOpen(pcs[i]) => i \in DOMAIN p.pcs /\ IsOpen(p.pcs[i])
      BY <1>0, <1>1, Typed
    <3> QED
      BY <3>1 DEF Sound, Connected
  <2> QED
    BY <1>6, <2>1, <2>2, <2>3, <2>4 DEF Connected, Keeps
<1>10. Sound(q)
  BY <1>6, <1>7, <1>8, <1>9 DEF Sound, Keeps
<1> QED
  BY <1>1, <1>2, <1>4, <1>6, <1>10

\* What die leaves of a page, whose socket is closed then.
DiesOf(p, q) ==
    /\ Sound(q) /\ q.role = p.role /\ ~q.rejected /\ q.overlapped = p.overlapped

LEMMA DieIs ==
    ASSUME NEW p, Sound(p), NEW e \in Err
    PROVE  /\ DiesOf(p, Die(p, e)) /\ Keeps(p, Die(p, e)) /\ Die(p, e).promise = Pending
           /\ p.ws # "connecting" => Die(p, e).state = ERROR /\ Die(p, e).ws = "closed"
<1> PICK c : c = ClosePC(p)
  OBVIOUS
<1>1. /\ Sound(c) /\ Keeps(p, c)
      /\ c.promise = Pending /\ c.state = p.state /\ c.ws = p.ws
      /\ c.rejected = (p.rejected \/ p.held # <<>>)
  BY ClosePCIs
<1>2. CASE p.ws = "connecting"
  <2>1. Die(p, e) = c
    BY <1>2 DEF Die
  <2>2. ~c.rejected
    BY <1>1, <1>2 DEF Sound, Fresh
  <2> QED
    BY <1>1, <1>2, <2>1, <2>2 DEF DiesOf, Keeps
<1>3. CASE p.ws # "connecting"
  <2>1. PICK s : s = SendTo(c, Msg("leave"))
    OBVIOUS
  <2>2. Msg("leave") \in Message /\ Msg("leave").type # "offer"
    BY Typed DEF Types
  <2>3. /\ Sound(s) /\ Keeps(c, s) /\ s.promise = Pending /\ s.state = p.state
    BY <1>1, <2>1, <2>2, SendToSound, SendToIs DEF Sound
  <2>4. PICK q : q = IF p.state = ERROR THEN [s EXCEPT !.ws = "closed", !.rejected = FALSE]
                     ELSE [s EXCEPT !.ws = "closed", !.rejected = FALSE,
                                    !.state = ERROR, !.err = e]
    OBVIOUS
  <2>5. Die(p, e) = q
    <3>1. \A l : [[l EXCEPT !.ws = "closed", !.rejected = FALSE] EXCEPT !.state = ERROR, !.err = e]
                 = [l EXCEPT !.ws = "closed", !.rejected = FALSE, !.state = ERROR, !.err = e]
      OBVIOUS
    <3> QED
      BY <1>3, <2>1, <2>4, <3>1 DEF Die
  <2>6. s \in PageType
    BY <2>3 DEF Sound
  <2>7. /\ q \in PageType /\ Keeps(s, q) /\ q.ws = "closed" /\ ~q.rejected
        /\ q.state = ERROR
        /\ q.err = IF p.state = ERROR THEN s.err ELSE e
        /\ q.promise = Pending /\ q.held = s.held /\ q.pcs = s.pcs /\ q.outbox = s.outbox
    BY <2>3, <2>4, <2>6, States DEF PageType, Keeps
  <2>8. q.err # NoErr
    BY <2>3, <2>7 DEF Sound, Err, NoErr
  <2>9. OffersToObserver(q)
    BY <2>3, <2>7 DEF Sound, OffersToObserver, Keeps
  <2>10. Connected(q)
    BY <2>3, <2>7 DEF Sound, Connected, Keeps
  <2>11. Sound(q)
    BY <2>3, <2>7, <2>8, <2>9, <2>10 DEF Sound, Keeps
  <2> QED
    BY <1>1, <1>3, <2>3, <2>5, <2>7, <2>11 DEF DiesOf, Keeps
<1> QED
  BY <1>2, <1>3

\* One that a page is killed by, or not.
LEMMA ApplySound ==
    ASSUME NEW p, Sound(p), p.ws # "connecting", p.promise # Pending, NEW m \in Message
    PROVE  Sound(Apply(p, m)) /\ Keeps(p, Apply(p, m)) /\ Apply(p, m).ws # "connecting"
<1>1. Sound(Fail(p)) /\ Keeps(p, Fail(p)) /\ Fail(p).ws # "connecting"
  BY DieIs DEF Fail, DiesOf, Err
<1>2. CASE Apply(p, m) = Fail(p) \/ Apply(p, m) = p
  BY <1>1, <1>2 DEF Keeps
<1>3. CASE /\ TakesAnswer(p.pcs[p.promise])
           /\ Apply(p, m) = [p EXCEPT !.pcs[p.promise].peer = m.of]
  <2>1. p \in PageType /\ p.pcs \in Seq(Connection) /\ p.promise \in 1 .. Len(p.pcs)
    BY DEF Sound, PageType, Connected
  <2>2. PICK c : c = [p.pcs[p.promise] EXCEPT !.peer = m.of]
    OBVIOUS
  <2>3. p.pcs[p.promise] \in Connection /\ m.of \in Nat
    BY <2>1 DEF Message
  <2>4. c \in Connection /\ (IsOpen(c) <=> IsOpen(p.pcs[p.promise]))
    BY <2>2, <2>3 DEF Connection, IsOpen
  <2>5. PICK pcs : pcs = [p.pcs EXCEPT ![p.promise] = c]
    OBVIOUS
  <2>6. /\ pcs \in Seq(Connection) /\ Len(pcs) = Len(p.pcs)
        /\ \A i \in DOMAIN pcs : pcs[i] = IF i = p.promise THEN c ELSE p.pcs[i]
    BY <2>1, <2>4, <2>5
  <2>7. PICK q : q = [p EXCEPT !.pcs = pcs]
    OBVIOUS
  <2>8. Apply(p, m) = q
    BY <1>3, <2>2, <2>5, <2>7
  <2>9. /\ q \in PageType /\ Keeps(p, q) /\ q.pcs = pcs /\ q.promise = p.promise
        /\ q.state = p.state /\ q.err = p.err /\ q.ws = p.ws /\ q.outbox = p.outbox
        /\ q.held = p.held /\ q.rejected = p.rejected
    BY <2>1, <2>6, <2>7 DEF PageType, Keeps
  <2>10. OffersToObserver(q)
    BY <2>9 DEF Sound, OffersToObserver, Keeps
  <2>11. Connected(q)
    <3>1. DOMAIN pcs = DOMAIN p.pcs
      BY <2>1, <2>6
    <3>2. \A i \in DOMAIN pcs : IsOpen(pcs[i]) => IsOpen(p.pcs[i])
      BY <2>4, <2>6
    <3> QED
      BY <2>6, <2>9, <3>1, <3>2 DEF Sound, Connected, Keeps
  <2>12. Fresh(p) => Fresh(q)
    BY <2>9 DEF Fresh, Keeps
  <2> QED
    BY <2>8, <2>9, <2>10, <2>11, <2>12 DEF Sound, Keeps
<1> QED
  BY <1>2, <1>3 DEF Apply

\* Everything that was held goes through.
LEMMA ReleaseSound ==
    ASSUME NEW p, Sound(p), p.ws # "connecting", p.promise # Pending,
           NEW held \in Seq(Message)
    PROVE  /\ Sound(Release(p, held)) /\ Keeps(p, Release(p, held))
           /\ Release(p, held).ws # "connecting"
<1>1. PICK f : Releases(f, p, held, Len(held)) /\ Release(p, held) = f[Len(held)]
  BY ReleaseIs
<1> DEFINE G(q) == Sound(q) /\ Keeps(p, q) /\ q.ws # "connecting"
           S == {n \in Nat : n <= Len(held) => G(f[n])}
<1>2. f[0] = p
  BY <1>1 DEF Releases
<1>3. 0 \in S
  BY <1>2 DEF Keeps
<1>4. ASSUME NEW n \in Nat, n \in S
      PROVE  n + 1 \in S
  <2> SUFFICES ASSUME n + 1 <= Len(held) PROVE G(f[n + 1])
    OBVIOUS
  <2>1. G(f[n])
    BY <1>4
  <2>2. f[n + 1] = Released(f[n], held[n + 1]) /\ held[n + 1] \in Message
    BY <1>1 DEF Releases
  <2>3. CASE f[n].promise = Pending
    BY <2>1, <2>2, <2>3 DEF Released
  <2>4. CASE f[n].promise # Pending
    <3>1. f[n + 1] = Apply(f[n], held[n + 1])
      BY <2>2, <2>4 DEF Released
    <3> QED
      BY <2>1, <2>2, <2>4, <3>1, ApplySound DEF Keeps
  <2> QED
    BY <2>3, <2>4
<1>5. Len(held) \in S
  <2> HIDE DEF S
  <2> QED
    BY <1>3, <1>4, SetInduction
<1> QED
  BY <1>1, <1>5

\* A connection is made for a promise that has none, or beside another when two offers
\* waited.
LEMMA CreatePCSound ==
    ASSUME NEW p, Sound(p), p.mic = "granted", NEW peer \in Nat,
           p.overlapped \/ p.promise = Pending,
           p.role = "glass-wearer" => p.state >= ESTABLISHING
    PROVE  Sound(CreatePC(p, peer)) /\ Keeps(p, CreatePC(p, peer))
<1>0. p \in PageType /\ p.pcs \in Seq(Connection) /\ PC(peer) \in Connection
  BY Typed DEF Sound, PageType
<1>1. PICK pcs : pcs = Append(p.pcs, PC(peer))
  OBVIOUS
<1>2. /\ pcs \in Seq(Connection) /\ Len(pcs) = Len(p.pcs) + 1 /\ pcs # <<>>
      /\ \A i \in DOMAIN p.pcs : pcs[i] = p.pcs[i]
      /\ DOMAIN pcs = DOMAIN p.pcs \cup {Len(pcs)}
  BY <1>0, <1>1
<1>3. p.ws # "connecting"
  BY DEF Sound, Fresh
<1>4. CASE p.promise # Pending
  <2>1. PICK q : q = [p EXCEPT !.pcs = pcs]
    OBVIOUS
  <2>2. CreatePC(p, peer) = q
    BY <1>1, <1>4, <2>1 DEF CreatePC
  <2>3. /\ q \in PageType /\ Keeps(p, q) /\ q.pcs = pcs /\ q.promise = p.promise
        /\ q.state = p.state /\ q.err = p.err /\ q.ws = p.ws /\ q.outbox = p.outbox
        /\ q.held = p.held /\ q.rejected = p.rejected
    BY <1>0, <1>2, <2>1 DEF PageType, Keeps
  <2>4. OffersToObserver(q)
    BY <2>3 DEF Sound, OffersToObserver, Keeps
  <2>5. Connected(q)
    <3>0. Connected(p) /\ Len(p.pcs) \in Nat
      BY <1>0 DEF Sound
    <3>1. p.promise \in 0 .. Len(p.pcs) /\ Len(p.pcs) \in Nat
      BY <3>0 DEF Connected
    <3>2. q.promise \in 0 .. Len(q.pcs)
      <4>1. Len(q.pcs) = Len(p.pcs) + 1
        BY <1>2, <2>3
      <4>2. q.promise = p.promise
        BY <2>3
      <4> QED
        BY <3>1, <4>1, <4>2
    <3>3. q.overlapped
      BY <1>4, <2>3 DEF Keeps
    <3> QED
      BY <2>3, <3>2, <3>3 DEF Connected, Keeps
  <2> QED
    BY <1>3, <2>2, <2>3, <2>4, <2>5 DEF Sound, Keeps
<1>5. CASE p.promise = Pending
  <2>1. PICK q : q = [p EXCEPT !.pcs = pcs, !.promise = Len(pcs), !.held = <<>>]
    OBVIOUS
  <2>2. CreatePC(p, peer) = Release(q, p.held)
    <3>1. \A r : r = [p EXCEPT !.pcs = pcs] =>
                   [r EXCEPT !.promise = Len(r.pcs), !.held = <<>>] = q
      BY <1>0, <2>1 DEF PageType
    <3> QED
      BY <1>1, <1>5, <3>1 DEF CreatePC
  <2>3. <<>> \in Seq(Message) /\ Len(pcs) \in Nat
    BY <1>2
  <2>4. /\ q \in PageType /\ Keeps(p, q) /\ q.pcs = pcs /\ q.promise = Len(pcs)
        /\ q.state = p.state /\ q.err = p.err /\ q.ws = p.ws /\ q.outbox = p.outbox
        /\ q.held = <<>> /\ q.rejected = p.rejected
    BY <1>0, <1>2, <2>1, <2>3 DEF PageType, Keeps
  <2>5. OffersToObserver(q)
    BY <2>4 DEF Sound, OffersToObserver, Keeps
  <2>6. Connected(q)
    <3>1. ASSUME ~p.overlapped, NEW i \in DOMAIN pcs, IsOpen(pcs[i])
          PROVE  i = Len(pcs)
      <4> SUFFICES ASSUME i # Len(pcs) PROVE FALSE
        OBVIOUS
      <4>1. i \in DOMAIN p.pcs /\ IsOpen(p.pcs[i])
        BY <1>2, <3>1
      <4>2. i = Pending
        BY <1>5, <3>1, <4>1 DEF Sound, Connected
      <4> QED
        BY <1>0, <4>1, <4>2
    <3>2. p.overlapped \in BOOLEAN
      BY <1>0 DEF PageType
    <3>3. q.promise \in 0 .. Len(q.pcs) /\ q.mic = "granted"
          /\ (q.role = "glass-wearer" => q.state >= ESTABLISHING)
      BY <2>3, <2>4 DEF Keeps
    <3>4. q.overlapped \/ \A i \in DOMAIN q.pcs : IsOpen(q.pcs[i]) => i = q.promise
      BY <2>4, <3>1, <3>2 DEF Keeps
    <3> QED
      BY <3>3, <3>4 DEF Connected
  <2>7. Sound(q) /\ q.ws # "connecting" /\ q.promise # Pending
    BY <1>2, <1>3, <2>3, <2>4, <2>5, <2>6, <1>0 DEF Sound, Keeps
  <2>8. p.held \in Seq(Message)
    BY <1>0 DEF PageType
  <2> QED
    BY <2>2, <2>4, <2>7, <2>8, ReleaseSound DEF Keeps
<1> QED
  BY <1>4, <1>5

LEMMA EstablishSound ==
    ASSUME NEW p, Sound(p), p.mic = "granted"
    PROVE  /\ Sound(Establish(p)) /\ Keeps(p, Establish(p))
           /\ p.role = "observer" => Establish(p).promise = p.promise
<1>0. p \in PageType /\ p.ws # "connecting"
  BY DEF Sound, Fresh
<1>1. CASE p.state # GET_USER_MEDIA
  BY <1>1 DEF Establish, Keeps
<1>2. CASE p.state = GET_USER_MEDIA
  <2>1. PICK q : q = SetState(p, ESTABLISHING)
    OBVIOUS
  <2>2. ESTABLISHING \in PageState /\ ESTABLISHING # ERROR /\ ESTABLISHING >= ESTABLISHING
        /\ GET_USER_MEDIA # ERROR /\ ~(GET_USER_MEDIA >= ESTABLISHING)
    BY States
  <2>3. Sound(q) /\ Keeps(p, q) /\ q.state = ESTABLISHING /\ q.promise = p.promise
    BY <1>0, <1>2, <2>1, <2>2, SetStateSound, SetStateIs
  <2>4. CASE p.role = "observer"
    BY <1>2, <2>1, <2>3, <2>4 DEF Establish
  <2>5. CASE p.role # "observer"
    <3>1. p.role = "glass-wearer"
      BY <1>0, <2>5 DEF PageType
    <3>2. p.promise = Pending
      BY <1>2, <2>2, <3>1 DEF Sound, Connected
    <3>3. Establish(p) = CreatePC(q, NoPeer)
      BY <1>2, <2>1, <3>1 DEF Establish
    <3>4. Sound(CreatePC(q, NoPeer)) /\ Keeps(q, CreatePC(q, NoPeer))
      BY <2>2, <2>3, <3>2, CreatePCSound DEF Keeps
    <3> QED
      BY <2>3, <2>5, <3>3, <3>4 DEF Keeps
  <2> QED
    BY <2>4, <2>5
<1> QED
  BY <1>1, <1>2

LEMMA MakeAnswerSound ==
    ASSUME NEW p, Sound(p), p.mic = "granted", p.role = "observer", NEW offer \in Nat,
           p.overlapped \/ p.promise = Pending
    PROVE  Sound(MakeAnswer(p, offer)) /\ Keeps(p, MakeAnswer(p, offer))
<1>1. PICK q : q = IF p.state >= GET_USER_MEDIA THEN SetState(p, ESTABLISHING) ELSE p
  OBVIOUS
<1>2. p \in PageType /\ p.ws # "connecting" /\ ESTABLISHING \in PageState /\ ESTABLISHING # ERROR
  BY States DEF Sound, Fresh
<1>3. Sound(q) /\ Keeps(p, q) /\ q.promise = p.promise
  BY <1>1, <1>2, SetStateSound, SetStateIs DEF Keeps
<1>4. MakeAnswer(p, offer) = CreatePC(q, offer)
  BY <1>1 DEF MakeAnswer
<1>5. Sound(CreatePC(q, offer)) /\ Keeps(q, CreatePC(q, offer))
  BY <1>3, CreatePCSound DEF Keeps
<1> QED
  BY <1>3, <1>4, <1>5 DEF Keeps

\* The continuation of an offer needs an observer whose promise is free.
LEMMA ContinueSound ==
    ASSUME NEW p, Sound(p), p.mic = "granted", NEW offer \in Nat,
           offer # NoPeer => p.role = "observer" /\ (p.overlapped \/ p.promise = Pending)
    PROVE  /\ Sound(Continue(p, offer)) /\ Keeps(p, Continue(p, offer))
           /\ p.role = "observer" /\ offer = NoPeer => Continue(p, offer).promise = p.promise
<1>1. CASE offer = NoPeer
  BY <1>1, EstablishSound DEF Continue
<1>2. CASE offer # NoPeer
  BY <1>2, MakeAnswerSound DEF Continue
<1> QED
  BY <1>1, <1>2

\* All that waited goes on.  Unless two of it are offers, the promise is free until the
\* only offer comes.
LEMMA ContinueAllSound ==
    ASSUME NEW p, Sound(p), p.mic = "granted", p.promise = Pending,
           NEW offers \in Seq(Nat), p.overlapped \/ ~TwoOffers(offers),
           p.role = "observer" \/ \A k \in DOMAIN offers : offers[k] = NoPeer
    PROVE  Sound(ContinueAll(p, offers)) /\ Keeps(p, ContinueAll(p, offers))
<1>1. PICK f : Continues(f, p, offers, Len(offers)) /\ ContinueAll(p, offers) = f[Len(offers)]
  BY ContinueAllIs
<1> DEFINE Before(n) == \A k \in 1 .. n : offers[k] = NoPeer
           G(n) == /\ Sound(f[n]) /\ Keeps(p, f[n])
                   /\ p.role = "observer" /\ Before(n) => f[n].promise = Pending
           S == {n \in Nat : n <= Len(offers) => G(n)}
<1>2. f[0] = p
  BY <1>1 DEF Continues
<1>3. 0 \in S
  BY <1>2 DEF Keeps
<1>4. ASSUME NEW n \in Nat, n \in S
      PROVE  n + 1 \in S
  <2> SUFFICES ASSUME n + 1 <= Len(offers) PROVE G(n + 1)
    OBVIOUS
  <2>1. G(n)
    BY <1>4
  <2>2. PICK o \in Nat : o = offers[n + 1]
    OBVIOUS
  <2>3. f[n + 1] = Continue(f[n], o)
    BY <1>1, <2>2 DEF Continues
  <2>4. Before(n + 1) => Before(n) /\ o = NoPeer
    BY <2>2
  <2>5. o # NoPeer /\ ~p.overlapped => Before(n)
    <3> SUFFICES ASSUME o # NoPeer, ~p.overlapped, NEW k \in 1 .. n, offers[k] # NoPeer
                 PROVE  FALSE
      OBVIOUS
    <3>1. k \in DOMAIN offers /\ n + 1 \in DOMAIN offers /\ k # n + 1
      OBVIOUS
    <3> QED
      BY <2>2, <3>1 DEF TwoOffers
  <2>6. o # NoPeer => p.role = "observer"
    BY <2>2
  <2>7. o # NoPeer => f[n].role = "observer" /\ (f[n].overlapped \/ f[n].promise = Pending)
    BY <2>1, <2>5, <2>6 DEF Keeps
  <2>8. Sound(f[n]) /\ f[n].mic = "granted" /\ f[n].role = p.role
    BY <2>1 DEF Keeps
  <2>9. /\ Sound(f[n + 1]) /\ Keeps(f[n], f[n + 1])
        /\ p.role = "observer" /\ o = NoPeer => f[n + 1].promise = f[n].promise
    BY <2>3, <2>7, <2>8, ContinueSound
  <2> QED
    BY <2>1, <2>4, <2>9 DEF Keeps
<1>5. Len(offers) \in S
  <2> HIDE DEF S
  <2> QED
    BY <1>3, <1>4, SetInduction
<1> QED
  BY <1>1, <1>5

-----------------------------------------------------------------------------
(* The tasks of a page.                                                    *)

\* A page asks for the microphone, or goes on at once.
LEMMA RequestSound ==
    ASSUME NEW p, Sound(p), p.ws # "connecting", NEW offer \in Nat,
           offer # NoPeer => p.role = "observer" /\ p.promise = Pending
    PROVE  /\ Sound(RequestLocalMedia(p, offer))
           /\ RequestLocalMedia(p, offer).role = p.role
           /\ RequestLocalMedia(p, offer).ws # "connecting"
<1>0. p \in PageType
  BY DEF Sound
<1>1. CASE p.mic = "granted"
  <2>1. Sound(Continue(p, offer)) /\ Keeps(p, Continue(p, offer))
    BY <1>1, ContinueSound
  <2>2. Continue(p, offer).ws # "connecting"
    BY <1>1, <2>1 DEF Sound, Fresh, Keeps
  <2> QED
    BY <1>1, <2>1, <2>2 DEF RequestLocalMedia, Keeps
<1>2. CASE p.mic = "denied"
  <2>1. "MEDIA_DENIED" \in Err
    BY DEF Err
  <2> QED
    BY <1>2, <2>1, DieIs DEF RequestLocalMedia, DiesOf
<1>3. CASE p.mic \in {"unasked", "asked"}
  <2>1. PICK waiting : waiting = Append(p.waiting, offer)
    OBVIOUS
  <2>2. p.waiting \in Seq(Nat)
    BY <1>0 DEF PageType
  <2>3. /\ waiting \in Seq(Nat) /\ waiting # <<>> /\ Len(waiting) = Len(p.waiting) + 1
        /\ \A k \in DOMAIN waiting : waiting[k] = offer \/ (k \in DOMAIN p.waiting /\ waiting[k] = p.waiting[k])
    BY <2>1, <2>2
  <2>4. PICK q : q = [p EXCEPT !.mic = "asked", !.waiting = waiting]
    OBVIOUS
  <2>5. RequestLocalMedia(p, offer) = q
    BY <1>3, <2>1, <2>4 DEF RequestLocalMedia
  <2>6. /\ q \in PageType /\ q.pcs = p.pcs /\ q.promise = p.promise
        /\ q.state = p.state /\ q.err = p.err /\ q.ws = p.ws /\ q.outbox = p.outbox
        /\ q.held = p.held /\ q.rejected = p.rejected /\ q.role = p.role
        /\ q.overlapped = p.overlapped /\ q.mic = "asked" /\ q.waiting = waiting
    BY <1>0, <2>3, <2>4 DEF PageType
  <2>7. OffersToObserver(q)
    <3>1. CASE p.role = "observer"
      BY <2>6, <3>1 DEF Sound, OffersToObserver
    <3>2. CASE p.role # "observer"
      BY <2>3, <2>6, <3>2 DEF Sound, OffersToObserver
    <3> QED
      BY <3>1, <3>2
  <2>8. Connected(q)
    BY <1>3, <2>6 DEF Sound, Connected
  <2>9. Sound(q)
    BY <2>3, <2>6, <2>7, <2>8 DEF Sound
  <2> QED
    BY <2>5, <2>6, <2>9
<1> QED
  BY <1>0, <1>1, <1>2, <1>3 DEF PageType

\* A task is over, and nothing rejected is left.
Over(p, q) == Sound(q) /\ ~q.rejected /\ q.role = p.role

LEMMA SettleSound ==
    ASSUME NEW p, Sound(p)
    PROVE  Over(p, Settle(p))
<1>1. "WEBRTC" \in Err
  BY DEF Err
<1>2. CASE p.rejected
  BY <1>1, <1>2, DieIs DEF Settle, DiesOf, Over
<1>3. CASE ~p.rejected
  BY <1>3 DEF Settle, Over
<1> QED
  BY <1>2, <1>3

LEMMA DieOver ==
    ASSUME NEW p, Sound(p), NEW e \in Err
    PROVE  Over(p, Die(p, e))
BY DieIs DEF DiesOf, Over

LEMMA MicGrantedOver ==
    ASSUME NEW p, Sound(p), p.mic = "asked"
    PROVE  Over(p, MicGranted(p))
<1>0. p \in PageType /\ p.overlapped \in BOOLEAN /\ p.waiting \in Seq(Nat)
  BY DEF Sound, PageType
<1>1. PICK o \in BOOLEAN : o = (p.overlapped \/ TwoOffers(p.waiting))
  BY <1>0
<1>2. PICK q : q = [p EXCEPT !.mic = "granted", !.waiting = <<>>, !.overlapped = o]
  OBVIOUS
<1>3. MicGranted(p) = Settle(ContinueAll(q, p.waiting))
  BY <1>1, <1>2 DEF MicGranted
<1>4. <<>> \in Seq(Nat) /\ DOMAIN <<>> = {}
  OBVIOUS
<1>5. /\ q \in PageType /\ q.pcs = p.pcs /\ q.promise = p.promise
      /\ q.state = p.state /\ q.err = p.err /\ q.ws = p.ws /\ q.outbox = p.outbox
      /\ q.held = p.held /\ q.rejected = p.rejected /\ q.role = p.role
      /\ q.overlapped = o /\ q.mic = "granted" /\ q.waiting = <<>>
  BY <1>0, <1>1, <1>2, <1>4 DEF PageType
<1>6. p.promise = Pending /\ p.ws # "connecting"
  BY DEF Sound, Connected, Fresh
<1>7. OffersToObserver(q)
  BY <1>4, <1>5 DEF Sound, OffersToObserver
<1>8. Connected(q)
  <2>1. Len(p.pcs) \in Nat
    BY <1>0 DEF PageType
  <2>2. o \/ \A i \in DOMAIN p.pcs : IsOpen(p.pcs[i]) => i = p.promise
    BY <1>0, <1>1 DEF Sound, Connected
  <2> QED
    BY <1>5, <1>6, <2>1, <2>2 DEF Connected
<1>9. Sound(q)
  BY <1>5, <1>6, <1>7, <1>8 DEF Sound
<1>10. q.role = "observer" \/ \A k \in DOMAIN p.waiting : p.waiting[k] = NoPeer
  BY <1>5 DEF Sound, OffersToObserver
<1>11. q.overlapped \/ ~TwoOffers(p.waiting)
  BY <1>1, <1>5
<1>12. Sound(ContinueAll(q, p.waiting)) /\ Keeps(q, ContinueAll(q, p.waiting))
  BY <1>0, <1>5, <1>6, <1>9, <1>10, <1>11, ContinueAllSound
<1> QED
  BY <1>3, <1>5, <1>12, SettleSound DEF Over, Keeps

LEMMA MicDeniedOver ==
    ASSUME NEW p, Sound(p), p.mic = "asked"
    PROVE  Over(p, MicDenied(p))
<1>0. p \in PageType
  BY DEF Sound
<1>1. PICK q : q = [p EXCEPT !.mic = "denied", !.waiting = <<>>]
  OBVIOUS
<1>2. <<>> \in Seq(Nat) /\ DOMAIN <<>> = {}
  OBVIOUS
<1>3. /\ q \in PageType /\ q.pcs = p.pcs /\ q.promise = p.promise
      /\ q.state = p.state /\ q.err = p.err /\ q.ws = p.ws /\ q.outbox = p.outbox
      /\ q.held = p.held /\ q.rejected = p.rejected /\ q.role = p.role
      /\ q.overlapped = p.overlapped /\ q.mic = "denied" /\ q.waiting = <<>>
  BY <1>0, <1>1, <1>2 DEF PageType
<1>4. p.promise = Pending /\ p.ws # "connecting"
  BY DEF Sound, Connected, Fresh
<1>5. OffersToObserver(q) /\ Connected(q)
  BY <1>2, <1>3, <1>4 DEF Sound, OffersToObserver, Connected
<1>6. Sound(q) /\ "MEDIA_DENIED" \in Err
  BY <1>3, <1>4, <1>5 DEF Sound, Err
<1> QED
  BY <1>1, <1>3, <1>6, DieOver DEF MicDenied, Over

\* The socket of a page becomes what it is.
LEMMA SocketSound ==
    ASSUME NEW p, Sound(p), NEW ws \in {"open", "closed"}
    PROVE  LET q == [p EXCEPT !.ws = ws]
           IN /\ Sound(q) /\ q.ws = ws /\ Keeps(p, q)
              /\ q.promise = p.promise /\ q.state = p.state /\ q.rejected = p.rejected
<1>1. PICK q : q = [p EXCEPT !.ws = ws]
  OBVIOUS
<1>2. p \in PageType
  BY DEF Sound
<1>3. /\ q \in PageType /\ q.pcs = p.pcs /\ q.promise = p.promise
      /\ q.state = p.state /\ q.err = p.err /\ q.ws = ws /\ q.outbox = p.outbox
      /\ q.held = p.held /\ q.rejected = p.rejected /\ Keeps(p, q)
  BY <1>1, <1>2 DEF PageType, Keeps
<1>4. OffersToObserver(q) /\ Connected(q)
  BY <1>3 DEF Sound, OffersToObserver, Connected, Keeps
<1>5. Sound(q)
  BY <1>3, <1>4 DEF Sound, Keeps
<1> QED
  BY <1>1, <1>3, <1>5

LEMMA OpenedOver ==
    ASSUME NEW p, Sound(p), p.ws = "connecting"
    PROVE  Over(p, Opened(p))
<1>1. PICK q : q = [p EXCEPT !.ws = "open"]
  OBVIOUS
<1>2. /\ Sound(q) /\ q.ws = "open" /\ q.role = p.role
      /\ q.promise = Pending /\ q.state = p.state /\ ~q.rejected
  BY <1>1, SocketSound DEF Sound, Fresh, Keeps
<1>3. p.state = WEBSOCKET_CONNECT
  BY DEF Sound, Fresh
<1>4. PICK r : r = SetState(q, WAITING_FOR_JOIN)
  OBVIOUS
<1>5. WAITING_FOR_JOIN \in PageState /\ WAITING_FOR_JOIN # ERROR
  BY States
<1>6. Sound(r) /\ Keeps(q, r) /\ r.rejected = q.rejected
  BY <1>2, <1>4, <1>5, SetStateSound, SetStateIs DEF Sound
<1>7. Msg("join") \in Message /\ Msg("join").type # "offer"
  BY Typed DEF Types
<1>8. Opened(p) = SendTo(r, Msg("join"))
  BY <1>1, <1>3, <1>4 DEF Opened
<1>9. Sound(SendTo(r, Msg("join"))) /\ Keeps(r, SendTo(r, Msg("join")))
      /\ SendTo(r, Msg("join")).rejected = r.rejected
  BY <1>6, <1>7, SendToSound, SendToIs DEF Sound
<1> QED
  BY <1>2, <1>6, <1>8, <1>9 DEF Over, Keeps

LEMMA LostOver ==
    ASSUME NEW p, Sound(p)
    PROVE  Over(p, Lost(p)) /\ Over(p, PingTimeout(p)) /\ Over(p, Fail(p))
<1>1. "WEBSOCKET_ERROR" \in Err /\ "WEBRTC" \in Err
  BY DEF Err
<1>2. Over(p, PingTimeout(p)) /\ Over(p, Fail(p))
  BY <1>1, DieOver DEF PingTimeout, Fail
<1>3. PICK q : q = [p EXCEPT !.ws = "closed"]
  OBVIOUS
<1>4. Sound(q) /\ q.role = p.role
  BY <1>3, SocketSound DEF Keeps
<1>5. Over(p, Lost(p))
  BY <1>1, <1>3, <1>4, DieOver DEF Lost, Over
<1> QED
  BY <1>2, <1>5

\* A handler of ws.onmessage leaves a page that the end of the task completes.
Handled(p, q) == Sound(q) /\ q.role = p.role /\ q.ws # "connecting"

LEMMA OnJoinSound ==
    ASSUME NEW p, Sound(p), p.ws = "open"
    PROVE  Handled(p, OnJoin(p))
<1>1. CASE p.state # WAITING_FOR_JOIN
  BY <1>1 DEF OnJoin, Handled
<1>2. CASE p.state = WAITING_FOR_JOIN
  <2>1. PICK q : q = SetState(p, GET_USER_MEDIA)
    OBVIOUS
  <2>2. GET_USER_MEDIA \in PageState /\ GET_USER_MEDIA # ERROR /\ ~(WAITING_FOR_JOIN >= ESTABLISHING)
    BY States
  <2>3. p.role = "glass-wearer" => p.promise = Pending
    BY <1>2, <2>2 DEF Sound, Connected
  <2>4. Sound(q) /\ Keeps(p, q) /\ q.ws = "open"
    BY <2>1, <2>2, <2>3, SetStateSound, SetStateIs DEF Sound
  <2>5. OnJoin(p) = RequestLocalMedia(q, NoPeer)
    BY <1>2, <2>1 DEF OnJoin
  <2> QED
    BY <2>4, <2>5, RequestSound DEF Handled, Keeps
<1> QED
  BY <1>1, <1>2

\* The page closes its connection and goes to s.
LEMMA ClosesSound ==
    ASSUME NEW p, Sound(p), p.ws = "open", NEW s \in PageState, s # ERROR
    PROVE  LET q == SetState(ClosePC(p), s)
           IN Sound(q) /\ q.role = p.role /\ q.ws = "open" /\ q.promise = Pending
<1>1. PICK c : c = ClosePC(p)
  OBVIOUS
<1>2. Sound(c) /\ c.role = p.role /\ c.ws = "open" /\ c.promise = Pending
  BY <1>1, ClosePCIs DEF Keeps
<1>3. PICK q : q = SetState(c, s)
  OBVIOUS
<1>4. Sound(q) /\ Keeps(c, q) /\ q.ws = "open" /\ q.promise = Pending
  BY <1>2, <1>3, SetStateSound, SetStateIs DEF Sound
<1> QED
  BY <1>1, <1>2, <1>3, <1>4 DEF Keeps

LEMMA OnLeaveSound ==
    ASSUME NEW p, Sound(p), p.ws = "open"
    PROVE  Handled(p, OnLeave(p))
<1>1. WAITING_FOR_JOIN \in PageState /\ WAITING_FOR_JOIN # ERROR
  BY States
<1> QED
  BY <1>1, ClosesSound DEF OnLeave, Handled

LEMMA OnResetSound ==
    ASSUME NEW p, Sound(p), p.ws = "open"
    PROVE  Handled(p, OnReset(p))
<1>1. ESTABLISHING \in PageState /\ ESTABLISHING # ERROR
  BY States
<1>2. CASE p.state < ESTABLISHING
  BY <1>2 DEF OnReset, Handled
<1>3. CASE ~(p.state < ESTABLISHING)
  <2>1. PICK q : q = SetState(ClosePC(p), ESTABLISHING)
    OBVIOUS
  <2>2. Sound(q) /\ q.role = p.role /\ q.ws = "open"
    BY <1>1, <2>1, ClosesSound
  <2>3. OnReset(p) = RequestLocalMedia(q, NoPeer)
    BY <1>3, <2>1 DEF OnReset
  <2> QED
    BY <2>2, <2>3, RequestSound DEF Handled
<1> QED
  BY <1>2, <1>3

LEMMA OnOfferSound ==
    ASSUME NEW p, Sound(p), p.ws = "open", p.role = "observer", NEW m \in Message
    PROVE  Handled(p, OnOffer(p, m))
<1>1. ESTABLISHING \in PageState /\ ESTABLISHING # ERROR
  BY States
<1>2. CASE p.state < GET_USER_MEDIA
  BY <1>2 DEF OnOffer, Handled
<1>3. CASE ~(p.state < GET_USER_MEDIA)
  <2>1. PICK q : q = IF p.state > ESTABLISHING THEN SetState(ClosePC(p), ESTABLISHING) ELSE ClosePC(p)
    OBVIOUS
  <2>2. Sound(q) /\ q.role = p.role /\ q.ws = "open" /\ q.promise = Pending
    BY <1>1, <2>1, ClosesSound, ClosePCIs DEF Keeps
  <2>3. OnOffer(p, m) = RequestLocalMedia(q, m.of)
    BY <1>3, <2>1 DEF OnOffer
  <2>4. m.of \in Nat
    BY DEF Message
  <2> QED
    BY <2>2, <2>3, <2>4, RequestSound DEF Handled
<1> QED
  BY <1>2, <1>3

LEMMA ThroughSound ==
    ASSUME NEW p, Sound(p), p.ws = "open", NEW m \in Message
    PROVE  Handled(p, Through(p, m))
<1>1. CASE p.promise # Pending
  BY <1>1, ApplySound DEF Through, Handled, Keeps
<1>2. CASE p.promise = Pending
  <2>1. p \in PageType /\ p.held \in Seq(Message)
    BY DEF Sound, PageType
  <2>2. PICK held : held = Append(p.held, m)
    OBVIOUS
  <2>3. held \in Seq(Message)
    BY <2>1, <2>2
  <2>4. PICK q : q = [p EXCEPT !.held = held]
    OBVIOUS
  <2>5. Through(p, m) = q
    BY <1>2, <2>2, <2>4 DEF Through
  <2>6. /\ q \in PageType /\ q.pcs = p.pcs /\ q.promise = Pending
        /\ q.state = p.state /\ q.err = p.err /\ q.ws = "open" /\ q.outbox = p.outbox
        /\ q.rejected = p.rejected /\ Keeps(p, q)
    BY <1>2, <2>1, <2>3, <2>4 DEF PageType, Keeps
  <2>7. OffersToObserver(q) /\ Connected(q)
    BY <1>2, <2>6 DEF Sound, OffersToObserver, Connected, Keeps
  <2>8. Sound(q)
    BY <2>6, <2>7 DEF Sound, Keeps
  <2> QED
    BY <2>5, <2>6, <2>8 DEF Handled, Keeps
<1> QED
  BY <1>1, <1>2

LEMMA ErrorOver ==
    ASSUME NEW p, Sound(p), NEW code \in Nat
    PROVE  Over(p, Received(p, Error(code)))
<1>1. ErrOf(code) \in Err
  BY DEF ErrOf, Err
<1>2. Error(code).type = "error" /\ Error(code).of = code
  BY DEF Error, Msg
<1>3. Received(p, Error(code)) = Settle(Die(p, ErrOf(code)))
  BY <1>2 DEF Received
<1>4. Over(p, Die(p, ErrOf(code)))
  BY <1>1, DieOver
<1> QED
  BY <1>3, <1>4, SettleSound DEF Over

\* A message of the server: an offer comes to an observer only.
LEMMA ReceivedOver ==
    ASSUME NEW p, Sound(p), p.ws = "open", NEW m \in Message,
           m.type = "offer" => p.role = "observer"
    PROVE  Over(p, Received(p, m))
<1>1. m.type \in Types
  BY DEF Message
<1>2. CASE m.type = "join"
  BY <1>2, OnJoinSound, SettleSound DEF Received, Handled, Over
<1>3. CASE m.type = "leave"
  BY <1>3, OnLeaveSound, SettleSound DEF Received, Handled, Over
<1>4. CASE m.type = "reset"
  BY <1>4, OnResetSound, SettleSound DEF Received, Handled, Over
<1>5. CASE m.type = "offer"
  BY <1>5, OnOfferSound, SettleSound DEF Received, Handled, Over
<1>6. CASE m.type = "answer"
  <2>1. Handled(p, OnAnswer(p, m))
    BY ThroughSound DEF OnAnswer, Handled
  <2> QED
    BY <1>6, <2>1, SettleSound DEF Received, Handled, Over
<1>7. CASE m.type = "ice-candidate"
  <2>1. Handled(p, OnIceCandidate(p, m))
    BY ThroughSound DEF OnIceCandidate, Handled
  <2> QED
    BY <1>7, <2>1, SettleSound DEF Received, Handled, Over
<1> QED
  BY <1>1, <1>2, <1>3, <1>4, <1>5, <1>6, <1>7 DEF Types

-----------------------------------------------------------------------------
(* The connections of a page.                                              *)

\* One connection changes, and stays as open or closed as it was.
ChangesOne(p, q, i, c) ==
    /\ q = [p EXCEPT !.pcs[i] = c]
    /\ c \in Connection /\ (IsOpen(c) => IsOpen(p.pcs[i]))

LEMMA ChangesOneSound ==
    ASSUME NEW p, Sound(p), NEW i \in DOMAIN p.pcs, NEW c, NEW q, ChangesOne(p, q, i, c)
    PROVE  /\ Sound(q) /\ Keeps(p, q) /\ q.promise = p.promise /\ q.state = p.state
           /\ q.ws = p.ws /\ q.rejected = p.rejected /\ q.outbox = p.outbox
<1>0. p \in PageType /\ p.pcs \in Seq(Connection)
  BY DEF Sound, PageType
<1>1. PICK pcs : pcs = [p.pcs EXCEPT ![i] = c]
  OBVIOUS
<1>2. /\ pcs \in Seq(Connection) /\ Len(pcs) = Len(p.pcs) /\ DOMAIN pcs = DOMAIN p.pcs
      /\ \A j \in DOMAIN pcs : pcs[j] = IF j = i THEN c ELSE p.pcs[j]
  BY <1>0, <1>1 DEF ChangesOne
<1>3. q = [p EXCEPT !.pcs = pcs]
  BY <1>0, <1>1 DEF ChangesOne, PageType
<1>4. /\ q \in PageType /\ Keeps(p, q) /\ q.pcs = pcs /\ q.promise = p.promise
      /\ q.state = p.state /\ q.err = p.err /\ q.ws = p.ws /\ q.outbox = p.outbox
      /\ q.held = p.held /\ q.rejected = p.rejected
  BY <1>0, <1>2, <1>3 DEF PageType, Keeps
<1>5. OffersToObserver(q)
  BY <1>4 DEF Sound, OffersToObserver, Keeps
<1>6. Connected(q)
  <2>1. \A j \in DOMAIN pcs : IsOpen(pcs[j]) => IsOpen(p.pcs[j])
    BY <1>2 DEF ChangesOne
  <2> QED
    BY <1>2, <1>4, <2>1 DEF Sound, Connected, Keeps
<1>7. Fresh(p) => Fresh(q)
  BY <1>4 DEF Fresh, Keeps
<1> QED
  BY <1>1, <1>4, <1>5, <1>6, <1>7 DEF Sound, Keeps

LEMMA DescribedOver ==
    ASSUME NEW p, Sound(p), ~p.rejected, NEW i \in DOMAIN p.pcs, p.pcs[i].desc = "making"
    PROVE  Over(p, Described(p, i))
<1>0. p \in PageType /\ p.pcs \in Seq(Connection) /\ p.pcs[i] \in Connection /\ i \in Nat
  BY DEF Sound, PageType
<1>1. PICK c : c = [p.pcs[i] EXCEPT !.desc = "made"]
  OBVIOUS
<1>2. PICK q : q = [p EXCEPT !.pcs[i] = c]
  OBVIOUS
<1>3. ChangesOne(p, q, i, c)
  <2>1. c \in Connection /\ (IsOpen(c) => IsOpen(p.pcs[i]))
    BY <1>0, <1>1 DEF Connection, IsOpen
  <2> QED
    BY <1>2, <2>1 DEF ChangesOne
<1>4. Sound(q) /\ Keeps(p, q) /\ ~q.rejected
  BY <1>3, ChangesOneSound
<1>5. q = [p EXCEPT !.pcs[i].desc = "made"]
  BY <1>1, <1>2
<1>6. PICK j \in Nat : j = p.pcs[i].peer
  BY <1>0 DEF Connection
<1>7. /\ Offer(i) \in Message /\ Answer(i, j) \in Message /\ Answer(i, j).type # "offer"
  BY <1>0, Typed
<1>8. Described(p, i) \in {SendTo(q, Offer(i)), SendTo(q, Answer(i, j)), q}
  BY <1>5, <1>6 DEF Described
<1>9. CASE p.role = "glass-wearer"
  <2>1. Described(p, i) = SendTo(q, Offer(i))
    BY <1>5, <1>9 DEF Described
  <2> QED
    BY <1>4, <1>7, <1>9, <2>1, SendToSound, SendToIs DEF Over, Keeps, Sound
<1>10. CASE p.role # "glass-wearer"
  <2>1. Described(p, i) = SendTo(q, Answer(i, j)) \/ Described(p, i) = q
    BY <1>5, <1>6, <1>10 DEF Described
  <2>2. Sound(SendTo(q, Answer(i, j))) /\ Keeps(q, SendTo(q, Answer(i, j)))
        /\ SendTo(q, Answer(i, j)).rejected = q.rejected
    BY <1>4, <1>7, SendToSound, SendToIs DEF Sound
  <2> QED
    BY <1>4, <2>1, <2>2 DEF Over, Keeps
<1> QED
  BY <1>9, <1>10

LEMMA GatheredOver ==
    ASSUME NEW p, Sound(p), ~p.rejected, NEW i \in DOMAIN p.pcs
    PROVE  Over(p, Gathered(p, i))
<1>0. p.pcs[i] \in Connection /\ i \in Nat
  BY DEF Sound, PageType
<1>1. PICK c : c = [p.pcs[i] EXCEPT !.gathers = FALSE]
  OBVIOUS
<1>2. PICK q : q = [p EXCEPT !.pcs[i] = c]
  OBVIOUS
<1>3. ChangesOne(p, q, i, c)
  <2>1. c \in Connection /\ (IsOpen(c) => IsOpen(p.pcs[i]))
    BY <1>0, <1>1 DEF Connection, IsOpen
  <2> QED
    BY <1>2, <2>1 DEF ChangesOne
<1>4. Sound(q) /\ Keeps(p, q) /\ ~q.rejected
  BY <1>3, ChangesOneSound
<1>5. Gathered(p, i) = SendTo(q, Candidate(i))
  BY <1>1, <1>2 DEF Gathered
<1>6. Candidate(i) \in Message /\ Candidate(i).type # "offer"
  BY <1>0, Typed
<1> QED
  BY <1>4, <1>5, <1>6, SendToSound, SendToIs DEF Over, Keeps, Sound

\* What ICE says of a connection is noted.
LEMMA IceNoted ==
    ASSUME NEW p, Sound(p), NEW i \in DOMAIN p.pcs, NEW ice \in {"connected", "failed"}
    PROVE  LET q == [p EXCEPT !.pcs[i].ice = ice]
           IN /\ Sound(q) /\ Keeps(p, q) /\ q.promise = p.promise /\ q.state = p.state
              /\ q.ws = p.ws /\ q.rejected = p.rejected
<1>0. p.pcs[i] \in Connection
  BY DEF Sound, PageType
<1>1. PICK c : c = [p.pcs[i] EXCEPT !.ice = ice]
  OBVIOUS
<1>2. PICK q : q = [p EXCEPT !.pcs[i] = c]
  OBVIOUS
<1>3. ChangesOne(p, q, i, c)
  <2>1. c \in Connection /\ (IsOpen(c) => IsOpen(p.pcs[i]))
    BY <1>0, <1>1 DEF Connection, IsOpen
  <2> QED
    BY <1>2, <2>1 DEF ChangesOne
<1>4. /\ Sound(q) /\ Keeps(p, q) /\ q.promise = p.promise /\ q.state = p.state
      /\ q.ws = p.ws /\ q.rejected = p.rejected
  BY <1>3, ChangesOneSound
<1>5. q = [p EXCEPT !.pcs[i].ice = ice]
  BY <1>1, <1>2
<1> QED
  BY <1>4, <1>5

LEMMA IceConnectedOver ==
    ASSUME NEW p, Sound(p), ~p.rejected, NEW i \in DOMAIN p.pcs, p.ws # "connecting"
    PROVE  Over(p, IceConnected(p, i))
<1>1. PICK q : q = [p EXCEPT !.pcs[i].ice = "connected"]
  OBVIOUS
<1>2. Sound(q) /\ q.role = p.role /\ q.state = p.state /\ q.ws = p.ws /\ ~q.rejected
  BY <1>1, IceNoted DEF Keeps
<1>3. CASE p.state # ESTABLISHING
  BY <1>1, <1>2, <1>3 DEF IceConnected, Over
<1>4. CASE p.state = ESTABLISHING
  <2>1. CALL_IN_PROGRESS \in PageState /\ CALL_IN_PROGRESS # ERROR /\ CALL_IN_PROGRESS >= ESTABLISHING
    BY States
  <2>2. PICK r : r = SetState(q, CALL_IN_PROGRESS)
    OBVIOUS
  <2>3. Sound(r) /\ Keeps(q, r) /\ r.rejected = q.rejected
    BY <1>2, <2>1, <2>2, SetStateSound, SetStateIs DEF Sound
  <2> QED
    BY <1>1, <1>2, <1>4, <2>2, <2>3 DEF IceConnected, Over, Keeps
<1> QED
  BY <1>3, <1>4

LEMMA IceFailedOver ==
    ASSUME NEW p, Sound(p), NEW i \in DOMAIN p.pcs, p.ws # "connecting"
    PROVE  Over(p, IceFailed(p, i))
<1>1. PICK o : o = [p EXCEPT !.pcs[i].ice = "failed"]
  OBVIOUS
<1>2. Sound(o) /\ o.role = p.role /\ o.state = p.state /\ o.ws = p.ws
  BY <1>1, IceNoted DEF Keeps
<1>3. PICK q : q = ClosePC(o)
  OBVIOUS
<1>4. Sound(q) /\ q.role = p.role /\ q.ws = p.ws /\ q.promise = Pending
  BY <1>2, <1>3, ClosePCIs DEF Keeps
<1>5. "ICE" \in Err /\ ESTABLISHING # CALL_IN_PROGRESS
  BY DEF Err, ESTABLISHING, CALL_IN_PROGRESS
<1>6. CASE p.state = ESTABLISHING
  <2>1. IceFailed(p, i) = Settle(Die(q, "ICE"))
    BY <1>1, <1>3, <1>5, <1>6 DEF IceFailed
  <2>2. Over(q, Die(q, "ICE"))
    BY <1>4, <1>5, DieOver
  <2> QED
    BY <1>4, <2>1, <2>2, SettleSound DEF Over
<1>7. CASE p.state = CALL_IN_PROGRESS
  <2>1. PICK r : r = SetState(q, ESTABLISHING)
    OBVIOUS
  <2>2. ESTABLISHING \in PageState /\ ESTABLISHING # ERROR
    BY States
  <2>3. Sound(r) /\ Keeps(q, r)
    BY <1>4, <2>1, <2>2, SetStateSound
  <2>4. Msg("reset") \in Message /\ Msg("reset").type # "offer"
    BY Typed DEF Types
  <2>5. Sound(SendTo(r, Msg("reset"))) /\ Keeps(r, SendTo(r, Msg("reset")))
    BY <2>3, <2>4, SendToSound
  <2>6. IceFailed(p, i) = Settle(SendTo(r, Msg("reset")))
    BY <1>1, <1>3, <1>5, <1>7, <2>1 DEF IceFailed
  <2> QED
    BY <1>4, <2>3, <2>5, <2>6, SettleSound DEF Over, Keeps
<1>8. CASE p.state # ESTABLISHING /\ p.state # CALL_IN_PROGRESS
  <2>1. IceFailed(p, i) = Settle(q)
    BY <1>1, <1>3, <1>8 DEF IceFailed
  <2> QED
    BY <1>4, <2>1, SettleSound DEF Over
<1> QED
  BY <1>6, <1>7, <1>8

-----------------------------------------------------------------------------
(* The phone.                                                              *)

Whats == {"SDP_CREATE_SUCCESS", "PC_ICE_CANDIDATE", "PC_ICE_CONNECTED", "PC_ICE_FAILED",
          "SDP_SET_FAILURE", "CAMERA_ERROR"}
Event == [what : Whats, of : Nat]

PhoneType ==
    [role : {"phone"}, state : P!PhoneState, ws : {"open", "closed"},
     pcs : Seq(Connection), creating : BOOLEAN, events : Seq(Event),
     outbox : Seq(Message), misled : BOOLEAN]

\* A session has a connection, and what is posted is of one that was made.
Working(ph) ==
    /\ ph \in PhoneType
    /\ Len(ph.pcs) <= MaxSessions
    /\ ph.state >= P!ESTABLISHING => ph.pcs # <<>>
    /\ \A k \in DOMAIN ph.events : ph.events[k].of \in DOMAIN ph.pcs

LEMMA PhoneStates ==
    /\ P!AWAY \in P!PhoneState /\ P!WAITING_FOR_OBSERVER \in P!PhoneState
    /\ P!WAITING_FOR_HEADSET \in P!PhoneState /\ P!ESTABLISHING \in P!PhoneState
    /\ P!CALL_IN_PROGRESS \in P!PhoneState
    /\ \A s \in P!PhoneState : s \in Int
    /\ P!AWAY < P!ESTABLISHING /\ P!WAITING_FOR_OBSERVER < P!ESTABLISHING
    /\ P!WAITING_FOR_HEADSET < P!ESTABLISHING /\ P!ESTABLISHING < P!CALL_IN_PROGRESS
BY DEF P!PhoneState, P!AWAY, P!WAITING_FOR_OBSERVER, P!WAITING_FOR_HEADSET,
       P!ESTABLISHING, P!CALL_IN_PROGRESS

LEMMA PhoneTyped ==
    /\ \A type \in Types : P!Msg(type) \in Message
    /\ \A i \in Nat : P!Offer(i) \in Message /\ P!Candidate(i) \in Message
    /\ \A i \in Nat : P!PC(i) \in Connection
    /\ P!ClosedPC \in Connection /\ P!NoPeer \in Nat
BY DEF Types, Message, Connection, P!Msg, P!Offer, P!Candidate, P!PC, P!ClosedPC, P!NoPeer

LEMMA IdleWorks == Working(P!Idle) /\ P!Idle.outbox = <<>> /\ P!Idle.role = "phone"
<1>1. /\ <<>> \in Seq(Event) /\ <<>> \in Seq(Message) /\ <<>> \in Seq(Connection)
      /\ DOMAIN <<>> = {} /\ Len(<<>>) = 0
  OBVIOUS
<1>2. P!AWAY \in P!PhoneState /\ ~(P!AWAY >= P!ESTABLISHING)
  BY PhoneStates
<1> QED
  BY <1>1, <1>2, SessionBounds DEF Working, PhoneType, P!Idle

LEMMA PhoneSends ==
    ASSUME NEW ph, Working(ph), NEW m \in Message
    PROVE  LET q == P!SendTo(ph, m)
           IN /\ Working(q) /\ q.pcs = ph.pcs /\ q.state = ph.state /\ q.ws = ph.ws
              /\ q.events = ph.events
<1>0. ph \in PhoneType
  BY DEF Working
<1>1. CASE ph.ws # "open"
  BY <1>1 DEF P!SendTo
<1>2. CASE ph.ws = "open"
  <2>1. PICK out : out = Append(ph.outbox, m)
    OBVIOUS
  <2>2. out \in Seq(Message)
    BY <1>0, <2>1 DEF PhoneType
  <2>3. PICK q : q = [ph EXCEPT !.outbox = out]
    OBVIOUS
  <2>4. P!SendTo(ph, m) = q
    BY <1>2, <2>1, <2>3 DEF P!SendTo
  <2>5. /\ q \in PhoneType /\ q.pcs = ph.pcs /\ q.state = ph.state /\ q.ws = ph.ws
        /\ q.events = ph.events
    BY <1>0, <2>2, <2>3 DEF PhoneType
  <2> QED
    BY <2>4, <2>5 DEF Working
<1> QED
  BY <1>1, <1>2

LEMMA PhonePostsWell ==
    ASSUME NEW ph, Working(ph), ph.pcs # <<>>, NEW what \in Whats
    PROVE  Working(P!Post(ph, what))
<1>0. ph \in PhoneType /\ ph.pcs \in Seq(Connection) /\ ph.events \in Seq(Event)
  BY DEF Working, PhoneType
<1>1. PICK e : e = [what |-> what, of |-> Len(ph.pcs)]
  OBVIOUS
<1>2. e \in Event /\ e.of \in DOMAIN ph.pcs
  BY <1>0, <1>1 DEF Event
<1>3. PICK events : events = Append(ph.events, e)
  OBVIOUS
<1>4. /\ events \in Seq(Event)
      /\ \A k \in DOMAIN events : events[k] = e \/ (k \in DOMAIN ph.events /\ events[k] = ph.events[k])
  BY <1>0, <1>2, <1>3
<1>5. PICK q : q = [ph EXCEPT !.events = events]
  OBVIOUS
<1>6. P!Post(ph, what) = q
  BY <1>1, <1>3, <1>5 DEF P!Post, P!Session
<1>7. q \in PhoneType /\ q.pcs = ph.pcs /\ q.state = ph.state /\ q.events = events
  BY <1>0, <1>4, <1>5 DEF PhoneType
<1> QED
  BY <1>2, <1>4, <1>6, <1>7 DEF Working

\* The connection of the session becomes c.
LEMMA PhoneChanges ==
    ASSUME NEW ph, Working(ph), ph.pcs # <<>>, NEW c \in Connection, NEW q,
           q = [ph EXCEPT !.pcs[Len(ph.pcs)] = c]
    PROVE  /\ Working(q) /\ q.state = ph.state /\ q.ws = ph.ws /\ Len(q.pcs) = Len(ph.pcs)
           /\ q.pcs # <<>>
<1>0. ph \in PhoneType /\ ph.pcs \in Seq(Connection) /\ Len(ph.pcs) \in DOMAIN ph.pcs
  BY DEF Working, PhoneType
<1>1. PICK pcs : pcs = [ph.pcs EXCEPT ![Len(ph.pcs)] = c]
  OBVIOUS
<1>2. /\ pcs \in Seq(Connection) /\ Len(pcs) = Len(ph.pcs) /\ DOMAIN pcs = DOMAIN ph.pcs
      /\ pcs # <<>>
  BY <1>0, <1>1
<1>3. q = [ph EXCEPT !.pcs = pcs]
  BY <1>0, <1>1 DEF PhoneType
<1>4. /\ q \in PhoneType /\ q.pcs = pcs /\ q.state = ph.state /\ q.ws = ph.ws
      /\ q.events = ph.events
  BY <1>0, <1>2, <1>3 DEF PhoneType
<1> QED
  BY <1>2, <1>4 DEF Working

LEMMA PhoneCreates ==
    ASSUME NEW ph, Working(ph), NEW b \in BOOLEAN, NEW q, q = [ph EXCEPT !.creating = b]
    PROVE  Working(q) /\ q.state = ph.state /\ q.ws = ph.ws /\ q.pcs = ph.pcs
<1>1. /\ q \in PhoneType /\ q.pcs = ph.pcs /\ q.state = ph.state /\ q.ws = ph.ws
      /\ q.events = ph.events
  BY DEF Working, PhoneType
<1> QED
  BY <1>1 DEF Working

LEMMA CloseSessionWorks ==
    ASSUME NEW ph, Working(ph)
    PROVE  LET q == P!CloseSession(ph)
           IN Working(q) /\ q.state = ph.state /\ q.ws = ph.ws /\ Len(q.pcs) = Len(ph.pcs)
<1>1. CASE ph.state < P!ESTABLISHING
  BY <1>1 DEF P!CloseSession
<1>2. CASE ~(ph.state < P!ESTABLISHING)
  <2>1. PICK s : s = P!SendTo(ph, P!Msg("reset"))
    OBVIOUS
  <2>2. P!Msg("reset") \in Message
    BY PhoneTyped DEF Types
  <2>3. /\ Working(s) /\ s.pcs = ph.pcs /\ s.state = ph.state /\ s.ws = ph.ws
    BY <2>1, <2>2, PhoneSends
  <2>4. ph.pcs # <<>>
    <3>1. ph.state >= P!ESTABLISHING
      BY <1>2, PhoneStates DEF Working, PhoneType
    <3> QED
      BY <3>1 DEF Working
  <2>5. PICK o : o = [s EXCEPT !.pcs[Len(s.pcs)] = P!ClosedPC]
    OBVIOUS
  <2>6. PICK q : q = [o EXCEPT !.creating = FALSE]
    OBVIOUS
  <2>7. Working(q) /\ q.state = s.state /\ q.ws = s.ws /\ Len(q.pcs) = Len(s.pcs)
    <3>1. Working(o) /\ o.state = s.state /\ o.ws = s.ws /\ Len(o.pcs) = Len(s.pcs)
      BY <2>3, <2>4, <2>5, PhoneTyped, PhoneChanges
    <3> QED
      BY <2>6, <3>1, PhoneCreates
  <2>8. P!CloseSession(ph) = q
    <3>1. P!CloseSession(ph) = [s EXCEPT !.pcs[Len(ph.pcs)] = P!ClosedPC, !.creating = FALSE]
      BY <1>2, <2>1 DEF P!CloseSession, P!Session
    <3>2. [s EXCEPT !.pcs[Len(ph.pcs)] = P!ClosedPC, !.creating = FALSE] = q
      BY <2>3, <2>5, <2>6
    <3> QED
      BY <3>1, <3>2
  <2> QED
    BY <2>3, <2>7, <2>8
<1> QED
  BY <1>1, <1>2

\* The phone's state becomes s, which needs a connection in a session.
LEMMA PhoneStateWorks ==
    ASSUME NEW ph, Working(ph), NEW s \in P!PhoneState, s >= P!ESTABLISHING => ph.pcs # <<>>
    PROVE  LET q == [ph EXCEPT !.state = s]
           IN Working(q) /\ q.state = s /\ q.ws = ph.ws /\ q.pcs = ph.pcs
<1>1. PICK q : q = [ph EXCEPT !.state = s]
  OBVIOUS
<1>2. /\ q \in PhoneType /\ q.state = s /\ q.ws = ph.ws /\ q.pcs = ph.pcs
      /\ q.events = ph.events
  BY <1>1 DEF Working, PhoneType
<1> QED
  BY <1>1, <1>2 DEF Working

LEMMA GoDownWorks ==
    ASSUME NEW ph, Working(ph), NEW s \in P!PhoneState, s < P!ESTABLISHING
    PROVE  LET q == P!GoDown(ph, s)
           IN Working(q) /\ q.state = s /\ q.ws = ph.ws /\ Len(q.pcs) = Len(ph.pcs)
<1>1. PICK c : c = P!CloseSession(ph)
  OBVIOUS
<1>2. Working(c) /\ c.ws = ph.ws /\ Len(c.pcs) = Len(ph.pcs)
  BY <1>1, CloseSessionWorks
<1>3. ~(s >= P!ESTABLISHING)
  BY PhoneStates
<1>4. P!GoDown(ph, s) = [c EXCEPT !.state = s]
  BY <1>1 DEF P!GoDown
<1> QED
  BY <1>2, <1>3, <1>4, PhoneStateWorks

LEMMA OpenSessionWorks ==
    ASSUME NEW ph, Working(ph), Len(ph.pcs) < MaxSessions
    PROVE  Working(P!OpenSession(ph))
<1>1. PICK c : c = P!CloseSession(ph)
  OBVIOUS
<1>2. Working(c) /\ Len(c.pcs) = Len(ph.pcs)
  BY <1>1, CloseSessionWorks
<1>3. c \in PhoneType /\ c.pcs \in Seq(Connection) /\ P!PC(P!NoPeer) \in Connection
  BY <1>2, PhoneTyped DEF Working, PhoneType
<1>4. PICK pcs : pcs = Append(c.pcs, P!PC(P!NoPeer))
  OBVIOUS
<1>5. /\ pcs \in Seq(Connection) /\ Len(pcs) = Len(ph.pcs) + 1 /\ pcs # <<>>
      /\ DOMAIN c.pcs \subseteq DOMAIN pcs
  BY <1>2, <1>3, <1>4
<1>6. PICK q : q = [c EXCEPT !.state = P!ESTABLISHING, !.pcs = pcs, !.creating = TRUE]
  OBVIOUS
<1>7. P!OpenSession(ph) = q
  <2>1. PICK d : d = [c EXCEPT !.state = P!ESTABLISHING]
    OBVIOUS
  <2>2. d = P!GoDown(ph, P!ESTABLISHING)
    BY <1>1, <2>1 DEF P!GoDown
  <2>3. d.pcs = c.pcs
    BY <1>3, <2>1 DEF PhoneType
  <2>4. P!OpenSession(ph) = [d EXCEPT !.pcs = pcs, !.creating = TRUE]
    BY <1>4, <2>2, <2>3 DEF P!OpenSession
  <2> QED
    BY <1>6, <2>1, <2>4
<1>8. /\ q \in PhoneType /\ q.pcs = pcs /\ q.events = c.events
  BY <1>3, <1>5, <1>6, PhoneStates DEF PhoneType
<1>9. Len(ph.pcs) \in Nat /\ MaxSessions \in Nat
  BY SessionBounds DEF Working, PhoneType
<1> QED
  BY <1>2, <1>5, <1>7, <1>8, <1>9 DEF Working

LEMMA GoAwayWorks ==
    ASSUME NEW ph, Working(ph)
    PROVE  Working(P!GoAway(ph))
<1>1. PICK d : d = P!GoDown(ph, P!AWAY)
  OBVIOUS
<1>2. Working(d)
  BY <1>1, PhoneStates, GoDownWorks
<1>3. PICK s : s = P!SendTo(d, P!Msg("leave"))
  OBVIOUS
<1>4. P!Msg("leave") \in Message
  BY PhoneTyped DEF Types
<1>5. Working(s)
  BY <1>2, <1>3, <1>4, PhoneSends
<1>6. PICK q : q = [s EXCEPT !.ws = "closed"]
  OBVIOUS
<1>7. q \in PhoneType /\ q.pcs = s.pcs /\ q.state = s.state /\ q.events = s.events
  BY <1>5, <1>6 DEF Working, PhoneType
<1>8. P!GoAway(ph) = q
  BY <1>1, <1>3, <1>6 DEF P!GoAway
<1> QED
  BY <1>5, <1>7, <1>8 DEF Working

\* What the socket and the headset do to the phone.
LEMMA PhoneMoves ==
    ASSUME NEW ph, Working(ph)
    PROVE  /\ Working(P!Connected(ph)) /\ Working(P!Lost(ph))
           /\ Working(P!HeadsetDisconnected(ph))
           /\ Len(ph.pcs) < MaxSessions => Working(P!HeadsetConnected(ph))
<1>0. ph \in PhoneType
  BY DEF Working
<1>1. Working(P!Connected(ph))
  <2>1. PICK q : q = [ph EXCEPT !.ws = "open", !.state = P!WAITING_FOR_OBSERVER]
    OBVIOUS
  <2>2. /\ q \in PhoneType /\ q.pcs = ph.pcs /\ q.state = P!WAITING_FOR_OBSERVER
        /\ q.events = ph.events
    BY <1>0, <2>1, PhoneStates DEF PhoneType
  <2>3. ~(P!WAITING_FOR_OBSERVER >= P!ESTABLISHING)
    BY PhoneStates
  <2>4. Working(q)
    BY <2>2, <2>3 DEF Working
  <2>5. P!Msg("join") \in Message
    BY PhoneTyped DEF Types
  <2>6. P!Connected(ph) = P!SendTo(q, P!Msg("join"))
    BY <2>1 DEF P!Connected
  <2> QED
    BY <2>4, <2>5, <2>6, PhoneSends
<1>2. Working(P!Lost(ph))
  <2>1. PICK q : q = [ph EXCEPT !.ws = "closed"]
    OBVIOUS
  <2>2. q \in PhoneType /\ q.pcs = ph.pcs /\ q.state = ph.state /\ q.events = ph.events
    BY <1>0, <2>1 DEF PhoneType
  <2>3. Working(q)
    BY <2>2 DEF Working
  <2> QED
    BY <2>1, <2>3, GoAwayWorks DEF P!Lost
<1>3. Working(P!HeadsetDisconnected(ph))
  BY PhoneStates, GoDownWorks DEF P!HeadsetDisconnected
<1>4. Len(ph.pcs) < MaxSessions => Working(P!HeadsetConnected(ph))
  BY OpenSessionWorks DEF P!HeadsetConnected
<1> QED
  BY <1>1, <1>2, <1>3, <1>4

LEMMA PhoneReceivedWorks ==
    ASSUME NEW ph, Working(ph), NEW m \in Message, m.type # "offer",
           m.type = "reset" => Len(ph.pcs) < MaxSessions
    PROVE  Working(P!Received(ph, m))
<1>0. ph \in PhoneType /\ m.type \in Types /\ m.of \in Nat
  BY DEF Working, Message
<1>1. Working(P!OnJoin(ph))
  <2>1. ~(P!WAITING_FOR_HEADSET >= P!ESTABLISHING) /\ P!WAITING_FOR_HEADSET \in P!PhoneState
    BY PhoneStates
  <2> QED
    BY <2>1, PhoneStateWorks DEF P!OnJoin
<1>2. Working(P!OnLeave(ph))
  BY PhoneStates, GoDownWorks DEF P!OnLeave
<1>3. m.type = "reset" => Working(P!OnReset(ph))
  BY OpenSessionWorks DEF P!OnReset
<1>4. Working(P!OnAnswer(ph, m))
  <2>1. CASE ph.state # P!ESTABLISHING
    BY <2>1 DEF P!OnAnswer
  <2>2. CASE ph.state = P!ESTABLISHING
    <3>1. ph.pcs # <<>>
      BY <2>2, PhoneStates DEF Working
    <3>2. Working(P!Post(ph, "SDP_SET_FAILURE"))
      BY <3>1, PhonePostsWell DEF Whats
    <3>3. ph.pcs \in Seq(Connection) /\ ph.pcs[Len(ph.pcs)] \in Connection
      BY <1>0, <3>1 DEF PhoneType
    <3>4. PICK c : c = [ph.pcs[Len(ph.pcs)] EXCEPT !.peer = m.of]
      OBVIOUS
    <3>5. c \in Connection
      BY <1>0, <3>3, <3>4 DEF Connection
    <3>6. PICK q : q = [ph EXCEPT !.pcs[Len(ph.pcs)] = c]
      OBVIOUS
    <3>7. Working(q)
      BY <3>1, <3>5, <3>6, PhoneChanges
    <3>8. P!OnAnswer(ph, m) = q \/ P!OnAnswer(ph, m) = P!Post(ph, "SDP_SET_FAILURE")
      BY <2>2, <3>4, <3>6 DEF P!OnAnswer, P!Session
    <3> QED
      BY <3>2, <3>7, <3>8
  <2> QED
    BY <2>1, <2>2
<1> QED
  BY <1>0, <1>1, <1>2, <1>3, <1>4 DEF P!Received, Types

\* The event at the head of the phone's queue.
LEMMA PhoneHandledWorks ==
    ASSUME NEW ph, Working(ph), ph.events # <<>>,
           Head(ph.events).what = "PC_ICE_FAILED" => Len(ph.pcs) < MaxSessions
    PROVE  Working(P!Handled(ph))
<1>0. ph \in PhoneType /\ ph.events \in Seq(Event) /\ ph.pcs \in Seq(Connection)
  BY DEF Working, PhoneType
<1>1. PICK e \in Event : e = Head(ph.events)
  BY <1>0
<1>2. e.what \in Whats /\ e.of \in Nat
  BY <1>1 DEF Event
<1>3. PICK events : events = Tail(ph.events)
  OBVIOUS
<1>4. /\ events \in Seq(Event)
      /\ \A k \in DOMAIN events : k + 1 \in DOMAIN ph.events /\ events[k] = ph.events[k + 1]
  BY <1>0, <1>3
<1>5. PICK b \in BOOLEAN :
          b = (ph.misled \/ (ph.state >= P!ESTABLISHING /\ e.of # Len(ph.pcs)))
  BY <1>0 DEF PhoneType
<1>6. PICK q : q = [ph EXCEPT !.events = events, !.misled = b]
  OBVIOUS
<1>7. /\ q \in PhoneType /\ q.pcs = ph.pcs /\ q.state = ph.state /\ q.events = events
  BY <1>0, <1>4, <1>5, <1>6 DEF PhoneType
<1>8. Working(q)
  BY <1>4, <1>7 DEF Working
<1>9. P!Handled(ph) =
         CASE e.what = "SDP_CREATE_SUCCESS" -> P!OnCreated(q, e.of)
           [] e.what = "PC_ICE_CANDIDATE" -> P!OnCandidate(q, e.of)
           [] e.what = "PC_ICE_CONNECTED" -> P!OnConnected(q)
           [] e.what = "PC_ICE_FAILED" -> P!OnIceFailed(q)
           [] e.what = "SDP_SET_FAILURE" -> P!OnSdpFailure(q)
           [] e.what = "CAMERA_ERROR" -> P!OnCameraError(q)
  BY <1>1, <1>3, <1>5, <1>6 DEF P!Handled, P!Session
<1>10. P!Offer(e.of) \in Message /\ P!Candidate(e.of) \in Message
  BY <1>2, PhoneTyped
<1>11. Working(P!OnCreated(q, e.of))
  <2>1. CASE q.state # P!ESTABLISHING
    BY <1>8, <2>1 DEF P!OnCreated
  <2>2. CASE q.state = P!ESTABLISHING
    <3>1. q.pcs # <<>>
      BY <1>8, <2>2, PhoneStates DEF Working
    <3>2. q.pcs \in Seq(Connection) /\ q.pcs[Len(q.pcs)] \in Connection
      BY <1>7, <3>1 DEF PhoneType
    <3>3. PICK c : c = [q.pcs[Len(q.pcs)] EXCEPT !.desc = "made"]
      OBVIOUS
    <3>4. c \in Connection
      BY <3>2, <3>3 DEF Connection
    <3>5. PICK r : r = [q EXCEPT !.pcs[Len(q.pcs)] = c]
      OBVIOUS
    <3>6. Working(r)
      BY <1>8, <3>1, <3>4, <3>5, PhoneChanges
    <3>7. P!OnCreated(q, e.of) = P!SendTo(r, P!Offer(e.of))
      BY <2>2, <3>3, <3>5 DEF P!OnCreated, P!Session
    <3> QED
      BY <1>10, <3>6, <3>7, PhoneSends
  <2> QED
    BY <2>1, <2>2
<1>12. Working(P!OnCandidate(q, e.of))
  BY <1>8, <1>10, PhoneSends DEF P!OnCandidate
<1>13. Working(P!OnConnected(q))
  <2>1. q.state = P!ESTABLISHING => q.pcs # <<>>
    BY <1>8, PhoneStates DEF Working
  <2> QED
    BY <1>8, <2>1, PhoneStates, PhoneStateWorks DEF P!OnConnected
<1>14. e.what = "PC_ICE_FAILED" => Working(P!OnIceFailed(q))
  <2>1. P!ESTABLISHING # P!CALL_IN_PROGRESS
    BY DEF P!ESTABLISHING, P!CALL_IN_PROGRESS
  <2> QED
    BY <1>1, <1>7, <1>8, <2>1, GoAwayWorks, OpenSessionWorks DEF P!OnIceFailed
<1>15. Working(P!OnSdpFailure(q)) /\ Working(P!OnCameraError(q))
  BY <1>8, GoAwayWorks DEF P!OnSdpFailure, P!OnCameraError
<1> QED
  BY <1>2, <1>9, <1>11, <1>12, <1>13, <1>14, <1>15 DEF Whats

\* What the listener of the session's connection posts.
LEMMA PhonePostWorks ==
    ASSUME NEW ph, Working(ph), ph.pcs # <<>>
    PROVE  /\ Working(P!Created(ph)) /\ Working(P!Gathered(ph)) /\ Working(P!IceConnected(ph))
           /\ Working(P!IceFailed(ph)) /\ Working(P!CameraFailed(ph))
<1>0. ph \in PhoneType /\ ph.pcs \in Seq(Connection) /\ ph.pcs[Len(ph.pcs)] \in Connection
  BY DEF Working, PhoneType
<1>1. Working(P!CameraFailed(ph))
  BY PhonePostsWell DEF P!CameraFailed, Whats
<1>2. Working(P!Created(ph))
  <2>1. PICK q : q = [ph EXCEPT !.creating = FALSE]
    OBVIOUS
  <2>2. Working(q) /\ q.pcs # <<>>
    BY <2>1, PhoneCreates
  <2> QED
    BY <2>1, <2>2, PhonePostsWell DEF P!Created, Whats
<1>3. Working(P!Gathered(ph))
  <2>1. PICK c : c = [ph.pcs[Len(ph.pcs)] EXCEPT !.gathers = FALSE]
    OBVIOUS
  <2>2. c \in Connection
    BY <1>0, <2>1 DEF Connection
  <2>3. PICK q : q = [ph EXCEPT !.pcs[Len(ph.pcs)] = c]
    OBVIOUS
  <2>4. Working(q) /\ q.pcs # <<>>
    BY <2>2, <2>3, PhoneChanges
  <2>5. P!Gathered(ph) = P!Post(q, "PC_ICE_CANDIDATE")
    BY <2>1, <2>3 DEF P!Gathered, P!Session
  <2> QED
    BY <2>4, <2>5, PhonePostsWell DEF Whats
<1>4. Working(P!IceConnected(ph))
  <2>1. PICK c : c = [ph.pcs[Len(ph.pcs)] EXCEPT !.ice = "connected"]
    OBVIOUS
  <2>2. c \in Connection
    BY <1>0, <2>1 DEF Connection
  <2>3. PICK q : q = [ph EXCEPT !.pcs[Len(ph.pcs)] = c]
    OBVIOUS
  <2>4. Working(q) /\ q.pcs # <<>>
    BY <2>2, <2>3, PhoneChanges
  <2>5. P!IceConnected(ph) = P!Post(q, "PC_ICE_CONNECTED")
    BY <2>1, <2>3 DEF P!IceConnected, P!Session
  <2> QED
    BY <2>4, <2>5, PhonePostsWell DEF Whats
<1>5. Working(P!IceFailed(ph))
  <2>1. PICK c : c = [ph.pcs[Len(ph.pcs)] EXCEPT !.ice = "failed"]
    OBVIOUS
  <2>2. c \in Connection
    BY <1>0, <2>1 DEF Connection
  <2>3. PICK q : q = [ph EXCEPT !.pcs[Len(ph.pcs)] = c]
    OBVIOUS
  <2>4. Working(q) /\ q.pcs # <<>>
    BY <2>2, <2>3, PhoneChanges
  <2>5. P!IceFailed(ph) = P!Post(q, "PC_ICE_FAILED")
    BY <2>1, <2>3 DEF P!IceFailed, P!Session
  <2> QED
    BY <2>4, <2>5, PhonePostsWell DEF Whats
<1> QED
  BY <1>1, <1>2, <1>3, <1>4, <1>5

-----------------------------------------------------------------------------
(* The room.                                                               *)

Rooms == [seated : SUBSET Side, inbox : [Side -> Seq(Message)]]

NoOffers(box) == \A k \in DOMAIN box : box[k].type # "offer"

\* No offer is on its way to a wearer.
RoomSound(r) == r \in Rooms /\ NoOffers(r.inbox["wearer"])

LEMMA OtherIs ==
    ASSUME NEW s \in Side
    PROVE  Other(s) \in Side /\ Other(s) # s /\ (Other(s) = "wearer" <=> s = "observer")
BY DEF Side, Other

LEMMA AppendOffers ==
    ASSUME NEW box \in Seq(Message), NEW m \in Message
    PROVE  /\ Append(box, m) \in Seq(Message)
           /\ NoOffers(box) /\ m.type # "offer" => NoOffers(Append(box, m))
BY DEF NoOffers

LEMMA HandleSound ==
    ASSUME NEW r, RoomSound(r), NEW s \in Side, NEW m \in Message,
           s = "observer" => m.type # "offer"
    PROVE  RoomSound(Handle(r, s, m))
<1>0. /\ r \in Rooms /\ r.inbox \in [Side -> Seq(Message)] /\ r.seated \subseteq Side
      /\ "wearer" \in Side
  BY DEF RoomSound, Rooms, Side
<1>1. PICK o \in Side : o = Other(s)
  BY OtherIs
<1>2. PICK inbox1 : inbox1 = [r.inbox EXCEPT ![o] = Append(r.inbox[o], m)]
  OBVIOUS
<1>3. /\ inbox1 \in [Side -> Seq(Message)] /\ NoOffers(inbox1["wearer"])
  <2>1. o = "wearer" => m.type # "offer"
    BY <1>1, OtherIs
  <2>2. inbox1 \in [Side -> Seq(Message)]
    BY <1>0, <1>2, AppendOffers
  <2>3. inbox1["wearer"] = IF o = "wearer" THEN Append(r.inbox["wearer"], m) ELSE r.inbox["wearer"]
    BY <1>0, <1>2
  <2> QED
    BY <1>0, <2>1, <2>2, <2>3, AppendOffers DEF RoomSound
<1>4. PICK tell : tell = [r EXCEPT !.inbox = inbox1]
  OBVIOUS
<1>5. RoomSound(tell) /\ tell.seated = r.seated
  BY <1>0, <1>3, <1>4 DEF RoomSound, Rooms
<1>6. tell = [r EXCEPT !.inbox[o] = Append(@, m)]
  BY <1>0, <1>2, <1>4 DEF Rooms
<1>7. CASE m.type = "join"
  <2>1. PICK both : both = [x \in Side |-> Append(r.inbox[x], m)]
    OBVIOUS
  <2>2. both \in [Side -> Seq(Message)] /\ both["wearer"] = Append(r.inbox["wearer"], m)
    BY <1>0, <2>1, AppendOffers
  <2>3. NoOffers(both["wearer"])
    BY <1>0, <1>7, <2>2, AppendOffers DEF RoomSound
  <2>4. RoomSound([seated |-> r.seated \cup {s}, inbox |-> both])
    BY <1>0, <2>2, <2>3 DEF RoomSound, Rooms
  <2>5. RoomSound([r EXCEPT !.seated = r.seated \cup {s}])
    BY <1>0 DEF RoomSound, Rooms
  <2>6. \/ Handle(r, s, m) = [seated |-> r.seated \cup {s}, inbox |-> both]
        \/ Handle(r, s, m) = [r EXCEPT !.seated = r.seated \cup {s}]
    BY <1>7, <2>1 DEF Handle
  <2> QED
    BY <2>4, <2>5, <2>6
<1>8. CASE m.type = "leave"
  <2>1. PICK q : q = IF o \in r.seated /\ s \in r.seated THEN tell ELSE r
    OBVIOUS
  <2>2. RoomSound(q) /\ q \in Rooms
    BY <1>5, <2>1 DEF RoomSound
  <2>3. PICK z : z = [q EXCEPT !.seated = @ \ {s}]
    OBVIOUS
  <2>4. RoomSound(z)
    BY <2>2, <2>3 DEF RoomSound, Rooms
  <2>5. Handle(r, s, m) = z
    BY <1>1, <1>6, <1>8, <2>1, <2>3 DEF Handle
  <2> QED
    BY <2>4, <2>5
<1>9. CASE m.type # "join" /\ m.type # "leave"
  <2>1. Handle(r, s, m) = IF o \in r.seated THEN tell ELSE r
    BY <1>1, <1>6, <1>9 DEF Handle
  <2> QED
    BY <1>5, <2>1
<1> QED
  BY <1>7, <1>8, <1>9

LEMMA HandleAllSound ==
    ASSUME NEW r, RoomSound(r), NEW s \in Side, NEW sent \in Seq(Message),
           s = "observer" => NoOffers(sent)
    PROVE  RoomSound(HandleAll(r, s, sent))
<1>1. PICK f : Handles(f, r, s, sent, Len(sent)) /\ HandleAll(r, s, sent) = f[Len(sent)]
  BY HandleAllIs
<1> DEFINE S == {n \in Nat : n <= Len(sent) => RoomSound(f[n])}
<1>2. 0 \in S
  BY <1>1 DEF Handles
<1>3. ASSUME NEW n \in Nat, n \in S
      PROVE  n + 1 \in S
  <2> SUFFICES ASSUME n + 1 <= Len(sent) PROVE RoomSound(f[n + 1])
    OBVIOUS
  <2>1. RoomSound(f[n])
    BY <1>3
  <2>2. f[n + 1] = Handle(f[n], s, sent[n + 1])
    BY <1>1 DEF Handles
  <2>3. sent[n + 1] \in Message /\ (s = "observer" => sent[n + 1].type # "offer")
    BY DEF NoOffers
  <2> QED
    BY <2>1, <2>2, <2>3, HandleSound
<1>4. Len(sent) \in S
  <2> HIDE DEF S
  <2> QED
    BY <1>2, <1>3, SetInduction
<1> QED
  BY <1>1, <1>4

-----------------------------------------------------------------------------
(* The inductive invariant of a session.                                   *)

RoleOn(s) == IF s = "observer" THEN "observer" ELSE "glass-wearer"

\* The end of side s, which may still have something to send.
EndSound(s, e) ==
    IF e.role = "phone" THEN s = "wearer" /\ Working(e)
    ELSE Sound(e) /\ ~e.rejected /\ e.role = RoleOn(s)

SInv ==
    /\ DOMAIN end = Side
    /\ \A s \in Side : EndSound(s, end[s]) /\ end[s].outbox = <<>>
    /\ RoomSound([inbox |-> inbox, seated |-> seated])

\* What was sent is no longer to be sent.
LEMMA SentSound ==
    ASSUME NEW s \in Side, NEW e, EndSound(s, e)
    PROVE  LET q == [e EXCEPT !.outbox = <<>>]
           IN EndSound(s, q) /\ q.outbox = <<>>
<1>0. <<>> \in Seq(Message) /\ DOMAIN <<>> = {}
  OBVIOUS
<1>1. PICK q : q = [e EXCEPT !.outbox = <<>>]
  OBVIOUS
<1>2. CASE e.role = "phone"
  <2>1. e \in PhoneType
    BY <1>2 DEF EndSound, Working
  <2>2. /\ q \in PhoneType /\ q.pcs = e.pcs /\ q.state = e.state /\ q.events = e.events
        /\ q.outbox = <<>> /\ q.role = e.role
    BY <1>0, <1>1, <2>1 DEF PhoneType
  <2>3. Working(q)
    BY <1>2, <2>2 DEF EndSound, Working
  <2> QED
    BY <1>1, <1>2, <2>2, <2>3 DEF EndSound
<1>3. CASE e.role # "phone"
  <2>1. e \in PageType /\ Sound(e)
    BY <1>3 DEF EndSound, Sound
  <2>2. /\ q \in PageType /\ q.pcs = e.pcs /\ q.promise = e.promise
        /\ q.state = e.state /\ q.err = e.err /\ q.ws = e.ws /\ q.outbox = <<>>
        /\ q.held = e.held /\ q.rejected = e.rejected /\ Keeps(e, q)
    BY <1>0, <1>1, <2>1 DEF PageType, Keeps
  <2>3. OffersToObserver(q) /\ Connected(q) /\ (Fresh(e) => Fresh(q))
    BY <1>0, <2>1, <2>2 DEF Sound, OffersToObserver, Connected, Fresh, Keeps
  <2>4. Sound(q)
    BY <2>1, <2>2, <2>3 DEF Sound, Keeps
  <2> QED
    BY <1>1, <1>3, <2>2, <2>4 DEF EndSound, Keeps
<1> QED
  BY <1>2, <1>3

\* The room becomes r, whatever the sockets are.
LEMMA RoomBecomesSound ==
    ASSUME NEW r, RoomSound(r), RoomBecomes(r)
    PROVE  RoomSound([inbox |-> inbox', seated |-> seated'])
<1>0. r \in Rooms /\ r.inbox \in [Side -> Seq(Message)] /\ r.seated \subseteq Side
      /\ NoOffers(r.inbox["wearer"]) /\ "wearer" \in Side
  BY DEF RoomSound, Rooms, Side
<1>1. <<>> \in Seq(Message) /\ NoOffers(<<>>)
  BY DEF NoOffers
<1>2. inbox' = [x \in Side |-> IF end'[x].ws = "open" THEN r.inbox[x] ELSE <<>>]
  BY DEF RoomBecomes
<1>3. inbox' \in [Side -> Seq(Message)]
  BY <1>0, <1>1, <1>2
<1>4. NoOffers(inbox'["wearer"])
  BY <1>0, <1>1, <1>2
<1>5. seated' \subseteq Side
  BY <1>0 DEF RoomBecomes
<1> QED
  BY <1>3, <1>4, <1>5 DEF RoomSound, Rooms

LEMMA BecomesSound ==
    ASSUME SInv, NEW s \in Side, NEW e, EndSound(s, e), NEW box \in Seq(Message),
           s = "wearer" => NoOffers(box), Becomes(s, e, box)
    PROVE  SInv'
<1>1. end' = [end EXCEPT ![s] = [e EXCEPT !.outbox = <<>>]]
  BY DEF Becomes
<1>2. DOMAIN end' = Side
  BY <1>1 DEF SInv
<1>3. \A x \in Side : EndSound(x, end'[x]) /\ end'[x].outbox = <<>>
  BY <1>1, SentSound DEF SInv
<1>4. PICK r : r = [inbox |-> [inbox EXCEPT ![s] = box], seated |-> seated]
  OBVIOUS
<1>5. RoomSound(r)
  <2>1. /\ inbox \in [Side -> Seq(Message)] /\ seated \subseteq Side
        /\ NoOffers(inbox["wearer"]) /\ "wearer" \in Side
    BY DEF SInv, RoomSound, Rooms, Side
  <2>2. [inbox EXCEPT ![s] = box] \in [Side -> Seq(Message)]
    BY <2>1
  <2>3. NoOffers([inbox EXCEPT ![s] = box]["wearer"])
    BY <2>1
  <2> QED
    BY <1>4, <2>1, <2>2, <2>3 DEF RoomSound, Rooms
<1>6. e.outbox \in Seq(Message) /\ (s = "observer" => NoOffers(e.outbox))
  BY DEF EndSound, Working, PhoneType, Sound, PageType, OffersToObserver, RoleOn, NoOffers
<1>7. RoomSound(HandleAll(r, s, e.outbox))
  BY <1>5, <1>6, HandleAllSound
<1>8. RoomBecomes(HandleAll(r, s, e.outbox))
  BY <1>4 DEF Becomes
<1>9. RoomSound([inbox |-> inbox', seated |-> seated'])
  BY <1>7, <1>8, RoomBecomesSound
<1> QED
  BY <1>2, <1>3, <1>9 DEF SInv

-----------------------------------------------------------------------------
(* The steps.                                                              *)

LEMMA InitSound == Init => SInv
<1> SUFFICES ASSUME Init PROVE SInv
  OBVIOUS
<1>1. PICK w \in Wearers :
          end = [observer |-> Loaded("observer"),
                 wearer |-> IF w = "phone" THEN P!Idle ELSE Loaded("glass-wearer")]
  BY DEF Init
<1>2. PICK o : o = Loaded("observer")
  OBVIOUS
<1>3. PICK e : e = IF w = "phone" THEN P!Idle ELSE Loaded("glass-wearer")
  OBVIOUS
<1>4. end = [observer |-> o, wearer |-> e]
  BY <1>1, <1>2, <1>3
<1>5. DOMAIN end = Side /\ end["observer"] = o /\ end["wearer"] = e
  BY <1>4 DEF Side
<1>6. EndSound("observer", o) /\ o.outbox = <<>>
  BY <1>2, LoadedSound DEF EndSound, RoleOn
<1>7. EndSound("wearer", e) /\ e.outbox = <<>>
  BY <1>3, LoadedSound, IdleWorks DEF EndSound, RoleOn
<1>8. RoomSound([inbox |-> inbox, seated |-> seated])
  <2>1. <<>> \in Seq(Message) /\ NoOffers(<<>>) /\ "wearer" \in Side
    BY DEF NoOffers, Side
  <2>2. inbox = [s \in Side |-> <<>>] /\ seated = {}
    BY DEF Init
  <2> QED
    BY <2>1, <2>2 DEF RoomSound, Rooms
<1> QED
  BY <1>5, <1>6, <1>7, <1>8 DEF SInv, Side

\* The inbox of a side.
LEMMA Boxes ==
    ASSUME SInv, NEW s \in Side
    PROVE  /\ inbox[s] \in Seq(Message) /\ (s = "wearer" => NoOffers(inbox[s]))
           /\ inbox[s] # <<>> => /\ Head(inbox[s]) \in Message
                                 /\ s = "wearer" => Head(inbox[s]).type # "offer"
                                 /\ Tail(inbox[s]) \in Seq(Message)
                                 /\ s = "wearer" => NoOffers(Tail(inbox[s]))
<1>1. inbox \in [Side -> Seq(Message)] /\ NoOffers(inbox["wearer"])
  BY DEF SInv, RoomSound, Rooms
<1>2. PICK box \in Seq(Message) : box = inbox[s]
  BY <1>1
<1>3. s = "wearer" => NoOffers(box)
  BY <1>1, <1>2
<1>4. box # <<>> => /\ Head(box) \in Message /\ Tail(box) \in Seq(Message)
                    /\ Head(box) = box[1] /\ 1 \in DOMAIN box
                    /\ \A k \in DOMAIN Tail(box) : k + 1 \in DOMAIN box /\ Tail(box)[k] = box[k + 1]
  OBVIOUS
<1>5. box # <<>> /\ NoOffers(box) => Head(box).type # "offer" /\ NoOffers(Tail(box))
  BY <1>4 DEF NoOffers
<1> QED
  BY <1>2, <1>3, <1>4, <1>5

\* A page that is done with a task is one of the ends.
LEMMA PageDone ==
    ASSUME NEW s \in Side, NEW p, EndSound(s, p), p.role # "phone", NEW q, Over(p, q)
    PROVE  EndSound(s, q)
BY DEF EndSound, Over

\* What comes of a step, or of a fault, that leaves a sound end.
LEMMA StepsSound ==
    ASSUME SInv, NEW s \in Side, NEW e, EndSound(s, e), Steps(s, e) \/ Faults(s, e)
    PROVE  SInv'
<1>1. Becomes(s, e, inbox[s])
  BY DEF Steps, Faults
<1> QED
  BY <1>1, Boxes, BecomesSound

LEMMA PageStepsSound ==
    ASSUME SInv, NEW s \in Side, IsPage(s), NEW q, Over(end[s], q), Steps(s, q) \/ Faults(s, q)
    PROVE  SInv'
<1>1. EndSound(s, end[s]) /\ end[s].role # "phone"
  BY DEF SInv, IsPage
<1>2. EndSound(s, q)
  BY <1>1, PageDone
<1> QED
  BY <1>2, StepsSound

LEMMA PageIs ==
    ASSUME SInv, NEW s \in Side, IsPage(s)
    PROVE  /\ Sound(end[s]) /\ ~end[s].rejected /\ EndSound(s, end[s]) /\ end[s].role = RoleOn(s)
           /\ end[s].role # "phone"
BY DEF SInv, EndSound, IsPage

LEMMA PageOpenedSound ==
    ASSUME SInv, NEW s \in Side, PageOpened(s)
    PROVE  SInv'
<1>1. IsPage(s) /\ end[s].ws = "connecting" /\ Steps(s, Opened(end[s]))
  BY DEF PageOpened
<1>2. Over(end[s], Opened(end[s]))
  BY <1>1, PageIs, OpenedOver
<1> QED
  BY <1>1, <1>2, PageStepsSound

LEMMA PageReceivesSound ==
    ASSUME SInv, NEW s \in Side, PageReceives(s)
    PROVE  SInv'
<1>1. /\ IsPage(s) /\ end[s].ws = "open" /\ inbox[s] # <<>>
      /\ Becomes(s, Received(end[s], Head(inbox[s])), Tail(inbox[s]))
  BY DEF PageReceives
<1>2. /\ Head(inbox[s]) \in Message /\ (s = "wearer" => Head(inbox[s]).type # "offer")
      /\ Tail(inbox[s]) \in Seq(Message) /\ (s = "wearer" => NoOffers(Tail(inbox[s])))
  BY <1>1, Boxes
<1>3. Head(inbox[s]).type = "offer" => end[s].role = "observer"
  BY <1>1, <1>2, PageIs DEF RoleOn, Side
<1>4. Over(end[s], Received(end[s], Head(inbox[s])))
  BY <1>1, <1>2, <1>3, PageIs, ReceivedOver
<1>5. EndSound(s, Received(end[s], Head(inbox[s])))
  BY <1>1, <1>4, PageIs, PageDone
<1> QED
  BY <1>1, <1>2, <1>5, BecomesSound

LEMMA PageRefusedSound ==
    ASSUME SInv, NEW s \in Side, PageRefused(s)
    PROVE  SInv'
<1>1. PICK code \in {1, 4, 5} : s = "observer" /\ Faults(s, Received(end[s], Error(code)))
  BY DEF PageRefused, observer
<1>2. IsPage(s)
  BY <1>1 DEF SInv, EndSound, IsPage
<1>3. Over(end[s], Received(end[s], Error(code)))
  BY <1>2, PageIs, ErrorOver
<1> QED
  BY <1>1, <1>2, <1>3, PageStepsSound

LEMMA PageMicSound ==
    ASSUME SInv, NEW s \in Side, PageMic(s)
    PROVE  SInv'
<1>1. /\ IsPage(s) /\ end[s].mic = "asked"
      /\ Steps(s, MicGranted(end[s])) \/ Faults(s, MicDenied(end[s]))
  BY DEF PageMic
<1>2. Over(end[s], MicGranted(end[s])) /\ Over(end[s], MicDenied(end[s]))
  BY <1>1, PageIs, MicGrantedOver, MicDeniedOver
<1> QED
  BY <1>1, <1>2, PageStepsSound

LEMMA PageLostSound ==
    ASSUME SInv, NEW s \in Side, PageLost(s)
    PROVE  SInv'
<1>1. IsPage(s) /\ (Faults(s, Lost(end[s])) \/ Faults(s, PingTimeout(end[s])))
  BY DEF PageLost
<1>2. Over(end[s], Lost(end[s])) /\ Over(end[s], PingTimeout(end[s]))
  BY <1>1, PageIs, LostOver
<1> QED
  BY <1>1, <1>2, PageStepsSound

LEMMA PageDescribesSound ==
    ASSUME SInv, NEW s \in Side, PageDescribes(s)
    PROVE  SInv'
<1>1. IsPage(s)
  BY DEF PageDescribes
<1>2. PICK i \in DOMAIN end[s].pcs :
          /\ end[s].pcs[i].desc = "making"
          /\ Steps(s, Described(end[s], i)) \/ Faults(s, Fail(end[s]))
  BY DEF PageDescribes
<1>3. Over(end[s], Described(end[s], i)) /\ Over(end[s], Fail(end[s]))
  BY <1>1, <1>2, PageIs, DescribedOver, LostOver
<1> QED
  BY <1>1, <1>2, <1>3, PageStepsSound

LEMMA PageGathersSound ==
    ASSUME SInv, NEW s \in Side, PageGathers(s)
    PROVE  SInv'
<1>1. IsPage(s)
  BY DEF PageGathers
<1>2. PICK i \in DOMAIN end[s].pcs : Steps(s, Gathered(end[s], i))
  BY DEF PageGathers
<1>3. Over(end[s], Gathered(end[s], i))
  BY <1>1, PageIs, GatheredOver
<1> QED
  BY <1>1, <1>2, <1>3, PageStepsSound

LEMMA PageIceSound ==
    ASSUME SInv, NEW s \in Side, PageIce(s)
    PROVE  SInv'
<1>1. IsPage(s)
  BY DEF PageIce
<1>2. PICK i \in DOMAIN end[s].pcs :
          /\ IsOpen(end[s].pcs[i])
          /\ \/ Steps(s, IceConnected(end[s], i))
             \/ Steps(s, IceFailed(end[s], i)) \/ Faults(s, IceFailed(end[s], i))
  BY DEF PageIce, Checking, IsOpen
<1>3. end[s].ws # "connecting"
  <2>1. end[s].mic = "granted"
    BY <1>1, <1>2, PageIs DEF Sound, Connected
  <2> QED
    BY <1>1, <2>1, PageIs DEF Sound, Fresh
<1>4. Over(end[s], IceConnected(end[s], i)) /\ Over(end[s], IceFailed(end[s], i))
  BY <1>1, <1>3, PageIs, IceConnectedOver, IceFailedOver
<1> QED
  BY <1>1, <1>2, <1>4, PageStepsSound

LEMMA NoticeSound ==
    ASSUME SInv, NEW s \in Side, Notice(s)
    PROVE  SInv'
<1>1. /\ end' = end
      /\ RoomBecomes(Handle([inbox |-> inbox, seated |-> seated], s, Msg("leave")))
  BY DEF Notice
<1>2. Msg("leave") \in Message /\ Msg("leave").type # "offer"
  BY Typed DEF Types
<1>3. RoomSound(Handle([inbox |-> inbox, seated |-> seated], s, Msg("leave")))
  BY <1>2, HandleSound DEF SInv
<1>4. RoomSound([inbox |-> inbox', seated |-> seated'])
  BY <1>1, <1>3, RoomBecomesSound
<1> QED
  BY <1>1, <1>4 DEF SInv

LEMMA ReloadSound ==
    ASSUME SInv, Reload
    PROVE  SInv'
<1>1. PICK pcs : pcs = [i \in DOMAIN observer.pcs |-> ClosedPC]
  OBVIOUS
<1>2. PICK o : o = [Loaded("observer") EXCEPT !.pcs = pcs]
  OBVIOUS
<1>3. end' = [end EXCEPT !["observer"] = o] /\ RoomBecomes([inbox |-> inbox, seated |-> seated])
  BY <1>1, <1>2 DEF Reload
<1>4. EndSound("observer", o) /\ o.outbox = <<>>
  <2>1. Sound(observer) /\ observer.pcs \in Seq(Connection)
    BY DEF SInv, EndSound, observer, Side, Sound, PageType
  <2>2. /\ pcs \in Seq(Connection) /\ \A i \in DOMAIN pcs : pcs[i] = ClosedPC
    <3>1. PICK old \in Seq(Connection) : old = observer.pcs
      BY <2>1
    <3>2. Len(old) \in Nat /\ DOMAIN old = 1 .. Len(old) /\ pcs = [i \in 1 .. Len(old) |-> ClosedPC]
      BY <1>1, <3>1
    <3>3. pcs \in Seq(Connection)
      BY <3>2, Typed
    <3> QED
      BY <3>2, <3>3
  <2> QED
    BY <1>2, <2>2, ReloadedSound DEF EndSound, RoleOn
<1>5. DOMAIN end' = Side /\ \A x \in Side : EndSound(x, end'[x]) /\ end'[x].outbox = <<>>
  BY <1>3, <1>4 DEF SInv
<1>6. RoomSound([inbox |-> inbox', seated |-> seated'])
  BY <1>3, RoomBecomesSound DEF SInv
<1> QED
  BY <1>5, <1>6 DEF SInv

LEMMA PhoneIs ==
    ASSUME SInv, PhoneWears
    PROVE  /\ "wearer" \in Side /\ Working(wearer)
           /\ \A e : Working(e) => EndSound("wearer", e)
<1>1. EndSound("wearer", wearer) /\ wearer.role = "phone" /\ "wearer" \in Side
  BY DEF SInv, wearer, PhoneWears, Side
<1>2. ASSUME NEW e, Working(e)
      PROVE  EndSound("wearer", e)
  BY <1>2 DEF EndSound, Working, PhoneType
<1> QED
  BY <1>1, <1>2 DEF EndSound

LEMMA PhoneStepsSound ==
    ASSUME SInv, PhoneWears, NEW e, Working(e), Steps("wearer", e) \/ Faults("wearer", e)
    PROVE  SInv'
BY PhoneIs, StepsSound

LEMMA PhoneConnectsSound ==
    ASSUME SInv, PhoneConnects
    PROVE  SInv'
<1>1. PhoneWears /\ Steps("wearer", P!Connected(wearer))
  BY DEF PhoneConnects
<1> QED
  BY <1>1, PhoneIs, PhoneMoves, PhoneStepsSound

LEMMA PhoneReceivesSound ==
    ASSUME SInv, PhoneReceives
    PROVE  SInv'
<1>1. /\ PhoneWears /\ inbox["wearer"] # <<>>
      /\ Head(inbox["wearer"]).type = "reset" => Len(wearer.pcs) < MaxSessions
      /\ Becomes("wearer", P!Received(wearer, Head(inbox["wearer"])), Tail(inbox["wearer"]))
  BY DEF PhoneReceives, CanConnect
<1>2. /\ Head(inbox["wearer"]) \in Message /\ Head(inbox["wearer"]).type # "offer"
      /\ Tail(inbox["wearer"]) \in Seq(Message) /\ NoOffers(Tail(inbox["wearer"]))
  BY <1>1, PhoneIs, Boxes
<1>3. Working(P!Received(wearer, Head(inbox["wearer"])))
  BY <1>1, <1>2, PhoneIs, PhoneReceivedWorks
<1>4. EndSound("wearer", P!Received(wearer, Head(inbox["wearer"]))) /\ "wearer" \in Side
  BY <1>1, <1>3, PhoneIs
<1> QED
  BY <1>1, <1>2, <1>4, BecomesSound

LEMMA PhoneHandlesSound ==
    ASSUME SInv, PhoneHandles
    PROVE  SInv'
<1>1. /\ PhoneWears /\ wearer.events # <<>> /\ Steps("wearer", P!Handled(wearer))
      /\ Head(wearer.events).what = "PC_ICE_FAILED" => Len(wearer.pcs) < MaxSessions
  BY DEF PhoneHandles, CanConnect
<1>2. Working(P!Handled(wearer))
  BY <1>1, PhoneIs, PhoneHandledWorks
<1> QED
  BY <1>1, <1>2, PhoneStepsSound

LEMMA PhonePostsSound ==
    ASSUME SInv, PhonePosts
    PROVE  SInv'
<1>1. PhoneWears /\ wearer.state >= P!ESTABLISHING
  BY DEF PhonePosts, InSession
<1>2. \/ Steps("wearer", P!Created(wearer)) \/ Steps("wearer", P!Gathered(wearer))
      \/ Steps("wearer", P!IceConnected(wearer)) \/ Steps("wearer", P!IceFailed(wearer))
      \/ Faults("wearer", P!IceFailed(wearer)) \/ Faults("wearer", P!CameraFailed(wearer))
  BY DEF PhonePosts
<1>3. Working(wearer) /\ wearer.pcs # <<>>
  BY <1>1, PhoneIs DEF Working
<1>4. /\ Working(P!Created(wearer)) /\ Working(P!Gathered(wearer))
      /\ Working(P!IceConnected(wearer)) /\ Working(P!IceFailed(wearer))
      /\ Working(P!CameraFailed(wearer))
  BY <1>3, PhonePostWorks
<1> QED
  BY <1>1, <1>2, <1>4, PhoneStepsSound

LEMMA PhoneHeadsetSound ==
    ASSUME SInv, PhoneHeadset
    PROVE  SInv'
<1>1. /\ PhoneWears
      /\ \/ Len(wearer.pcs) < MaxSessions /\ Steps("wearer", P!HeadsetConnected(wearer))
         \/ Faults("wearer", P!HeadsetDisconnected(wearer))
  BY DEF PhoneHeadset, CanConnect
<1> QED
  BY <1>1, PhoneIs, PhoneMoves, PhoneStepsSound

LEMMA PhoneLostSound ==
    ASSUME SInv, PhoneLost
    PROVE  SInv'
<1>1. PhoneWears /\ (Faults("wearer", P!Lost(wearer)) \/ Faults("wearer", P!GoAway(wearer)))
  BY DEF PhoneLost
<1> QED
  BY <1>1, PhoneIs, PhoneMoves, GoAwayWorks, PhoneStepsSound

\* Every step keeps the invariant.
LEMMA NextSound == SInv /\ [Next]_vars => SInv'
<1> SUFFICES ASSUME SInv, [Next]_vars PROVE SInv'
  OBVIOUS
<1>1. CASE Reload
  BY <1>1, ReloadSound
<1>2. CASE PhoneNext
  BY <1>2, PhoneConnectsSound, PhoneReceivesSound, PhoneHandlesSound, PhonePostsSound,
     PhoneHeadsetSound, PhoneLostSound DEF PhoneNext
<1>3. ASSUME NEW s \in Side, PageNext(s)
      PROVE  SInv'
  BY <1>3, PageOpenedSound, PageReceivesSound, PageRefusedSound, PageMicSound,
     PageLostSound, PageDescribesSound, PageGathersSound, PageIceSound, NoticeSound
     DEF PageNext
<1>4. CASE UNCHANGED vars
  BY <1>4 DEF vars, SInv
<1> QED
  BY <1>1, <1>2, <1>3, <1>4 DEF Next

LEMMA Inductive == Spec => []SInv
BY InitSound, NextSound, PTL DEF Spec

-----------------------------------------------------------------------------
(* What a task does to a page, as far as the other end can tell.  The task *)
(* begins with the page a and has come to q.  What it learns of the other  *)
(* end's connections is in K.                                              *)

Speaks(m) == m.type \in {"offer", "answer"}

\* The connections of the other end that a page has heard of.
Within(q, K) ==
    /\ NoPeer \in K
    /\ \A i \in DOMAIN q.pcs : q.pcs[i].peer \in K
    /\ \A k \in DOMAIN q.waiting : q.waiting[k] \in K
    /\ \A k \in DOMAIN q.held : Speaks(q.held[k]) => q.held[k].of \in K

Shaped(q) == q \in PageType /\ q.promise \in 0 .. Len(q.pcs)

\* A socket that is closed leaves an error, one that connects a page at its beginning.
Online(q) ==
    /\ q.ws = "closed" => q.state = ERROR
    /\ q.ws = "connecting" => q.state = WEBSOCKET_CONNECT

\* A task says no more than that it begins anew or leaves, and that is its last word.
Departing(a, q) ==
    /\ q.outbox # <<>> => a.ws = "open"
    /\ \A k \in DOMAIN q.outbox :
          \/ q.outbox[k].type = "reset"
          \/ q.outbox[k].type = "leave" /\ k = Len(q.outbox) /\ q.ws = "closed"

\* Connections are made, and only that of the promise is closed.
Advancing(a, q) ==
    /\ Len(a.pcs) <= Len(q.pcs)
    /\ q.promise \in {a.promise, Pending} \/ q.promise > Len(a.pcs)
    /\ \A i \in DOMAIN a.pcs :
          \/ q.pcs[i].peer = a.pcs[i].peer \/ a.pcs[i].peer = NoPeer
          \/ i = a.promise /\ q.promise # a.promise

\* A connection that is kept is not taken leave of, and the page stays with it.
Steady(a, q) ==
    q.promise = a.promise /\ a.promise # Pending =>
        q.outbox = <<>> /\ (a.state >= ESTABLISHING => q.state >= ESTABLISHING)

\* No task but that of ICE begins a call, and the call is that of the same connection.
CallKept(a, q) ==
    q.state = CALL_IN_PROGRESS => a.state = CALL_IN_PROGRESS /\ q.promise = a.promise

\* The other end is told, or can see, that the connection is given up.
Told(q) == q.ws # "open" \/ \E k \in DOMAIN q.outbox : q.outbox[k].type = "reset"

Loud(a, q) ==
    a.promise # Pending /\ q.promise # a.promise /\ a.state >= ESTABLISHING => Told(q)

Does(a, q, K, silent) ==
    /\ Shaped(q) /\ q.role = a.role /\ q.ws \in {a.ws, "closed"}
    /\ a.overlapped => q.overlapped
    /\ Within(q, K) /\ Online(q) /\ Departing(a, q) /\ Advancing(a, q)
    /\ Steady(a, q) /\ CallKept(a, q) /\ (silent \/ Loud(a, q))

\* A task begins.
LEMMA BeginsDoes ==
    ASSUME NEW a, Shaped(a), a.outbox = <<>>, Online(a), NEW K, Within(a, K),
           NEW silent \in BOOLEAN
    PROVE  Does(a, a, K, silent)
<1>1. Departing(a, a) /\ Steady(a, a) /\ CallKept(a, a) /\ Loud(a, a)
  BY DEF Departing, Steady, CallKept, Loud
<1>2. Advancing(a, a)
  <2>1. a.pcs \in Seq(Connection)
    BY DEF Shaped, PageType
  <2> QED
    BY <2>1 DEF Advancing
<1> QED
  BY <1>1, <1>2 DEF Does

\* Only the state of the page, or what waits for the microphone, becomes another.
LEMMA GoesDoes ==
    ASSUME NEW a, Shaped(a), NEW K, NEW silent \in BOOLEAN, NEW p, Does(a, p, K, silent),
           NEW q \in PageType, q.role = p.role, q.ws = p.ws, p.overlapped => q.overlapped,
           q.promise = p.promise, q.held = p.held, q.pcs = p.pcs, q.outbox = p.outbox,
           \A k \in DOMAIN q.waiting : q.waiting[k] \in K,
           Online(q), q.state # p.state => q.state # CALL_IN_PROGRESS,
           p.promise # Pending /\ p.state >= ESTABLISHING => q.state >= ESTABLISHING
    PROVE  Does(a, q, K, silent)
<1>1. Within(q, K) /\ Departing(a, q) /\ Advancing(a, q) /\ CallKept(a, q)
  BY DEF Does, Within, Departing, Advancing, CallKept
<1>2. Steady(a, q)
  BY DEF Does, Steady
<1>3. silent \/ Loud(a, q)
  BY DEF Does, Loud, Told
<1> QED
  BY <1>1, <1>2, <1>3 DEF Does, Shaped

\* The connection of the promise is closed, and what was held for it is dropped.
Closes(p, q) ==
    /\ q \in PageType /\ q.role = p.role /\ q.overlapped = p.overlapped
    /\ q.waiting = p.waiting /\ q.promise = Pending /\ q.held = <<>>
    /\ DOMAIN q.pcs = DOMAIN p.pcs
    /\ \A i \in DOMAIN p.pcs : q.pcs[i].peer = IF i = p.promise THEN NoPeer ELSE p.pcs[i].peer

\* What is said at the end of a connection.
SaysLast(p, q) ==
    \/ q.outbox = p.outbox
    \/ /\ p.ws = "open"
       /\ \E m \in Message : /\ q.outbox = Append(p.outbox, m)
                             /\ m.type = "reset" \/ (m.type = "leave" /\ q.ws = "closed")

LEMMA ShutDoes ==
    ASSUME NEW a, Shaped(a), NEW K, NEW silent \in BOOLEAN, NEW p, Does(a, p, K, silent),
           NEW q, Closes(p, q), q.ws \in {p.ws, "closed"}, Online(q),
           q.state # CALL_IN_PROGRESS, SaysLast(p, q),
           silent \/ p.promise = Pending \/ p.state < ESTABLISHING \/ Told(q)
    PROVE  Does(a, q, K, silent)
<1>0. /\ p \in PageType /\ p.pcs \in Seq(Connection) /\ q \in PageType /\ q.pcs \in Seq(Connection)
      /\ p.outbox \in Seq(Message) /\ a.pcs \in Seq(Connection) /\ p.state \in Int
      /\ a.state \in Int
  BY States DEF Does, Shaped, PageType, Closes
<1>1. Shaped(q) /\ q.role = a.role /\ q.ws \in {a.ws, "closed"} /\ (a.overlapped => q.overlapped)
  BY <1>0 DEF Does, Shaped, Closes
<1>2. Within(q, K)
  BY DEF Does, Within, Closes
<1>3. Departing(a, q)
  <2>1. CASE q.outbox = p.outbox
    BY <2>1 DEF Does, Departing
  <2>2. ASSUME p.ws = "open", NEW m \in Message, q.outbox = Append(p.outbox, m),
               m.type = "reset" \/ (m.type = "leave" /\ q.ws = "closed")
        PROVE  Departing(a, q)
    <3>1. /\ Len(q.outbox) = Len(p.outbox) + 1 /\ q.outbox[Len(q.outbox)] = m
          /\ \A k \in DOMAIN q.outbox :
                k = Len(q.outbox) \/ (k \in DOMAIN p.outbox /\ q.outbox[k] = p.outbox[k])
      BY <1>0, <2>2
    <3>2. \A k \in DOMAIN p.outbox : p.outbox[k].type = "reset"
      BY <2>2 DEF Does, Departing
    <3>3. a.ws = "open"
      BY <2>2 DEF Does
    <3> QED
      BY <2>2, <3>1, <3>2, <3>3 DEF Departing
  <2> QED
    BY <2>1, <2>2 DEF SaysLast
<1>4. Advancing(a, q)
  <2>1. Len(q.pcs) = Len(p.pcs) /\ Len(a.pcs) <= Len(p.pcs) /\ DOMAIN a.pcs \subseteq DOMAIN p.pcs
    BY <1>0 DEF Does, Advancing, Closes
  <2>2. ASSUME NEW i \in DOMAIN a.pcs
        PROVE  \/ q.pcs[i].peer = a.pcs[i].peer \/ a.pcs[i].peer = NoPeer
               \/ i = a.promise /\ q.promise # a.promise
    <3>1. i \in 1 .. Len(a.pcs) /\ q.promise = Pending
      BY <1>0 DEF Closes
    <3>2. CASE i = p.promise
      BY <3>1, <3>2 DEF Does, Advancing
    <3>3. CASE i # p.promise
      BY <2>1, <3>1, <3>3 DEF Does, Advancing, Closes
    <3> QED
      BY <3>2, <3>3
  <2> QED
    BY <2>1, <2>2 DEF Advancing, Closes
<1>5. Steady(a, q) /\ CallKept(a, q)
  BY DEF Steady, CallKept, Closes
<1>6. silent \/ Loud(a, q)
  <2> SUFFICES ASSUME ~silent, a.promise # Pending, a.state >= ESTABLISHING PROVE Told(q)
    BY DEF Loud
  <2>1. CASE p.promise = a.promise
    <3>1. p.state >= ESTABLISHING
      BY <2>1 DEF Does, Steady
    <3> QED
      BY <1>0, <2>1, <3>1, States
  <2>2. CASE p.promise # a.promise
    <3>1. Told(p)
      BY <2>2 DEF Does, Loud
    <3>2. CASE p.ws # "open"
      BY <3>2 DEF Told
    <3>3. ASSUME NEW k \in DOMAIN p.outbox, p.outbox[k].type = "reset"
          PROVE  Told(q)
      <4>1. \A m : /\ k \in DOMAIN Append(p.outbox, m) /\ Append(p.outbox, m)[k] = p.outbox[k]
        BY <1>0, <3>3
      <4>2. q.outbox = p.outbox \/ \E m : q.outbox = Append(p.outbox, m)
        BY DEF SaysLast
      <4>3. k \in DOMAIN q.outbox /\ q.outbox[k] = p.outbox[k]
        BY <3>3, <4>1, <4>2
      <4> QED
        BY <3>3, <4>3 DEF Told
    <3> QED
      BY <3>1, <3>2, <3>3 DEF Told
  <2> QED
    BY <2>1, <2>2
<1> QED
  BY <1>1, <1>2, <1>3, <1>4, <1>5, <1>6, Zenon DEF Does, Closes

LEMMA ClosePCCloses ==
    ASSUME NEW p \in PageType
    PROVE  /\ Closes(p, ClosePC(p)) /\ ClosePC(p).state = p.state /\ ClosePC(p).ws = p.ws
           /\ ClosePC(p).outbox = p.outbox /\ ClosePC(p).err = p.err
<1> DEFINE close == [i \in DOMAIN p.pcs |-> IF i = p.promise THEN ClosedPC ELSE p.pcs[i]]
<1>0. p.pcs \in Seq(Connection)
  BY DEF PageType
<1>1. PICK pcs : /\ pcs = close /\ pcs \in Seq(Connection) /\ DOMAIN pcs = DOMAIN p.pcs
                 /\ \A i \in DOMAIN p.pcs :
                      pcs[i] = IF i = p.promise THEN ClosedPC ELSE p.pcs[i]
  <2>1. close \in [1 .. Len(p.pcs) -> Connection]
    BY <1>0, Typed
  <2> HIDE DEF close
  <2>2. close \in Seq(Connection)
    BY <1>0, <2>1
  <2> QED
    BY <2>2 DEF close
<1>2. PICK rej \in BOOLEAN : rej = (p.rejected \/ p.held # <<>>)
  BY DEF PageType
<1>3. PICK q : q = [p EXCEPT !.pcs = pcs, !.promise = Pending, !.rejected = rej, !.held = <<>>]
  OBVIOUS
<1>4. ClosePC(p) = q
  BY <1>1, <1>2, <1>3 DEF ClosePC
<1>5. <<>> \in Seq(Message)
  OBVIOUS
<1>6. /\ q \in PageType /\ Keeps(p, q)
      /\ q.promise = Pending /\ q.held = <<>> /\ q.pcs = pcs
      /\ q.state = p.state /\ q.err = p.err /\ q.ws = p.ws /\ q.outbox = p.outbox
  BY <1>1, <1>2, <1>3, <1>5 DEF PageType, Keeps
<1>7. ClosedPC.peer = NoPeer
  BY DEF ClosedPC
<1> QED
  BY <1>1, <1>4, <1>6, <1>7 DEF Closes, Keeps

\* The page dies of e, from what ClosePC has made of it.
LEMMA DiesFrom ==
    ASSUME NEW p \in PageType, NEW e \in Err
    PROVE  /\ Closes(p, Die(p, e)) /\ SaysLast(p, Die(p, e))
           /\ IF p.ws = "connecting" THEN Die(p, e).ws = p.ws /\ Die(p, e).state = p.state
              ELSE Die(p, e).ws = "closed" /\ Die(p, e).state = ERROR
<1> PICK c : c = ClosePC(p)
  OBVIOUS
<1>1. /\ Closes(p, c) /\ c.state = p.state /\ c.ws = p.ws /\ c.outbox = p.outbox
      /\ c \in PageType
  BY ClosePCCloses DEF Closes
<1>2. CASE p.ws = "connecting"
  <2>1. Die(p, e) = c
    BY <1>2 DEF Die
  <2> QED
    BY <1>1, <1>2, <2>1 DEF SaysLast
<1>3. CASE p.ws # "connecting"
  <2>1. PICK s : s = SendTo(c, Msg("leave"))
    OBVIOUS
  <2>2. Msg("leave") \in Message /\ Msg("leave").type = "leave"
    BY Typed DEF Types
  <2>3. /\ s \in PageType /\ Keeps(c, s) /\ s.ws = c.ws /\ s.promise = c.promise
        /\ s.held = c.held /\ s.pcs = c.pcs /\ s.state = c.state
        /\ s.outbox = IF c.ws = "open" THEN Append(c.outbox, Msg("leave")) ELSE c.outbox
    BY <1>1, <2>1, <2>2, SendToIs
  <2>4. PICK q : q = IF p.state = ERROR THEN [s EXCEPT !.ws = "closed", !.rejected = FALSE]
                     ELSE [s EXCEPT !.ws = "closed", !.rejected = FALSE,
                                    !.state = ERROR, !.err = e]
    OBVIOUS
  <2>5. Die(p, e) = q
    <3>1. \A l : [[l EXCEPT !.ws = "closed", !.rejected = FALSE] EXCEPT !.state = ERROR, !.err = e]
                 = [l EXCEPT !.ws = "closed", !.rejected = FALSE, !.state = ERROR, !.err = e]
      OBVIOUS
    <3> QED
      BY <1>3, <2>1, <2>4, <3>1 DEF Die
  <2>6. /\ q \in PageType /\ Keeps(s, q) /\ q.ws = "closed" /\ q.state = ERROR
        /\ q.promise = s.promise /\ q.held = s.held /\ q.pcs = s.pcs /\ q.outbox = s.outbox
    <3>1. s.state = p.state /\ s.err \in Err \cup {NoErr} /\ ERROR \in PageState
      BY <1>1, <2>3, States DEF PageType
    <3>2. CASE p.state = ERROR
      BY <2>3, <2>4, <3>1, <3>2 DEF PageType, Keeps
    <3>3. CASE p.state # ERROR
      BY <2>3, <2>4, <3>1, <3>3 DEF PageType, Keeps
    <3> QED
      BY <3>2, <3>3
  <2>7. Closes(p, q)
    BY <1>1, <2>3, <2>6 DEF Closes, Keeps
  <2>8. SaysLast(p, q)
    BY <1>1, <2>2, <2>3, <2>6 DEF SaysLast
  <2> QED
    BY <1>3, <2>5, <2>6, <2>7, <2>8
<1> QED
  BY <1>2, <1>3

LEMMA DieDoes ==
    ASSUME NEW a, Shaped(a), NEW K, NEW silent \in BOOLEAN, NEW p, Does(a, p, K, silent),
           NEW e \in Err
    PROVE  Does(a, Die(p, e), K, silent)
<1>0. p \in PageType /\ Online(p)
  BY DEF Does, Shaped
<1>1. PICK q : q = Die(p, e)
  OBVIOUS
<1>2. /\ Closes(p, q) /\ SaysLast(p, q)
      /\ IF p.ws = "connecting" THEN q.ws = p.ws /\ q.state = p.state
         ELSE q.ws = "closed" /\ q.state = ERROR
  BY <1>0, <1>1, DiesFrom
<1>3. Online(q) /\ q.state # CALL_IN_PROGRESS /\ q.ws \in {p.ws, "closed"} /\ Told(q)
  BY <1>0, <1>2, States DEF Online, Told, WEBSOCKET_CONNECT, CALL_IN_PROGRESS, ERROR
<1>4. Does(a, q, K, silent)
  BY <1>2, <1>3, ShutDoes
<1> QED
  BY <1>1, <1>4

LEMMA FailDoes ==
    ASSUME NEW a, Shaped(a), NEW K, NEW silent \in BOOLEAN, NEW p, Does(a, p, K, silent)
    PROVE  Does(a, Fail(p), K, silent) /\ Does(a, Settle(p), K, silent)
<1>1. "WEBRTC" \in Err
  BY DEF Err
<1>2. Does(a, Die(p, "WEBRTC"), K, silent)
  BY <1>1, DieDoes
<1> QED
  BY <1>2 DEF Fail, Settle

\* The connection of the promise takes its first description of the other end's.
LEMMA ApplyDoes ==
    ASSUME NEW a, Shaped(a), NEW K, NEW silent \in BOOLEAN, NEW p, Does(a, p, K, silent),
           p.promise # Pending, NEW m \in Message, Speaks(m) => m.of \in K
    PROVE  Does(a, Apply(p, m), K, silent)
<1>1. Does(a, Fail(p), K, silent)
  BY FailDoes
<1>2. CASE /\ m.type = "answer" /\ TakesAnswer(p.pcs[p.promise])
           /\ Apply(p, m) = [p EXCEPT !.pcs[p.promise].peer = m.of]
  <2>1. p \in PageType /\ p.pcs \in Seq(Connection) /\ p.promise \in 1 .. Len(p.pcs)
    BY DEF Does, Shaped, PageType
  <2>2. PICK c : c = [p.pcs[p.promise] EXCEPT !.peer = m.of]
    OBVIOUS
  <2>3. p.pcs[p.promise] \in Connection /\ m.of \in Nat /\ m.of \in K
    BY <1>2, <2>1 DEF Message, Speaks
  <2>4. c \in Connection /\ c.peer = m.of
    BY <2>2, <2>3 DEF Connection
  <2>5. PICK pcs : pcs = [p.pcs EXCEPT ![p.promise] = c]
    OBVIOUS
  <2>6. /\ pcs \in Seq(Connection) /\ Len(pcs) = Len(p.pcs)
        /\ DOMAIN pcs = 1 .. Len(p.pcs) /\ DOMAIN p.pcs = 1 .. Len(p.pcs)
        /\ \A i \in DOMAIN pcs : pcs[i].peer = IF i = p.promise THEN m.of ELSE p.pcs[i].peer
    BY <2>1, <2>4, <2>5
  <2>7. PICK q : q = [p EXCEPT !.pcs = pcs]
    OBVIOUS
  <2>8. Apply(p, m) = q
    BY <1>2, <2>2, <2>5, <2>7
  <2>9. /\ q \in PageType /\ Keeps(p, q) /\ q.pcs = pcs /\ q.promise = p.promise
        /\ q.state = p.state /\ q.ws = p.ws /\ q.outbox = p.outbox /\ q.held = p.held
    BY <2>1, <2>6, <2>7 DEF PageType, Keeps
  <2>10. Shaped(q)
    BY <2>1, <2>6, <2>9 DEF Shaped
  <2>11. Within(q, K)
    BY <2>3, <2>6, <2>9 DEF Does, Within, Keeps
  <2>12. Advancing(a, q)
    <3>1. p.pcs[p.promise].peer = NoPeer
      BY <1>2 DEF TakesAnswer
    <3>2. Advancing(a, p) /\ Len(q.pcs) = Len(p.pcs) /\ q.promise = p.promise
      BY <2>6, <2>9 DEF Does
    <3>3. DOMAIN a.pcs \subseteq DOMAIN q.pcs
      <4>1. a.pcs \in Seq(Connection) /\ Len(a.pcs) <= Len(q.pcs) /\ Len(p.pcs) \in Nat
        BY <2>1, <3>2 DEF Shaped, PageType, Advancing
      <4> QED
        BY <2>6, <2>9, <3>2, <4>1
    <3>4. ASSUME NEW i \in DOMAIN a.pcs
          PROVE  \/ q.pcs[i].peer = a.pcs[i].peer \/ a.pcs[i].peer = NoPeer
                 \/ i = a.promise /\ q.promise # a.promise
      <4>1. CASE i = p.promise
        BY <3>1, <3>2, <4>1 DEF Advancing
      <4>2. CASE i # p.promise
        <5>1. q.pcs[i].peer = p.pcs[i].peer
          BY <2>6, <2>9, <3>3, <4>2
        <5> QED
          BY <3>2, <5>1 DEF Advancing
      <4> QED
        BY <4>1, <4>2
    <3> QED
      BY <3>2, <3>4 DEF Advancing
  <2>13. Online(q) /\ Departing(a, q) /\ Steady(a, q) /\ CallKept(a, q) /\ (silent \/ Loud(a, q))
    BY <2>9 DEF Does, Online, Departing, Steady, CallKept, Loud, Told
  <2>14. q.role = a.role /\ q.ws \in {a.ws, "closed"} /\ (a.overlapped => q.overlapped)
    BY <2>9 DEF Does, Keeps
  <2>15. Does(a, q, K, silent)
    BY <2>10, <2>11, <2>12, <2>13, <2>14, Zenon DEF Does
  <2> QED
    BY <2>8, <2>15
<1>3. CASE Apply(p, m) = Fail(p) \/ Apply(p, m) = p
  BY <1>1, <1>3
<1> QED
  BY <1>2, <1>3 DEF Apply

LEMMA ReleaseDoes ==
    ASSUME NEW a, Shaped(a), NEW K, NEW silent \in BOOLEAN, NEW p, Does(a, p, K, silent),
           NEW held \in Seq(Message), \A k \in DOMAIN held : Speaks(held[k]) => held[k].of \in K
    PROVE  Does(a, Release(p, held), K, silent)
<1>1. PICK f : Releases(f, p, held, Len(held)) /\ Release(p, held) = f[Len(held)]
  BY ReleaseIs
<1> DEFINE S == {n \in Nat : n <= Len(held) => Does(a, f[n], K, silent)}
<1>2. f[0] = p
  BY <1>1 DEF Releases
<1>3. 0 \in S
  BY <1>2
<1>4. ASSUME NEW n \in Nat, n \in S
      PROVE  n + 1 \in S
  <2> SUFFICES ASSUME n + 1 <= Len(held) PROVE Does(a, f[n + 1], K, silent)
    OBVIOUS
  <2>1. Does(a, f[n], K, silent)
    BY <1>4
  <2>2. PICK m \in Message : m = held[n + 1] /\ (Speaks(m) => m.of \in K)
    OBVIOUS
  <2>3. f[n + 1] = Released(f[n], m)
    BY <1>1, <2>2 DEF Releases
  <2>4. CASE f[n].promise = Pending
    BY <2>1, <2>3, <2>4 DEF Released
  <2>5. CASE f[n].promise # Pending
    <3>1. f[n + 1] = Apply(f[n], m)
      BY <2>3, <2>5 DEF Released
    <3> QED
      BY <2>1, <2>2, <2>5, <3>1, ApplyDoes
  <2> QED
    BY <2>4, <2>5
<1>5. Len(held) \in S
  <2> HIDE DEF S
  <2> QED
    BY <1>3, <1>4, SetInduction
<1> QED
  BY <1>1, <1>5

\* A connection is made, which the promise may be given.
LEMMA MadeDoes ==
    ASSUME NEW a, Shaped(a), NEW K, NEW silent \in BOOLEAN, NEW p, Does(a, p, K, silent),
           NEW c \in Connection, c.peer \in K, p.state # CALL_IN_PROGRESS,
           NEW q \in PageType, Keeps(p, q), q.state = p.state, q.ws = p.ws,
           q.outbox = p.outbox, q.pcs = Append(p.pcs, c),
           \/ q.promise = p.promise /\ q.held = p.held
           \/ p.promise = Pending /\ q.promise = Len(q.pcs) /\ q.held = <<>>
    PROVE  Does(a, q, K, silent)
<1>0. /\ p.pcs \in Seq(Connection) /\ a.pcs \in Seq(Connection) /\ p.promise \in 0 .. Len(p.pcs)
      /\ a.promise \in 0 .. Len(a.pcs) /\ Len(a.pcs) <= Len(p.pcs)
  BY DEF Does, Shaped, PageType, Advancing
<1>1. /\ Len(q.pcs) = Len(p.pcs) + 1 /\ q.pcs \in Seq(Connection)
      /\ \A i \in DOMAIN q.pcs : \/ i = Len(q.pcs) /\ q.pcs[i] = c
                                 \/ i \in DOMAIN p.pcs /\ q.pcs[i] = p.pcs[i]
      /\ \A i \in DOMAIN p.pcs : q.pcs[i] = p.pcs[i]
      /\ DOMAIN a.pcs \subseteq DOMAIN p.pcs
      /\ Len(p.pcs) \in Nat /\ Len(a.pcs) \in Nat
  BY <1>0
<1>2. q.promise = p.promise \/ (p.promise = Pending /\ q.promise > Len(a.pcs))
  BY <1>0, <1>1
<1>3. Shaped(q)
  BY <1>0, <1>1 DEF Shaped
<1>4. Within(q, K)
  BY <1>1 DEF Does, Within, Keeps
<1>5. Advancing(a, q)
  <2>1. q.promise \in {a.promise, Pending} \/ q.promise > Len(a.pcs)
    BY <1>2 DEF Does, Advancing
  <2>2. ASSUME NEW i \in DOMAIN a.pcs
        PROVE  \/ q.pcs[i].peer = a.pcs[i].peer \/ a.pcs[i].peer = NoPeer
               \/ i = a.promise /\ q.promise # a.promise
    <3>1. q.pcs[i] = p.pcs[i] /\ i \in 1 .. Len(a.pcs)
      BY <1>0, <1>1
    <3>2. q.promise > Len(a.pcs) => q.promise # a.promise
      BY <1>0, <1>1
    <3> QED
      BY <1>2, <3>1, <3>2 DEF Does, Advancing
  <2>3. Len(a.pcs) <= Len(q.pcs)
    BY <1>0, <1>1
  <2> QED
    BY <2>1, <2>2, <2>3 DEF Advancing
<1>6. q.promise = a.promise => p.promise = a.promise
  BY <1>0, <1>1, <1>2
<1>7. Steady(a, q)
  BY <1>6 DEF Does, Steady
<1>8. silent \/ Loud(a, q)
  <2>1. a.promise # Pending /\ q.promise # a.promise => p.promise # a.promise
    BY <1>2
  <2> QED
    BY <2>1 DEF Does, Loud, Told
<1>9. Online(q) /\ Departing(a, q) /\ CallKept(a, q)
  BY DEF Does, Online, Departing, CallKept
<1>10. q.role = a.role /\ q.ws \in {a.ws, "closed"} /\ (a.overlapped => q.overlapped)
  BY DEF Does, Keeps
<1> QED
  BY <1>3, <1>4, <1>5, <1>7, <1>8, <1>9, <1>10, Zenon DEF Does

LEMMA CreatePCDoes ==
    ASSUME NEW a, Shaped(a), NEW K, NEW silent \in BOOLEAN, NEW p, Does(a, p, K, silent),
           NEW peer \in Nat, peer \in K, p.state # CALL_IN_PROGRESS
    PROVE  Does(a, CreatePC(p, peer), K, silent)
<1>0. p \in PageType /\ p.pcs \in Seq(Connection) /\ PC(peer) \in Connection /\ PC(peer).peer = peer
  BY Typed DEF Does, Shaped, PageType
<1>1. PICK pcs : pcs = Append(p.pcs, PC(peer))
  OBVIOUS
<1>2. pcs \in Seq(Connection) /\ Len(pcs) \in Nat /\ <<>> \in Seq(Message)
  BY <1>0, <1>1
<1>3. CASE p.promise # Pending
  <2>1. PICK q : q = [p EXCEPT !.pcs = pcs]
    OBVIOUS
  <2>2. CreatePC(p, peer) = q
    BY <1>1, <1>3, <2>1 DEF CreatePC
  <2>3. /\ q \in PageType /\ Keeps(p, q) /\ q.pcs = pcs /\ q.promise = p.promise
        /\ q.state = p.state /\ q.ws = p.ws /\ q.outbox = p.outbox /\ q.held = p.held
    BY <1>0, <1>2, <2>1 DEF PageType, Keeps
  <2>4. Does(a, q, K, silent)
    BY <1>0, <1>1, <2>3, MadeDoes
  <2> QED
    BY <2>2, <2>4
<1>4. CASE p.promise = Pending
  <2>1. PICK q : q = [p EXCEPT !.pcs = pcs, !.promise = Len(pcs), !.held = <<>>]
    OBVIOUS
  <2>2. CreatePC(p, peer) = Release(q, p.held)
    <3>1. \A r : r = [p EXCEPT !.pcs = pcs] =>
                   [r EXCEPT !.promise = Len(r.pcs), !.held = <<>>] = q
      BY <1>0, <2>1 DEF PageType
    <3> QED
      BY <1>1, <1>4, <3>1 DEF CreatePC
  <2>3. /\ q \in PageType /\ Keeps(p, q) /\ q.pcs = pcs /\ q.promise = Len(pcs)
        /\ q.state = p.state /\ q.ws = p.ws /\ q.outbox = p.outbox /\ q.held = <<>>
    BY <1>0, <1>2, <2>1 DEF PageType, Keeps
  <2>4. Does(a, q, K, silent)
    BY <1>0, <1>1, <1>4, <2>3, MadeDoes
  <2>5. p.held \in Seq(Message) /\ \A k \in DOMAIN p.held : Speaks(p.held[k]) => p.held[k].of \in K
    BY <1>0 DEF PageType, Does, Within
  <2> QED
    BY <2>2, <2>4, <2>5, ReleaseDoes
<1> QED
  BY <1>3, <1>4

\* The page goes on to the state s, which is no call.
LEMMA SetStateDoes ==
    ASSUME NEW a, Shaped(a), NEW K, NEW silent \in BOOLEAN, NEW p, Does(a, p, K, silent),
           NEW s \in PageState, s # ERROR, s # CALL_IN_PROGRESS, p.ws # "connecting",
           p.promise # Pending /\ p.state >= ESTABLISHING => s >= ESTABLISHING
    PROVE  Does(a, SetState(p, s), K, silent)
<1>0. p \in PageType /\ Online(p)
  BY DEF Does, Shaped
<1>1. PICK q : q = SetState(p, s)
  OBVIOUS
<1>2. /\ q \in PageType /\ q.state = (IF p.state = ERROR THEN ERROR ELSE s) /\ Keeps(p, q)
      /\ q.ws = p.ws /\ q.promise = p.promise /\ q.held = p.held /\ q.pcs = p.pcs
      /\ q.outbox = p.outbox
  BY <1>0, <1>1, SetStateIs
<1>3. Online(q)
  BY <1>0, <1>2 DEF Online
<1>4. q.state # p.state => q.state # CALL_IN_PROGRESS
  BY <1>2
<1>5. p.promise # Pending /\ p.state >= ESTABLISHING => q.state >= ESTABLISHING
  BY <1>2
<1>6. q.role = p.role /\ (p.overlapped => q.overlapped) /\ \A k \in DOMAIN q.waiting : q.waiting[k] \in K
  BY <1>2 DEF Keeps, Does, Within
<1>7. Does(a, q, K, silent)
  BY <1>2, <1>3, <1>4, <1>5, <1>6, GoesDoes
<1> QED
  BY <1>1, <1>7

LEMMA ContinueDoes ==
    ASSUME NEW a, Shaped(a), NEW K, NEW silent \in BOOLEAN, NEW p, Does(a, p, K, silent),
           NEW offer \in Nat, offer \in K
    PROVE  Does(a, Continue(p, offer), K, silent)
<1>0. p \in PageType /\ Online(p) /\ NoPeer \in K /\ NoPeer \in Nat
  BY DEF Does, Shaped, Within
<1>1. PICK q : q = SetState(p, ESTABLISHING)
  OBVIOUS
<1>2. q.state = IF p.state = ERROR THEN ERROR ELSE ESTABLISHING
  BY <1>0, <1>1, SetStateIs, States DEF ERROR, ESTABLISHING
<1>3. q.state # CALL_IN_PROGRESS
  BY <1>2 DEF ERROR, ESTABLISHING, CALL_IN_PROGRESS
<1>4. p.state >= GET_USER_MEDIA => Does(a, q, K, silent)
  <2> SUFFICES ASSUME p.state >= GET_USER_MEDIA PROVE Does(a, q, K, silent)
    OBVIOUS
  <2>1. p.ws # "connecting"
    BY <1>0 DEF Online, GET_USER_MEDIA, WEBSOCKET_CONNECT
  <2>2. /\ ESTABLISHING \in PageState /\ ESTABLISHING # ERROR /\ ESTABLISHING # CALL_IN_PROGRESS
        /\ ESTABLISHING >= ESTABLISHING
    BY States DEF ERROR, ESTABLISHING, CALL_IN_PROGRESS
  <2> QED
    BY <1>1, <2>1, <2>2, SetStateDoes
<1>5. CASE offer = NoPeer
  <2>1. CASE p.state # GET_USER_MEDIA
    BY <1>5, <2>1 DEF Continue, Establish
  <2>2. CASE p.state = GET_USER_MEDIA
    <3>1. Does(a, q, K, silent)
      BY <1>4, <2>2 DEF GET_USER_MEDIA
    <3>2. Does(a, CreatePC(q, NoPeer), K, silent)
      BY <1>0, <1>3, <3>1, CreatePCDoes
    <3> QED
      BY <1>1, <1>5, <2>2, <3>1, <3>2 DEF Continue, Establish
  <2> QED
    BY <2>1, <2>2
<1>6. CASE offer # NoPeer
  <2>1. CASE p.state >= GET_USER_MEDIA
    <3>1. Does(a, CreatePC(q, offer), K, silent)
      BY <1>3, <1>4, <2>1, CreatePCDoes
    <3> QED
      BY <1>1, <1>6, <2>1, <3>1 DEF Continue, MakeAnswer
  <2>2. CASE ~ (p.state >= GET_USER_MEDIA)
    <3>1. p.state # CALL_IN_PROGRESS
      BY <2>2 DEF CALL_IN_PROGRESS, GET_USER_MEDIA
    <3>2. Does(a, CreatePC(p, offer), K, silent)
      BY <3>1, CreatePCDoes
    <3> QED
      BY <1>6, <2>2, <3>2 DEF Continue, MakeAnswer
  <2> QED
    BY <2>1, <2>2
<1> QED
  BY <1>5, <1>6

LEMMA ContinueAllDoes ==
    ASSUME NEW a, Shaped(a), NEW K, NEW silent \in BOOLEAN, NEW p, Does(a, p, K, silent),
           NEW offers \in Seq(Nat), \A k \in DOMAIN offers : offers[k] \in K
    PROVE  Does(a, ContinueAll(p, offers), K, silent)
<1>1. PICK f : Continues(f, p, offers, Len(offers)) /\ ContinueAll(p, offers) = f[Len(offers)]
  BY ContinueAllIs
<1> DEFINE S == {n \in Nat : n <= Len(offers) => Does(a, f[n], K, silent)}
<1>2. f[0] = p
  BY <1>1 DEF Continues
<1>3. 0 \in S
  BY <1>2
<1>4. ASSUME NEW n \in Nat, n \in S
      PROVE  n + 1 \in S
  <2> SUFFICES ASSUME n + 1 <= Len(offers) PROVE Does(a, f[n + 1], K, silent)
    OBVIOUS
  <2>1. Does(a, f[n], K, silent)
    BY <1>4
  <2>2. PICK o \in Nat : o = offers[n + 1] /\ o \in K
    OBVIOUS
  <2>3. f[n + 1] = Continue(f[n], o)
    BY <1>1, <2>2 DEF Continues
  <2> QED
    BY <2>1, <2>2, <2>3, ContinueDoes
<1>5. Len(offers) \in S
  <2> HIDE DEF S
  <2> QED
    BY <1>3, <1>4, SetInduction
<1> QED
  BY <1>1, <1>5

LEMMA RequestDoes ==
    ASSUME NEW a, Shaped(a), NEW K, NEW silent \in BOOLEAN, NEW p, Does(a, p, K, silent),
           NEW offer \in Nat, offer \in K
    PROVE  Does(a, RequestLocalMedia(p, offer), K, silent)
<1>0. p \in PageType /\ p.waiting \in Seq(Nat) /\ Online(p)
  BY DEF Does, Shaped, PageType
<1>1. CASE p.mic = "granted"
  BY <1>1, ContinueDoes DEF RequestLocalMedia
<1>2. CASE p.mic = "denied"
  <2>1. "MEDIA_DENIED" \in Err
    BY DEF Err
  <2> QED
    BY <1>2, <2>1, DieDoes DEF RequestLocalMedia
<1>3. CASE p.mic \notin {"granted", "denied"}
  <2>1. PICK waiting : waiting = Append(p.waiting, offer)
    OBVIOUS
  <2>2. waiting \in Seq(Nat) /\ \A k \in DOMAIN waiting : waiting[k] \in K
    <3>1. /\ waiting \in Seq(Nat)
          /\ \A k \in DOMAIN waiting :
                waiting[k] = offer \/ (k \in DOMAIN p.waiting /\ waiting[k] = p.waiting[k])
      BY <1>0, <2>1
    <3> QED
      BY <3>1 DEF Does, Within
  <2>3. PICK q : q = [p EXCEPT !.mic = "asked", !.waiting = waiting]
    OBVIOUS
  <2>4. RequestLocalMedia(p, offer) = q
    BY <1>3, <2>1, <2>3 DEF RequestLocalMedia
  <2>5. /\ q \in PageType /\ q.pcs = p.pcs /\ q.promise = p.promise
        /\ q.state = p.state /\ q.ws = p.ws /\ q.outbox = p.outbox
        /\ q.held = p.held /\ q.role = p.role
        /\ q.overlapped = p.overlapped /\ q.waiting = waiting
    BY <1>0, <2>2, <2>3 DEF PageType
  <2>6. Online(q)
    BY <1>0, <2>5 DEF Online
  <2>7. Does(a, q, K, silent)
    BY <2>2, <2>5, <2>6, GoesDoes
  <2> QED
    BY <2>4, <2>7
<1> QED
  BY <1>1, <1>2, <1>3

-----------------------------------------------------------------------------
(* What each task does.  What it may learn is in K.                        *)

\* A page before a task.
Ready(a, K) == Shaped(a) /\ a.outbox = <<>> /\ Online(a) /\ Within(a, K)

LEMMA ReadyDoes ==
    ASSUME NEW a, NEW K, Ready(a, K), NEW silent \in BOOLEAN
    PROVE  Shaped(a) /\ Does(a, a, K, silent)
BY BeginsDoes DEF Ready

LEMMA MicGrantedDoes ==
    ASSUME NEW a, NEW K, Ready(a, K)
    PROVE  Does(a, MicGranted(a), K, FALSE)
<1>0. /\ a \in PageType /\ a.overlapped \in BOOLEAN /\ a.waiting \in Seq(Nat)
      /\ Shaped(a) /\ Does(a, a, K, FALSE)
  BY ReadyDoes DEF Ready, Shaped, PageType
<1>1. PICK o \in BOOLEAN : o = (a.overlapped \/ TwoOffers(a.waiting))
  BY <1>0
<1>2. PICK q : q = [a EXCEPT !.mic = "granted", !.waiting = <<>>, !.overlapped = o]
  OBVIOUS
<1>3. MicGranted(a) = Settle(ContinueAll(q, a.waiting))
  BY <1>1, <1>2 DEF MicGranted
<1>4. <<>> \in Seq(Nat) /\ DOMAIN <<>> = {}
  OBVIOUS
<1>5. /\ q \in PageType /\ q.pcs = a.pcs /\ q.promise = a.promise
      /\ q.state = a.state /\ q.ws = a.ws /\ q.outbox = a.outbox
      /\ q.held = a.held /\ q.role = a.role
      /\ q.overlapped = o /\ q.waiting = <<>>
  BY <1>0, <1>1, <1>2, <1>4 DEF PageType
<1>6. Online(q) /\ (a.overlapped => q.overlapped) /\ \A k \in DOMAIN q.waiting : q.waiting[k] \in K
  BY <1>1, <1>4, <1>5 DEF Ready, Online
<1>7. Does(a, q, K, FALSE)
  BY <1>0, <1>5, <1>6, GoesDoes
<1>8. \A k \in DOMAIN a.waiting : a.waiting[k] \in K
  BY DEF Ready, Within
<1>9. Does(a, ContinueAll(q, a.waiting), K, FALSE)
  BY <1>0, <1>7, <1>8, ContinueAllDoes
<1> QED
  BY <1>0, <1>3, <1>9, FailDoes

LEMMA MicDeniedDoes ==
    ASSUME NEW a, NEW K, Ready(a, K)
    PROVE  Does(a, MicDenied(a), K, FALSE)
<1>0. a \in PageType /\ Shaped(a) /\ Does(a, a, K, FALSE)
  BY ReadyDoes DEF Ready, Shaped
<1>1. PICK q : q = [a EXCEPT !.mic = "denied", !.waiting = <<>>]
  OBVIOUS
<1>2. <<>> \in Seq(Nat) /\ DOMAIN <<>> = {}
  OBVIOUS
<1>3. /\ q \in PageType /\ q.pcs = a.pcs /\ q.promise = a.promise
      /\ q.state = a.state /\ q.ws = a.ws /\ q.outbox = a.outbox
      /\ q.held = a.held /\ q.role = a.role
      /\ q.overlapped = a.overlapped /\ q.waiting = <<>>
  BY <1>0, <1>1, <1>2 DEF PageType
<1>4. Online(q) /\ \A k \in DOMAIN q.waiting : q.waiting[k] \in K
  BY <1>2, <1>3 DEF Ready, Online
<1>5. Does(a, q, K, FALSE) /\ "MEDIA_DENIED" \in Err
  BY <1>0, <1>3, <1>4, GoesDoes DEF Err
<1>6. Does(a, Die(q, "MEDIA_DENIED"), K, FALSE)
  BY <1>0, <1>5, DieDoes
<1> QED
  BY <1>1, <1>6 DEF MicDenied

LEMMA LostDoes ==
    ASSUME NEW a, NEW K, Ready(a, K)
    PROVE  Does(a, Lost(a), K, FALSE)
<1>0. a \in PageType /\ Shaped(a) /\ Does(a, a, K, FALSE)
  BY ReadyDoes DEF Ready, Shaped
<1>1. PICK q : q = [a EXCEPT !.ws = "closed"]
  OBVIOUS
<1>2. /\ q \in PageType /\ q.pcs = a.pcs /\ q.promise = a.promise /\ q.outbox = a.outbox
      /\ q.role = a.role /\ q.overlapped = a.overlapped /\ q.waiting = a.waiting /\ q.ws = "closed"
  BY <1>0, <1>1 DEF PageType
<1>3. PICK d : d = Die(q, "WEBSOCKET_ERROR")
  OBVIOUS
<1>4. Closes(q, d) /\ SaysLast(q, d) /\ d.ws = "closed" /\ d.state = ERROR
  BY <1>2, <1>3, DiesFrom DEF Err
<1>5. Closes(a, d)
  BY <1>2, <1>4 DEF Closes
<1>6. SaysLast(a, d)
  BY <1>2, <1>4 DEF SaysLast
<1>7. Online(d) /\ d.state # CALL_IN_PROGRESS /\ Told(d)
  BY <1>4 DEF Online, Told, ERROR, CALL_IN_PROGRESS
<1>8. Does(a, d, K, FALSE)
  BY <1>0, <1>4, <1>5, <1>6, <1>7, ShutDoes
<1> QED
  BY <1>1, <1>3, <1>8 DEF Lost

LEMMA DeathDoes ==
    ASSUME NEW a, NEW K, Ready(a, K), NEW silent \in BOOLEAN
    PROVE  /\ Does(a, PingTimeout(a), K, silent) /\ Does(a, Fail(a), K, silent)
           /\ \A e \in Err : Does(a, Die(a, e), K, silent)
<1>1. Shaped(a) /\ Does(a, a, K, silent) /\ "WEBSOCKET_ERROR" \in Err
  BY ReadyDoes DEF Err
<1> QED
  BY <1>1, DieDoes, FailDoes DEF PingTimeout

\* The page closes its connection at the other end's word, and goes to s.
LEMMA ClosesDoes ==
    ASSUME NEW a, NEW K, Ready(a, K), a.ws = "open", NEW s \in PageState, s # ERROR,
           s # CALL_IN_PROGRESS
    PROVE  /\ Does(a, SetState(ClosePC(a), s), K, TRUE)
           /\ a.state # CALL_IN_PROGRESS => Does(a, ClosePC(a), K, TRUE)
<1>0. a \in PageType /\ Shaped(a) /\ Does(a, a, K, TRUE)
  BY ReadyDoes DEF Ready, Shaped
<1>1. PICK c : c = ClosePC(a)
  OBVIOUS
<1>2. /\ Closes(a, c) /\ c.state = a.state /\ c.ws = "open" /\ c.outbox = a.outbox
      /\ c \in PageType
  BY <1>0, <1>1, ClosePCCloses DEF Closes
<1>3. PICK q : q = SetState(c, s)
  OBVIOUS
<1>4. /\ q \in PageType /\ q.state = (IF c.state = ERROR THEN ERROR ELSE s) /\ Keeps(c, q)
      /\ q.ws = c.ws /\ q.promise = c.promise /\ q.held = c.held /\ q.pcs = c.pcs
      /\ q.outbox = c.outbox
  BY <1>2, <1>3, SetStateIs
<1>5. Closes(a, q) /\ SaysLast(a, q) /\ SaysLast(a, c)
  BY <1>2, <1>4 DEF Closes, SaysLast, Keeps
<1>6. Online(q) /\ Online(c) /\ q.state # CALL_IN_PROGRESS
  BY <1>2, <1>4 DEF Online, ERROR, CALL_IN_PROGRESS
<1>7. Does(a, q, K, TRUE)
  BY <1>0, <1>2, <1>4, <1>5, <1>6, ShutDoes
<1>8. a.state # CALL_IN_PROGRESS => Does(a, c, K, TRUE)
  BY <1>0, <1>2, <1>5, <1>6, ShutDoes
<1> QED
  BY <1>1, <1>3, <1>7, <1>8

\* The news by which a page gives up its connection without a word.
IsNews(m) == m.type \in {"reset", "leave", "offer"}

LEMMA NewsDoes ==
    ASSUME NEW a, NEW K, Ready(a, K), a.ws = "open", NEW m \in Message,
           Speaks(m) => m.of \in K
    PROVE  /\ Does(a, OnLeave(a), K, TRUE) /\ Does(a, OnReset(a), K, TRUE)
           /\ m.type = "offer" => Does(a, OnOffer(a, m), K, TRUE)
<1>0. Shaped(a) /\ Does(a, a, K, TRUE) /\ NoPeer \in Nat /\ NoPeer \in K /\ a.state \in PageState
  BY ReadyDoes DEF Ready, Within, Shaped, PageType
<1>1. /\ ESTABLISHING \in PageState /\ ESTABLISHING # ERROR /\ ESTABLISHING # CALL_IN_PROGRESS
      /\ WAITING_FOR_JOIN \in PageState /\ WAITING_FOR_JOIN # ERROR
      /\ WAITING_FOR_JOIN # CALL_IN_PROGRESS
  BY States DEF ERROR, ESTABLISHING, CALL_IN_PROGRESS, WAITING_FOR_JOIN
<1>2. Does(a, OnLeave(a), K, TRUE)
  BY <1>0, <1>1, ClosesDoes DEF OnLeave
<1>3. PICK q : q = SetState(ClosePC(a), ESTABLISHING)
  OBVIOUS
<1>4. Does(a, q, K, TRUE)
  BY <1>1, <1>3, ClosesDoes
<1>5. Does(a, OnReset(a), K, TRUE)
  <2>1. Does(a, RequestLocalMedia(q, NoPeer), K, TRUE)
    BY <1>0, <1>4, RequestDoes
  <2> QED
    BY <1>0, <1>3, <2>1 DEF OnReset
<1>6. ASSUME m.type = "offer"
      PROVE  Does(a, OnOffer(a, m), K, TRUE)
  <2>1. m.of \in Nat /\ m.of \in K
    BY <1>6 DEF Message, Speaks
  <2>2. CASE a.state < GET_USER_MEDIA
    BY <1>0, <2>2 DEF OnOffer
  <2>3. CASE ~ (a.state < GET_USER_MEDIA) /\ a.state > ESTABLISHING
    <3>1. Does(a, RequestLocalMedia(q, m.of), K, TRUE)
      BY <1>0, <1>4, <2>1, RequestDoes
    <3> QED
      BY <1>3, <2>3, <3>1 DEF OnOffer
  <2>4. CASE ~ (a.state < GET_USER_MEDIA) /\ ~ (a.state > ESTABLISHING)
    <3>1. a.state # CALL_IN_PROGRESS
      BY <2>4 DEF CALL_IN_PROGRESS, ESTABLISHING
    <3>2. Does(a, ClosePC(a), K, TRUE)
      BY <1>1, <3>1, ClosesDoes
    <3>3. Does(a, RequestLocalMedia(ClosePC(a), m.of), K, TRUE)
      BY <1>0, <2>1, <3>2, RequestDoes
    <3> QED
      BY <2>4, <3>3 DEF OnOffer
  <2> QED
    BY <2>2, <2>3, <2>4
<1> QED
  BY <1>2, <1>5, <1>6

LEMMA OnJoinDoes ==
    ASSUME NEW a, NEW K, Ready(a, K), a.ws = "open"
    PROVE  Does(a, OnJoin(a), K, FALSE)
<1>0. Shaped(a) /\ Does(a, a, K, FALSE) /\ NoPeer \in Nat /\ NoPeer \in K
  BY ReadyDoes DEF Ready, Within
<1>1. CASE a.state # WAITING_FOR_JOIN
  BY <1>0, <1>1 DEF OnJoin
<1>2. CASE a.state = WAITING_FOR_JOIN
  <2>1. /\ GET_USER_MEDIA \in PageState /\ GET_USER_MEDIA # ERROR
        /\ GET_USER_MEDIA # CALL_IN_PROGRESS /\ ~ (WAITING_FOR_JOIN >= ESTABLISHING)
    BY States DEF ERROR, ESTABLISHING, CALL_IN_PROGRESS, WAITING_FOR_JOIN, GET_USER_MEDIA
  <2>2. Does(a, SetState(a, GET_USER_MEDIA), K, FALSE)
    BY <1>0, <1>2, <2>1, SetStateDoes
  <2>3. Does(a, RequestLocalMedia(SetState(a, GET_USER_MEDIA), NoPeer), K, FALSE)
    BY <1>0, <2>2, RequestDoes
  <2> QED
    BY <1>2, <2>3 DEF OnJoin
<1> QED
  BY <1>1, <1>2

LEMMA ThroughDoes ==
    ASSUME NEW a, NEW K, Ready(a, K), NEW m \in Message, Speaks(m) => m.of \in K
    PROVE  Does(a, Through(a, m), K, FALSE)
<1>0. a \in PageType /\ Shaped(a) /\ Does(a, a, K, FALSE) /\ a.held \in Seq(Message)
  BY ReadyDoes DEF Ready, Shaped, PageType
<1>1. CASE a.promise # Pending
  BY <1>0, <1>1, ApplyDoes DEF Through
<1>2. CASE a.promise = Pending
  <2>1. PICK held : held = Append(a.held, m)
    OBVIOUS
  <2>2. /\ held \in Seq(Message)
        /\ \A k \in DOMAIN held : held[k] = m \/ (k \in DOMAIN a.held /\ held[k] = a.held[k])
    BY <1>0, <2>1
  <2>3. PICK q : q = [a EXCEPT !.held = held]
    OBVIOUS
  <2>4. Through(a, m) = q
    BY <1>2, <2>1, <2>3 DEF Through
  <2>5. /\ q \in PageType /\ Keeps(a, q) /\ q.pcs = a.pcs /\ q.promise = a.promise
        /\ q.state = a.state /\ q.ws = a.ws /\ q.outbox = a.outbox /\ q.held = held
    BY <1>0, <2>2, <2>3 DEF PageType, Keeps
  <2>6. Within(q, K)
    BY <2>2, <2>5 DEF Ready, Within, Keeps
  <2>7. /\ Shaped(q) /\ Online(q) /\ Departing(a, q) /\ Steady(a, q) /\ CallKept(a, q)
        /\ Loud(a, q)
    BY <2>5 DEF Ready, Shaped, Online, Departing, Steady, CallKept, Loud
  <2>8. Advancing(a, q) /\ q.role = a.role /\ q.ws = a.ws /\ q.overlapped = a.overlapped
    BY <1>0, <2>5 DEF Does, Advancing, Keeps
  <2>9. Does(a, q, K, FALSE)
    BY <2>6, <2>7, <2>8, Zenon DEF Does
  <2> QED
    BY <2>4, <2>9
<1> QED
  BY <1>1, <1>2

\* Only news is followed in silence.
LEMMA ReceivedDoes ==
    ASSUME NEW a, NEW K, Ready(a, K), a.ws = "open", NEW m \in Message,
           Speaks(m) => m.of \in K
    PROVE  Does(a, Received(a, m), K, IsNews(m))
<1>0. Shaped(a) /\ Does(a, a, K, FALSE)
  BY ReadyDoes
<1>1. CASE m.type \in {"join", "answer", "ice-candidate"}
  <2>1. IsNews(m) = FALSE
    BY <1>1 DEF IsNews
  <2>2. Does(a, OnAnswer(a, m), K, FALSE) /\ Does(a, OnIceCandidate(a, m), K, FALSE)
    BY <1>0, ThroughDoes DEF OnAnswer, OnIceCandidate
  <2>3. PICK q : Does(a, q, K, FALSE) /\ Received(a, m) = Settle(q)
    BY <1>1, <2>2, OnJoinDoes DEF Received
  <2>4. Does(a, Settle(q), K, FALSE)
    BY <1>0, <2>3, FailDoes
  <2> QED
    BY <2>1, <2>3, <2>4
<1>2. CASE m.type \in {"leave", "reset", "offer"}
  <2>1. IsNews(m) = TRUE
    BY <1>2 DEF IsNews
  <2>2. PICK q : Does(a, q, K, TRUE) /\ Received(a, m) = Settle(q)
    BY <1>2, NewsDoes DEF Received
  <2>3. Does(a, Settle(q), K, TRUE)
    BY <1>0, <2>2, FailDoes
  <2> QED
    BY <2>1, <2>2, <2>3
<1> QED
  BY <1>1, <1>2 DEF Message, Types

\* One connection becomes c.
LEMMA OneChanges ==
    ASSUME NEW p \in PageType, NEW i \in DOMAIN p.pcs, NEW c \in Connection, NEW q,
           q = [p EXCEPT !.pcs = [p.pcs EXCEPT ![i] = c]]
    PROVE  /\ q \in PageType /\ Keeps(p, q) /\ q.promise = p.promise /\ q.held = p.held
           /\ q.state = p.state /\ q.ws = p.ws /\ q.outbox = p.outbox
           /\ Len(q.pcs) = Len(p.pcs) /\ DOMAIN q.pcs = DOMAIN p.pcs
           /\ \A j \in DOMAIN p.pcs : q.pcs[j] = IF j = i THEN c ELSE p.pcs[j]
<1>1. p.pcs \in Seq(Connection)
  BY DEF PageType
<1>2. PICK pcs : pcs = [p.pcs EXCEPT ![i] = c]
  OBVIOUS
<1>3. /\ pcs \in Seq(Connection) /\ Len(pcs) = Len(p.pcs) /\ DOMAIN pcs = DOMAIN p.pcs
      /\ \A j \in DOMAIN p.pcs : pcs[j] = IF j = i THEN c ELSE p.pcs[j]
  BY <1>1, <1>2
<1>4. /\ q \in PageType /\ Keeps(p, q) /\ q.pcs = pcs /\ q.promise = p.promise
      /\ q.state = p.state /\ q.ws = p.ws /\ q.outbox = p.outbox /\ q.held = p.held
  BY <1>2, <1>3 DEF PageType, Keeps
<1> QED
  BY <1>3, <1>4

\* What ICE says is noted.
LEMMA IceSays ==
    ASSUME NEW p \in PageType, NEW i \in DOMAIN p.pcs, NEW ice \in {"connected", "failed"},
           NEW q, q = [p EXCEPT !.pcs[i].ice = ice]
    PROVE  /\ q \in PageType /\ Keeps(p, q) /\ q.promise = p.promise /\ q.held = p.held
           /\ q.state = p.state /\ q.ws = p.ws /\ q.outbox = p.outbox
           /\ Len(q.pcs) = Len(p.pcs) /\ DOMAIN q.pcs = DOMAIN p.pcs
           /\ \A j \in DOMAIN p.pcs : q.pcs[j].peer = p.pcs[j].peer
<1>0. p.pcs \in Seq(Connection) /\ p.pcs[i] \in Connection
  BY DEF PageType
<1>1. PICK c : c = [p.pcs[i] EXCEPT !.ice = ice]
  OBVIOUS
<1>2. c \in Connection /\ c.peer = p.pcs[i].peer
  BY <1>0, <1>1 DEF Connection
<1>3. q = [p EXCEPT !.pcs = [p.pcs EXCEPT ![i] = c]]
  BY <1>1
<1> QED
  BY <1>2, <1>3, OneChanges

LEMMA IceFailedDoes ==
    ASSUME NEW a, NEW K, Ready(a, K), NEW i \in DOMAIN a.pcs
    PROVE  Does(a, IceFailed(a, i), K, FALSE)
<1>0. /\ a \in PageType /\ Shaped(a) /\ Does(a, a, K, FALSE) /\ a.pcs \in Seq(Connection)
      /\ Online(a) /\ a.state \in PageState /\ a.outbox = <<>>
      /\ a.ws \in {"connecting", "open", "closed"}
  BY ReadyDoes DEF Ready, Shaped, PageType
<1>1. PICK n : n = [a EXCEPT !.pcs[i].ice = "failed"]
  OBVIOUS
<1>2. /\ n \in PageType /\ Keeps(a, n) /\ n.promise = a.promise /\ n.held = a.held
      /\ n.state = a.state /\ n.ws = a.ws /\ n.outbox = a.outbox
      /\ DOMAIN n.pcs = DOMAIN a.pcs /\ \A j \in DOMAIN a.pcs : n.pcs[j].peer = a.pcs[j].peer
  BY <1>0, <1>1, IceSays
<1>3. PICK c : c = ClosePC(n)
  OBVIOUS
<1>4. /\ Closes(n, c) /\ c.state = a.state /\ c.ws = a.ws /\ c.outbox = a.outbox
      /\ c \in PageType /\ c.promise = Pending
  BY <1>2, <1>3, ClosePCCloses DEF Closes
<1>5. Closes(a, c)
  BY <1>2, <1>4 DEF Closes, Keeps
<1>6. \A j \in DOMAIN a.pcs : j # Pending
  BY <1>0
<1>7. CASE a.state = ESTABLISHING
  <2>1. PICK d : d = Die(c, "ICE")
    OBVIOUS
  <2>2. a.ws = "open"
    BY <1>0, <1>7 DEF Online, ESTABLISHING, WEBSOCKET_CONNECT, ERROR
  <2>3. Closes(c, d) /\ SaysLast(c, d) /\ d.ws = "closed" /\ d.state = ERROR
    BY <1>4, <2>1, <2>2, DiesFrom DEF Err
  <2>4. Closes(a, d)
    BY <1>4, <1>5, <1>6, <2>3 DEF Closes
  <2>5. SaysLast(a, d)
    BY <1>4, <2>3 DEF SaysLast
  <2>6. Online(d) /\ d.state # CALL_IN_PROGRESS /\ Told(d)
    BY <2>3 DEF Online, Told, ERROR, CALL_IN_PROGRESS
  <2>7. Does(a, d, K, FALSE)
    BY <1>0, <2>3, <2>4, <2>5, <2>6, ShutDoes
  <2>8. IceFailed(a, i) = Settle(d)
    BY <1>1, <1>3, <1>7, <2>1 DEF IceFailed, ESTABLISHING, CALL_IN_PROGRESS
  <2> QED
    BY <1>0, <2>7, <2>8, FailDoes
<1>8. CASE a.state = CALL_IN_PROGRESS
  <2>0. a.ws = "open"
    BY <1>0, <1>8 DEF Online, CALL_IN_PROGRESS, WEBSOCKET_CONNECT, ERROR
  <2>1. PICK e : e = SetState(c, ESTABLISHING)
    OBVIOUS
  <2> PICK m \in Message : m = Msg("reset") /\ m.type = "reset"
    BY Typed DEF Types
  <2>2. /\ ESTABLISHING \in PageState /\ ESTABLISHING # ERROR /\ ESTABLISHING # CALL_IN_PROGRESS
        /\ CALL_IN_PROGRESS # ERROR
    BY States DEF ERROR, ESTABLISHING, CALL_IN_PROGRESS
  <2>3. /\ e \in PageType /\ e.state = ESTABLISHING /\ Keeps(c, e)
        /\ e.ws = c.ws /\ e.promise = c.promise /\ e.held = c.held /\ e.pcs = c.pcs
        /\ e.outbox = c.outbox
    BY <1>4, <1>8, <2>1, <2>2, SetStateIs
  <2>4. PICK q : q = SendTo(e, m)
    OBVIOUS
  <2>5. /\ q \in PageType /\ Keeps(e, q) /\ q.state = ESTABLISHING /\ q.ws = "open"
        /\ q.promise = e.promise /\ q.held = e.held /\ q.pcs = e.pcs
        /\ q.outbox = Append(a.outbox, m)
    <3>1. e.ws = "open" /\ e.outbox = a.outbox
      BY <1>4, <2>0, <2>3
    <3>2. /\ q \in PageType /\ Keeps(e, q) /\ q.state = e.state /\ q.ws = e.ws
          /\ q.promise = e.promise /\ q.held = e.held /\ q.pcs = e.pcs
          /\ q.outbox = IF e.ws = "open" THEN Append(e.outbox, m) ELSE e.outbox
      BY <2>2, <2>3, <2>4, SendToIs
    <3> QED
      BY <2>3, <3>1, <3>2
  <2>6. Closes(a, q)
    BY <1>5, <2>3, <2>5 DEF Closes, Keeps
  <2>7. SaysLast(a, q)
    BY <2>0, <2>5 DEF SaysLast
  <2>8. Told(q)
    <3>1. q.outbox = <<m>>
      BY <1>0, <2>5
    <3>2. 1 \in DOMAIN q.outbox /\ q.outbox[1] = m
      BY <3>1
    <3> QED
      BY <2>2, <3>2 DEF Told
  <2>9. Online(q) /\ q.state # CALL_IN_PROGRESS
    BY <2>2, <2>5 DEF Online
  <2>10. Does(a, q, K, FALSE)
    BY <1>0, <2>0, <2>5, <2>6, <2>7, <2>8, <2>9, ShutDoes
  <2>11. IceFailed(a, i) = Settle(q)
    BY <1>1, <1>3, <1>8, <2>1, <2>2, <2>4 DEF IceFailed, ESTABLISHING, CALL_IN_PROGRESS
  <2> QED
    BY <1>0, <2>10, <2>11, FailDoes
<1>9. CASE a.state \notin {ESTABLISHING, CALL_IN_PROGRESS}
  <2>1. a.state < ESTABLISHING
    BY <1>0, <1>9 DEF PageState, ERROR, WEBSOCKET_CONNECT, ESTABLISHING, CALL_IN_PROGRESS
  <2>2. Online(c) /\ SaysLast(a, c) /\ c.state # CALL_IN_PROGRESS
    BY <1>0, <1>4, <1>9 DEF Online, SaysLast
  <2>3. Does(a, c, K, FALSE)
    BY <1>0, <1>4, <1>5, <2>1, <2>2, ShutDoes
  <2>4. IceFailed(a, i) = Settle(c)
    BY <1>1, <1>3, <1>9 DEF IceFailed
  <2> QED
    BY <1>0, <2>3, <2>4, FailDoes
<1> QED
  BY <1>7, <1>8, <1>9

-----------------------------------------------------------------------------
(* What a step does to an end, page or phone.                              *)

\* The connection of an end's session, if it has one.
Current(e) ==
    IF e.role # "phone" THEN e.promise
    ELSE IF e.state >= P!ESTABLISHING THEN Len(e.pcs) ELSE Pending

\* An end that has gone as far as to have a session.
Engaged(e) == e.state >= IF e.role # "phone" THEN ESTABLISHING ELSE P!ESTABLISHING

Standing(e) == IF e.role # "phone" THEN Online(e) ELSE e.ws # "open" => e.state = P!AWAY

\* The connections of the other end that an end has heard of.
Hears(e, K) ==
    /\ NoPeer \in K /\ \A i \in DOMAIN e.pcs : e.pcs[i].peer \in K
    /\ e.role # "phone" => Within(e, K)

Says(a, q) ==
    /\ q.outbox # <<>> => a.ws = "open"
    /\ \A k \in DOMAIN q.outbox :
          /\ q.outbox[k].type # "join"
          /\ q.outbox[k].type = "leave" => k = Len(q.outbox) /\ q.ws = "closed"
          /\ Speaks(q.outbox[k]) => /\ Len(q.outbox) = 1 /\ q.outbox[k].of \in DOMAIN a.pcs
                                    /\ q.role = "observer" => Engaged(q)

Advances(a, q) ==
    /\ Len(a.pcs) <= Len(q.pcs)
    /\ Current(q) \in {Current(a), Pending} \/ Current(q) > Len(a.pcs)
    /\ \A i \in DOMAIN a.pcs :
          \/ q.pcs[i].peer = a.pcs[i].peer \/ a.pcs[i].peer = NoPeer
          \/ i = Current(a) /\ Current(q) # Current(a)

Stays(a, q) ==
    Current(q) = Current(a) /\ Current(a) # Pending =>
        /\ Engaged(a) => Engaged(q)
        /\ \A k \in DOMAIN q.outbox : q.outbox[k].type \notin {"reset", "leave"}

Tells(a, q) == Current(a) # Pending /\ Engaged(a) /\ Current(q) # Current(a) => Told(q)

Moves(a, q, K, silent) ==
    /\ q.role = a.role /\ q.ws \in {a.ws, "closed"} /\ Standing(q)
    /\ Hears(q, K) /\ Says(a, q) /\ Advances(a, q) /\ Stays(a, q) /\ (silent \/ Tells(a, q))

LEMMA PageCurrent ==
    ASSUME NEW p \in PageType
    PROVE  /\ Current(p) = p.promise /\ (Engaged(p) <=> p.state >= ESTABLISHING)
           /\ p.role # "phone" /\ (Standing(p) <=> Online(p))
           /\ \A K : Hears(p, K) <=> Within(p, K)
<1>1. p.role # "phone"
  BY DEF PageType
<1> QED
  BY <1>1 DEF Current, Engaged, Standing, Hears, Within

LEMMA DoesMoves ==
    ASSUME NEW a, Shaped(a), NEW K, NEW silent \in BOOLEAN, NEW q, Does(a, q, K, silent)
    PROVE  Moves(a, q, K, silent)
<1>1. a \in PageType /\ q \in PageType
  BY DEF Does, Shaped
<1>2. /\ Current(a) = a.promise /\ Current(q) = q.promise
      /\ (Engaged(a) <=> a.state >= ESTABLISHING) /\ (Engaged(q) <=> q.state >= ESTABLISHING)
      /\ (Standing(q) <=> Online(q)) /\ (Hears(q, K) <=> Within(q, K))
  BY <1>1, PageCurrent
<1>3. Says(a, q)
  <2>1. /\ q.outbox # <<>> => a.ws = "open"
        /\ \A k \in DOMAIN q.outbox :
              \/ q.outbox[k].type = "reset"
              \/ q.outbox[k].type = "leave" /\ k = Len(q.outbox) /\ q.ws = "closed"
    BY DEF Does, Departing
  <2> QED
    BY <2>1 DEF Says, Speaks
<1>4. Advances(a, q)
  BY <1>2 DEF Does, Advancing, Advances
<1>5. Stays(a, q)
  BY <1>2 DEF Does, Steady, Stays
<1>6. silent \/ Tells(a, q)
  BY <1>2 DEF Does, Loud, Tells
<1> QED
  BY <1>2, <1>3, <1>4, <1>5, <1>6 DEF Does, Moves

\* A page that keeps its connections, and says no more than a description or a candidate.
LEMMA KeptMoves ==
    ASSUME NEW a, NEW K, Ready(a, K), NEW q \in PageType, Keeps(a, q),
           q.ws = a.ws, q.promise = a.promise, q.held = a.held,
           Len(q.pcs) = Len(a.pcs), DOMAIN q.pcs = DOMAIN a.pcs,
           \A i \in DOMAIN a.pcs : q.pcs[i].peer = a.pcs[i].peer,
           q.state = a.state \/ (a.state = ESTABLISHING /\ q.state = CALL_IN_PROGRESS),
           \/ q.outbox = <<>>
           \/ /\ a.ws = "open"
              /\ \E m : /\ q.outbox = <<m>> /\ m.type \in {"offer", "answer", "ice-candidate"}
                        /\ Speaks(m) => /\ m.of \in DOMAIN a.pcs
                                        /\ a.role = "observer" => a.state >= ESTABLISHING
    PROVE  Moves(a, q, K, FALSE)
<1>0. a \in PageType /\ Online(a) /\ Within(a, K) /\ Len(a.pcs) \in Nat
  BY DEF Ready, Shaped, PageType
<1>1. /\ Current(a) = a.promise /\ Current(q) = q.promise
      /\ (Engaged(a) <=> a.state >= ESTABLISHING) /\ (Engaged(q) <=> q.state >= ESTABLISHING)
      /\ (Standing(q) <=> Online(q)) /\ (Hears(q, K) <=> Within(q, K))
  BY <1>0, PageCurrent
<1>2. Within(q, K)
  BY <1>0 DEF Within, Keeps
<1>3. Online(q) /\ (a.state >= ESTABLISHING => q.state >= ESTABLISHING)
  BY <1>0 DEF Online, ESTABLISHING, CALL_IN_PROGRESS, ERROR, WEBSOCKET_CONNECT
<1>4. Says(a, q) /\ \A k \in DOMAIN q.outbox : q.outbox[k].type \notin {"reset", "leave"}
  <2>1. CASE q.outbox = <<>>
    BY <2>1 DEF Says
  <2>2. ASSUME a.ws = "open", NEW m, q.outbox = <<m>>,
               m.type \in {"offer", "answer", "ice-candidate"},
               Speaks(m) => /\ m.of \in DOMAIN a.pcs
                            /\ a.role = "observer" => a.state >= ESTABLISHING
        PROVE  Says(a, q) /\ \A k \in DOMAIN q.outbox : q.outbox[k].type \notin {"reset", "leave"}
    <3>1. Len(q.outbox) = 1 /\ \A k \in DOMAIN q.outbox : q.outbox[k] = m
      BY <2>2
    <3>2. Speaks(m) => (q.role = "observer" => Engaged(q))
      BY <1>1, <1>3, <2>2 DEF Keeps
    <3> QED
      BY <2>2, <3>1, <3>2 DEF Says
  <2> QED
    BY <2>1, <2>2
<1>5. Advances(a, q) /\ Stays(a, q) /\ Tells(a, q)
  BY <1>0, <1>1, <1>3, <1>4 DEF Advances, Stays, Tells
<1> QED
  BY <1>1, <1>2, <1>3, <1>4, <1>5 DEF Moves, Keeps

\* What a task does to a page's call.
PageFollows(a, q) == (a.overlapped => q.overlapped) /\ CallKept(a, q)

LEMMA DoesFollows ==
    ASSUME NEW a, NEW K, NEW silent \in BOOLEAN, NEW q, Does(a, q, K, silent)
    PROVE  PageFollows(a, q)
BY DEF Does, PageFollows

\* The page sends a description or a candidate of its connection i, or nothing.
LEMMA SaidMoves ==
    ASSUME NEW a, NEW K, Ready(a, K), NEW p \in PageType, Keeps(a, p),
           p.ws = a.ws, p.promise = a.promise, p.held = a.held, p.outbox = <<>>,
           Len(p.pcs) = Len(a.pcs), DOMAIN p.pcs = DOMAIN a.pcs,
           \A j \in DOMAIN a.pcs : p.pcs[j].peer = a.pcs[j].peer, p.state = a.state,
           NEW m \in Message, m.type \in {"offer", "answer", "ice-candidate"},
           m.of \in DOMAIN a.pcs,
           a.role = "observer" /\ m.type = "answer" => a.state >= ESTABLISHING,
           a.role = "observer" => m.type # "offer",
           NEW q, q = p \/ q = SendTo(p, m)
    PROVE  Moves(a, q, K, FALSE) /\ PageFollows(a, q)
<1>1. CASE q = p
  <2>1. Moves(a, q, K, FALSE)
    BY <1>1, KeptMoves
  <2> QED
    BY <1>1, <2>1 DEF PageFollows, CallKept, Keeps
<1>2. CASE q = SendTo(p, m)
  <2>1. /\ q \in PageType /\ Keeps(p, q) /\ q.ws = p.ws /\ q.promise = p.promise
        /\ q.held = p.held /\ q.pcs = p.pcs /\ q.state = p.state
        /\ q.outbox = IF p.ws = "open" THEN Append(p.outbox, m) ELSE p.outbox
    BY <1>2, SendToIs
  <2>2. Append(<<>>, m) = <<m>>
    OBVIOUS
  <2>3. \/ q.outbox = <<>>
        \/ a.ws = "open" /\ q.outbox = <<m>>
    BY <2>1, <2>2
  <2>4. Speaks(m) => m.of \in DOMAIN a.pcs /\ (a.role = "observer" => a.state >= ESTABLISHING)
    BY DEF Speaks
  <2>5. Keeps(a, q)
    BY <2>1 DEF Keeps
  <2>6. Moves(a, q, K, FALSE)
    BY <2>1, <2>3, <2>4, <2>5, KeptMoves
  <2> QED
    BY <2>1, <2>5, <2>6 DEF PageFollows, CallKept, Keeps
<1> QED
  BY <1>1, <1>2

LEMMA DescribedMoves ==
    ASSUME NEW a, NEW K, Ready(a, K), NEW i \in DOMAIN a.pcs
    PROVE  Moves(a, Described(a, i), K, FALSE) /\ PageFollows(a, Described(a, i))
<1>0. /\ a \in PageType /\ a.pcs \in Seq(Connection) /\ a.pcs[i] \in Connection /\ a.outbox = <<>>
      /\ i \in Nat
  BY DEF Ready, Shaped, PageType
<1>10. a.pcs[i].peer \in Nat
  BY <1>0 DEF Connection
<1>1. PICK c : c = [a.pcs[i] EXCEPT !.desc = "made"]
  OBVIOUS
<1>2. c \in Connection /\ c.peer = a.pcs[i].peer
  BY <1>0, <1>1 DEF Connection
<1>3. PICK p : p = [a EXCEPT !.pcs[i].desc = "made"]
  OBVIOUS
<1>4. p = [a EXCEPT !.pcs = [a.pcs EXCEPT ![i] = c]]
  BY <1>1, <1>3
<1>5. /\ p \in PageType /\ Keeps(a, p) /\ p.promise = a.promise /\ p.held = a.held
      /\ p.state = a.state /\ p.ws = a.ws /\ p.outbox = a.outbox
      /\ Len(p.pcs) = Len(a.pcs) /\ DOMAIN p.pcs = DOMAIN a.pcs
      /\ \A j \in DOMAIN a.pcs : p.pcs[j].peer = a.pcs[j].peer
  BY <1>0, <1>2, <1>4, OneChanges
<1>6. PICK m : m = IF a.role = "glass-wearer" THEN Offer(i) ELSE Answer(i, a.pcs[i].peer)
  OBVIOUS
<1>7. /\ m \in Message /\ m.of = i
      /\ m.type = IF a.role = "glass-wearer" THEN "offer" ELSE "answer"
  BY <1>0, <1>10, <1>6, Typed DEF Offer, Answer, Msg
<1>8. CASE a.role = "glass-wearer" \/ a.state >= ESTABLISHING
  <2>1. Described(a, i) = SendTo(p, m)
    BY <1>3, <1>6, <1>8 DEF Described
  <2> QED
    BY <1>0, <1>5, <1>7, <1>8, <2>1, SaidMoves
<1>9. CASE ~ (a.role = "glass-wearer" \/ a.state >= ESTABLISHING)
  <2>1. Described(a, i) = p
    BY <1>3, <1>9 DEF Described
  <2>2. Moves(a, p, K, FALSE)
    BY <1>0, <1>5, KeptMoves
  <2> QED
    BY <1>5, <2>1, <2>2 DEF PageFollows, CallKept, Keeps
<1> QED
  BY <1>8, <1>9

LEMMA GatheredMoves ==
    ASSUME NEW a, NEW K, Ready(a, K), NEW i \in DOMAIN a.pcs
    PROVE  Moves(a, Gathered(a, i), K, FALSE) /\ PageFollows(a, Gathered(a, i))
<1>0. /\ a \in PageType /\ a.pcs \in Seq(Connection) /\ a.pcs[i] \in Connection /\ a.outbox = <<>>
      /\ i \in Nat
  BY DEF Ready, Shaped, PageType
<1>1. PICK c : c = [a.pcs[i] EXCEPT !.gathers = FALSE]
  OBVIOUS
<1>2. c \in Connection /\ c.peer = a.pcs[i].peer
  BY <1>0, <1>1 DEF Connection
<1>3. PICK p : p = [a EXCEPT !.pcs[i].gathers = FALSE]
  OBVIOUS
<1>4. p = [a EXCEPT !.pcs = [a.pcs EXCEPT ![i] = c]]
  BY <1>1, <1>3
<1>5. /\ p \in PageType /\ Keeps(a, p) /\ p.promise = a.promise /\ p.held = a.held
      /\ p.state = a.state /\ p.ws = a.ws /\ p.outbox = a.outbox
      /\ Len(p.pcs) = Len(a.pcs) /\ DOMAIN p.pcs = DOMAIN a.pcs
      /\ \A j \in DOMAIN a.pcs : p.pcs[j].peer = a.pcs[j].peer
  BY <1>0, <1>2, <1>4, OneChanges
<1>6. PICK m : m = Candidate(i)
  OBVIOUS
<1>7. m \in Message /\ m.of = i /\ m.type = "ice-candidate"
  BY <1>0, <1>6, Typed DEF Candidate, Msg
<1>8. Gathered(a, i) = SendTo(p, m)
  BY <1>3, <1>6 DEF Gathered
<1> QED
  BY <1>0, <1>5, <1>7, <1>8, SaidMoves

LEMMA IceConnectedMoves ==
    ASSUME NEW a, NEW K, Ready(a, K), NEW i \in DOMAIN a.pcs
    PROVE  LET q == IceConnected(a, i)
           IN /\ Moves(a, q, K, FALSE) /\ q.overlapped = a.overlapped /\ q.promise = a.promise
              /\ \A j \in DOMAIN a.pcs : q.pcs[j].peer = a.pcs[j].peer
<1>0. /\ a \in PageType /\ a.outbox = <<>> /\ a.state \in PageState
  BY DEF Ready, Shaped, PageType
<1>1. PICK n : n = [a EXCEPT !.pcs[i].ice = "connected"]
  OBVIOUS
<1>2. /\ n \in PageType /\ Keeps(a, n) /\ n.promise = a.promise /\ n.held = a.held
      /\ n.state = a.state /\ n.ws = a.ws /\ n.outbox = a.outbox
      /\ Len(n.pcs) = Len(a.pcs) /\ DOMAIN n.pcs = DOMAIN a.pcs
      /\ \A j \in DOMAIN a.pcs : n.pcs[j].peer = a.pcs[j].peer
  BY <1>0, <1>1, IceSays
<1>3. PICK q : q = IF a.state = ESTABLISHING THEN SetState(n, CALL_IN_PROGRESS) ELSE n
  OBVIOUS
<1>4. IceConnected(a, i) = q
  BY <1>1, <1>3 DEF IceConnected
<1>5. /\ q \in PageType /\ Keeps(n, q) /\ q.ws = n.ws /\ q.promise = n.promise
      /\ q.held = n.held /\ q.pcs = n.pcs /\ q.outbox = n.outbox
      /\ q.state = a.state \/ (a.state = ESTABLISHING /\ q.state = CALL_IN_PROGRESS)
  <2>1. CASE a.state = ESTABLISHING
    <3>1. CALL_IN_PROGRESS \in PageState /\ CALL_IN_PROGRESS # ERROR /\ ESTABLISHING # ERROR
      BY States DEF CALL_IN_PROGRESS, ERROR, ESTABLISHING
    <3> QED
      BY <1>2, <1>3, <2>1, <3>1, SetStateIs
  <2>2. CASE a.state # ESTABLISHING
    BY <1>2, <1>3, <2>2 DEF Keeps
  <2> QED
    BY <2>1, <2>2
<1>6. Keeps(a, q)
  BY <1>2, <1>5 DEF Keeps
<1>7. Moves(a, q, K, FALSE)
  BY <1>0, <1>2, <1>5, <1>6, KeptMoves
<1> QED
  BY <1>2, <1>4, <1>5, <1>6, <1>7 DEF Keeps

-----------------------------------------------------------------------------
(* What each step does to the phone.                                       *)

CreatedOf(n) == [what |-> "SDP_CREATE_SUCCESS", of |-> n]
ConnectedOf(n) == [what |-> "PC_ICE_CONNECTED", of |-> n]

\* The offer of the session is made once, and its connection has no description before.
Once(e) ==
    e.state >= P!ESTABLISHING =>
        /\ e.creating => e.pcs[Len(e.pcs)].desc = "making"
        /\ \A k \in DOMAIN e.events : e.events[k] = CreatedOf(Len(e.pcs)) =>
              /\ e.pcs[Len(e.pcs)].desc = "making" /\ ~e.creating
              /\ \A l \in DOMAIN e.events : e.events[l] = CreatedOf(Len(e.pcs)) => l = k

\* The phone is in a call, or is about to be.
Claims(e) ==
    /\ e.state >= P!ESTABLISHING
    /\ \/ e.state = P!CALL_IN_PROGRESS
       \/ \E k \in DOMAIN e.events : e.events[k] = ConnectedOf(Len(e.pcs))

\* Unless it is misled, the phone has a new session of which nothing is known yet, or it is
\* still in the same, whose offer it sends once, and whose call begins if it is `paired'.
PhoneFollows(a, q, paired) ==
    /\ a.misled => q.misled
    /\ ~q.misled => Once(q)
    /\ ~q.misled /\ q.state >= P!ESTABLISHING =>
         \/ /\ Len(q.pcs) > Len(a.pcs) /\ ~Claims(q)
            /\ \A k \in DOMAIN q.outbox : ~Speaks(q.outbox[k])
         \/ /\ Len(q.pcs) = Len(a.pcs) /\ a.state >= P!ESTABLISHING
            /\ q.pcs[Len(q.pcs)].desc = "making" =>
                  /\ a.pcs[Len(q.pcs)].desc = "making"
                  /\ \A k \in DOMAIN q.outbox : ~Speaks(q.outbox[k])
            /\ \A k \in DOMAIN q.outbox : Speaks(q.outbox[k]) =>
                  a.pcs[Len(q.pcs)].desc = "making" /\ q.outbox[k].of = Len(q.pcs)
            /\ Claims(q) => Claims(a) \/ paired

LEMMA PhoneSaid ==
    /\ \A t \in Types : P!Msg(t) \in Message /\ P!Msg(t).type = t
    /\ \A i \in Nat : /\ P!Offer(i) \in Message /\ P!Offer(i).type = "offer" /\ P!Offer(i).of = i
                      /\ P!Candidate(i) \in Message /\ P!Candidate(i).type = "ice-candidate"
    /\ P!NoPeer = NoPeer
    /\ P!PC(P!NoPeer) \in Connection /\ P!PC(P!NoPeer).peer = NoPeer
    /\ P!PC(P!NoPeer).desc = "making"
    /\ P!ClosedPC \in Connection /\ P!ClosedPC.peer = NoPeer
BY PhoneTyped DEF P!Msg, P!Offer, P!Candidate, P!NoPeer, P!PC, P!ClosedPC, Types

\* The session is taken down, and another may be begun.
Parts(ph, q) ==
    /\ q.role = ph.role /\ q.misled = ph.misled /\ q.events = ph.events
    /\ q.ws \in {ph.ws, "closed"} /\ Departing(ph, q)
    /\ \A i \in DOMAIN ph.pcs :
          q.pcs[i].peer = IF i = Len(ph.pcs) /\ ph.state >= P!ESTABLISHING THEN NoPeer
                          ELSE ph.pcs[i].peer
    /\ ph.state >= P!ESTABLISHING => Told(q)
    /\ \/ q.state < P!ESTABLISHING /\ Len(q.pcs) = Len(ph.pcs)
       \/ /\ q.state = P!ESTABLISHING /\ Len(q.pcs) = Len(ph.pcs) + 1
          /\ q.pcs[Len(q.pcs)].peer = NoPeer /\ q.pcs[Len(q.pcs)].desc = "making"

LEMMA ClosedParts ==
    ASSUME NEW ph, Working(ph), ph.outbox = <<>>
    PROVE  LET q == P!CloseSession(ph)
           IN /\ Working(q) /\ q.role = ph.role /\ q.misled = ph.misled /\ q.events = ph.events
              /\ q.ws = ph.ws /\ q.state = ph.state /\ Len(q.pcs) = Len(ph.pcs)
              /\ \A i \in DOMAIN ph.pcs :
                    q.pcs[i].peer = IF i = Len(ph.pcs) /\ ph.state >= P!ESTABLISHING THEN NoPeer
                                    ELSE ph.pcs[i].peer
              /\ q.outbox = IF ph.state >= P!ESTABLISHING /\ ph.ws = "open"
                            THEN <<P!Msg("reset")>> ELSE <<>>
<1>0. /\ ph \in PhoneType /\ ph.pcs \in Seq(Connection) /\ ph.state \in Int
      /\ Working(P!CloseSession(ph)) /\ P!ESTABLISHING \in Int
  BY CloseSessionWorks, PhoneStates DEF Working, PhoneType
<1>1. CASE ph.state < P!ESTABLISHING
  <2>1. ~ (ph.state >= P!ESTABLISHING)
    BY <1>0, <1>1
  <2> QED
    BY <1>0, <1>1, <2>1 DEF P!CloseSession
<1>2. CASE ~ (ph.state < P!ESTABLISHING)
  <2>1. ph.state >= P!ESTABLISHING /\ Len(ph.pcs) \in DOMAIN ph.pcs
    <3>1. ph.state >= P!ESTABLISHING
      BY <1>0, <1>2
    <3> QED
      BY <1>0, <3>1 DEF Working
  <2>2. PICK pcs : pcs = [ph.pcs EXCEPT ![Len(ph.pcs)] = P!ClosedPC]
    OBVIOUS
  <2>3. /\ pcs \in Seq(Connection) /\ Len(pcs) = Len(ph.pcs)
        /\ \A i \in DOMAIN ph.pcs : pcs[i] = IF i = Len(ph.pcs) THEN P!ClosedPC ELSE ph.pcs[i]
    BY <1>0, <2>1, <2>2, PhoneSaid
  <2>4. PICK m \in Message : m = P!Msg("reset")
    BY PhoneSaid DEF Types
  <2>5. PICK out : out = IF ph.ws = "open" THEN <<m>> ELSE <<>>
    OBVIOUS
  <2>6. PICK q : q = [ph EXCEPT !.outbox = out, !.pcs = pcs, !.creating = FALSE]
    OBVIOUS
  <2>7. P!CloseSession(ph) = q
    <3>1. P!SendTo(ph, m) = [ph EXCEPT !.outbox = out]
      <4>1. CASE ph.ws = "open"
        <5>1. Append(ph.outbox, m) = out
          BY <2>5, <4>1
        <5> QED
          BY <4>1, <5>1 DEF P!SendTo
      <4>2. CASE ph.ws # "open"
        <5>1. out = ph.outbox /\ [ph EXCEPT !.outbox = ph.outbox] = ph
          BY <1>0, <2>5, <4>2 DEF PhoneType
        <5> QED
          BY <4>2, <5>1 DEF P!SendTo
      <4> QED
        BY <4>1, <4>2
    <3>2. \A s : s = [ph EXCEPT !.outbox = out] => s.pcs = ph.pcs
      BY <1>0 DEF PhoneType
    <3>3. \A s : s = [ph EXCEPT !.outbox = out] =>
            [s EXCEPT !.pcs[Len(ph.pcs)] = P!ClosedPC, !.creating = FALSE]
              = [s EXCEPT !.pcs = pcs, !.creating = FALSE]
      BY <2>2, <3>2
    <3> QED
      BY <1>2, <2>4, <2>6, <3>1, <3>3 DEF P!CloseSession, P!Session
  <2>8. /\ q.role = ph.role /\ q.misled = ph.misled /\ q.events = ph.events
        /\ q.ws = ph.ws /\ q.state = ph.state /\ q.pcs = pcs /\ q.outbox = out
    BY <1>0, <2>6 DEF PhoneType
  <2> QED
    BY <1>0, <2>1, <2>3, <2>4, <2>5, <2>7, <2>8, PhoneSaid
<1> QED
  BY <1>1, <1>2

\* What is said with the end of a session, and with that of the connection to the room.
Parting(ph, out, last) ==
    out = (IF ph.state >= P!ESTABLISHING /\ ph.ws = "open" THEN <<P!Msg("reset")>> ELSE <<>>)
          \o (IF ph.ws = "open" THEN last ELSE <<>>)

LEMMA PartingSays ==
    ASSUME NEW ph, Working(ph), NEW last \in {<<>>, <<P!Msg("leave")>>}, NEW q,
           Parting(ph, q.outbox, last), q.ws \in {ph.ws, "closed"},
           last # <<>> => q.ws = "closed"
    PROVE  Departing(ph, q) /\ (ph.state >= P!ESTABLISHING => Told(q))
<1>1. PICK r \in Message : r = P!Msg("reset") /\ r.type = "reset"
  BY PhoneSaid DEF Types
<1>2. PICK l \in Message : l = P!Msg("leave") /\ l.type = "leave"
  BY PhoneSaid DEF Types
<1>3. <<r>> \o <<>> = <<r>> /\ <<>> \o <<l>> = <<l>>
      /\ <<>> \o <<>> = <<>>
  <2>1. <<r>> \o <<>> = <<r>>
    OBVIOUS
  <2>3. <<>> \o <<l>> = <<l>>
    OBVIOUS
  <2>4. <<>> \o <<>> = <<>>
    OBVIOUS
  <2> QED
    BY <2>1, <2>3, <2>4
<1>7. /\ DOMAIN <<r>> = {1} /\ <<r>>[1] = r /\ DOMAIN <<l>> = {1} /\ <<l>>[1] = l
      /\ Len(<<l>>) = 1
  OBVIOUS
<1>9. PICK rl \in Seq(Message) : rl = <<r>> \o <<l>>
  <2>1. <<r>> \in Seq(Message) /\ <<l>> \in Seq(Message)
    OBVIOUS
  <2>2. \A s, t \in Seq(Message) : s \o t \in Seq(Message)
    OBVIOUS
  <2> QED
    BY <2>1, <2>2
<1>10. DOMAIN rl = {1, 2} /\ Len(rl) = 2 /\ rl[1] = r /\ rl[2] = l
  BY <1>9
<1>8. DOMAIN <<>> = {}
  OBVIOUS
<1>4. CASE ph.ws # "open"
  <2>1. q.outbox = <<>> /\ q.ws # "open"
    BY <1>3, <1>4 DEF Parting
  <2> QED
    BY <2>1 DEF Departing, Told
<1>5. CASE ph.ws = "open" /\ ph.state >= P!ESTABLISHING
  <2>1. q.outbox = <<r>> \/ (q.outbox = rl /\ q.ws = "closed")
    BY <1>1, <1>2, <1>3, <1>5, <1>9 DEF Parting
  <2>2. \A k \in DOMAIN q.outbox :
           \/ q.outbox[k].type = "reset"
           \/ q.outbox[k].type = "leave" /\ k = Len(q.outbox) /\ q.ws = "closed"
    BY <1>1, <1>2, <1>7, <1>10, <2>1
  <2>3. 1 \in DOMAIN q.outbox /\ q.outbox[1].type = "reset"
    BY <1>1, <1>7, <1>10, <2>1
  <2> QED
    BY <1>5, <2>2, <2>3 DEF Departing, Told
<1>6. CASE ph.ws = "open" /\ ~ (ph.state >= P!ESTABLISHING)
  <2>1. q.outbox = <<>> \/ (q.outbox = <<l>> /\ q.ws = "closed")
    BY <1>2, <1>3, <1>6 DEF Parting
  <2>2. \A k \in DOMAIN q.outbox :
           q.outbox[k].type = "leave" /\ k = Len(q.outbox) /\ q.ws = "closed"
    BY <1>2, <1>7, <1>8, <2>1
  <2> QED
    BY <1>6, <2>2 DEF Departing
<1> QED
  BY <1>4, <1>5, <1>6

LEMMA GoDownParts ==
    ASSUME NEW ph, Working(ph), ph.outbox = <<>>, NEW s \in P!PhoneState, s < P!ESTABLISHING
    PROVE  LET q == P!GoDown(ph, s)
           IN Parts(ph, q) /\ q.state = s /\ q.ws = ph.ws /\ Parting(ph, q.outbox, <<>>)
<1>1. PICK c : c = P!CloseSession(ph)
  OBVIOUS
<1>2. /\ Working(c) /\ c.role = ph.role /\ c.misled = ph.misled /\ c.events = ph.events
      /\ c.ws = ph.ws /\ Len(c.pcs) = Len(ph.pcs)
      /\ \A i \in DOMAIN ph.pcs :
            c.pcs[i].peer = IF i = Len(ph.pcs) /\ ph.state >= P!ESTABLISHING THEN NoPeer
                            ELSE ph.pcs[i].peer
      /\ c.outbox = IF ph.state >= P!ESTABLISHING /\ ph.ws = "open"
                    THEN <<P!Msg("reset")>> ELSE <<>>
  BY <1>1, ClosedParts
<1>3. PICK q : q = [c EXCEPT !.state = s]
  OBVIOUS
<1>4. P!GoDown(ph, s) = q
  BY <1>1, <1>3 DEF P!GoDown
<1>5. /\ q.role = c.role /\ q.misled = c.misled /\ q.events = c.events /\ q.ws = c.ws
      /\ q.pcs = c.pcs /\ q.outbox = c.outbox /\ q.state = s
  BY <1>2, <1>3 DEF Working, PhoneType
<1>6. Parting(ph, q.outbox, <<>>)
  <2>1. <<>> \o <<>> = <<>> /\ <<P!Msg("reset")>> \o <<>> = <<P!Msg("reset")>>
    OBVIOUS
  <2> QED
    BY <1>2, <1>5, <2>1 DEF Parting
<1>7. Departing(ph, q) /\ (ph.state >= P!ESTABLISHING => Told(q))
  BY <1>2, <1>5, <1>6, PartingSays
<1> QED
  BY <1>2, <1>4, <1>5, <1>6, <1>7 DEF Parts

LEMMA OpenSessionParts ==
    ASSUME NEW ph, Working(ph), ph.outbox = <<>>
    PROVE  LET q == P!OpenSession(ph)
           IN Parts(ph, q) /\ q.state = P!ESTABLISHING /\ q.ws = ph.ws
<1>1. PICK c : c = P!CloseSession(ph)
  OBVIOUS
<1>2. /\ Working(c) /\ c.role = ph.role /\ c.misled = ph.misled /\ c.events = ph.events
      /\ c.ws = ph.ws /\ Len(c.pcs) = Len(ph.pcs)
      /\ \A i \in DOMAIN ph.pcs :
            c.pcs[i].peer = IF i = Len(ph.pcs) /\ ph.state >= P!ESTABLISHING THEN NoPeer
                            ELSE ph.pcs[i].peer
      /\ c.outbox = IF ph.state >= P!ESTABLISHING /\ ph.ws = "open"
                    THEN <<P!Msg("reset")>> ELSE <<>>
  BY <1>1, ClosedParts
<1>3. c \in PhoneType /\ c.pcs \in Seq(Connection) /\ ph.pcs \in Seq(Connection)
  BY <1>2 DEF Working, PhoneType
<1>4. PICK n \in Connection : n = P!PC(P!NoPeer) /\ n.peer = NoPeer /\ n.desc = "making"
  BY PhoneSaid
<1>5. PICK pcs : pcs = Append(c.pcs, n)
  OBVIOUS
<1>6. /\ Len(pcs) = Len(ph.pcs) + 1 /\ pcs[Len(pcs)] = n
      /\ \A i \in DOMAIN ph.pcs : pcs[i] = c.pcs[i]
  BY <1>2, <1>3, <1>4, <1>5
<1>7. PICK q : q = [c EXCEPT !.state = P!ESTABLISHING, !.pcs = pcs, !.creating = TRUE]
  OBVIOUS
<1>8. P!OpenSession(ph) = q
  <2>1. PICK d : d = [c EXCEPT !.state = P!ESTABLISHING]
    OBVIOUS
  <2>2. d = P!GoDown(ph, P!ESTABLISHING)
    BY <1>1, <2>1 DEF P!GoDown
  <2>3. d.pcs = c.pcs
    BY <1>3, <2>1 DEF PhoneType
  <2>4. P!OpenSession(ph) = [d EXCEPT !.pcs = pcs, !.creating = TRUE]
    BY <1>4, <1>5, <2>2, <2>3 DEF P!OpenSession
  <2> QED
    BY <1>7, <2>1, <2>4
<1>9. /\ q.role = c.role /\ q.misled = c.misled /\ q.events = c.events /\ q.ws = c.ws
      /\ q.pcs = pcs /\ q.outbox = c.outbox /\ q.state = P!ESTABLISHING
  BY <1>3, <1>7 DEF PhoneType
<1>10. Parting(ph, q.outbox, <<>>)
  <2>1. <<>> \o <<>> = <<>> /\ <<P!Msg("reset")>> \o <<>> = <<P!Msg("reset")>>
    OBVIOUS
  <2> QED
    BY <1>2, <1>9, <2>1 DEF Parting
<1>11. Departing(ph, q) /\ (ph.state >= P!ESTABLISHING => Told(q))
  BY <1>2, <1>9, <1>10, PartingSays
<1> QED
  BY <1>2, <1>4, <1>6, <1>8, <1>9, <1>11 DEF Parts

LEMMA GoAwayParts ==
    ASSUME NEW ph, Working(ph), ph.outbox = <<>>
    PROVE  LET q == P!GoAway(ph)
           IN Parts(ph, q) /\ q.state = P!AWAY /\ q.ws = "closed"
<1>1. PICK d : d = P!GoDown(ph, P!AWAY)
  OBVIOUS
<1>2. /\ Parts(ph, d) /\ d.state = P!AWAY /\ d.ws = ph.ws /\ Parting(ph, d.outbox, <<>>)
      /\ Working(d)
  BY <1>1, PhoneStates, GoDownParts, GoDownWorks
<1>3. PICK l \in Message : l = P!Msg("leave")
  BY PhoneSaid DEF Types
<1>4. PICK out : out = IF ph.ws = "open" THEN Append(d.outbox, l) ELSE d.outbox
  OBVIOUS
<1>5. d \in PhoneType /\ d.outbox \in Seq(Message)
  BY <1>2 DEF Working, PhoneType
<1>6. Parting(ph, out, <<l>>)
  <2>1. PICK o : o = IF ph.state >= P!ESTABLISHING /\ ph.ws = "open"
                     THEN <<P!Msg("reset")>> ELSE <<>>
    OBVIOUS
  <2>2. o \in Seq(Message)
    BY <2>1, PhoneSaid DEF Types
  <2>3. d.outbox = o \o <<>>
    <3>1. d.outbox = o \o IF ph.ws = "open" THEN <<>> ELSE <<>>
      BY <1>2, <2>1 DEF Parting
    <3> QED
      BY <3>1
  <2>4. out = o \o IF ph.ws = "open" THEN <<l>> ELSE <<>>
    BY <1>3, <1>4, <2>2, <2>3
  <2> QED
    BY <2>1, <2>4 DEF Parting
<1>7. PICK q : q = [d EXCEPT !.outbox = out, !.ws = "closed"]
  OBVIOUS
<1>8. P!GoAway(ph) = q
  <2>1. CASE ph.ws = "open"
    <3>1. P!SendTo(d, l) = [d EXCEPT !.outbox = out]
      BY <1>2, <1>4, <2>1 DEF P!SendTo
    <3> QED
      BY <1>1, <1>3, <1>7, <3>1 DEF P!GoAway
  <2>2. CASE ph.ws # "open"
    <3>1. P!SendTo(d, l) = d /\ out = d.outbox
      BY <1>2, <1>4, <2>2 DEF P!SendTo
    <3>2. P!GoAway(ph) = [d EXCEPT !.ws = "closed"]
      BY <1>1, <1>3, <3>1 DEF P!GoAway
    <3>3. [d EXCEPT !.ws = "closed"] = [d EXCEPT !.outbox = d.outbox, !.ws = "closed"]
      BY <1>5 DEF PhoneType
    <3> QED
      BY <1>7, <3>1, <3>2, <3>3
  <2> QED
    BY <2>1, <2>2
<1>9. /\ q.role = d.role /\ q.misled = d.misled /\ q.events = d.events /\ q.ws = "closed"
      /\ q.pcs = d.pcs /\ q.outbox = out /\ q.state = P!AWAY
  BY <1>2, <1>5, <1>7 DEF PhoneType
<1>10. Departing(ph, q) /\ (ph.state >= P!ESTABLISHING => Told(q))
  BY <1>3, <1>6, <1>9, PartingSays
<1>11. P!AWAY < P!ESTABLISHING /\ ~ (P!AWAY = P!ESTABLISHING)
  BY PhoneStates DEF P!AWAY, P!ESTABLISHING
<1>12. Len(q.pcs) = Len(ph.pcs)
  BY <1>2, <1>9, <1>11 DEF Parts
<1> QED
  BY <1>2, <1>8, <1>9, <1>10, <1>11, <1>12 DEF Parts

\* The phone before a task: what it hears is in K.
PhoneReady(a, K) ==
    /\ Working(a) /\ a.outbox = <<>> /\ Standing(a) /\ Hears(a, K)
    /\ ~a.misled => Once(a)

\* No task but that of a join takes the phone above WAITING_FOR_OBSERVER.
Stoops(a, q) == q.state > P!WAITING_FOR_OBSERVER => a.state > P!WAITING_FOR_OBSERVER

LEMMA PhoneCurrent ==
    ASSUME NEW e, Working(e)
    PROVE  /\ e.role = "phone" /\ (Engaged(e) <=> e.state >= P!ESTABLISHING)
           /\ Current(e) = IF e.state >= P!ESTABLISHING THEN Len(e.pcs) ELSE Pending
           /\ Standing(e) <=> (e.ws # "open" => e.state = P!AWAY)
           /\ \A K : Hears(e, K) <=> NoPeer \in K /\ \A i \in DOMAIN e.pcs : e.pcs[i].peer \in K
<1>1. e.role = "phone"
  BY DEF Working, PhoneType
<1> QED
  BY <1>1 DEF Current, Engaged, Standing, Hears

LEMMA PartsMoves ==
    ASSUME NEW a, NEW K, PhoneReady(a, K),
           NEW ph, Working(ph), ph.pcs = a.pcs, ph.state = a.state, ph.ws \in {a.ws, "closed"},
           a.misled => ph.misled,
           NEW q, Working(q), Parts(ph, q), q.ws # "open" => q.state = P!AWAY
    PROVE  Moves(a, q, K, FALSE) /\ PhoneFollows(a, q, FALSE) /\ ~Claims(q)
<1>0. /\ Working(a) /\ a.pcs \in Seq(Connection) /\ Len(a.pcs) \in Nat /\ a.state \in Int
      /\ q.state \in Int /\ P!ESTABLISHING \in Int
      /\ a.state >= P!ESTABLISHING => Len(a.pcs) # 0
      /\ q.pcs \in Seq(Connection) /\ a.pcs = ph.pcs /\ P!ESTABLISHING # P!CALL_IN_PROGRESS
  BY PhoneStates DEF PhoneReady, Working, PhoneType, P!ESTABLISHING, P!CALL_IN_PROGRESS
<1>1. /\ a.role = "phone" /\ q.role = "phone"
      /\ Engaged(a) <=> a.state >= P!ESTABLISHING
      /\ Current(a) = IF a.state >= P!ESTABLISHING THEN Len(a.pcs) ELSE Pending
      /\ Current(q) = IF q.state >= P!ESTABLISHING THEN Len(q.pcs) ELSE Pending
      /\ Standing(q)
      /\ Hears(q, K) <=> NoPeer \in K /\ \A i \in DOMAIN q.pcs : q.pcs[i].peer \in K
      /\ NoPeer \in K /\ \A i \in DOMAIN a.pcs : a.pcs[i].peer \in K
  BY <1>0, PhoneCurrent DEF PhoneReady
<1>2. \/ q.state < P!ESTABLISHING /\ Len(q.pcs) = Len(a.pcs)
      \/ /\ q.state = P!ESTABLISHING /\ Len(q.pcs) = Len(a.pcs) + 1
         /\ q.pcs[Len(q.pcs)].peer = NoPeer /\ q.pcs[Len(q.pcs)].desc = "making"
  BY <1>0 DEF Parts
<1>3. \A i \in DOMAIN a.pcs :
         q.pcs[i].peer = IF i = Len(a.pcs) /\ a.state >= P!ESTABLISHING THEN NoPeer
                         ELSE a.pcs[i].peer
  BY DEF Parts
<1>4. Hears(q, K)
  <2>1. ASSUME NEW i \in DOMAIN q.pcs
        PROVE  q.pcs[i].peer \in K
    <3>1. i \in DOMAIN a.pcs \/ (q.pcs[i].peer = NoPeer /\ i = Len(q.pcs))
      BY <1>0, <1>2
    <3> QED
      BY <1>1, <1>3, <3>1
  <2> QED
    BY <1>1, <2>1
<1>5. Current(q) = Pending \/ Current(q) > Len(a.pcs)
  BY <1>0, <1>1, <1>2
<1>6. Current(a) # Pending => Current(q) # Current(a)
  BY <1>0, <1>1, <1>5
<1>7. Says(a, q)
  <2>1. /\ q.outbox # <<>> => a.ws = "open"
        /\ \A k \in DOMAIN q.outbox :
              \/ q.outbox[k].type = "reset"
              \/ q.outbox[k].type = "leave" /\ k = Len(q.outbox) /\ q.ws = "closed"
    BY DEF Parts, Departing
  <2> QED
    BY <2>1 DEF Says, Speaks
<1>8. Advances(a, q)
  <2>1. Len(a.pcs) <= Len(q.pcs)
    BY <1>0, <1>2
  <2>2. \A i \in DOMAIN a.pcs :
           \/ q.pcs[i].peer = a.pcs[i].peer \/ a.pcs[i].peer = NoPeer
           \/ i = Current(a) /\ Current(q) # Current(a)
    <3> SUFFICES ASSUME NEW i \in DOMAIN a.pcs, q.pcs[i].peer # a.pcs[i].peer
                 PROVE  i = Current(a) /\ Current(q) # Current(a)
      OBVIOUS
    <3>1. i = Len(a.pcs) /\ a.state >= P!ESTABLISHING
      BY <1>3
    <3> QED
      BY <1>0, <1>1, <1>6, <3>1
  <2> QED
    BY <1>5, <2>1, <2>2 DEF Advances
<1>9. Stays(a, q) /\ Tells(a, q)
  <2>1. a.state >= P!ESTABLISHING => Told(q)
    BY DEF Parts
  <2> QED
    BY <1>1, <1>6, <2>1 DEF Stays, Tells
<1>10. Moves(a, q, K, FALSE)
  <2>1. q.ws \in {a.ws, "closed"}
    BY DEF Parts
  <2> QED
    BY <1>1, <1>4, <1>7, <1>8, <1>9, <2>1 DEF Moves
<1>11. q.state >= P!ESTABLISHING =>
           /\ Len(q.pcs) > Len(a.pcs) /\ q.state = P!ESTABLISHING
           /\ q.pcs[Len(q.pcs)].desc = "making"
           /\ \A k \in DOMAIN q.events : q.events[k].of # Len(q.pcs)
  <2> SUFFICES ASSUME q.state >= P!ESTABLISHING
               PROVE  /\ Len(q.pcs) > Len(a.pcs) /\ q.state = P!ESTABLISHING
                      /\ q.pcs[Len(q.pcs)].desc = "making"
                      /\ \A k \in DOMAIN q.events : q.events[k].of # Len(q.pcs)
    OBVIOUS
  <2>1. /\ Len(q.pcs) = Len(a.pcs) + 1 /\ q.state = P!ESTABLISHING
        /\ q.pcs[Len(q.pcs)].desc = "making"
    BY <1>0, <1>2
  <2>2. \A k \in DOMAIN q.events : q.events[k].of \in DOMAIN a.pcs
    BY DEF Parts, Working
  <2>3. Len(q.pcs) \notin DOMAIN a.pcs
    BY <1>0, <2>1
  <2> QED
    BY <1>0, <2>1, <2>2, <2>3
<1>12. Once(q)
  <2>1. CreatedOf(Len(q.pcs)).of = Len(q.pcs)
    BY DEF CreatedOf
  <2> QED
    BY <1>11, <2>1 DEF Once
<1>13. ~Claims(q)
  <2>1. ConnectedOf(Len(q.pcs)).of = Len(q.pcs)
    BY DEF ConnectedOf
  <2> QED
    BY <1>0, <1>11, <2>1 DEF Claims
<1>14. \A k \in DOMAIN q.outbox : ~Speaks(q.outbox[k])
  BY DEF Parts, Departing, Speaks
<1>15. a.misled => q.misled
  BY DEF Parts
<1> QED
  BY <1>10, <1>11, <1>12, <1>13, <1>14, <1>15 DEF PhoneFollows

\* The phone stays in its session, or without one.
LEMMA KeptPhoneMoves ==
    ASSUME NEW a, NEW K, PhoneReady(a, K), NEW q, Working(q), q.ws = a.ws,
           a.misled => q.misled, Len(q.pcs) = Len(a.pcs),
           \A i \in DOMAIN a.pcs : \/ q.pcs[i].peer = a.pcs[i].peer
                                   \/ a.pcs[i].peer = NoPeer /\ q.pcs[i].peer \in K,
           a.state >= P!ESTABLISHING <=> q.state >= P!ESTABLISHING,
           q.ws # "open" => q.state = P!AWAY, ~q.misled => Once(q),
           q.state >= P!ESTABLISHING /\ q.pcs[Len(q.pcs)].desc = "making" =>
               a.pcs[Len(q.pcs)].desc = "making",
           \/ q.outbox = <<>>
           \/ /\ a.ws = "open"
              /\ \E m : /\ q.outbox = <<m>> /\ m.type \in {"offer", "ice-candidate"}
                        /\ Speaks(m) =>
                              /\ m.of \in DOMAIN a.pcs
                              /\ ~q.misled => /\ m.of = Len(q.pcs)
                                              /\ a.pcs[Len(q.pcs)].desc = "making"
                                              /\ q.pcs[Len(q.pcs)].desc # "making",
           NEW paired \in BOOLEAN, ~q.misled /\ Claims(q) => Claims(a) \/ paired
    PROVE  Moves(a, q, K, FALSE) /\ PhoneFollows(a, q, paired)
<1>0. /\ Working(a) /\ a.pcs \in Seq(Connection) /\ q.pcs \in Seq(Connection)
      /\ Len(a.pcs) \in Nat /\ DOMAIN q.pcs = DOMAIN a.pcs
  BY DEF PhoneReady, Working, PhoneType
<1>1. /\ a.role = "phone" /\ q.role = "phone"
      /\ Engaged(a) <=> a.state >= P!ESTABLISHING
      /\ Engaged(q) <=> q.state >= P!ESTABLISHING
      /\ Current(a) = IF a.state >= P!ESTABLISHING THEN Len(a.pcs) ELSE Pending
      /\ Current(q) = IF q.state >= P!ESTABLISHING THEN Len(q.pcs) ELSE Pending
      /\ Standing(q)
      /\ Hears(q, K) <=> NoPeer \in K /\ \A i \in DOMAIN q.pcs : q.pcs[i].peer \in K
      /\ NoPeer \in K /\ \A i \in DOMAIN a.pcs : a.pcs[i].peer \in K
  BY <1>0, PhoneCurrent DEF PhoneReady
<1>2. Current(q) = Current(a) /\ (Engaged(a) <=> Engaged(q))
  BY <1>1
<1>3. Hears(q, K)
  BY <1>0, <1>1
<1>4. /\ Says(a, q)
      /\ \A k \in DOMAIN q.outbox : q.outbox[k].type \notin {"reset", "leave"}
      /\ ~q.misled => \A k \in DOMAIN q.outbox : Speaks(q.outbox[k]) =>
            /\ q.outbox[k].of = Len(q.pcs) /\ a.pcs[Len(q.pcs)].desc = "making"
            /\ q.pcs[Len(q.pcs)].desc # "making"
  <2>1. CASE q.outbox = <<>>
    BY <2>1 DEF Says
  <2>2. ASSUME a.ws = "open", NEW m, q.outbox = <<m>>, m.type \in {"offer", "ice-candidate"},
               Speaks(m) => /\ m.of \in DOMAIN a.pcs
                            /\ ~q.misled => /\ m.of = Len(q.pcs)
                                            /\ a.pcs[Len(q.pcs)].desc = "making"
                                            /\ q.pcs[Len(q.pcs)].desc # "making"
        PROVE  /\ Says(a, q)
               /\ \A k \in DOMAIN q.outbox : q.outbox[k].type \notin {"reset", "leave"}
               /\ ~q.misled => \A k \in DOMAIN q.outbox : Speaks(q.outbox[k]) =>
                     /\ q.outbox[k].of = Len(q.pcs) /\ a.pcs[Len(q.pcs)].desc = "making"
                     /\ q.pcs[Len(q.pcs)].desc # "making"
    <3>1. Len(q.outbox) = 1 /\ \A k \in DOMAIN q.outbox : q.outbox[k] = m
      BY <2>2
    <3> QED
      BY <1>1, <2>2, <3>1 DEF Says
  <2> QED
    BY <2>1, <2>2
<1>5. Advances(a, q) /\ Stays(a, q) /\ Tells(a, q)
  BY <1>0, <1>2, <1>4 DEF Advances, Stays, Tells
<1>6. Moves(a, q, K, FALSE)
  BY <1>1, <1>3, <1>4, <1>5 DEF Moves
<1> QED
  BY <1>4, <1>6 DEF PhoneFollows

\* The listener of the session posts an event.
LEMMA PostMoves ==
    ASSUME NEW a, NEW K, PhoneReady(a, K), a.state >= P!ESTABLISHING,
           NEW ph, Working(ph), ph.ws = a.ws, ph.state = a.state, ph.misled = a.misled,
           ph.events = a.events, ph.outbox = <<>>, Len(ph.pcs) = Len(a.pcs),
           \A i \in DOMAIN a.pcs : /\ ph.pcs[i].desc = a.pcs[i].desc
                                   /\ ph.pcs[i].peer = a.pcs[i].peer,
           NEW what \in Whats,
           IF what = "SDP_CREATE_SUCCESS" THEN a.creating /\ ~ph.creating
           ELSE ph.creating = a.creating,
           NEW paired \in BOOLEAN, what = "PC_ICE_CONNECTED" => paired
    PROVE  LET q == P!Post(ph, what)
           IN Moves(a, q, K, FALSE) /\ PhoneFollows(a, q, paired) /\ Stoops(a, q)
<1>0. /\ ph \in PhoneType /\ ph.events \in Seq(Event) /\ Len(ph.pcs) \in Nat /\ Working(a)
      /\ Len(ph.pcs) \in DOMAIN a.pcs /\ ph.pcs # <<>>
  <2>1. Working(a) /\ a.pcs \in Seq(Connection) /\ a.pcs # <<>> /\ ph \in PhoneType
    BY DEF PhoneReady, Working, PhoneType
  <2>2. Len(a.pcs) \in DOMAIN a.pcs /\ Len(a.pcs) \in Nat /\ Len(a.pcs) # 0
    BY <2>1
  <2> QED
    BY <2>1, <2>2 DEF PhoneType
<1>1. PICK e : e = [what |-> what, of |-> Len(ph.pcs)]
  OBVIOUS
<1>2. PICK events : events = Append(ph.events, e)
  OBVIOUS
<1>3. e \in Event
  BY <1>0, <1>1 DEF Event
<1>4. /\ events \in Seq(Event) /\ DOMAIN events = DOMAIN a.events \cup {Len(events)}
      /\ events[Len(events)] = e /\ \A k \in DOMAIN a.events : events[k] = a.events[k]
  BY <1>0, <1>2, <1>3
<1>5. PICK q : q = [ph EXCEPT !.events = events]
  OBVIOUS
<1>6. P!Post(ph, what) = q
  BY <1>1, <1>2, <1>5 DEF P!Post, P!Session
<1>7. /\ q.ws = a.ws /\ q.state = a.state /\ q.misled = a.misled /\ q.outbox = <<>>
      /\ q.pcs = ph.pcs /\ q.creating = ph.creating /\ q.events = events
  BY <1>0, <1>4, <1>5 DEF PhoneType
<1>8. Working(q)
  BY <1>0, <1>6, PhonePostsWell
<1> DEFINE n == Len(q.pcs)
<1>9. ~q.misled => Once(q)
  <2> SUFFICES ASSUME ~a.misled PROVE Once(q)
    BY <1>7
  <2>1. Once(a)
    BY DEF PhoneReady
  <2>2. /\ a.creating => a.pcs[n].desc = "making"
        /\ \A k \in DOMAIN a.events : a.events[k] = CreatedOf(n) =>
              /\ a.pcs[n].desc = "making" /\ ~a.creating
              /\ \A l \in DOMAIN a.events : a.events[l] = CreatedOf(n) => l = k
    BY <1>7, <2>1 DEF Once
  <2>3. q.pcs[n].desc = a.pcs[n].desc
    BY <1>0, <1>7
  <2>4. CASE what = "SDP_CREATE_SUCCESS"
    <3>1. \A k \in DOMAIN a.events : a.events[k] # CreatedOf(n)
      BY <2>2, <2>4
    <3>2. \A k \in DOMAIN q.events : q.events[k] = CreatedOf(n) => k = Len(events)
      BY <1>4, <1>7, <3>1
    <3>3. a.pcs[n].desc = "making" /\ ~q.creating
      BY <1>7, <2>2, <2>4
    <3> QED
      BY <2>3, <3>2, <3>3 DEF Once
  <2>5. CASE what # "SDP_CREATE_SUCCESS"
    <3>1. e # CreatedOf(n)
      BY <1>1, <2>5 DEF CreatedOf
    <3>2. \A k \in DOMAIN q.events : q.events[k] = CreatedOf(n) =>
             k \in DOMAIN a.events /\ a.events[k] = CreatedOf(n)
      BY <1>4, <1>7, <3>1
    <3>3. q.creating = a.creating
      BY <1>7, <2>5
    <3> QED
      BY <2>2, <2>3, <3>2, <3>3 DEF Once
  <2> QED
    BY <2>4, <2>5
<1>10. Claims(q) => Claims(a) \/ paired
  <2> SUFFICES ASSUME Claims(q), ~paired PROVE Claims(a)
    OBVIOUS
  <2>1. e # ConnectedOf(n)
    BY <1>1 DEF ConnectedOf
  <2>2. \A k \in DOMAIN q.events : q.events[k] = ConnectedOf(n) =>
           k \in DOMAIN a.events /\ a.events[k] = ConnectedOf(n)
    BY <1>4, <1>7, <2>1
  <2> QED
    BY <1>7, <2>2 DEF Claims
<1>11. Moves(a, q, K, FALSE) /\ PhoneFollows(a, q, paired)
  <2>1. q.ws # "open" => q.state = P!AWAY
    <3>1. a.ws # "open" => a.state = P!AWAY
      BY <1>0, PhoneCurrent DEF PhoneReady
    <3> QED
      BY <1>7, <3>1
  <2> QED
    BY <1>0, <1>7, <1>8, <1>9, <1>10, <2>1, KeptPhoneMoves
<1> QED
  BY <1>6, <1>7, <1>11 DEF Stoops

\* What a task does to the phone, as far as the other end can tell.
PhoneDoes(a, q, K, paired) ==
    Moves(a, q, K, FALSE) /\ PhoneFollows(a, q, paired) /\ Stoops(a, q)

\* The listener notes what it posts of the connection.
LEMMA NotedMoves ==
    ASSUME NEW a, NEW K, PhoneReady(a, K), a.state >= P!ESTABLISHING,
           NEW c \in Connection, c.desc = a.pcs[Len(a.pcs)].desc,
           c.peer = a.pcs[Len(a.pcs)].peer, NEW ph, ph = [a EXCEPT !.pcs[Len(a.pcs)] = c],
           NEW what \in Whats, what # "SDP_CREATE_SUCCESS",
           NEW paired \in BOOLEAN, what = "PC_ICE_CONNECTED" => paired
    PROVE  PhoneDoes(a, P!Post(ph, what), K, paired)
<1>0. a \in PhoneType /\ a.pcs \in Seq(Connection) /\ a.pcs # <<>> /\ Working(a) /\ a.outbox = <<>>
  BY DEF PhoneReady, Working, PhoneType
<1>1. Working(ph)
  BY <1>0, PhoneChanges
<1>2. PICK pcs : pcs = [a.pcs EXCEPT ![Len(a.pcs)] = c]
  OBVIOUS
<1>3. /\ pcs \in Seq(Connection) /\ Len(pcs) = Len(a.pcs)
      /\ \A i \in DOMAIN a.pcs : pcs[i].desc = a.pcs[i].desc /\ pcs[i].peer = a.pcs[i].peer
  <2>1. /\ pcs \in Seq(Connection) /\ Len(pcs) = Len(a.pcs)
        /\ \A i \in DOMAIN a.pcs : pcs[i] = IF i = Len(a.pcs) THEN c ELSE a.pcs[i]
    BY <1>0, <1>2
  <2> QED
    BY <2>1
<1>4. ph = [a EXCEPT !.pcs = pcs]
  BY <1>0, <1>2 DEF PhoneType
<1>5. /\ ph.ws = a.ws /\ ph.state = a.state /\ ph.misled = a.misled /\ ph.events = a.events
      /\ ph.outbox = a.outbox /\ ph.pcs = pcs /\ ph.creating = a.creating
  BY <1>0, <1>3, <1>4 DEF PhoneType
<1> QED
  BY <1>0, <1>1, <1>3, <1>5, PostMoves DEF PhoneDoes

LEMMA PhonePostsMoves ==
    ASSUME NEW a, NEW K, PhoneReady(a, K), a.state >= P!ESTABLISHING
    PROVE  /\ a.creating => PhoneDoes(a, P!Created(a), K, FALSE)
           /\ PhoneDoes(a, P!Gathered(a), K, FALSE) /\ PhoneDoes(a, P!IceConnected(a), K, TRUE)
           /\ PhoneDoes(a, P!IceFailed(a), K, FALSE) /\ PhoneDoes(a, P!CameraFailed(a), K, FALSE)
<1>0. /\ a \in PhoneType /\ a.pcs \in Seq(Connection) /\ a.pcs # <<>> /\ Working(a)
      /\ a.outbox = <<>> /\ a.pcs[Len(a.pcs)] \in Connection
  <2>1. a \in PhoneType /\ a.pcs \in Seq(Connection) /\ a.pcs # <<>> /\ Working(a) /\ a.outbox = <<>>
    BY DEF PhoneReady, Working, PhoneType
  <2> QED
    BY <2>1
<1>1. ASSUME a.creating PROVE PhoneDoes(a, P!Created(a), K, FALSE)
  <2>1. PICK q : q = [a EXCEPT !.creating = FALSE]
    OBVIOUS
  <2>2. Working(q)
    BY <1>0, <2>1, PhoneCreates
  <2>3. /\ q.ws = a.ws /\ q.state = a.state /\ q.misled = a.misled /\ q.events = a.events
        /\ q.outbox = a.outbox /\ q.pcs = a.pcs /\ ~q.creating
    BY <1>0, <2>1 DEF PhoneType
  <2>4. PhoneDoes(a, P!Post(q, "SDP_CREATE_SUCCESS"), K, FALSE)
    BY <1>0, <1>1, <2>2, <2>3, PostMoves DEF Whats, PhoneDoes
  <2> QED
    BY <2>1, <2>4 DEF P!Created
<1>2. PhoneDoes(a, P!Gathered(a), K, FALSE)
  <2>1. PICK c : c = [a.pcs[Len(a.pcs)] EXCEPT !.gathers = FALSE]
    OBVIOUS
  <2>2. c \in Connection /\ c.desc = a.pcs[Len(a.pcs)].desc /\ c.peer = a.pcs[Len(a.pcs)].peer
    BY <1>0, <2>1 DEF Connection
  <2>3. PICK q : q = [a EXCEPT !.pcs[Len(a.pcs)] = c]
    OBVIOUS
  <2>4. PhoneDoes(a, P!Post(q, "PC_ICE_CANDIDATE"), K, FALSE)
    BY <2>2, <2>3, NotedMoves DEF Whats
  <2> QED
    BY <2>1, <2>3, <2>4 DEF P!Gathered, P!Session
<1>3. PhoneDoes(a, P!IceConnected(a), K, TRUE)
  <2>1. PICK c : c = [a.pcs[Len(a.pcs)] EXCEPT !.ice = "connected"]
    OBVIOUS
  <2>2. c \in Connection /\ c.desc = a.pcs[Len(a.pcs)].desc /\ c.peer = a.pcs[Len(a.pcs)].peer
    BY <1>0, <2>1 DEF Connection
  <2>3. PICK q : q = [a EXCEPT !.pcs[Len(a.pcs)] = c]
    OBVIOUS
  <2>4. PhoneDoes(a, P!Post(q, "PC_ICE_CONNECTED"), K, TRUE)
    BY <2>2, <2>3, NotedMoves DEF Whats
  <2> QED
    BY <2>1, <2>3, <2>4 DEF P!IceConnected, P!Session
<1>4. PhoneDoes(a, P!IceFailed(a), K, FALSE)
  <2>1. PICK c : c = [a.pcs[Len(a.pcs)] EXCEPT !.ice = "failed"]
    OBVIOUS
  <2>2. c \in Connection /\ c.desc = a.pcs[Len(a.pcs)].desc /\ c.peer = a.pcs[Len(a.pcs)].peer
    BY <1>0, <2>1 DEF Connection
  <2>3. PICK q : q = [a EXCEPT !.pcs[Len(a.pcs)] = c]
    OBVIOUS
  <2>4. PhoneDoes(a, P!Post(q, "PC_ICE_FAILED"), K, FALSE)
    BY <2>2, <2>3, NotedMoves DEF Whats
  <2> QED
    BY <2>1, <2>3, <2>4 DEF P!IceFailed, P!Session
<1>5. PhoneDoes(a, P!CameraFailed(a), K, FALSE)
  <2>1. PhoneDoes(a, P!Post(a, "CAMERA_ERROR"), K, FALSE)
    BY <1>0, PostMoves DEF Whats, PhoneDoes
  <2> QED
    BY <2>1 DEF P!CameraFailed
<1> QED
  BY <1>1, <1>2, <1>3, <1>4, <1>5

LEMMA PhoneSendIs ==
    ASSUME NEW ph, Working(ph), NEW m \in Message
    PROVE  LET q == P!SendTo(ph, m)
           IN /\ Working(q) /\ q.state = ph.state /\ q.ws = ph.ws /\ q.pcs = ph.pcs
              /\ q.creating = ph.creating /\ q.events = ph.events /\ q.misled = ph.misled
              /\ q.outbox = IF ph.ws = "open" THEN Append(ph.outbox, m) ELSE ph.outbox
<1>0. ph \in PhoneType /\ ph.outbox \in Seq(Message) /\ Working(P!SendTo(ph, m))
  <2>1. Working(P!SendTo(ph, m))
    BY PhoneSends
  <2> QED
    BY <2>1 DEF Working, PhoneType
<1>1. CASE ph.ws = "open"
  <2>1. PICK out : out = Append(ph.outbox, m)
    OBVIOUS
  <2>2. PICK q : q = [ph EXCEPT !.outbox = out]
    OBVIOUS
  <2>3. P!SendTo(ph, m) = q
    BY <1>1, <2>1, <2>2 DEF P!SendTo
  <2>4. /\ q.state = ph.state /\ q.ws = ph.ws /\ q.pcs = ph.pcs
        /\ q.creating = ph.creating /\ q.events = ph.events /\ q.misled = ph.misled
        /\ q.outbox = out
    BY <1>0, <2>2 DEF PhoneType
  <2> QED
    BY <1>0, <1>1, <2>1, <2>3, <2>4
<1>2. CASE ph.ws # "open"
  BY <1>0, <1>2 DEF P!SendTo
<1> QED
  BY <1>1, <1>2

\* The event e is taken from the queue: the phone that handles it is ph.
Takes(a, e, ph) ==
    /\ e \in Event /\ 1 \in DOMAIN a.events /\ a.events[1] = e /\ e.of \in DOMAIN a.pcs
    /\ Working(ph) /\ ph.pcs = a.pcs /\ ph.state = a.state /\ ph.ws = a.ws
    /\ ph.outbox = <<>> /\ ph.creating = a.creating
    /\ \A k \in DOMAIN ph.events : k + 1 \in DOMAIN a.events /\ ph.events[k] = a.events[k + 1]
    /\ a.misled => ph.misled
    /\ ~ph.misled /\ a.state >= P!ESTABLISHING => e.of = Len(a.pcs)

LEMMA TakesIs ==
    ASSUME NEW a, Working(a), a.outbox = <<>>, a.events # <<>>
    PROVE  \E e, ph :
             /\ Takes(a, e, ph)
             /\ P!Handled(a) =
                  CASE e.what = "SDP_CREATE_SUCCESS" -> P!OnCreated(ph, e.of)
                    [] e.what = "PC_ICE_CANDIDATE" -> P!OnCandidate(ph, e.of)
                    [] e.what = "PC_ICE_CONNECTED" -> P!OnConnected(ph)
                    [] e.what = "PC_ICE_FAILED" -> P!OnIceFailed(ph)
                    [] e.what = "SDP_SET_FAILURE" -> P!OnSdpFailure(ph)
                    [] e.what = "CAMERA_ERROR" -> P!OnCameraError(ph)
             /\ e = Head(a.events)
<1>0. a \in PhoneType /\ a.events \in Seq(Event) /\ a.pcs \in Seq(Connection)
  BY DEF Working, PhoneType
<1>1. PICK e \in Event : e = Head(a.events) /\ a.events[1] = e /\ 1 \in DOMAIN a.events
  BY <1>0
<1>2. PICK events : events = Tail(a.events)
  OBVIOUS
<1>3. /\ events \in Seq(Event)
      /\ \A k \in DOMAIN events : k + 1 \in DOMAIN a.events /\ events[k] = a.events[k + 1]
  BY <1>0, <1>2
<1>4. PICK b \in BOOLEAN :
          b = (a.misled \/ (a.state >= P!ESTABLISHING /\ e.of # Len(a.pcs)))
  BY <1>0 DEF PhoneType
<1>5. PICK ph : ph = [a EXCEPT !.events = events, !.misled = b]
  OBVIOUS
<1>6. /\ ph \in PhoneType /\ ph.pcs = a.pcs /\ ph.state = a.state /\ ph.events = events
      /\ ph.ws = a.ws /\ ph.outbox = <<>> /\ ph.creating = a.creating /\ ph.misled = b
  BY <1>0, <1>3, <1>4, <1>5 DEF PhoneType
<1>7. Working(ph)
  BY <1>3, <1>6 DEF Working
<1>8. Takes(a, e, ph)
  BY <1>1, <1>3, <1>4, <1>6, <1>7 DEF Takes, Working
<1>9. P!Handled(a) =
         CASE e.what = "SDP_CREATE_SUCCESS" -> P!OnCreated(ph, e.of)
           [] e.what = "PC_ICE_CANDIDATE" -> P!OnCandidate(ph, e.of)
           [] e.what = "PC_ICE_CONNECTED" -> P!OnConnected(ph)
           [] e.what = "PC_ICE_FAILED" -> P!OnIceFailed(ph)
           [] e.what = "SDP_SET_FAILURE" -> P!OnSdpFailure(ph)
           [] e.what = "CAMERA_ERROR" -> P!OnCameraError(ph)
  BY <1>1, <1>2, <1>4, <1>5 DEF P!Handled, P!Session
<1> QED
  BY <1>1, <1>8, <1>9

\* The event is taken, and no more is done than that the call begins or a candidate is sent.
LEMMA TakenMoves ==
    ASSUME NEW a, NEW K, PhoneReady(a, K), NEW e, NEW ph, Takes(a, e, ph),
           NEW q, Working(q), q.pcs = ph.pcs, q.ws = ph.ws, q.creating = ph.creating,
           q.events = ph.events, q.misled = ph.misled,
           \/ q.state = ph.state
           \/ /\ ph.state = P!ESTABLISHING /\ q.state = P!CALL_IN_PROGRESS
              /\ e.what = "PC_ICE_CONNECTED",
           \/ q.outbox = <<>>
           \/ a.ws = "open" /\ \E m : q.outbox = <<m>> /\ m.type = "ice-candidate"
    PROVE  PhoneDoes(a, q, K, FALSE)
<1>0. /\ Working(a) /\ ph.state = a.state /\ ph.pcs = a.pcs /\ q.state \in Int /\ a.state \in Int
      /\ e \in Event /\ a.pcs \in Seq(Connection)
  BY PhoneStates DEF Takes, PhoneReady, Working, PhoneType
<1>1. /\ a.state >= P!ESTABLISHING <=> q.state >= P!ESTABLISHING
      /\ Stoops(a, q) /\ (q.state = P!AWAY <=> a.state = P!AWAY)
  BY <1>0, PhoneStates DEF Stoops, P!ESTABLISHING, P!CALL_IN_PROGRESS, P!WAITING_FOR_OBSERVER,
     P!AWAY
<1>2. ~q.misled => Once(q)
  <2> SUFFICES ASSUME ~q.misled, q.state >= P!ESTABLISHING PROVE Once(q)
    BY DEF Once
  <2> DEFINE n == Len(a.pcs)
  <2>1. /\ a.creating => a.pcs[n].desc = "making"
        /\ \A k \in DOMAIN a.events : a.events[k] = CreatedOf(n) =>
              /\ a.pcs[n].desc = "making" /\ ~a.creating
              /\ \A l \in DOMAIN a.events : a.events[l] = CreatedOf(n) => l = k
    BY <1>1 DEF PhoneReady, Once, Takes
  <2>2. \A k \in DOMAIN q.events : k + 1 \in DOMAIN a.events /\ q.events[k] = a.events[k + 1]
    BY DEF Takes
  <2>3. q.creating = a.creating /\ q.pcs = a.pcs
    BY DEF Takes
  <2>4. ASSUME NEW k \in DOMAIN q.events, q.events[k] = CreatedOf(n)
        PROVE  /\ q.pcs[n].desc = "making" /\ ~q.creating
               /\ \A l \in DOMAIN q.events : q.events[l] = CreatedOf(n) => l = k
    <3>1. /\ a.pcs[n].desc = "making" /\ ~a.creating
          /\ \A l \in DOMAIN q.events : q.events[l] = CreatedOf(n) => l + 1 = k + 1
      BY <2>1, <2>2, <2>4
    <3>2. q.events \in Seq(Event)
      BY DEF Working, PhoneType
    <3>3. \A l \in DOMAIN q.events : l \in Int
      BY <3>2
    <3> QED
      BY <2>3, <2>4, <3>1, <3>3
  <2> QED
    BY <2>1, <2>3, <2>4 DEF Once
<1>3. ~q.misled /\ Claims(q) => Claims(a)
  <2> SUFFICES ASSUME ~q.misled, Claims(q) PROVE Claims(a)
    OBVIOUS
  <2>1. a.state >= P!ESTABLISHING /\ e.of = Len(a.pcs) /\ Len(q.pcs) = Len(a.pcs)
    BY <1>1 DEF Claims, Takes
  <2>2. CASE q.state = ph.state
    BY <1>0, <2>1, <2>2 DEF Claims, Takes
  <2>3. CASE e.what = "PC_ICE_CONNECTED"
    <3>1. e = ConnectedOf(Len(a.pcs))
      BY <1>0, <2>1, <2>3 DEF Event, ConnectedOf
    <3>2. 1 \in DOMAIN a.events /\ a.events[1] = ConnectedOf(Len(a.pcs))
      BY <3>1 DEF Takes
    <3> QED
      BY <2>1, <3>2 DEF Claims
  <2> QED
    BY <2>2, <2>3
<1>4. q.ws # "open" => q.state = P!AWAY
  <2>1. a.ws # "open" => a.state = P!AWAY
    BY <1>0, PhoneCurrent DEF PhoneReady
  <2> QED
    BY <1>1, <2>1 DEF Takes
<1>5. \/ q.outbox = <<>>
      \/ /\ a.ws = "open"
         /\ \E m : /\ q.outbox = <<m>> /\ m.type \in {"offer", "ice-candidate"}
                   /\ Speaks(m) =>
                         /\ m.of \in DOMAIN a.pcs
                         /\ ~q.misled => /\ m.of = Len(q.pcs)
                                         /\ a.pcs[Len(q.pcs)].desc = "making"
                                         /\ q.pcs[Len(q.pcs)].desc # "making"
  BY DEF Speaks
<1>6. Moves(a, q, K, FALSE) /\ PhoneFollows(a, q, FALSE)
  <2>1. q.ws = a.ws /\ (a.misled => q.misled) /\ q.pcs = a.pcs
    BY DEF Takes
  <2> QED
    BY <1>1, <1>2, <1>3, <1>4, <1>5, <2>1, KeptPhoneMoves
<1> QED
  BY <1>1, <1>6 DEF PhoneDoes

\* The offer is made: of the session's connection, unless the phone is misled.
LEMMA OnCreatedMoves ==
    ASSUME NEW a, NEW K, PhoneReady(a, K), NEW e, NEW ph, Takes(a, e, ph),
           e.what = "SDP_CREATE_SUCCESS"
    PROVE  PhoneDoes(a, P!OnCreated(ph, e.of), K, FALSE)
<1>1. Working(ph) /\ ph.outbox = <<>> /\ ph \in PhoneType /\ ph.pcs \in Seq(Connection)
      /\ e \in Event /\ e.of \in Nat /\ ph.state = a.state /\ ph.pcs = a.pcs
  BY DEF Takes, Working, PhoneType, Event
<1>2. CASE ph.state # P!ESTABLISHING
  <2>1. PhoneDoes(a, ph, K, FALSE)
    BY <1>1, TakenMoves
  <2> QED
    BY <1>2, <2>1 DEF P!OnCreated
<1>3. CASE ph.state = P!ESTABLISHING
  <2>1. a.state >= P!ESTABLISHING /\ ph.pcs # <<>> /\ ph.pcs[Len(ph.pcs)] \in Connection
        /\ Len(a.pcs) \in DOMAIN a.pcs
    <3>1. ph.state >= P!ESTABLISHING
      BY <1>3, PhoneStates
    <3>2. ph.pcs # <<>>
      BY <1>1, <3>1 DEF Working
    <3> QED
      BY <1>1, <3>1, <3>2
  <2>2. PICK c : c = [ph.pcs[Len(ph.pcs)] EXCEPT !.desc = "made"]
    OBVIOUS
  <2>3. c \in Connection /\ c.peer = ph.pcs[Len(ph.pcs)].peer /\ c.desc = "made"
    BY <2>1, <2>2 DEF Connection
  <2>4. PICK pcs : pcs = [ph.pcs EXCEPT ![Len(ph.pcs)] = c]
    OBVIOUS
  <2>5. /\ pcs \in Seq(Connection) /\ Len(pcs) = Len(ph.pcs)
        /\ \A i \in DOMAIN ph.pcs : pcs[i] = IF i = Len(ph.pcs) THEN c ELSE ph.pcs[i]
    BY <1>1, <2>1, <2>3, <2>4
  <2>6. PICK r : r = [ph EXCEPT !.pcs = pcs]
    OBVIOUS
  <2>7. /\ r.state = ph.state /\ r.ws = ph.ws /\ r.pcs = pcs /\ r.creating = ph.creating
        /\ r.events = ph.events /\ r.misled = ph.misled /\ r.outbox = <<>>
    BY <1>1, <2>5, <2>6 DEF PhoneType
  <2>8. r = [ph EXCEPT !.pcs[Len(ph.pcs)] = c]
    BY <1>1, <2>4, <2>6 DEF PhoneType
  <2>9. Working(r)
    BY <1>1, <2>1, <2>3, <2>8, PhoneChanges
  <2>10. PICK m \in Message : m = P!Offer(e.of) /\ m.type = "offer" /\ m.of = e.of
    BY <1>1, PhoneSaid
  <2>11. PICK q : q = P!SendTo(r, m)
    OBVIOUS
  <2>12. P!OnCreated(ph, e.of) = q
    BY <1>3, <2>2, <2>8, <2>10, <2>11 DEF P!OnCreated, P!Session
  <2>13. /\ Working(q) /\ q.state = a.state /\ q.ws = a.ws /\ q.pcs = pcs
         /\ q.creating = a.creating /\ q.events = ph.events /\ q.misled = ph.misled
         /\ q.outbox = IF a.ws = "open" THEN Append(<<>>, m) ELSE <<>>
    <3>1. /\ Working(q) /\ q.state = r.state /\ q.ws = r.ws /\ q.pcs = r.pcs
          /\ q.creating = r.creating /\ q.events = r.events /\ q.misled = r.misled
          /\ q.outbox = IF r.ws = "open" THEN Append(r.outbox, m) ELSE r.outbox
      BY <2>9, <2>11, PhoneSendIs
    <3>2. r.state = a.state /\ r.ws = a.ws /\ r.creating = a.creating
      BY <2>7 DEF Takes
    <3> QED
      BY <2>7, <3>1, <3>2
  <2>14. Append(<<>>, m) = <<m>>
    OBVIOUS
  <2> DEFINE n == Len(a.pcs)
  <2>15. Len(q.pcs) = n /\ q.pcs[n].desc = "made"
         /\ \A i \in DOMAIN a.pcs : q.pcs[i].peer = a.pcs[i].peer
    BY <1>1, <2>1, <2>3, <2>5, <2>13
  <2>16. ~q.misled => /\ e.of = n /\ a.pcs[n].desc = "making" /\ ~a.creating
                      /\ \A k \in DOMAIN q.events : q.events[k] # CreatedOf(n)
    <3> SUFFICES ASSUME ~q.misled
                 PROVE  /\ e.of = n /\ a.pcs[n].desc = "making" /\ ~a.creating
                        /\ \A k \in DOMAIN q.events : q.events[k] # CreatedOf(n)
      OBVIOUS
    <3>1. e.of = n /\ ~a.misled
      BY <2>1, <2>13 DEF Takes
    <3>2. e = CreatedOf(n)
      BY <1>1, <3>1 DEF Event, CreatedOf
    <3>3. 1 \in DOMAIN a.events /\ a.events[1] = CreatedOf(n)
      BY <3>2 DEF Takes
    <3>4. /\ a.pcs[n].desc = "making" /\ ~a.creating
          /\ \A l \in DOMAIN a.events : a.events[l] = CreatedOf(n) => l = 1
      BY <2>1, <3>1, <3>3 DEF PhoneReady, Once
    <3>5. \A k \in DOMAIN q.events : q.events[k] # CreatedOf(n)
      <4>1. \A k \in DOMAIN q.events : k \in Nat \ {0}
        BY <2>13 DEF Working, PhoneType
      <4>2. \A k \in DOMAIN q.events : k + 1 \in DOMAIN a.events /\ q.events[k] = a.events[k + 1]
        BY <2>13 DEF Takes
      <4>3. \A k \in Nat \ {0} : k + 1 # 1
        OBVIOUS
      <4> QED
        BY <3>4, <4>1, <4>2, <4>3
    <3> QED
      BY <3>1, <3>4, <3>5
  <2>17. ~q.misled => Once(q)
    BY <2>13, <2>15, <2>16 DEF Once
  <2>18. ~q.misled /\ Claims(q) => Claims(a)
    <3>1. \A k \in DOMAIN q.events : k + 1 \in DOMAIN a.events /\ q.events[k] = a.events[k + 1]
      BY <2>13 DEF Takes
    <3> QED
      BY <2>13, <2>15, <3>1 DEF Claims
  <2>19. \/ q.outbox = <<>>
         \/ /\ a.ws = "open"
            /\ \E x : /\ q.outbox = <<x>> /\ x.type \in {"offer", "ice-candidate"}
                      /\ Speaks(x) =>
                            /\ x.of \in DOMAIN a.pcs
                            /\ ~q.misled => /\ x.of = Len(q.pcs)
                                            /\ a.pcs[Len(q.pcs)].desc = "making"
                                            /\ q.pcs[Len(q.pcs)].desc # "making"
    <3>1. e.of \in DOMAIN a.pcs
      BY DEF Takes
    <3> QED
      BY <2>10, <2>13, <2>14, <2>15, <2>16, <3>1
  <2>20. q.ws # "open" => q.state = P!AWAY
    <3>1. Working(a)
      BY DEF PhoneReady
    <3>2. a.ws # "open" => a.state = P!AWAY
      BY <3>1, PhoneCurrent DEF PhoneReady
    <3> QED
      BY <2>13, <3>2
  <2>21. Moves(a, q, K, FALSE) /\ PhoneFollows(a, q, FALSE)
    <3>1. a.misled => q.misled
      BY <2>13 DEF Takes
    <3>2. q.pcs[Len(q.pcs)].desc # "making"
      BY <2>15
    <3> QED
      BY <2>13, <2>15, <2>17, <2>18, <2>19, <2>20, <3>1, <3>2, KeptPhoneMoves
  <2> QED
    BY <2>12, <2>13, <2>21 DEF PhoneDoes, Stoops
<1> QED
  BY <1>2, <1>3

\* The phone as it is when a session is taken down in a task.
Leaves(a, ph) ==
    /\ Working(ph) /\ ph.outbox = <<>> /\ ph.pcs = a.pcs /\ ph.state = a.state
    /\ ph.ws \in {a.ws, "closed"} /\ (a.misled => ph.misled)

LEMMA GoAwayMoves ==
    ASSUME NEW a, NEW K, PhoneReady(a, K), NEW ph, Leaves(a, ph)
    PROVE  PhoneDoes(a, P!GoAway(ph), K, FALSE) /\ ~Claims(P!GoAway(ph))
<1>1. PICK q : q = P!GoAway(ph)
  OBVIOUS
<1>2. Working(q) /\ Parts(ph, q) /\ q.state = P!AWAY
  BY <1>1, GoAwayWorks, GoAwayParts DEF Leaves
<1>3. Moves(a, q, K, FALSE) /\ PhoneFollows(a, q, FALSE) /\ ~Claims(q)
  BY <1>2, PartsMoves DEF Leaves
<1>4. Stoops(a, q)
  BY <1>2, PhoneStates DEF Stoops, P!AWAY, P!WAITING_FOR_OBSERVER
<1> QED
  BY <1>1, <1>3, <1>4 DEF PhoneDoes

LEMMA GoDownMoves ==
    ASSUME NEW a, NEW K, PhoneReady(a, K), NEW ph, Leaves(a, ph), ph.ws = "open",
           NEW s \in {P!WAITING_FOR_OBSERVER, P!WAITING_FOR_HEADSET},
           s = P!WAITING_FOR_HEADSET => a.state > P!WAITING_FOR_OBSERVER
    PROVE  PhoneDoes(a, P!GoDown(ph, s), K, FALSE) /\ ~Claims(P!GoDown(ph, s))
<1>0. s \in P!PhoneState /\ s < P!ESTABLISHING /\ ~ (P!WAITING_FOR_OBSERVER > P!WAITING_FOR_OBSERVER)
  BY PhoneStates
<1>1. PICK q : q = P!GoDown(ph, s)
  OBVIOUS
<1>2. Working(q) /\ Parts(ph, q) /\ q.state = s /\ q.ws = "open"
  BY <1>0, <1>1, GoDownWorks, GoDownParts DEF Leaves
<1>3. Moves(a, q, K, FALSE) /\ PhoneFollows(a, q, FALSE) /\ ~Claims(q)
  BY <1>2, PartsMoves DEF Leaves
<1>4. Stoops(a, q)
  BY <1>0, <1>2 DEF Stoops
<1> QED
  BY <1>1, <1>3, <1>4 DEF PhoneDoes

LEMMA OpenSessionMoves ==
    ASSUME NEW a, NEW K, PhoneReady(a, K), NEW ph, Leaves(a, ph), ph.ws = "open",
           Len(ph.pcs) < MaxSessions, a.state > P!WAITING_FOR_OBSERVER
    PROVE  PhoneDoes(a, P!OpenSession(ph), K, FALSE) /\ ~Claims(P!OpenSession(ph))
<1>1. PICK q : q = P!OpenSession(ph)
  OBVIOUS
<1>2. Working(q) /\ Parts(ph, q) /\ q.ws = "open"
  BY <1>1, OpenSessionWorks, OpenSessionParts DEF Leaves
<1>3. Moves(a, q, K, FALSE) /\ PhoneFollows(a, q, FALSE) /\ ~Claims(q)
  BY <1>2, PartsMoves DEF Leaves
<1> QED
  BY <1>1, <1>3 DEF PhoneDoes, Stoops

\* A phone that is above AWAY is online.
LEMMA PhoneOnline ==
    ASSUME NEW a, NEW K, PhoneReady(a, K), a.state # P!AWAY
    PROVE  a.ws = "open"
BY PhoneCurrent DEF PhoneReady

LEMMA HandledMoves ==
    ASSUME NEW a, NEW K, PhoneReady(a, K), a.events # <<>>,
           Head(a.events).what = "PC_ICE_FAILED" => Len(a.pcs) < MaxSessions
    PROVE  PhoneDoes(a, P!Handled(a), K, FALSE)
<1>1. PICK e, ph :
         /\ Takes(a, e, ph)
         /\ P!Handled(a) =
              CASE e.what = "SDP_CREATE_SUCCESS" -> P!OnCreated(ph, e.of)
                [] e.what = "PC_ICE_CANDIDATE" -> P!OnCandidate(ph, e.of)
                [] e.what = "PC_ICE_CONNECTED" -> P!OnConnected(ph)
                [] e.what = "PC_ICE_FAILED" -> P!OnIceFailed(ph)
                [] e.what = "SDP_SET_FAILURE" -> P!OnSdpFailure(ph)
                [] e.what = "CAMERA_ERROR" -> P!OnCameraError(ph)
         /\ e = Head(a.events)
  BY TakesIs DEF PhoneReady
<1>2. /\ Working(ph) /\ ph \in PhoneType /\ ph.outbox = <<>> /\ e.of \in Nat /\ e.what \in Whats
      /\ ph.state = a.state /\ ph.pcs = a.pcs /\ ph.ws = a.ws /\ Leaves(a, ph)
  BY <1>1 DEF Takes, Working, PhoneType, Event, Leaves
<1>3. PhoneDoes(a, ph, K, FALSE)
  BY <1>1, <1>2, TakenMoves
<1>4. PhoneDoes(a, P!OnCandidate(ph, e.of), K, FALSE)
  <2>1. CASE ~ (ph.state >= P!ESTABLISHING)
    BY <1>3, <2>1 DEF P!OnCandidate
  <2>2. CASE ph.state >= P!ESTABLISHING
    <3>1. PICK m \in Message : m = P!Candidate(e.of) /\ m.type = "ice-candidate"
      BY <1>2, PhoneSaid
    <3>2. PICK q : q = P!SendTo(ph, m)
      OBVIOUS
    <3>3. /\ Working(q) /\ q.state = ph.state /\ q.ws = ph.ws /\ q.pcs = ph.pcs
          /\ q.creating = ph.creating /\ q.events = ph.events /\ q.misled = ph.misled
          /\ q.outbox = IF ph.ws = "open" THEN Append(ph.outbox, m) ELSE ph.outbox
      BY <1>2, <3>2, PhoneSendIs
    <3>4. Append(<<>>, m) = <<m>>
      OBVIOUS
    <3>5. q.outbox = <<>> \/ (a.ws = "open" /\ \E x : q.outbox = <<x>> /\ x.type = "ice-candidate")
      BY <1>2, <3>1, <3>3, <3>4
    <3>6. PhoneDoes(a, q, K, FALSE)
      BY <1>1, <3>3, <3>5, TakenMoves
    <3> QED
      BY <2>2, <3>1, <3>2, <3>6 DEF P!OnCandidate
  <2> QED
    BY <2>1, <2>2
<1>5. e.what = "PC_ICE_CONNECTED" => PhoneDoes(a, P!OnConnected(ph), K, FALSE)
  <2>1. CASE ph.state # P!ESTABLISHING
    BY <1>3, <2>1 DEF P!OnConnected
  <2>2. CASE ph.state = P!ESTABLISHING
    <3>1. PICK q : q = [ph EXCEPT !.state = P!CALL_IN_PROGRESS]
      OBVIOUS
    <3>2. /\ q.state = P!CALL_IN_PROGRESS /\ q.ws = ph.ws /\ q.pcs = ph.pcs
          /\ q.creating = ph.creating /\ q.events = ph.events /\ q.misled = ph.misled
          /\ q.outbox = <<>>
      BY <1>2, <3>1 DEF PhoneType
    <3>3. Working(q)
      <4>1. ph.pcs # <<>> /\ P!CALL_IN_PROGRESS \in P!PhoneState
        BY <1>2, <2>2, PhoneStates DEF Working
      <4> QED
        BY <1>2, <3>1, <4>1, PhoneStateWorks
    <3>4. e.what = "PC_ICE_CONNECTED" => PhoneDoes(a, q, K, FALSE)
      BY <1>1, <2>2, <3>2, <3>3, TakenMoves
    <3> QED
      BY <2>2, <3>1, <3>4 DEF P!OnConnected
  <2> QED
    BY <2>1, <2>2
<1>6. PhoneDoes(a, P!GoAway(ph), K, FALSE)
  BY <1>2, GoAwayMoves
<1>7. e.what = "PC_ICE_FAILED" => PhoneDoes(a, P!OnIceFailed(ph), K, FALSE)
  <2>1. CASE ph.state = P!ESTABLISHING
    <3>1. P!CALL_IN_PROGRESS # P!ESTABLISHING
      BY DEF P!CALL_IN_PROGRESS, P!ESTABLISHING
    <3> QED
      BY <1>6, <2>1, <3>1 DEF P!OnIceFailed
  <2>2. ASSUME ph.state = P!CALL_IN_PROGRESS, e.what = "PC_ICE_FAILED"
        PROVE  PhoneDoes(a, P!OnIceFailed(ph), K, FALSE)
    <3>1. /\ P!CALL_IN_PROGRESS # P!AWAY /\ P!CALL_IN_PROGRESS # P!ESTABLISHING
          /\ P!CALL_IN_PROGRESS > P!WAITING_FOR_OBSERVER
      BY DEF P!CALL_IN_PROGRESS, P!AWAY, P!ESTABLISHING, P!WAITING_FOR_OBSERVER
    <3>2. ph.ws = "open" /\ Len(ph.pcs) < MaxSessions
      BY <1>1, <1>2, <2>2, <3>1, PhoneOnline
    <3>3. PhoneDoes(a, P!OpenSession(ph), K, FALSE)
      BY <1>2, <2>2, <3>1, <3>2, OpenSessionMoves
    <3> QED
      BY <2>2, <3>1, <3>3 DEF P!OnIceFailed
  <2>3. CASE ph.state # P!ESTABLISHING /\ ph.state # P!CALL_IN_PROGRESS
    BY <1>3, <2>3 DEF P!OnIceFailed
  <2> QED
    BY <2>1, <2>2, <2>3
<1>8. PhoneDoes(a, P!OnSdpFailure(ph), K, FALSE) /\ PhoneDoes(a, P!OnCameraError(ph), K, FALSE)
  BY <1>3, <1>6 DEF P!OnSdpFailure, P!OnCameraError
<1>9. e.what = "SDP_CREATE_SUCCESS" => PhoneDoes(a, P!OnCreated(ph, e.of), K, FALSE)
  BY <1>1, OnCreatedMoves
<1> QED
  BY <1>1, <1>2, <1>4, <1>5, <1>7, <1>8, <1>9 DEF Whats

LEMMA PhoneRests ==
    ASSUME NEW a, NEW K, PhoneReady(a, K)
    PROVE  PhoneDoes(a, a, K, FALSE)
<1>1. Working(a) /\ a.outbox = <<>> /\ (a.ws # "open" => a.state = P!AWAY)
      /\ (~a.misled => Once(a))
  BY PhoneCurrent DEF PhoneReady
<1>2. Moves(a, a, K, FALSE) /\ PhoneFollows(a, a, FALSE)
  BY <1>1, KeptPhoneMoves
<1> QED
  BY <1>2 DEF PhoneDoes, Stoops

LEMMA OnJoinMoves ==
    ASSUME NEW a, NEW K, PhoneReady(a, K), a.ws = "open"
    PROVE  Moves(a, P!OnJoin(a), K, FALSE) /\ PhoneFollows(a, P!OnJoin(a), FALSE)
<1>1. CASE a.state # P!WAITING_FOR_OBSERVER
  BY <1>1, PhoneRests DEF P!OnJoin, PhoneDoes
<1>2. CASE a.state = P!WAITING_FOR_OBSERVER
  <2>1. Working(a) /\ a.outbox = <<>> /\ a \in PhoneType
    BY DEF PhoneReady, Working
  <2>2. PICK q : q = [a EXCEPT !.state = P!WAITING_FOR_HEADSET]
    OBVIOUS
  <2>3. /\ q.state = P!WAITING_FOR_HEADSET /\ q.ws = a.ws /\ q.pcs = a.pcs
        /\ q.events = a.events /\ q.misled = a.misled /\ q.outbox = <<>>
    BY <2>1, <2>2 DEF PhoneType
  <2>4. ~ (a.state >= P!ESTABLISHING) /\ ~ (q.state >= P!ESTABLISHING)
    BY <1>2, <2>3, PhoneStates
  <2>5. Working(q)
    BY <2>1, <2>2, <2>3, <2>4, PhoneStates, PhoneStateWorks
  <2>6. Once(q) /\ ~Claims(q)
    BY <2>4 DEF Once, Claims
  <2>7. Moves(a, q, K, FALSE) /\ PhoneFollows(a, q, FALSE)
    BY <2>3, <2>4, <2>5, <2>6, KeptPhoneMoves
  <2> QED
    BY <1>2, <2>2, <2>7 DEF P!OnJoin
<1> QED
  BY <1>1, <1>2

LEMMA OnAnswerMoves ==
    ASSUME NEW a, NEW K, PhoneReady(a, K), a.ws = "open", NEW m \in Message, m.of \in K
    PROVE  PhoneDoes(a, P!OnAnswer(a, m), K, FALSE)
<1>1. a \in PhoneType /\ a.pcs \in Seq(Connection) /\ Working(a) /\ a.outbox = <<>> /\ m.of \in Nat
  BY DEF PhoneReady, Working, PhoneType, Message
<1>2. CASE a.state # P!ESTABLISHING
  BY <1>2, PhoneRests DEF P!OnAnswer
<1>3. CASE a.state = P!ESTABLISHING
  <2>1. /\ a.state >= P!ESTABLISHING /\ a.pcs # <<>> /\ a.pcs[Len(a.pcs)] \in Connection
        /\ Len(a.pcs) \in DOMAIN a.pcs
    <3>1. a.state >= P!ESTABLISHING
      BY <1>3, PhoneStates
    <3>2. a.pcs # <<>>
      BY <1>1, <3>1 DEF Working
    <3> QED
      BY <1>1, <3>1, <3>2
  <2>2. CASE P!TakesAnswer(a.pcs[Len(a.pcs)])
    <3>1. a.pcs[Len(a.pcs)].desc = "made" /\ a.pcs[Len(a.pcs)].peer = NoPeer
      BY <2>2, PhoneSaid DEF P!TakesAnswer
    <3>2. PICK c : c = [a.pcs[Len(a.pcs)] EXCEPT !.peer = m.of]
      OBVIOUS
    <3>3. c \in Connection /\ c.peer = m.of /\ c.desc = "made"
      BY <1>1, <2>1, <3>1, <3>2 DEF Connection
    <3>4. PICK pcs : pcs = [a.pcs EXCEPT ![Len(a.pcs)] = c]
      OBVIOUS
    <3>5. /\ pcs \in Seq(Connection) /\ Len(pcs) = Len(a.pcs)
          /\ \A i \in DOMAIN a.pcs : pcs[i] = IF i = Len(a.pcs) THEN c ELSE a.pcs[i]
      BY <1>1, <2>1, <3>3, <3>4
    <3>6. PICK q : q = [a EXCEPT !.pcs = pcs]
      OBVIOUS
    <3>7. /\ q.state = a.state /\ q.ws = a.ws /\ q.pcs = pcs /\ q.creating = a.creating
          /\ q.events = a.events /\ q.misled = a.misled /\ q.outbox = <<>>
      BY <1>1, <3>5, <3>6 DEF PhoneType
    <3>8. q = [a EXCEPT !.pcs[Len(a.pcs)] = c]
      BY <1>1, <3>4, <3>6 DEF PhoneType
    <3>9. Working(q)
      BY <1>1, <2>1, <3>3, <3>8, PhoneChanges
    <3>10. P!OnAnswer(a, m) = q
      BY <1>3, <2>2, <3>2, <3>8 DEF P!OnAnswer, P!Session
    <3>11. ~q.misled => Once(q)
      <4>1. ~q.misled => Once(a)
        BY <3>7 DEF PhoneReady
      <4>2. Len(q.pcs) = Len(a.pcs) /\ q.pcs[Len(q.pcs)].desc = a.pcs[Len(a.pcs)].desc
        BY <2>1, <3>1, <3>3, <3>5, <3>7
      <4> QED
        BY <3>7, <4>1, <4>2 DEF Once
    <3>12. Claims(q) => Claims(a)
      BY <3>5, <3>7 DEF Claims
    <3>13. Moves(a, q, K, FALSE) /\ PhoneFollows(a, q, FALSE)
      <4>1. \A i \in DOMAIN a.pcs : \/ q.pcs[i].peer = a.pcs[i].peer
                                    \/ a.pcs[i].peer = NoPeer /\ q.pcs[i].peer \in K
        BY <3>1, <3>3, <3>5, <3>7
      <4>2. q.pcs[Len(q.pcs)].desc # "making" /\ Len(q.pcs) = Len(a.pcs)
        BY <2>1, <3>3, <3>5, <3>7
      <4> QED
        BY <3>7, <3>9, <3>11, <3>12, <4>1, <4>2, KeptPhoneMoves
    <3> QED
      BY <3>7, <3>10, <3>13 DEF PhoneDoes, Stoops
  <2>3. CASE ~P!TakesAnswer(a.pcs[Len(a.pcs)])
    <3>1. PhoneDoes(a, P!Post(a, "SDP_SET_FAILURE"), K, FALSE)
      BY <1>1, <2>1, PostMoves DEF Whats, PhoneDoes
    <3> QED
      BY <1>3, <2>3, <3>1 DEF P!OnAnswer, P!Session
  <2> QED
    BY <2>2, <2>3
<1> QED
  BY <1>2, <1>3

\* What the phone reads: an end of the session is the end of what it claims of it.
LEMMA PhoneReceivedMoves ==
    ASSUME NEW a, NEW K, PhoneReady(a, K), a.ws = "open", NEW m \in Message,
           m.type # "offer", Speaks(m) => m.of \in K,
           m.type = "reset" => Len(a.pcs) < MaxSessions
    PROVE  LET q == P!Received(a, m)
           IN /\ Moves(a, q, K, FALSE) /\ PhoneFollows(a, q, FALSE)
              /\ m.type # "join" => Stoops(a, q)
              /\ IsNews(m) => ~Claims(q)
              /\ m.type = "leave" => ~ (q.state > P!WAITING_FOR_OBSERVER)
<1>0. /\ Working(a) /\ a.outbox = <<>> /\ Leaves(a, a) /\ PhoneDoes(a, a, K, FALSE)
      /\ a.state \in Int /\ P!ESTABLISHING > P!WAITING_FOR_OBSERVER
      /\ P!ESTABLISHING \in Int /\ P!WAITING_FOR_OBSERVER \in Int
  BY PhoneRests, PhoneStates DEF PhoneReady, Leaves, Working, PhoneType
<1>1. CASE m.type = "join"
  <2>1. P!Received(a, m) = P!OnJoin(a) /\ ~IsNews(m)
    BY <1>1 DEF P!Received, IsNews
  <2> QED
    BY <1>1, <2>1, OnJoinMoves
<1>2. CASE m.type = "leave"
  <2>1. P!Received(a, m) = P!OnLeave(a)
    BY <1>2 DEF P!Received
  <2>2. CASE a.state > P!WAITING_FOR_OBSERVER
    <3>1. PICK q : q = P!GoDown(a, P!WAITING_FOR_OBSERVER)
      OBVIOUS
    <3>2. PhoneDoes(a, q, K, FALSE) /\ ~Claims(q)
      <4>1. P!WAITING_FOR_OBSERVER # P!WAITING_FOR_HEADSET
        BY DEF P!WAITING_FOR_OBSERVER, P!WAITING_FOR_HEADSET
      <4> QED
        BY <1>0, <3>1, <4>1, GoDownMoves
    <3>3. q.state = P!WAITING_FOR_OBSERVER
      BY <1>0, <3>1, GoDownParts, PhoneStates
    <3>4. P!OnLeave(a) = q
      BY <2>2, <3>1 DEF P!OnLeave
    <3>5. ~ (q.state > P!WAITING_FOR_OBSERVER)
      BY <1>0, <3>3
    <3> QED
      BY <1>2, <2>1, <3>2, <3>4, <3>5 DEF PhoneDoes
  <2>3. CASE ~ (a.state > P!WAITING_FOR_OBSERVER)
    <3>1. P!OnLeave(a) = a
      BY <2>3 DEF P!OnLeave
    <3>2. ~Claims(a)
      BY <1>0, <2>3 DEF Claims
    <3> QED
      BY <1>0, <1>2, <2>1, <2>3, <3>1, <3>2 DEF PhoneDoes
  <2> QED
    BY <2>2, <2>3
<1>3. CASE m.type = "reset"
  <2>1. P!Received(a, m) = P!OnReset(a)
    BY <1>3 DEF P!Received
  <2>2. CASE a.state >= P!ESTABLISHING
    <3>1. PhoneDoes(a, P!OpenSession(a), K, FALSE) /\ ~Claims(P!OpenSession(a))
      <4>1. a.state > P!WAITING_FOR_OBSERVER
        BY <1>0, <2>2
      <4> QED
        BY <1>0, <1>3, <4>1, OpenSessionMoves
    <3> QED
      BY <1>3, <2>1, <2>2, <3>1 DEF PhoneDoes, P!OnReset
  <2>3. CASE ~ (a.state >= P!ESTABLISHING)
    <3>1. ~Claims(a)
      BY <2>3 DEF Claims
    <3> QED
      BY <1>0, <1>3, <2>1, <2>3, <3>1 DEF PhoneDoes, P!OnReset
  <2> QED
    BY <2>2, <2>3
<1>4. CASE m.type = "answer"
  <2>1. P!Received(a, m) = P!OnAnswer(a, m) /\ ~IsNews(m)
    BY <1>4 DEF P!Received, IsNews
  <2>2. PhoneDoes(a, P!OnAnswer(a, m), K, FALSE)
    BY <1>4, OnAnswerMoves DEF Speaks
  <2> QED
    BY <1>4, <2>1, <2>2 DEF PhoneDoes
<1>5. CASE m.type = "ice-candidate"
  <2>1. P!Received(a, m) = a /\ ~IsNews(m)
    BY <1>5 DEF P!Received, IsNews
  <2> QED
    BY <1>0, <1>5, <2>1 DEF PhoneDoes
<1> QED
  BY <1>1, <1>2, <1>3, <1>4, <1>5 DEF Message, Types

\* The headset, and the connection to the room.
LEMMA PhoneTurns ==
    ASSUME NEW a, NEW K, PhoneReady(a, K)
    PROVE  /\ a.state = P!WAITING_FOR_HEADSET /\ Len(a.pcs) < MaxSessions =>
                 PhoneDoes(a, P!HeadsetConnected(a), K, FALSE)
           /\ a.state >= P!ESTABLISHING => PhoneDoes(a, P!HeadsetDisconnected(a), K, FALSE)
           /\ PhoneDoes(a, P!Lost(a), K, FALSE) /\ PhoneDoes(a, P!GoAway(a), K, FALSE)
<1>0. /\ Working(a) /\ a \in PhoneType /\ a.outbox = <<>> /\ Leaves(a, a) /\ a.state \in Int
  BY PhoneStates DEF PhoneReady, Leaves, Working, PhoneType
<1>1. ASSUME a.state = P!WAITING_FOR_HEADSET, Len(a.pcs) < MaxSessions
      PROVE  PhoneDoes(a, P!HeadsetConnected(a), K, FALSE)
  <2>1. P!WAITING_FOR_HEADSET # P!AWAY /\ P!WAITING_FOR_HEADSET > P!WAITING_FOR_OBSERVER
    BY DEF P!WAITING_FOR_HEADSET, P!AWAY, P!WAITING_FOR_OBSERVER
  <2>2. a.ws = "open"
    BY <1>1, <2>1, PhoneOnline
  <2> QED
    BY <1>0, <1>1, <2>1, <2>2, OpenSessionMoves DEF P!HeadsetConnected
<1>2. ASSUME a.state >= P!ESTABLISHING
      PROVE  PhoneDoes(a, P!HeadsetDisconnected(a), K, FALSE)
  <2>1. a.state # P!AWAY /\ a.state > P!WAITING_FOR_OBSERVER
    BY <1>0, <1>2 DEF P!ESTABLISHING, P!AWAY, P!WAITING_FOR_OBSERVER
  <2>2. a.ws = "open"
    BY <2>1, PhoneOnline
  <2> QED
    BY <1>0, <2>1, <2>2, GoDownMoves DEF P!HeadsetDisconnected
<1>3. PhoneDoes(a, P!GoAway(a), K, FALSE)
  BY <1>0, GoAwayMoves
<1>4. PhoneDoes(a, P!Lost(a), K, FALSE)
  <2>1. PICK ph : ph = [a EXCEPT !.ws = "closed"]
    OBVIOUS
  <2>2. /\ ph \in PhoneType /\ ph.pcs = a.pcs /\ ph.state = a.state /\ ph.events = a.events
        /\ ph.ws = "closed" /\ ph.outbox = <<>> /\ ph.misled = a.misled
    BY <1>0, <2>1 DEF PhoneType
  <2>3. Leaves(a, ph)
    BY <1>0, <2>2 DEF Leaves, Working
  <2> QED
    BY <2>1, <2>3, GoAwayMoves DEF P!Lost
<1> QED
  BY <1>1, <1>2, <1>3, <1>4

-----------------------------------------------------------------------------
(* News is the end of a page's call.                                       *)

LEMMA ClosesAnew ==
    ASSUME NEW a, NEW K, Ready(a, K), a.ws = "open", a.state = CALL_IN_PROGRESS,
           NEW s \in {WAITING_FOR_JOIN, ESTABLISHING}
    PROVE  LET c == SetState(ClosePC(a), s)
           IN Shaped(c) /\ Does(c, c, K, TRUE) /\ c.state = s
<1>1. s \in PageState /\ s # ERROR /\ s # CALL_IN_PROGRESS /\ CALL_IN_PROGRESS # ERROR
  BY States DEF ERROR, WAITING_FOR_JOIN, ESTABLISHING, CALL_IN_PROGRESS
<1>2. PICK p : p = ClosePC(a)
  OBVIOUS
<1>3. PICK c : c = SetState(p, s)
  OBVIOUS
<1>4. a \in PageType /\ a.outbox = <<>>
  BY DEF Ready, Shaped
<1>5. p \in PageType /\ p.state = CALL_IN_PROGRESS /\ p.outbox = <<>>
  BY <1>2, <1>4, ClosePCCloses DEF Closes
<1>6. c.state = s /\ c.outbox = <<>>
  BY <1>1, <1>3, <1>5, SetStateIs
<1>7. Does(a, c, K, TRUE)
  BY <1>1, <1>2, <1>3, ClosesDoes
<1>8. Ready(c, K)
  BY <1>6, <1>7 DEF Does, Ready
<1> QED
  BY <1>2, <1>3, <1>6, <1>8, ReadyDoes

LEMMA NewsEnds ==
    ASSUME NEW a, NEW K, Ready(a, K), a.ws = "open", NEW m \in Message, IsNews(m),
           Speaks(m) => m.of \in K
    PROVE  Received(a, m).state # CALL_IN_PROGRESS
<1>1. CASE a.state # CALL_IN_PROGRESS
  <2>1. Does(a, Received(a, m), K, IsNews(m))
    BY ReceivedDoes
  <2> QED
    BY <1>1, <2>1 DEF Does, CallKept
<1>2. CASE a.state = CALL_IN_PROGRESS
  <2>0. /\ ~ (a.state <= WAITING_FOR_JOIN) /\ ~ (a.state < ESTABLISHING)
        /\ ~ (a.state < GET_USER_MEDIA) /\ a.state > ESTABLISHING
        /\ WAITING_FOR_JOIN # CALL_IN_PROGRESS /\ ESTABLISHING # CALL_IN_PROGRESS
        /\ NoPeer \in K /\ NoPeer \in Nat /\ m.of \in Nat
    BY <1>2 DEF WAITING_FOR_JOIN, GET_USER_MEDIA, ESTABLISHING, CALL_IN_PROGRESS, Ready, Within,
       Message
  <2>1. CASE m.type = "leave"
    <3>1. PICK c : c = SetState(ClosePC(a), WAITING_FOR_JOIN)
      OBVIOUS
    <3>2. Shaped(c) /\ Does(c, c, K, TRUE) /\ c.state # CALL_IN_PROGRESS
      BY <1>2, <2>0, <3>1, ClosesAnew
    <3>3. Received(a, m) = Settle(c)
      BY <2>0, <2>1, <3>1 DEF Received, OnLeave
    <3>4. Does(c, Settle(c), K, TRUE)
      BY <3>2, FailDoes
    <3> QED
      BY <3>2, <3>3, <3>4 DEF Does, CallKept
  <2>2. CASE m.type = "reset" \/ m.type = "offer"
    <3>1. PICK c : c = SetState(ClosePC(a), ESTABLISHING)
      OBVIOUS
    <3>2. Shaped(c) /\ Does(c, c, K, TRUE) /\ c.state # CALL_IN_PROGRESS
      BY <1>2, <2>0, <3>1, ClosesAnew
    <3>3. PICK o : o = IF m.type = "offer" THEN m.of ELSE NoPeer
      OBVIOUS
    <3>4. o \in Nat /\ o \in K
      BY <2>0, <3>3 DEF Speaks
    <3>5. Received(a, m) = Settle(RequestLocalMedia(c, o))
      <4>1. CASE m.type = "reset"
        BY <2>0, <3>1, <3>3, <4>1 DEF Received, OnReset
      <4>2. CASE m.type = "offer"
        BY <2>0, <3>1, <3>3, <4>2 DEF Received, OnOffer
      <4> QED
        BY <2>2, <4>1, <4>2
    <3>6. Does(c, RequestLocalMedia(c, o), K, TRUE)
      BY <3>2, <3>4, RequestDoes
    <3>7. Does(c, Settle(RequestLocalMedia(c, o)), K, TRUE)
      BY <3>2, <3>6, FailDoes
    <3> QED
      BY <3>2, <3>5, <3>7 DEF Does, CallKept
  <2> QED
    BY <2>1, <2>2 DEF IsNews
<1> QED
  BY <1>1, <1>2

-----------------------------------------------------------------------------
(* What the two ends know of each other.  In all that follows one end is e, *)
(* the other f; `box' is what e has to read, `far' what f has to read.      *)

Carries(m, n) == Speaks(m) /\ m.of = n

\* The end has heard of connection n of the other.
Knows(e, n) ==
    \/ \E i \in DOMAIN e.pcs : e.pcs[i].peer = n
    \/ /\ e.role # "phone"
       /\ \/ \E k \in DOMAIN e.waiting : e.waiting[k] = n
          \/ \E k \in DOMAIN e.held : Carries(e.held[k], n)

\* It has, or it will when it has read all.
Reached(n, f, far) == Knows(f, n) \/ \E k \in DOMAIN far : Carries(far[k], n)

HasNews(box) == \E k \in DOMAIN box : IsNews(box[k])

\* Only what was made is known.
Numbered(e, f, far) == \A n \in Nat \ {NoPeer} : Reached(n, f, far) => n \in DOMAIN e.pcs

\* An observer has made up its mind before its connection is known.
Answered(e, f, far) ==
    e.role = "observer" /\ Current(e) # Pending /\ Reached(Current(e), f, far) => Engaged(e)

\* The ends whose calls are followed here.
Trusted(e) == IF e.role = "phone" THEN ~e.misled ELSE e.role = "observer"

\* There is no news behind what was said of the session's connection.
Heard(e, f, far) ==
    Trusted(e) /\ Current(e) # Pending =>
        /\ \A k, l \in DOMAIN far : Carries(far[k], Current(e)) /\ k < l => ~IsNews(far[l])
        /\ Knows(f, Current(e)) => ~HasNews(far)

\* Nothing is known of a connection of the phone's whose offer is not made.
Unsaid(e, f, far) ==
    e.role = "phone" /\ ~e.misled /\ e.state >= P!ESTABLISHING
    /\ e.pcs[Len(e.pcs)].desc = "making" => ~Reached(Len(e.pcs), f, far)

Link(e, f, far) ==
    Numbered(e, f, far) /\ Answered(e, f, far) /\ Heard(e, f, far) /\ Unsaid(e, f, far)

\* What is so of an end by itself; `has' if it has a seat.
Placed(e, box, has) ==
    /\ e.ws = "open" => has
    /\ e.ws # "open" => box = <<>>
    /\ Standing(e)
    /\ e.role = "phone" /\ ~e.misled => Once(e)

\* The end shows a call, or is about to.
Claim(e) ==
    /\ Trusted(e)
    /\ IF e.role = "phone" THEN Claims(e) ELSE e.state = CALL_IN_PROGRESS /\ ~e.overlapped

Pairs(e, f, i) == e.pcs[i].peer \in DOMAIN f.pcs /\ f.pcs[e.pcs[i].peer].peer = i

\* A call is with the other end, or news is on its way; `sits' if f has a seat.
Matched(e, f, box, sits) ==
    Claim(e) => \/ Current(e) # Pending /\ Pairs(e, f, Current(e))
                \/ HasNews(box)
                \/ sits /\ f.ws # "open"

\* A phone alone in the room waits for an observer, or will hear that it has left.
Present(e, box, sits) ==
    e.role = "phone" /\ ~sits =>
        /\ \A k \in DOMAIN box : box[k].type = "join" =>
              \E l \in DOMAIN box : k < l /\ box[l].type = "leave"
        /\ e.state > P!WAITING_FOR_OBSERVER => \E l \in DOMAIN box : box[l].type = "leave"

Between(e, f, box, far, has, sits) ==
    Link(e, f, far) /\ Placed(e, box, has) /\ Matched(e, f, box, sits) /\ Present(e, box, sits)

SideInv(s) ==
    Between(end[s], end[Other(s)], inbox[s], inbox[Other(s)], s \in seated, Other(s) \in seated)

DInv == SInv /\ SideInv("observer") /\ SideInv("wearer")

\* What every turn of an end is to the other: the actor a becomes q and says `out'; what is
\* left of its box is box2, and far2 is what f has to read then.
Reads(a, q, box, box2) ==
    \E d \in {0, 1} :
        /\ \A k \in DOMAIN box2 : \/ box2[k].type = "join"
                                  \/ k + d \in DOMAIN box /\ box2[k] = box[k + d]
        /\ \A n \in Nat \ {NoPeer} :
              Knows(q, n) => Knows(a, n) \/ (d = 1 /\ 1 \in DOMAIN box /\ Carries(box[1], n))

NothingElse(far, out, far2) ==
    \A k \in DOMAIN far2 :
        \/ k \in DOMAIN far /\ far2[k] = far[k]
        \/ /\ k > Len(far) /\ k - Len(far) \in DOMAIN out
           /\ far2[k] = out[k - Len(far)]

Goes(a, q) ==
    /\ q.role = a.role
    /\ Len(a.pcs) <= Len(q.pcs)
    /\ Current(q) \in {Current(a), Pending} \/ Current(q) > Len(a.pcs)

Tactful(a, q, out, f, far) ==
    /\ \A k \in DOMAIN out : Speaks(out[k]) =>
          /\ Len(out) = 1 /\ out[k].of \in DOMAIN a.pcs
          /\ q.role = "observer" => Engaged(q)
    /\ Current(q) = Current(a) /\ Current(a) # Pending /\ Reached(Current(a), f, far) =>
          /\ Engaged(a) => Engaged(q)
          /\ \A k \in DOMAIN out : out[k].type \notin {"reset", "leave"}
    /\ q.role = "observer" => \A k \in DOMAIN out : out[k].type # "offer"

\* The phone's offer is that of its session, and its first word about it.
Offers(a, q, out) ==
    q.role = "phone" /\ ~q.misled /\ q.state >= P!ESTABLISHING =>
        /\ ~a.misled
        /\ \/ /\ Len(q.pcs) > Len(a.pcs) /\ \A k \in DOMAIN out : ~Speaks(out[k])
           \/ /\ Len(q.pcs) = Len(a.pcs) /\ a.state >= P!ESTABLISHING
              /\ q.pcs[Len(q.pcs)].desc = "making" =>
                    /\ a.pcs[Len(q.pcs)].desc = "making"
                    /\ \A k \in DOMAIN out : ~Speaks(out[k])
              /\ \A k \in DOMAIN out : Speaks(out[k]) =>
                    a.pcs[Len(q.pcs)].desc = "making" /\ out[k].of = Len(q.pcs)

Turn(a, q, out, box, box2, f, far, far2) ==
    Reads(a, q, box, box2) /\ NothingElse(far, out, far2) /\ Goes(a, q)
    /\ Tactful(a, q, out, f, far) /\ Offers(a, q, out)
    /\ (a.role = "phone" /\ a.misled => q.misled)

\* What is on the way is a sequence of messages, what was made one of connections.
Counted(e) == e.pcs \in Seq(Connection)

\* What f reads, it has heard already or is to hear.
LEMMA ReadsReach ==
    ASSUME NEW a, NEW q, NEW box \in Seq(Message), NEW box2 \in Seq(Message),
           Reads(a, q, box, box2), NEW n \in Nat, n # NoPeer, Reached(n, q, box2)
    PROVE  Reached(n, a, box)
<1>1. PICK d \in {0, 1} :
        /\ \A k \in DOMAIN box2 : \/ box2[k].type = "join"
                                  \/ k + d \in DOMAIN box /\ box2[k] = box[k + d]
        /\ \A i \in Nat \ {NoPeer} :
              Knows(q, i) => Knows(a, i) \/ (d = 1 /\ 1 \in DOMAIN box /\ Carries(box[1], i))
  BY DEF Reads
<1>2. CASE Knows(q, n)
  BY <1>1, <1>2 DEF Reached
<1>3. CASE \E k \in DOMAIN box2 : Carries(box2[k], n)
  <2>1. PICK k \in DOMAIN box2 : Carries(box2[k], n)
    BY <1>3
  <2>2. box2[k].type # "join"
    BY <2>1 DEF Carries, Speaks
  <2>3. k + d \in DOMAIN box /\ Carries(box[k + d], n)
    BY <1>1, <2>1, <2>2
  <2> QED
    BY <2>3 DEF Reached
<1> QED
  BY <1>2, <1>3 DEF Reached

LEMMA NumberedStays ==
    ASSUME NEW a, Counted(a), NEW q, Counted(q), NEW out \in Seq(Message),
           NEW box \in Seq(Message), NEW box2 \in Seq(Message), NEW f,
           NEW far \in Seq(Message), NEW far2 \in Seq(Message),
           Turn(a, q, out, box, box2, f, far, far2)
    PROVE  /\ Numbered(a, f, far) => Numbered(q, f, far2)
           /\ Numbered(f, a, box) => Numbered(f, q, box2)
<1>1. ASSUME Numbered(a, f, far), NEW n \in Nat \ {NoPeer}, Reached(n, f, far2)
      PROVE  n \in DOMAIN q.pcs
  <2>1. DOMAIN a.pcs \subseteq DOMAIN q.pcs
    BY DEF Turn, Goes, Counted
  <2>2. CASE Knows(f, n)
    BY <1>1, <2>1, <2>2 DEF Numbered, Reached
  <2>3. CASE \E k \in DOMAIN far2 : Carries(far2[k], n)
    <3>1. PICK k \in DOMAIN far2 : Carries(far2[k], n)
      BY <2>3
    <3>2. CASE k \in DOMAIN far /\ far2[k] = far[k]
      <4>1. Reached(n, f, far)
        BY <3>1, <3>2 DEF Reached
      <4> QED
        BY <1>1, <2>1, <4>1 DEF Numbered
    <3>3. CASE k - Len(far) \in DOMAIN out /\ far2[k] = out[k - Len(far)]
      BY <2>1, <3>1, <3>3 DEF Turn, Tactful, Carries
    <3> QED
      BY <3>1, <3>2, <3>3 DEF Turn, NothingElse
  <2> QED
    BY <1>1, <2>2, <2>3 DEF Reached
<1>2. ASSUME Numbered(f, a, box), NEW n \in Nat \ {NoPeer}, Reached(n, q, box2)
      PROVE  n \in DOMAIN f.pcs
  <2>1. Reached(n, a, box)
    BY <1>2, ReadsReach DEF Turn
  <2> QED
    BY <1>2, <2>1 DEF Numbered
<1> QED
  BY <1>1, <1>2 DEF Numbered

\* Whether the session's connection was known before.
LEMMA KnownBefore ==
    ASSUME NEW a, Counted(a), NEW q, Goes(a, q), NEW f, NEW far, Numbered(a, f, far),
           Current(q) \in Nat, Current(q) # Pending, Reached(Current(q), f, far)
    PROVE  Current(q) = Current(a)
<1>1. Current(q) \in DOMAIN a.pcs
  BY DEF Numbered
<1>2. ~ (Current(q) > Len(a.pcs))
  BY <1>1 DEF Counted
<1> QED
  BY <1>2 DEF Goes

LEMMA AnsweredStays ==
    ASSUME NEW a, Counted(a), NEW q, Counted(q), NEW out \in Seq(Message),
           NEW box \in Seq(Message), NEW box2 \in Seq(Message), NEW f,
           NEW far \in Seq(Message), NEW far2 \in Seq(Message),
           Current(q) \in Nat, Current(f) \in Nat,
           Turn(a, q, out, box, box2, f, far, far2)
    PROVE  /\ Numbered(a, f, far) /\ Answered(a, f, far) => Answered(q, f, far2)
           /\ Answered(f, a, box) => Answered(f, q, box2)
<1>1. ASSUME Numbered(a, f, far), Answered(a, f, far), q.role = "observer",
             Current(q) # Pending, Reached(Current(q), f, far2)
      PROVE  Engaged(q)
  <2>1. CASE Reached(Current(q), f, far)
    <3>1. Current(q) = Current(a) /\ a.role = "observer"
      BY <1>1, <2>1, KnownBefore DEF Turn, Goes
    <3>2. Engaged(a)
      BY <1>1, <2>1, <3>1 DEF Answered
    <3> QED
      BY <1>1, <2>1, <3>1, <3>2 DEF Turn, Tactful
  <2>2. CASE ~Reached(Current(q), f, far)
    <3>1. PICK k \in DOMAIN far2 : Carries(far2[k], Current(q))
      BY <1>1, <2>2 DEF Reached
    <3>2. k - Len(far) \in DOMAIN out /\ Speaks(out[k - Len(far)])
      BY <2>2, <3>1 DEF Turn, NothingElse, Reached, Carries
    <3> QED
      BY <1>1, <3>2 DEF Turn, Tactful
  <2> QED
    BY <2>1, <2>2
<1>2. ASSUME Answered(f, a, box), f.role = "observer", Current(f) # Pending,
             Reached(Current(f), q, box2)
      PROVE  Engaged(f)
  <2>1. Reached(Current(f), a, box)
    BY <1>2, ReadsReach DEF Turn
  <2> QED
    BY <1>2, <2>1 DEF Answered
<1> QED
  BY <1>1, <1>2 DEF Answered

\* There is still no news behind what f has to read of the session of the actor.
LEMMA HeardStays ==
    ASSUME NEW a, Counted(a), NEW q, Counted(q), NEW out \in Seq(Message),
           NEW box \in Seq(Message), NEW box2 \in Seq(Message), NEW f,
           NEW far \in Seq(Message), NEW far2 \in Seq(Message),
           Current(q) \in Nat, Turn(a, q, out, box, box2, f, far, far2),
           q.role = "phone" => Current(q) = IF q.state >= P!ESTABLISHING THEN Len(q.pcs) ELSE Pending,
           Numbered(a, f, far), Heard(a, f, far), Unsaid(a, f, far)
    PROVE  Heard(q, f, far2)
<1> DEFINE n == Current(q)
<1> SUFFICES ASSUME Trusted(q), n # Pending
             PROVE  /\ \A k, l \in DOMAIN far2 : Carries(far2[k], n) /\ k < l => ~IsNews(far2[l])
                    /\ Knows(f, n) => ~HasNews(far2)
  BY DEF Heard
<1>0. Trusted(a) /\ q.role = a.role
  BY DEF Turn, Goes, Trusted
<1>1. ASSUME Reached(n, f, far)
      PROVE  /\ Current(a) = n /\ \A k \in DOMAIN out : ~IsNews(out[k])
             /\ \A k, l \in DOMAIN far : Carries(far[k], n) /\ k < l => ~IsNews(far[l])
             /\ Knows(f, n) => ~HasNews(far)
  <2>1. Current(a) = n
    BY <1>1, KnownBefore DEF Turn
  <2>2. \A k \in DOMAIN out : out[k].type \notin {"reset", "leave"}
    BY <1>1, <2>1 DEF Turn, Tactful
  <2>3. \A k \in DOMAIN out : out[k].type # "offer"
    <3>1. CASE q.role = "observer"
      BY <3>1 DEF Turn, Tactful
    <3>2. CASE q.role = "phone"
      <4>1. q.state >= P!ESTABLISHING /\ n = Len(q.pcs) /\ ~q.misled
        BY <3>2 DEF Trusted
      <4>2. ~ (Len(q.pcs) > Len(a.pcs))
        <5>1. n \in DOMAIN a.pcs
          BY <1>1 DEF Numbered
        <5> QED
          BY <4>1, <5>1 DEF Counted
      <4>3. /\ Len(q.pcs) = Len(a.pcs) /\ a.state >= P!ESTABLISHING
            /\ \A k \in DOMAIN out : Speaks(out[k]) => a.pcs[Len(a.pcs)].desc = "making"
        BY <3>2, <4>1, <4>2 DEF Turn, Offers
      <4>4. a.pcs[Len(a.pcs)].desc # "making"
        BY <1>0, <1>1, <3>2, <4>1, <4>3 DEF Unsaid, Trusted
      <4> QED
        BY <4>3, <4>4 DEF Speaks
    <3> QED
      BY <3>1, <3>2 DEF Trusted
  <2> QED
    BY <1>0, <2>1, <2>2, <2>3 DEF IsNews, Heard
<1>2. CASE Reached(n, f, far)
  <2>1. \A l \in DOMAIN far2 : IsNews(far2[l]) => l \in DOMAIN far /\ far2[l] = far[l]
    BY <1>1, <1>2 DEF Turn, NothingElse
  <2>2. ASSUME NEW k \in DOMAIN far2, NEW l \in DOMAIN far2, Carries(far2[k], n), k < l
        PROVE  ~IsNews(far2[l])
    <3> SUFFICES ASSUME IsNews(far2[l]) PROVE FALSE
      OBVIOUS
    <3>1. l \in DOMAIN far /\ far2[l] = far[l]
      BY <2>1
    <3>2. ~ (k > Len(far))
      BY <2>2, <3>1
    <3>3. k \in DOMAIN far /\ far2[k] = far[k]
      BY <3>2 DEF Turn, NothingElse
    <3> QED
      BY <1>1, <1>2, <2>2, <3>1, <3>3
  <2>3. Knows(f, n) => ~HasNews(far2)
    BY <1>1, <1>2, <2>1 DEF HasNews
  <2> QED
    BY <2>2, <2>3
<1>3. CASE ~Reached(n, f, far)
  <2>1. ASSUME NEW k \in DOMAIN far2, Carries(far2[k], n)
        PROVE  k = Len(far2) \/ \A l \in DOMAIN far2 : ~ (k < l)
    <3>1. /\ k > Len(far) /\ k - Len(far) \in DOMAIN out /\ far2[k] = out[k - Len(far)]
      BY <1>3, <2>1 DEF Turn, NothingElse, Reached
    <3>2. Len(out) = 1
      BY <2>1, <3>1 DEF Turn, Tactful, Carries
    <3>3. k = Len(far) + 1
      BY <3>1, <3>2
    <3>4. ASSUME NEW l \in DOMAIN far2, k < l PROVE FALSE
      <4>1. l > Len(far) /\ l - Len(far) # 1
        BY <3>3, <3>4
      <4>2. l - Len(far) \in DOMAIN out
        BY <4>1 DEF Turn, NothingElse
      <4> QED
        BY <3>2, <4>1, <4>2
    <3> QED
      BY <3>4
  <2> QED
    BY <1>3, <2>1 DEF Reached
<1> QED
  BY <1>2, <1>3

\* The same of what the actor has to read of the other's session.
LEMMA HeardFurther ==
    ASSUME NEW a, NEW q, NEW box \in Seq(Message), NEW box2 \in Seq(Message), NEW f,
           Current(f) \in Nat, Reads(a, q, box, box2), Heard(f, a, box)
    PROVE  Heard(f, q, box2)
<1> DEFINE n == Current(f)
<1> SUFFICES ASSUME Trusted(f), n # Pending
             PROVE  /\ \A k, l \in DOMAIN box2 : Carries(box2[k], n) /\ k < l => ~IsNews(box2[l])
                    /\ Knows(q, n) => ~HasNews(box2)
  BY DEF Heard
<1>1. PICK d \in {0, 1} :
        /\ \A k \in DOMAIN box2 : \/ box2[k].type = "join"
                                  \/ k + d \in DOMAIN box /\ box2[k] = box[k + d]
        /\ \A i \in Nat \ {NoPeer} :
              Knows(q, i) => Knows(a, i) \/ (d = 1 /\ 1 \in DOMAIN box /\ Carries(box[1], i))
  BY DEF Reads
<1>2. /\ \A k, l \in DOMAIN box : Carries(box[k], n) /\ k < l => ~IsNews(box[l])
      /\ Knows(a, n) => ~HasNews(box)
  BY DEF Heard
<1>3. \A k \in DOMAIN box2 : Speaks(box2[k]) \/ IsNews(box2[k]) =>
         k + d \in DOMAIN box /\ box2[k] = box[k + d]
  BY <1>1 DEF Speaks, IsNews
<1>4. ASSUME NEW k \in DOMAIN box2, NEW l \in DOMAIN box2, Carries(box2[k], n), k < l
      PROVE  ~IsNews(box2[l])
  <2> SUFFICES ASSUME IsNews(box2[l]) PROVE FALSE
    OBVIOUS
  <2>1. /\ k + d \in DOMAIN box /\ box2[k] = box[k + d]
        /\ l + d \in DOMAIN box /\ box2[l] = box[l + d]
    BY <1>3, <1>4 DEF Carries
  <2>2. k + d < l + d
    BY <1>4
  <2> QED
    BY <1>2, <1>4, <2>1, <2>2
<1>5. ASSUME Knows(q, n), NEW l \in DOMAIN box2, IsNews(box2[l]) PROVE FALSE
  <2>1. l + d \in DOMAIN box /\ IsNews(box[l + d])
    BY <1>3, <1>5
  <2>2. CASE Knows(a, n)
    BY <1>2, <2>1, <2>2 DEF HasNews
  <2>3. CASE d = 1 /\ 1 \in DOMAIN box /\ Carries(box[1], n)
    <3>1. 1 < l + d
      BY <1>5, <2>3
    <3> QED
      BY <1>2, <2>1, <2>3, <3>1
  <2> QED
    BY <1>1, <1>5, <2>2, <2>3
<1> QED
  BY <1>4, <1>5 DEF HasNews

LEMMA UnsaidStays ==
    ASSUME NEW a, Counted(a), NEW q, Counted(q), NEW out \in Seq(Message),
           NEW box \in Seq(Message), NEW box2 \in Seq(Message), NEW f,
           NEW far \in Seq(Message), NEW far2 \in Seq(Message),
           Turn(a, q, out, box, box2, f, far, far2),
           q.role = "phone" /\ q.state >= P!ESTABLISHING => q.pcs # <<>>,
           Numbered(a, f, far), Unsaid(a, f, far)
    PROVE  Unsaid(q, f, far2)
<1> SUFFICES ASSUME q.role = "phone", ~q.misled, q.state >= P!ESTABLISHING,
                    q.pcs[Len(q.pcs)].desc = "making", Reached(Len(q.pcs), f, far2)
             PROVE  FALSE
  BY DEF Unsaid
<1> DEFINE n == Len(q.pcs)
<1>1. /\ ~a.misled /\ a.role = "phone"
      /\ \/ n > Len(a.pcs)
         \/ n = Len(a.pcs) /\ a.state >= P!ESTABLISHING /\ a.pcs[n].desc = "making"
      /\ \A k \in DOMAIN out : ~Speaks(out[k])
  BY DEF Turn, Offers, Goes
<1>2. Reached(n, f, far)
  BY <1>1 DEF Reached, Turn, NothingElse, Carries
<1>3. n \in DOMAIN a.pcs
  BY <1>2 DEF Numbered, Counted
<1>4. n = Len(a.pcs) /\ a.state >= P!ESTABLISHING /\ a.pcs[n].desc = "making"
  BY <1>1, <1>3 DEF Counted
<1> QED
  BY <1>1, <1>2, <1>4 DEF Unsaid

LEMMA UnsaidFurther ==
    ASSUME NEW a, NEW q, NEW box \in Seq(Message), NEW box2 \in Seq(Message), NEW f, Counted(f),
           f.role = "phone" /\ f.state >= P!ESTABLISHING => f.pcs # <<>>,
           Reads(a, q, box, box2), Unsaid(f, a, box)
    PROVE  Unsaid(f, q, box2)
<1> SUFFICES ASSUME f.role = "phone", ~f.misled, f.state >= P!ESTABLISHING,
                    f.pcs[Len(f.pcs)].desc = "making", Reached(Len(f.pcs), q, box2)
             PROVE  FALSE
  BY DEF Unsaid
<1>1. Len(f.pcs) \in Nat /\ Len(f.pcs) # NoPeer
  BY DEF Counted
<1>2. Reached(Len(f.pcs), a, box)
  BY <1>1, ReadsReach
<1> QED
  BY <1>2 DEF Unsaid

\* What is known of an end that has no task.
End(e) ==
    /\ Counted(e) /\ Current(e) \in 0 .. Len(e.pcs)
    /\ e.role = "phone" =>
          /\ Current(e) = IF e.state >= P!ESTABLISHING THEN Len(e.pcs) ELSE Pending
          /\ e.state >= P!ESTABLISHING => e.pcs # <<>>
    /\ e.role # "observer" /\ Current(e) # Pending => Engaged(e)
    /\ Engaged(e) \/ Claim(e) => e.ws = "open"

LEMMA LinkStays ==
    ASSUME NEW a, End(a), NEW q, End(q), NEW out \in Seq(Message),
           NEW box \in Seq(Message), NEW box2 \in Seq(Message), NEW f, End(f),
           NEW far \in Seq(Message), NEW far2 \in Seq(Message),
           Turn(a, q, out, box, box2, f, far, far2)
    PROVE  /\ Link(a, f, far) => Link(q, f, far2)
           /\ Link(f, a, box) => Link(f, q, box2)
<1>0. /\ Counted(a) /\ Counted(q) /\ Counted(f) /\ Current(q) \in Nat /\ Current(f) \in Nat
      /\ Reads(a, q, box, box2)
      /\ q.role = "phone" =>
            /\ Current(q) = IF q.state >= P!ESTABLISHING THEN Len(q.pcs) ELSE Pending
            /\ q.state >= P!ESTABLISHING => q.pcs # <<>>
      /\ f.role = "phone" /\ f.state >= P!ESTABLISHING => f.pcs # <<>>
  BY DEF End, Turn, Counted
<1>1. ASSUME Link(a, f, far) PROVE Link(q, f, far2)
  <2>0. Numbered(a, f, far) /\ Answered(a, f, far) /\ Heard(a, f, far) /\ Unsaid(a, f, far)
    BY <1>1 DEF Link
  <2>1. Numbered(q, f, far2)
    BY <1>0, <2>0, NumberedStays
  <2>2. Answered(q, f, far2)
    BY <1>0, <2>0, AnsweredStays
  <2>3. Heard(q, f, far2)
    BY <1>0, <2>0, HeardStays
  <2>4. Unsaid(q, f, far2)
    BY <1>0, <2>0, UnsaidStays
  <2> QED
    BY <2>1, <2>2, <2>3, <2>4 DEF Link
<1>2. ASSUME Link(f, a, box) PROVE Link(f, q, box2)
  <2>0. Numbered(f, a, box) /\ Answered(f, a, box) /\ Heard(f, a, box) /\ Unsaid(f, a, box)
    BY <1>2 DEF Link
  <2>1. Numbered(f, q, box2)
    BY <1>0, <2>0, NumberedStays
  <2>2. Answered(f, q, box2)
    <3>1. Answered(f, a, box) => Answered(f, q, box2)
      BY <1>0, AnsweredStays
    <3> QED
      BY <2>0, <3>1
  <2>3. Heard(f, q, box2)
    BY <1>0, <2>0, HeardFurther
  <2>4. Unsaid(f, q, box2)
    BY <1>0, <2>0, UnsaidFurther
  <2> QED
    BY <2>1, <2>2, <2>3, <2>4 DEF Link
<1> QED
  BY <1>1, <1>2

\* A call of the actor's is still with the other end.
LEMMA MatchedStays ==
    ASSUME NEW a, End(a), NEW q, End(q), NEW f, End(f), NEW sits \in BOOLEAN, Advances(a, q),
           NEW box, NEW box2, HasNews(box) => HasNews(box2) \/ ~Claim(q),
           Claim(q) => \/ Claim(a) /\ Current(q) = Current(a)
                       \/ Current(q) # Pending /\ Pairs(q, f, Current(q)),
           Matched(a, f, box, sits)
    PROVE  Matched(q, f, box2, sits)
<1> SUFFICES ASSUME Claim(q), ~HasNews(box2), ~ (sits /\ f.ws # "open")
             PROVE  Current(q) # Pending /\ Pairs(q, f, Current(q))
  BY DEF Matched
<1>1. CASE Claim(a) /\ Current(q) = Current(a)
  <2> DEFINE i == Current(a)
  <2>1. i # Pending /\ Pairs(a, f, i)
    BY <1>1 DEF Matched
  <2>2. i \in DOMAIN a.pcs /\ a.pcs[i].peer # NoPeer
    BY <2>1 DEF End, Counted, Pairs
  <2>3. q.pcs[i].peer = a.pcs[i].peer
    BY <1>1, <2>2 DEF Advances
  <2> QED
    BY <1>1, <2>1, <2>3 DEF Pairs
<1> QED
  BY <1>1

\* What was said arrives.
Delivered(far, out, far2) ==
    /\ \A k \in DOMAIN far : k \in DOMAIN far2 /\ far2[k] = far[k]
    /\ \A k \in DOMAIN out : /\ Len(far) + k \in DOMAIN far2
                             /\ far2[Len(far) + k] = out[k]

\* The actor does not leave its session, or the room, without a word.
Minds(a, q, out, box, has, has2) ==
    /\ Current(a) # Pending /\ Engaged(a) /\ Current(q) # Current(a) =>
          \/ HasNews(box) \/ q.ws # "open"
          \/ \E k \in DOMAIN out : out[k].type = "reset"
    /\ has /\ q.ws # "open" => has2 \/ \E k \in DOMAIN out : out[k].type = "leave"
    /\ has /\ a.ws # "open" => q.ws # "open"

\* A call of the other end's is with the actor, or the other end will hear of the contrary.
LEMMA MatchedFurther ==
    ASSUME NEW a, End(a), NEW q, End(q), NEW out \in Seq(Message), NEW f, End(f),
           NEW box, NEW far \in Seq(Message), NEW far2 \in Seq(Message),
           NEW has \in BOOLEAN, NEW has2 \in BOOLEAN, a.ws = "open" => has,
           Advances(a, q), f.ws = "open" => Delivered(far, out, far2),
           Minds(a, q, out, box, has, has2),
           Answered(a, f, far), Heard(f, a, box), Matched(f, a, far, has)
    PROVE  Matched(f, q, far2, has2)
<1> SUFFICES ASSUME Claim(f), ~HasNews(far2), ~ (has2 /\ q.ws # "open")
             PROVE  Current(f) # Pending /\ Pairs(f, q, Current(f))
  BY DEF Matched
<1>1. Delivered(far, out, far2)
  BY DEF End
<1>2. ~HasNews(far) /\ \A k \in DOMAIN out : ~IsNews(out[k])
  BY <1>1 DEF Delivered, HasNews
<1>3. \A k \in DOMAIN out : out[k].type # "reset" /\ out[k].type # "leave"
  BY <1>2 DEF IsNews
<1>4. ~ (has /\ q.ws # "open") /\ ~ (has /\ a.ws # "open")
  BY <1>3 DEF Minds
<1> DEFINE i == Current(f)
           j == f.pcs[i].peer
<1>5. i # Pending /\ j \in DOMAIN a.pcs /\ a.pcs[j].peer = i
  BY <1>2, <1>4 DEF Matched, Pairs
<1>6. CASE j = Current(a) /\ Current(q) # Current(a)
  <2>1. i \in DOMAIN f.pcs /\ j # Pending
    BY <1>5 DEF End, Counted
  <2>2. Reached(Current(a), f, far)
    BY <1>6, <2>1 DEF Reached, Knows
  <2>3. Engaged(a) /\ a.ws = "open"
    BY <1>6, <2>1, <2>2 DEF Answered, End
  <2>4. Knows(a, i)
    BY <1>5 DEF Knows
  <2>5. ~HasNews(box)
    BY <1>5, <2>4 DEF Heard, Claim
  <2> QED
    BY <1>3, <1>4, <1>6, <2>1, <2>3, <2>5 DEF Minds
<1>7. CASE ~ (j = Current(a) /\ Current(q) # Current(a))
  <2>1. q.pcs[j].peer = i
    BY <1>5, <1>7 DEF Advances
  <2>2. j \in DOMAIN q.pcs
    BY <1>5 DEF Advances, End, Counted
  <2> QED
    BY <1>5, <2>1, <2>2 DEF Pairs
<1> QED
  BY <1>6, <1>7

LEMMA EndOf ==
    ASSUME NEW s \in Side, NEW e, EndSound(s, e), Standing(e)
    PROVE  End(e)
<1>1. CASE e.role # "phone"
  <2>1. /\ Sound(e) /\ e \in PageType /\ e.pcs \in Seq(Connection) /\ e.promise \in 0 .. Len(e.pcs)
        /\ e.state \in PageState /\ e.ws \in {"connecting", "open", "closed"}
        /\ e.role \in {"observer", "glass-wearer"}
    BY <1>1 DEF EndSound, Sound, Connected, PageType
  <2>2. /\ Current(e) = e.promise /\ (Engaged(e) <=> e.state >= ESTABLISHING) /\ Online(e)
    BY <2>1, PageCurrent
  <2>3. e.role # "observer" /\ e.promise # Pending => e.state >= ESTABLISHING
    BY <2>1 DEF Sound, Connected
  <2>4. Claim(e) => e.state >= ESTABLISHING
    BY <1>1, States DEF Claim
  <2>5. e.state >= ESTABLISHING => e.ws = "open"
    BY <2>1, <2>2, States DEF Online
  <2> QED
    BY <1>1, <2>1, <2>2, <2>3, <2>4, <2>5 DEF End, Counted
<1>2. CASE e.role = "phone"
  <2>1. /\ Working(e) /\ e.pcs \in Seq(Connection) /\ Len(e.pcs) \in Nat
        /\ e.state \in P!PhoneState /\ (e.state >= P!ESTABLISHING => e.pcs # <<>>)
    BY <1>2 DEF EndSound, Working, PhoneType
  <2>2. /\ (Engaged(e) <=> e.state >= P!ESTABLISHING)
        /\ Current(e) = IF e.state >= P!ESTABLISHING THEN Len(e.pcs) ELSE Pending
        /\ (e.ws # "open" => e.state = P!AWAY)
    BY <2>1, PhoneCurrent
  <2>3. Claim(e) => e.state >= P!ESTABLISHING
    BY <1>2 DEF Claim, Claims
  <2>4. e.state >= P!ESTABLISHING => e.ws = "open"
    BY <2>1, <2>2, PhoneStates
  <2>5. Current(e) \in 0 .. Len(e.pcs) /\ (Current(e) # Pending => Engaged(e))
    BY <2>1, <2>2
  <2> QED
    BY <1>2, <2>1, <2>2, <2>3, <2>4, <2>5 DEF End, Counted
<1> QED
  BY <1>1, <1>2

\* The observer's turn, or what the server notices of it: the phone f is not left alone
\* without being told.
LEMMA PresentFurther ==
    ASSUME NEW out \in Seq(Message), NEW f, Standing(f), NEW far \in Seq(Message),
           NEW far2 \in Seq(Message), NEW has \in BOOLEAN, NEW has2 \in BOOLEAN,
           NothingElse(far, out, far2),
           IF f.ws = "open" THEN Delivered(far, out, far2) ELSE far2 = <<>>,
           has2 \/ (~has /\ out = <<>>) \/ (out # <<>> /\ out[Len(out)].type = "leave"),
           Present(f, far, has)
    PROVE  Present(f, far2, has2)
<1> SUFFICES ASSUME f.role = "phone", ~has2
             PROVE  /\ \A k \in DOMAIN far2 : far2[k].type = "join" =>
                          \E l \in DOMAIN far2 : k < l /\ far2[l].type = "leave"
                    /\ f.state > P!WAITING_FOR_OBSERVER =>
                          \E l \in DOMAIN far2 : far2[l].type = "leave"
  BY DEF Present
<1>1. CASE f.ws # "open"
  <2>1. f.state = P!AWAY /\ far2 = <<>>
    BY <1>1 DEF Standing
  <2>2. ~ (P!AWAY > P!WAITING_FOR_OBSERVER)
    BY DEF P!AWAY, P!WAITING_FOR_OBSERVER
  <2> QED
    BY <2>1, <2>2
<1>2. CASE f.ws = "open" /\ out # <<>> /\ out[Len(out)].type = "leave"
  <2> DEFINE n == Len(far) + Len(out)
  <2>1. n \in DOMAIN far2 /\ far2[n].type = "leave"
    BY <1>2 DEF Delivered
  <2>2. ASSUME NEW k \in DOMAIN far2, far2[k].type = "join" PROVE k < n
    <3>1. CASE k \in DOMAIN far
      BY <1>2, <3>1
    <3>2. CASE k > Len(far) /\ k - Len(far) \in DOMAIN out
      <4>1. k <= n
        BY <3>2
      <4>2. k # n
        BY <2>1, <2>2
      <4> QED
        BY <4>1, <4>2
    <3> QED
      BY <3>1, <3>2 DEF NothingElse
  <2> QED
    BY <2>1, <2>2
<1>3. CASE f.ws = "open" /\ ~has /\ out = <<>>
  <2>1. /\ \A k \in DOMAIN far2 : k \in DOMAIN far /\ far2[k] = far[k]
        /\ \A k \in DOMAIN far : k \in DOMAIN far2 /\ far2[k] = far[k]
    BY <1>3 DEF Delivered, NothingElse
  <2>2. /\ \A k \in DOMAIN far : far[k].type = "join" =>
              \E l \in DOMAIN far : k < l /\ far[l].type = "leave"
        /\ f.state > P!WAITING_FOR_OBSERVER =>
              \E l \in DOMAIN far : far[l].type = "leave"
    BY <1>3 DEF Present
  <2> QED
    BY <2>1, <2>2
<1> QED
  BY <1>1, <1>2, <1>3

\* The phone's own turn, in which it reads the first d messages of its box.
LEMMA PresentStays ==
    ASSUME NEW a, NEW q, q.role = a.role, NEW box \in Seq(Message), NEW box2 \in Seq(Message),
           NEW d \in {0, 1}, NEW sits \in BOOLEAN,
           ~sits => \A k \in DOMAIN box2 : k + d \in DOMAIN box /\ box2[k] = box[k + d],
           q.role = "phone" =>
              IF q.ws = "open"
              THEN \A k \in DOMAIN box : k > d => k - d \in DOMAIN box2 /\ box2[k - d] = box[k]
              ELSE box2 = <<>> /\ q.state = P!AWAY,
           q.role = "phone" /\ q.state > P!WAITING_FOR_OBSERVER =>
              \/ d = 0 /\ a.state > P!WAITING_FOR_OBSERVER
              \/ /\ d = 1 /\ 1 \in DOMAIN box
                 /\ \/ box[1].type = "join"
                    \/ a.state > P!WAITING_FOR_OBSERVER /\ box[1].type # "leave",
           Present(a, box, sits)
    PROVE  Present(q, box2, sits)
<1> SUFFICES ASSUME q.role = "phone", ~sits
             PROVE  /\ \A k \in DOMAIN box2 : box2[k].type = "join" =>
                          \E l \in DOMAIN box2 : k < l /\ box2[l].type = "leave"
                    /\ q.state > P!WAITING_FOR_OBSERVER =>
                          \E l \in DOMAIN box2 : box2[l].type = "leave"
  BY DEF Present
<1>1. CASE q.ws # "open"
  <2>1. ~ (P!AWAY > P!WAITING_FOR_OBSERVER)
    BY DEF P!AWAY, P!WAITING_FOR_OBSERVER
  <2> QED
    BY <1>1, <2>1
<1>2. CASE q.ws = "open"
  <2>1. /\ \A k \in DOMAIN box : box[k].type = "join" =>
              \E l \in DOMAIN box : k < l /\ box[l].type = "leave"
        /\ a.state > P!WAITING_FOR_OBSERVER => \E l \in DOMAIN box : box[l].type = "leave"
    BY DEF Present
  <2>2. \A k \in DOMAIN box : k > d => k - d \in DOMAIN box2 /\ box2[k - d] = box[k]
    BY <1>2
  <2>3. \A k \in DOMAIN box2 : k + d \in DOMAIN box /\ box2[k] = box[k + d] /\ k \in Nat /\ k > 0
    OBVIOUS
  <2>4. ASSUME NEW k \in DOMAIN box2, box2[k].type = "join"
        PROVE  \E l \in DOMAIN box2 : k < l /\ box2[l].type = "leave"
    <3>1. PICK l \in DOMAIN box : k + d < l /\ box[l].type = "leave"
      BY <2>1, <2>3, <2>4
    <3>2. l > d /\ k < l - d
      BY <2>3, <3>1
    <3> QED
      BY <2>2, <3>1, <3>2
  <2>5. ASSUME q.state > P!WAITING_FOR_OBSERVER
        PROVE  \E l \in DOMAIN box2 : box2[l].type = "leave"
    <3>1. PICK l \in DOMAIN box : box[l].type = "leave" /\ l > d
      <4>1. CASE d = 0
        BY <2>1, <2>5, <4>1
      <4>2. CASE d = 1 /\ box[1].type = "join" /\ 1 \in DOMAIN box
        BY <2>1, <4>2
      <4>3. CASE d = 1 /\ box[1].type # "leave" /\ a.state > P!WAITING_FOR_OBSERVER
        BY <2>1, <4>3
      <4> QED
        BY <2>5, <4>1, <4>2, <4>3
    <3> QED
      BY <2>2, <3>1
  <2> QED
    BY <2>4, <2>5
<1> QED
  BY <1>1, <1>2

-----------------------------------------------------------------------------
(* What the room makes of a turn.                                          *)

LEMMA AppendIs ==
    ASSUME NEW b \in Seq(Message), NEW m \in Message
    PROVE  /\ Append(b, m) \in Seq(Message) /\ Len(Append(b, m)) = Len(b) + 1
           /\ \A k \in DOMAIN b : k \in DOMAIN Append(b, m) /\ Append(b, m)[k] = b[k]
           /\ Append(b, m)[Len(b) + 1] = m
OBVIOUS

\* A message that is no join goes to the other side, if it is there; with a leave the
\* sender's seat is given up.
Forwards(r, s, o, m, z) ==
    /\ z \in Rooms
    /\ z.seated = IF m.type = "leave" THEN r.seated \ {s} ELSE r.seated
    /\ z.inbox[s] = r.inbox[s]
    /\ z.inbox[o] = IF o \in r.seated THEN Append(r.inbox[o], m) ELSE r.inbox[o]

LEMMA ForwardIs ==
    ASSUME NEW r \in Rooms, NEW s \in Side, NEW m \in Message, m.type # "join", s \in r.seated,
           NEW o \in Side, o = Other(s), NEW z, z = Handle(r, s, m)
    PROVE  Forwards(r, s, o, m, z)
<1>0. /\ o \in Side /\ o # s /\ r.inbox \in [Side -> Seq(Message)] /\ r.seated \subseteq Side
      /\ r.inbox[o] \in Seq(Message)
  BY OtherIs DEF Rooms
<1>1. PICK b : b = Append(r.inbox[o], m)
  OBVIOUS
<1>2. b \in Seq(Message)
  BY <1>0, <1>1, AppendIs
<1>3. PICK inbox1 : inbox1 = [r.inbox EXCEPT ![o] = b]
  OBVIOUS
<1>4. inbox1 \in [Side -> Seq(Message)] /\ inbox1[o] = b /\ inbox1[s] = r.inbox[s]
  BY <1>0, <1>2, <1>3
<1>5. PICK tell : tell = [r EXCEPT !.inbox = inbox1]
  OBVIOUS
<1>6. tell \in Rooms /\ tell.inbox = inbox1 /\ tell.seated = r.seated
  BY <1>0, <1>4, <1>5 DEF Rooms
<1>7. tell = [r EXCEPT !.inbox[o] = Append(@, m)]
  BY <1>0, <1>1, <1>3, <1>5 DEF Rooms
<1>8. PICK q : q = IF o \in r.seated THEN tell ELSE r
  OBVIOUS
<1>9. /\ q \in Rooms /\ q.seated = r.seated /\ q.inbox[s] = r.inbox[s]
      /\ q.inbox[o] = IF o \in r.seated THEN b ELSE r.inbox[o]
  BY <1>4, <1>6, <1>8
<1>10. CASE m.type = "leave"
  <2>1. z = [q EXCEPT !.seated = @ \ {s}]
    BY <1>7, <1>8, <1>10 DEF Handle
  <2>2. z \in Rooms /\ z.seated = q.seated \ {s} /\ z.inbox = q.inbox
    BY <1>9, <2>1 DEF Rooms
  <2> QED
    BY <1>1, <1>9, <1>10, <2>2 DEF Forwards
<1>11. CASE m.type # "leave"
  <2>1. z = q
    BY <1>7, <1>8, <1>11 DEF Handle
  <2> QED
    BY <1>1, <1>9, <1>11, <2>1 DEF Forwards
<1> QED
  BY <1>10, <1>11

\* The last word may be a leave, no other.
Orderly(out) ==
    \A k \in DOMAIN out : /\ out[k].type # "join"
                          /\ out[k].type = "leave" => k = Len(out)

Quits(out) == \E k \in DOMAIN out : out[k].type = "leave"

\* How far the room is when n messages of s are handled.
UpTo(r, s, o, out, z, n) ==
    /\ z \in Rooms
    /\ z.seated = IF n # 0 /\ out[n].type = "leave" THEN r.seated \ {s} ELSE r.seated
    /\ z.inbox[s] = r.inbox[s]
    /\ IF o \in r.seated
       THEN /\ Len(z.inbox[o]) = Len(r.inbox[o]) + n
            /\ \A k \in 1 .. Len(r.inbox[o]) : z.inbox[o][k] = r.inbox[o][k]
            /\ \A k \in 1 .. n : z.inbox[o][Len(r.inbox[o]) + k] = out[k]
       ELSE z.inbox[o] = r.inbox[o]

LEMMA UpToNext ==
    ASSUME NEW r \in Rooms, NEW s \in Side, NEW o, o = Other(s), NEW out \in Seq(Message),
           Orderly(out), NEW z, NEW n \in Nat, n + 1 \in DOMAIN out, s \in r.seated,
           UpTo(r, s, o, out, z, n)
    PROVE  UpTo(r, s, o, out, Handle(z, s, out[n + 1]), n + 1)
<1>0. PICK m \in Message : m = out[n + 1]
  OBVIOUS
<1>1. m.type # "join"
  BY <1>0 DEF Orderly
<1>2. o \in Side /\ o # s /\ z \in Rooms
  BY OtherIs DEF UpTo
<1>3. z.seated = r.seated
  <2>1. n # 0 => n \in DOMAIN out /\ n # Len(out)
    OBVIOUS
  <2> QED
    BY <2>1 DEF UpTo, Orderly
<1>4. PICK y : y = Handle(z, s, m)
  OBVIOUS
<1>5. /\ y \in Rooms
      /\ y.seated = IF m.type = "leave" THEN r.seated \ {s} ELSE r.seated
      /\ y.inbox[s] = z.inbox[s]
      /\ y.inbox[o] = IF o \in r.seated THEN Append(z.inbox[o], m) ELSE z.inbox[o]
  <2>1. z \in Rooms /\ s \in z.seated
    BY <1>2, <1>3
  <2>2. Forwards(z, s, o, m, y)
    BY <1>1, <1>2, <1>4, <2>1, ForwardIs
  <2> QED
    BY <1>3, <2>2 DEF Forwards
<1>6. ASSUME o \in r.seated
      PROVE  /\ Len(y.inbox[o]) = Len(r.inbox[o]) + (n + 1)
             /\ \A k \in 1 .. Len(r.inbox[o]) : y.inbox[o][k] = r.inbox[o][k]
             /\ \A k \in 1 .. n + 1 : y.inbox[o][Len(r.inbox[o]) + k] = out[k]
  <2>0. z.inbox[o] \in Seq(Message) /\ r.inbox[o] \in Seq(Message)
    BY <1>2 DEF Rooms
  <2>1. PICK b : b = z.inbox[o]
    OBVIOUS
  <2>2. PICK a : a = r.inbox[o]
    OBVIOUS
  <2>3. /\ b \in Seq(Message) /\ a \in Seq(Message) /\ Len(b) = Len(a) + n
        /\ \A k \in 1 .. Len(a) : b[k] = a[k]
        /\ \A k \in 1 .. n : b[Len(a) + k] = out[k]
    BY <1>6, <2>0, <2>1, <2>2 DEF UpTo
  <2>4. PICK c : c = Append(b, m)
    OBVIOUS
  <2>5. /\ Len(c) = Len(b) + 1 /\ c[Len(b) + 1] = m
        /\ \A k \in 1 .. Len(b) : c[k] = b[k]
    BY <2>3, <2>4, AppendIs
  <2>6. Len(c) = Len(a) + (n + 1)
    BY <2>3, <2>5
  <2>7. \A k \in 1 .. Len(a) : c[k] = a[k]
    BY <2>3, <2>5
  <2>8. ASSUME NEW k \in 1 .. n + 1 PROVE c[Len(a) + k] = out[k]
    <3>1. CASE k = n + 1
      <4>1. Len(a) + k = Len(b) + 1
        BY <2>3, <3>1
      <4> QED
        BY <1>0, <2>5, <3>1, <4>1
    <3>2. CASE k \in 1 .. n
      <4>1. Len(a) + k \in 1 .. Len(b)
        BY <2>3, <3>2
      <4> QED
        BY <2>3, <2>5, <3>2, <4>1
    <3> QED
      BY <3>1, <3>2
  <2>9. y.inbox[o] = c
    BY <1>5, <1>6, <2>1, <2>4
  <2> QED
    BY <2>2, <2>6, <2>7, <2>8, <2>9
<1>7. ASSUME o \notin r.seated PROVE y.inbox[o] = r.inbox[o]
  BY <1>5, <1>7 DEF UpTo
<1>8. /\ y.seated = IF n + 1 # 0 /\ out[n + 1].type = "leave" THEN r.seated \ {s} ELSE r.seated
      /\ y.inbox[s] = r.inbox[s]
  BY <1>0, <1>5 DEF UpTo
<1> QED
  BY <1>0, <1>4, <1>5, <1>6, <1>7, <1>8 DEF UpTo

LEMMA HandleAllGoes ==
    ASSUME NEW r \in Rooms, NEW s \in Side, NEW o, o = Other(s), NEW out \in Seq(Message),
           Orderly(out), out # <<>> => s \in r.seated
    PROVE  UpTo(r, s, o, out, HandleAll(r, s, out), Len(out))
<1>1. PICK f : Handles(f, r, s, out, Len(out)) /\ HandleAll(r, s, out) = f[Len(out)]
  BY HandleAllIs
<1> DEFINE S == {n \in Nat : n <= Len(out) => UpTo(r, s, o, out, f[n], n)}
<1>2. 0 \in S
  <2>1. f[0] = r
    BY <1>1 DEF Handles
  <2>2. UpTo(r, s, o, out, r, 0)
    <3>1. r.inbox[o] \in Seq(Message)
      BY OtherIs DEF Rooms
    <3> QED
      BY <3>1 DEF UpTo
  <2> QED
    BY <2>1, <2>2
<1>3. ASSUME NEW n \in Nat, n \in S
      PROVE  n + 1 \in S
  <2> SUFFICES ASSUME n + 1 <= Len(out) PROVE UpTo(r, s, o, out, f[n + 1], n + 1)
    OBVIOUS
  <2>1. UpTo(r, s, o, out, f[n], n)
    BY <1>3
  <2>2. f[n + 1] = Handle(f[n], s, out[n + 1])
    BY <1>1 DEF Handles
  <2>3. n + 1 \in DOMAIN out /\ s \in r.seated
    OBVIOUS
  <2> QED
    BY <2>1, <2>2, <2>3, UpToNext
<1>4. Len(out) \in S
  <2> HIDE DEF S
  <2> QED
    BY <1>2, <1>3, SetInduction
<1> QED
  BY <1>1, <1>4

\* The room when all that s said is handled.
AllHandled(r, s, o, out, z) ==
    /\ z \in Rooms /\ z.inbox[s] = r.inbox[s]
    /\ z.seated = IF Quits(out) THEN r.seated \ {s} ELSE r.seated
    /\ o \in r.seated => /\ NothingElse(r.inbox[o], out, z.inbox[o])
                         /\ Delivered(r.inbox[o], out, z.inbox[o])

LEMMA UpToIs ==
    ASSUME NEW r \in Rooms, NEW s \in Side, NEW o \in Side, o = Other(s), NEW out \in Seq(Message),
           Orderly(out), NEW z, UpTo(r, s, o, out, z, Len(out))
    PROVE  AllHandled(r, s, o, out, z)
<1>1. z.seated = IF Quits(out) THEN r.seated \ {s} ELSE r.seated
  <2>1. Quits(out) <=> Len(out) # 0 /\ out[Len(out)].type = "leave"
    BY DEF Quits, Orderly
  <2> QED
    BY <2>1 DEF UpTo
<1>2. ASSUME o \in r.seated
      PROVE  /\ NothingElse(r.inbox[o], out, z.inbox[o])
             /\ Delivered(r.inbox[o], out, z.inbox[o])
  <2>1. PICK b \in Seq(Message) : b = r.inbox[o]
    BY DEF Rooms
  <2>2. PICK c \in Seq(Message) : c = z.inbox[o]
    BY DEF Rooms, UpTo
  <2>3. /\ Len(c) = Len(b) + Len(out)
        /\ \A k \in 1 .. Len(b) : c[k] = b[k]
        /\ \A k \in 1 .. Len(out) : c[Len(b) + k] = out[k]
    BY <1>2, <2>1, <2>2 DEF UpTo
  <2>4. Delivered(b, out, c)
    <3>1. DOMAIN b = 1 .. Len(b) /\ DOMAIN out = 1 .. Len(out) /\ DOMAIN c = 1 .. Len(c)
      OBVIOUS
    <3>2. /\ \A k \in 1 .. Len(b) : k \in 1 .. Len(c)
          /\ \A k \in 1 .. Len(out) : Len(b) + k \in 1 .. Len(c)
      BY <2>3
    <3> QED
      BY <2>3, <3>1, <3>2 DEF Delivered
  <2>5. ASSUME NEW k \in DOMAIN c
        PROVE  \/ k \in DOMAIN b /\ c[k] = b[k]
               \/ k > Len(b) /\ k - Len(b) \in DOMAIN out /\ c[k] = out[k - Len(b)]
    <3>1. CASE k <= Len(b)
      BY <2>3, <3>1
    <3>2. CASE k > Len(b)
      <4>1. PICK l \in 1 .. Len(out) : l = k - Len(b)
        BY <2>3, <3>2
      <4>2. c[Len(b) + l] = out[l] /\ Len(b) + l = k
        BY <2>3, <4>1
      <4> QED
        BY <3>2, <4>1, <4>2
    <3> QED
      BY <3>1, <3>2
  <2> QED
    BY <2>1, <2>2, <2>4, <2>5 DEF NothingElse
<1> QED
  BY <1>1, <1>2 DEF UpTo, AllHandled

\* Side s takes a step to q and says `out'; what is in box is still to be read, and `has2' if
\* it has a seat then.
Exchange(s, q, out, box, has2) ==
    /\ end'[Other(s)] = end[Other(s)]
    /\ inbox'[s] = IF q.ws = "open" THEN box ELSE <<>>
    /\ NothingElse(inbox[Other(s)], out, inbox'[Other(s)])
    /\ IF end[Other(s)].ws = "open"
       THEN Delivered(inbox[Other(s)], out, inbox'[Other(s)])
       ELSE inbox'[Other(s)] = <<>>
    /\ seated' \subseteq Side
    /\ s \in seated' <=> has2
    /\ Other(s) \in seated' <=> Other(s) \in seated

LEMMA NothingOfNothing ==
    ASSUME NEW far, NEW out
    PROVE  NothingElse(far, out, <<>>)
BY DEF NothingElse

LEMMA BecomesExchanges ==
    ASSUME SInv, NEW s \in Side, NEW q, EndSound(s, q), NEW box \in Seq(Message),
           Orderly(q.outbox), q.outbox # <<>> => s \in seated,
           end[Other(s)].ws = "open" => Other(s) \in seated, Becomes(s, q, box)
    PROVE  /\ Exchange(s, q, q.outbox, box, s \in seated /\ ~Quits(q.outbox))
           /\ end'[s] = [q EXCEPT !.outbox = <<>>]
<1>1. PICK o \in Side : o = Other(s) /\ o # s
  BY OtherIs
<1>2. inbox \in [Side -> Seq(Message)] /\ seated \subseteq Side /\ DOMAIN end = Side
  BY DEF SInv, RoomSound, Rooms
<1>3. PICK out \in Seq(Message) : out = q.outbox
  BY DEF EndSound, Working, PhoneType, Sound, PageType
<1>4. PICK r : r = [inbox |-> [inbox EXCEPT ![s] = box], seated |-> seated]
  OBVIOUS
<1>5. /\ r \in Rooms /\ r.seated = seated /\ r.inbox[s] = box /\ r.inbox[o] = inbox[o]
  <2>1. PICK b : b = [inbox EXCEPT ![s] = box]
    OBVIOUS
  <2>2. b \in [Side -> Seq(Message)] /\ b[s] = box /\ b[o] = inbox[o]
    BY <1>1, <1>2, <2>1
  <2>3. r = [inbox |-> b, seated |-> seated]
    BY <1>4, <2>1
  <2> QED
    BY <1>2, <2>2, <2>3 DEF Rooms
<1>6. PICK z : z = HandleAll(r, s, out)
  OBVIOUS
<1>7. UpTo(r, s, o, out, z, Len(out))
  BY <1>1, <1>3, <1>5, <1>6, HandleAllGoes
<1>8. /\ z \in Rooms /\ z.inbox[s] = box
      /\ z.seated = IF Quits(out) THEN seated \ {s} ELSE seated
      /\ o \in seated => /\ NothingElse(inbox[o], out, z.inbox[o])
                         /\ Delivered(inbox[o], out, z.inbox[o])
  <2>1. Orderly(out)
    BY <1>3
  <2> QED
    <3>1. AllHandled(r, s, o, out, z)
      BY <1>1, <1>5, <1>7, <2>1, UpToIs
    <3> QED
      BY <1>5, <3>1 DEF AllHandled
<1>9. /\ end'[s] = [q EXCEPT !.outbox = <<>>] /\ end'[o] = end[o]
      /\ inbox'[s] = IF end'[s].ws = "open" THEN box ELSE <<>>
      /\ inbox'[o] = IF end[o].ws = "open" THEN z.inbox[o] ELSE <<>>
      /\ seated' = z.seated
  <2>1. end' = [end EXCEPT ![s] = [q EXCEPT !.outbox = <<>>]] /\ RoomBecomes(z)
    BY <1>3, <1>4, <1>6 DEF Becomes
  <2>2. end'[s] = [q EXCEPT !.outbox = <<>>] /\ end'[o] = end[o]
    BY <1>1, <1>2, <2>1
  <2> QED
    BY <1>1, <1>8, <2>1, <2>2 DEF RoomBecomes
<1>10. end'[s].ws = q.ws
  BY <1>9 DEF EndSound, Working, PhoneType, Sound, PageType
<1>11. seated' \subseteq Side /\ (s \in seated' <=> s \in seated /\ ~Quits(out))
       /\ (o \in seated' <=> o \in seated)
  BY <1>1, <1>2, <1>8, <1>9
<1>12. /\ NothingElse(inbox[o], out, inbox'[o])
       /\ IF end[o].ws = "open" THEN Delivered(inbox[o], out, inbox'[o]) ELSE inbox'[o] = <<>>
  BY <1>1, <1>8, <1>9, NothingOfNothing
<1> QED
  BY <1>1, <1>3, <1>9, <1>10, <1>11, <1>12 DEF Exchange

\* A side joins the room: both are told, if the other is there.
JoinsIn(r, s, o, m, z) ==
    /\ z \in Rooms /\ z.seated = r.seated \cup {s}
    /\ o \in r.seated => /\ z.inbox[s] = Append(r.inbox[s], m)
                         /\ z.inbox[o] = Append(r.inbox[o], m)
    /\ o \notin r.seated => z.inbox = r.inbox

LEMMA JoinIs ==
    ASSUME NEW r \in Rooms, NEW s \in Side, NEW m \in Message, m.type = "join",
           NEW o \in Side, o = Other(s), NEW z, z = HandleAll(r, s, <<m>>)
    PROVE  JoinsIn(r, s, o, m, z)
<1>1. PICK out : out = <<m>>
  OBVIOUS
<1>2. Len(out) = 1 /\ out[1] = m /\ Len(out) \in Nat
  BY <1>1
<1>3. PICK f : Handles(f, r, s, out, Len(out)) /\ HandleAll(r, s, out) = f[Len(out)]
  BY <1>2, HandleAllIs
<1>4. z = Handle(r, s, m)
  <2>1. f[0] = r /\ f[1] = Handle(f[0], s, out[1])
    BY <1>2, <1>3 DEF Handles
  <2> QED
    BY <1>1, <1>2, <1>3, <2>1
<1>5. r.inbox \in [Side -> Seq(Message)] /\ r.seated \subseteq Side
  BY DEF Rooms
<1>6. CASE o \in r.seated
  <2>1. PICK b : b = [x \in Side |-> Append(r.inbox[x], m)]
    OBVIOUS
  <2>2. b \in [Side -> Seq(Message)]
    BY <1>5, <2>1, AppendIs
  <2>3. z = [seated |-> r.seated \cup {s}, inbox |-> b]
    BY <1>4, <1>6, <2>1 DEF Handle
  <2>4. PICK y : y = r.seated \cup {s} /\ y \subseteq Side
    BY <1>5
  <2>5. z = [seated |-> y, inbox |-> b]
    BY <2>3, <2>4
  <2>6. z.seated = y /\ z.inbox = b /\ z \in Rooms
    <3>1. z.seated = y /\ z.inbox = b
      BY <2>5
    <3>2. [seated |-> r.seated \cup {s}, inbox |-> b] \in Rooms
      BY <1>5, <2>2 DEF Rooms
    <3> QED
      BY <2>3, <3>1, <3>2
  <2>7. s \in Side /\ o \in Side /\ b[s] = Append(r.inbox[s], m) /\ b[o] = Append(r.inbox[o], m)
    BY <2>1
  <2> QED
    BY <1>6, <2>4, <2>6, <2>7 DEF JoinsIn
<1>7. CASE o \notin r.seated
  <2>1. z = [r EXCEPT !.seated = @ \cup {s}]
    BY <1>4, <1>7 DEF Handle
  <2>2. z.seated = r.seated \cup {s} /\ z.inbox = r.inbox /\ z \in Rooms
    BY <1>5, <2>1 DEF Rooms
  <2> QED
    BY <1>7, <2>2 DEF JoinsIn
<1> QED
  BY <1>6, <1>7

LEMMA AppendGoes ==
    ASSUME NEW b \in Seq(Message), NEW m \in Message, NEW c, c = Append(b, m)
    PROVE  NothingElse(b, <<m>>, c) /\ Delivered(b, <<m>>, c)
<1>1. PICK out : out = <<m>>
  OBVIOUS
<1>2. DOMAIN out = {1} /\ out[1] = m /\ DOMAIN b = 1 .. Len(b)
  BY <1>1
<1>3. /\ c \in Seq(Message) /\ Len(c) = Len(b) + 1 /\ c[Len(b) + 1] = m
      /\ DOMAIN c = 1 .. Len(b) + 1
      /\ \A k \in DOMAIN b : k \in DOMAIN c /\ c[k] = b[k]
  BY AppendIs
<1>4. \A k \in DOMAIN c : k \in DOMAIN b \/ (k = Len(b) + 1 /\ k - Len(b) = 1 /\ k > Len(b))
  BY <1>2, <1>3
<1>5. NothingElse(b, out, c)
  BY <1>2, <1>3, <1>4 DEF NothingElse
<1>6. Delivered(b, out, c)
  BY <1>2, <1>3 DEF Delivered
<1> QED
  BY <1>1, <1>5, <1>6

LEMMA JoinExchanges ==
    ASSUME SInv, NEW s \in Side, NEW q, EndSound(s, q), q.ws = "open",
           NEW m \in Message, m.type = "join", q.outbox = <<m>>, inbox[s] = <<>>,
           end[Other(s)].ws = "open" => Other(s) \in seated, Becomes(s, q, inbox[s])
    PROVE  /\ end'[s] = [q EXCEPT !.outbox = <<>>]
           /\ \E box \in Seq(Message) :
                 /\ \A k \in DOMAIN box : box[k].type = "join"
                 /\ Other(s) \notin seated => box = <<>>
                 /\ Exchange(s, q, <<m>>, box, TRUE)
<1>1. PICK o \in Side : o = Other(s) /\ o # s
  BY OtherIs
<1>2. inbox \in [Side -> Seq(Message)] /\ seated \subseteq Side /\ DOMAIN end = Side
  BY DEF SInv, RoomSound, Rooms
<1>4. PICK r : r = [inbox |-> [inbox EXCEPT ![s] = inbox[s]], seated |-> seated]
  OBVIOUS
<1>5. /\ r \in Rooms /\ r.seated = seated /\ r.inbox[s] = <<>> /\ r.inbox[o] = inbox[o]
  <2>1. PICK b : b = [inbox EXCEPT ![s] = inbox[s]]
    OBVIOUS
  <2>2. b \in [Side -> Seq(Message)] /\ b[s] = <<>> /\ b[o] = inbox[o]
    BY <1>1, <1>2, <2>1
  <2>3. r = [inbox |-> b, seated |-> seated]
    BY <1>4, <2>1
  <2> QED
    BY <1>2, <2>2, <2>3 DEF Rooms
<1>6. PICK z : z = HandleAll(r, s, <<m>>)
  OBVIOUS
<1>7. /\ z \in Rooms /\ z.seated = seated \cup {s}
      /\ o \in seated => z.inbox[s] = Append(<<>>, m) /\ z.inbox[o] = Append(inbox[o], m)
      /\ o \notin seated => z.inbox[s] = <<>>
  <2>1. JoinsIn(r, s, o, m, z)
    BY <1>1, <1>5, <1>6, JoinIs
  <2> QED
    BY <1>5, <2>1 DEF JoinsIn
<1>8. PICK box \in Seq(Message) : box = z.inbox[s]
  BY <1>7 DEF Rooms
<1>9. /\ end'[s] = [q EXCEPT !.outbox = <<>>] /\ end'[o] = end[o]
      /\ inbox'[s] = IF end'[s].ws = "open" THEN box ELSE <<>>
      /\ inbox'[o] = IF end[o].ws = "open" THEN z.inbox[o] ELSE <<>>
      /\ seated' = z.seated
  <2>1. end' = [end EXCEPT ![s] = [q EXCEPT !.outbox = <<>>]] /\ RoomBecomes(z)
    BY <1>4, <1>6 DEF Becomes
  <2>2. end'[s] = [q EXCEPT !.outbox = <<>>] /\ end'[o] = end[o]
    BY <1>1, <1>2, <2>1
  <2> QED
    BY <1>1, <1>8, <2>1, <2>2 DEF RoomBecomes
<1>10. end'[s].ws = q.ws
  BY <1>9 DEF EndSound, Working, PhoneType, Sound, PageType
<1>11. \A k \in DOMAIN box : box[k].type = "join"
  <2>1. CASE o \in seated
    <3>1. PICK c : c = Append(<<>>, m)
      OBVIOUS
    <3>2. DOMAIN c = {1} /\ c[1] = m
      BY <3>1
    <3> QED
      BY <1>7, <1>8, <2>1, <3>1, <3>2
  <2>2. CASE o \notin seated
    BY <1>7, <1>8, <2>2
  <2> QED
    BY <2>1, <2>2
<1>12. /\ NothingElse(inbox[o], <<m>>, inbox'[o])
       /\ IF end[o].ws = "open" THEN Delivered(inbox[o], <<m>>, inbox'[o]) ELSE inbox'[o] = <<>>
  <2>1. inbox[o] \in Seq(Message)
    BY <1>2
  <2>2. CASE end[o].ws = "open"
    <3>1. inbox'[o] = Append(inbox[o], m)
      BY <1>1, <1>7, <1>9, <2>2
    <3> QED
      BY <2>1, <2>2, <3>1, AppendGoes
  <2>3. CASE end[o].ws # "open"
    BY <1>9, <2>3, NothingOfNothing
  <2> QED
    BY <2>2, <2>3
<1>13. seated' \subseteq Side /\ s \in seated' /\ (o \in seated' <=> o \in seated)
  BY <1>1, <1>2, <1>7, <1>9
<1>14. Exchange(s, q, <<m>>, box, TRUE)
  BY <1>1, <1>9, <1>10, <1>12, <1>13 DEF Exchange
<1> QED
  BY <1>1, <1>7, <1>8, <1>9, <1>11, <1>14

\* The same end, but for what it has to send.
Alike(q, e) ==
    /\ e.role = q.role /\ e.state = q.state /\ e.ws = q.ws /\ e.pcs = q.pcs
    /\ q.role # "phone" => /\ e.promise = q.promise /\ e.waiting = q.waiting /\ e.held = q.held
                           /\ e.overlapped = q.overlapped
    /\ q.role = "phone" => /\ e.events = q.events /\ e.creating = q.creating
                           /\ e.misled = q.misled

LEMMA SentAlike ==
    ASSUME NEW s, NEW q, EndSound(s, q), NEW e, e = [q EXCEPT !.outbox = <<>>]
    PROVE  Alike(q, e)
<1>1. CASE q.role # "phone"
  <2>1. q \in PageType
    BY <1>1 DEF EndSound, Sound
  <2> QED
    BY <1>1, <2>1 DEF Alike, PageType
<1>2. CASE q.role = "phone"
  <2>1. q \in PhoneType
    BY <1>2 DEF EndSound, Working
  <2> QED
    BY <1>2, <2>1 DEF Alike, PhoneType
<1> QED
  BY <1>1, <1>2

LEMMA AlikeIs ==
    ASSUME NEW q, NEW e, Alike(q, e)
    PROVE  /\ Current(e) = Current(q) /\ (Engaged(e) <=> Engaged(q))
           /\ (Standing(e) <=> Standing(q)) /\ (Trusted(e) <=> Trusted(q))
           /\ (Claim(e) <=> Claim(q)) /\ (q.role = "phone" => (Once(e) <=> Once(q)))
           /\ \A n : Knows(e, n) <=> Knows(q, n)
<1>1. CASE q.role # "phone"
  <2>1. /\ e.role # "phone" /\ e.role = q.role /\ e.state = q.state /\ e.ws = q.ws /\ e.pcs = q.pcs
        /\ e.promise = q.promise /\ e.waiting = q.waiting /\ e.held = q.held
        /\ e.overlapped = q.overlapped
    BY <1>1 DEF Alike
  <2>2. Current(e) = Current(q)
    BY <1>1, <2>1 DEF Current
  <2>3. Engaged(e) <=> Engaged(q)
    BY <1>1, <2>1 DEF Engaged
  <2>4. Standing(e) <=> Standing(q)
    BY <1>1, <2>1 DEF Standing, Online
  <2>5. Trusted(e) <=> Trusted(q)
    BY <1>1, <2>1 DEF Trusted
  <2>6. Claim(e) <=> Claim(q)
    BY <1>1, <2>1, <2>5 DEF Claim
  <2>7. \A n : Knows(e, n) <=> Knows(q, n)
    BY <1>1, <2>1 DEF Knows
  <2> QED
    BY <1>1, <2>2, <2>3, <2>4, <2>5, <2>6, <2>7
<1>2. CASE q.role = "phone"
  <2>1. /\ e.role = "phone" /\ e.state = q.state /\ e.ws = q.ws /\ e.pcs = q.pcs
        /\ e.events = q.events /\ e.creating = q.creating /\ e.misled = q.misled
    BY <1>2 DEF Alike
  <2>2. Current(e) = Current(q)
    BY <1>2, <2>1 DEF Current
  <2>3. Engaged(e) <=> Engaged(q)
    BY <1>2, <2>1 DEF Engaged
  <2>4. Standing(e) <=> Standing(q)
    BY <1>2, <2>1 DEF Standing
  <2>5. Trusted(e) <=> Trusted(q)
    BY <1>2, <2>1 DEF Trusted
  <2>6. Claim(e) <=> Claim(q)
    <3>1. Claims(e) <=> Claims(q)
      BY <2>1 DEF Claims
    <3> QED
      BY <1>2, <2>1, <2>5, <3>1 DEF Claim
  <2>7. \A n : Knows(e, n) <=> Knows(q, n)
    BY <1>2, <2>1 DEF Knows
  <2>8. Once(e) <=> Once(q)
    BY <2>1 DEF Once
  <2> QED
    BY <2>2, <2>3, <2>4, <2>5, <2>6, <2>7, <2>8
<1> QED
  BY <1>1, <1>2

LEMMA AlikeBetween ==
    ASSUME NEW q, NEW e, Alike(q, e), NEW f, NEW box, NEW far, NEW has, NEW sits
    PROVE  /\ Between(q, f, box, far, has, sits) => Between(e, f, box, far, has, sits)
           /\ Between(f, q, box, far, has, sits) => Between(f, e, box, far, has, sits)
<1>0. /\ e.role = q.role /\ e.state = q.state /\ e.ws = q.ws /\ e.pcs = q.pcs
      /\ q.role = "phone" => e.misled = q.misled
  BY DEF Alike
<1>1. /\ Current(e) = Current(q) /\ (Engaged(e) <=> Engaged(q))
      /\ (Standing(e) <=> Standing(q)) /\ (Trusted(e) <=> Trusted(q))
      /\ (Claim(e) <=> Claim(q)) /\ (q.role = "phone" => (Once(e) <=> Once(q)))
      /\ \A n : Knows(e, n) <=> Knows(q, n)
  BY AlikeIs
<1>2. \A n, b : Reached(n, e, b) <=> Reached(n, q, b)
  BY <1>1 DEF Reached
<1>3. ASSUME Link(q, f, far) PROVE Link(e, f, far)
  <2>1. Numbered(e, f, far)
    BY <1>0, <1>3 DEF Link, Numbered
  <2>2. Answered(e, f, far)
    BY <1>0, <1>1, <1>3 DEF Link, Answered
  <2>3. Heard(e, f, far)
    BY <1>0, <1>1, <1>3 DEF Link, Heard
  <2>4. Unsaid(e, f, far)
    BY <1>0, <1>1, <1>3 DEF Link, Unsaid
  <2> QED
    BY <2>1, <2>2, <2>3, <2>4 DEF Link
<1>4. ASSUME Link(f, q, far) PROVE Link(f, e, far)
  <2>1. Numbered(f, e, far)
    BY <1>2, <1>4 DEF Link, Numbered
  <2>2. Answered(f, e, far)
    BY <1>2, <1>4 DEF Link, Answered
  <2>3. Heard(f, e, far)
    BY <1>1, <1>4 DEF Link, Heard
  <2>4. Unsaid(f, e, far)
    BY <1>2, <1>4 DEF Link, Unsaid
  <2> QED
    BY <2>1, <2>2, <2>3, <2>4 DEF Link
<1>5. Placed(q, box, has) => Placed(e, box, has)
  BY <1>0, <1>1 DEF Placed
<1>6. Present(q, box, sits) => Present(e, box, sits)
  BY <1>0 DEF Present
<1>7. Matched(q, f, box, sits) => Matched(e, f, box, sits)
  BY <1>0, <1>1 DEF Matched, Pairs
<1>8. Matched(f, q, box, sits) => Matched(f, e, box, sits)
  BY <1>0, <1>1 DEF Matched, Pairs
<1> QED
  BY <1>3, <1>4, <1>5, <1>6, <1>7, <1>8 DEF Between

\* The invariant, seen from side s.
LEMMA SidesAre ==
    ASSUME DInv, NEW s \in Side, NEW o, o = Other(s)
    PROVE  /\ SInv /\ o \in Side /\ o # s /\ Other(o) = s
           /\ EndSound(s, end[s]) /\ EndSound(o, end[o])
           /\ end[s].outbox = <<>>
           /\ inbox[s] \in Seq(Message) /\ inbox[o] \in Seq(Message)
           /\ Between(end[s], end[o], inbox[s], inbox[o], s \in seated, o \in seated)
           /\ Between(end[o], end[s], inbox[o], inbox[s], o \in seated, s \in seated)
<1>1. o \in Side /\ o # s /\ Other(o) = s
  BY DEF Side, Other
<1>2. SInv /\ EndSound(s, end[s]) /\ EndSound(o, end[o]) /\ end[s].outbox = <<>>
  BY <1>1 DEF DInv, SInv
<1>3. inbox[s] \in Seq(Message) /\ inbox[o] \in Seq(Message)
  BY <1>1, <1>2, Boxes
<1>4. SideInv(s) /\ SideInv(o)
  BY <1>1 DEF DInv, Side
<1> QED
  BY <1>1, <1>2, <1>3, <1>4 DEF SideInv

\* A step of side s to q.
LEMMA TurnKeeps ==
    ASSUME DInv, NEW s \in Side, NEW o, o = Other(s), NEW q, EndSound(s, q), Standing(q),
           NEW out \in Seq(Message), NEW box \in Seq(Message), NEW has2 \in BOOLEAN,
           Exchange(s, q, out, box, has2), Alike(q, end'[s]),
           inbox'[s] \in Seq(Message), inbox'[o] \in Seq(Message),
           Turn(end[s], q, out, inbox[s], inbox'[s], end[o], inbox[o], inbox'[o]),
           q.ws = "open" => has2, q.role = "phone" /\ ~q.misled => Once(q),
           Matched(q, end[o], inbox'[s], o \in seated), Present(q, inbox'[s], o \in seated),
           Matched(end[o], q, inbox'[o], has2), Present(end[o], inbox'[o], has2)
    PROVE  SideInv(s)' /\ SideInv(o)'
<1>0. /\ o \in Side /\ Other(o) = s
      /\ EndSound(s, end[s]) /\ EndSound(o, end[o])
      /\ inbox[s] \in Seq(Message) /\ inbox[o] \in Seq(Message)
      /\ Between(end[s], end[o], inbox[s], inbox[o], s \in seated, o \in seated)
      /\ Between(end[o], end[s], inbox[o], inbox[s], o \in seated, s \in seated)
  BY SidesAre
<1>1. /\ Link(end[s], end[o], inbox[o]) /\ Link(end[o], end[s], inbox[s])
      /\ Standing(end[s]) /\ Standing(end[o])
      /\ Placed(end[o], inbox[o], o \in seated)
  BY <1>0 DEF Between, Placed
<1>2. End(end[s]) /\ End(end[o]) /\ End(q)
  BY <1>0, <1>1, EndOf
<1>3. Link(q, end[o], inbox'[o]) /\ Link(end[o], q, inbox'[s])
  <2>1. PICK b \in Seq(Message) : b = inbox[s]
    BY <1>0
  <2>2. PICK b2 \in Seq(Message) : b2 = inbox'[s]
    OBVIOUS
  <2>3. PICK far \in Seq(Message) : far = inbox[o]
    BY <1>0
  <2>4. PICK far2 \in Seq(Message) : far2 = inbox'[o]
    OBVIOUS
  <2>5. PICK a : a = end[s]
    OBVIOUS
  <2>6. PICK f : f = end[o]
    OBVIOUS
  <2>7. Turn(a, q, out, b, b2, f, far, far2) /\ End(a) /\ End(f) /\ End(q)
    BY <1>2, <2>1, <2>2, <2>3, <2>4, <2>5, <2>6
  <2>8. /\ Link(a, f, far) => Link(q, f, far2)
        /\ Link(f, a, b) => Link(f, q, b2)
    BY <2>7, LinkStays
  <2> QED
    BY <1>1, <2>1, <2>2, <2>3, <2>4, <2>5, <2>6, <2>8
<1>4. /\ end'[o] = end[o] /\ inbox'[s] = (IF q.ws = "open" THEN box ELSE <<>>)
      /\ (s \in seated' <=> has2) /\ (o \in seated' <=> o \in seated)
      /\ end[o].ws # "open" => inbox'[o] = <<>>
  BY DEF Exchange
<1>5. Placed(q, inbox'[s], has2)
  BY <1>4 DEF Placed
<1>6. Placed(end[o], inbox'[o], o \in seated)
  BY <1>1, <1>4 DEF Placed
<1>7. Between(q, end[o], inbox'[s], inbox'[o], has2, o \in seated)
  BY <1>3, <1>5 DEF Between
<1>8. Between(end[o], q, inbox'[o], inbox'[s], o \in seated, has2)
  BY <1>3, <1>6 DEF Between
<1>9. Between(end'[s], end'[o], inbox'[s], inbox'[o], s \in seated', o \in seated')
  BY <1>4, <1>7, AlikeBetween
<1>10. Between(end'[o], end'[s], inbox'[o], inbox'[s], o \in seated', s \in seated')
  BY <1>4, <1>8, AlikeBetween
<1> QED
  BY <1>0, <1>9, <1>10 DEF SideInv

-----------------------------------------------------------------------------
(* The steps: first those in which an end does no more than its tasks do.  *)

\* All that an end may know when it has read the first d messages.
Learns(a, box, d) ==
    {n \in Nat : \/ n = NoPeer \/ Knows(a, n)
                 \/ d = 1 /\ 1 \in DOMAIN box /\ Carries(box[1], n)}

\* What is left of a box then.
Skips(box, d, rest) ==
    /\ \A k \in DOMAIN rest : k + d \in DOMAIN box /\ rest[k] = box[k + d]
    /\ \A k \in DOMAIN box : k > d => k - d \in DOMAIN rest /\ rest[k - d] = box[k]

LEMMA SkipsIs ==
    ASSUME NEW box \in Seq(Message)
    PROVE  /\ Skips(box, 0, box)
           /\ box # <<>> => /\ Tail(box) \in Seq(Message) /\ Skips(box, 1, Tail(box))
                            /\ 1 \in DOMAIN box /\ box[1] = Head(box) /\ box[1] \in Message
<1>1. Skips(box, 0, box)
  BY DEF Skips
<1>2. ASSUME box # <<>> PROVE Tail(box) \in Seq(Message) /\ Skips(box, 1, Tail(box))
  <2>0. Tail(box) \in Seq(Message)
    BY <1>2
  <2>1. PICK c \in Seq(Message) : c = Tail(box)
    BY <2>0
  <2>2. Len(c) = Len(box) - 1 /\ \A k \in 1 .. Len(c) : c[k] = box[k + 1]
    BY <1>2, <2>1
  <2>3. \A k \in DOMAIN c : k + 1 \in DOMAIN box /\ c[k] = box[k + 1]
    BY <2>2
  <2>4. ASSUME NEW k \in DOMAIN box, k > 1 PROVE k - 1 \in DOMAIN c /\ c[k - 1] = box[k]
    <3>1. PICK l \in 1 .. Len(c) : l = k - 1
      BY <2>2, <2>4
    <3>2. c[l] = box[l + 1] /\ l + 1 = k
      BY <2>2, <3>1
    <3> QED
      BY <3>1, <3>2
  <2> QED
    BY <2>1, <2>3, <2>4 DEF Skips
<1>3. box # <<>> => 1 \in DOMAIN box /\ box[1] = Head(box) /\ box[1] \in Message
  OBVIOUS
<1> QED
  BY <1>1, <1>2, <1>3

LEMMA HearsKnows ==
    ASSUME NEW q, NEW K, Hears(q, K), NEW n, Knows(q, n)
    PROVE  n \in K
<1>1. CASE \E i \in DOMAIN q.pcs : q.pcs[i].peer = n
  BY <1>1 DEF Hears
<1>2. CASE q.role # "phone"
  <2>1. Within(q, K)
    BY <1>2 DEF Hears
  <2>2. /\ \A i \in DOMAIN q.pcs : q.pcs[i].peer \in K
        /\ \A k \in DOMAIN q.waiting : q.waiting[k] \in K
        /\ \A k \in DOMAIN q.held : Speaks(q.held[k]) => q.held[k].of \in K
    BY <2>1 DEF Within
  <2> QED
    BY <2>2 DEF Knows, Carries
<1> QED
  BY <1>1, <1>2 DEF Knows

\* An end hears no more than it may.
LEMMA LearnsHears ==
    ASSUME NEW s, NEW a, EndSound(s, a), NEW box, NEW d
    PROVE  Hears(a, Learns(a, box, d)) /\ (a.role # "phone" => Within(a, Learns(a, box, d)))
<1> DEFINE K == Learns(a, box, d)
<1>1. NoPeer \in K /\ \A n \in Nat : Knows(a, n) => n \in K
  BY DEF Learns
<1>2. a.pcs \in Seq(Connection)
  BY DEF EndSound, Sound, PageType, Working, PhoneType
<1>3. \A i \in DOMAIN a.pcs : a.pcs[i].peer \in K
  <2>1. \A i \in DOMAIN a.pcs : a.pcs[i] \in Connection
    BY <1>2
  <2>2. \A i \in DOMAIN a.pcs : a.pcs[i].peer \in Nat
    BY <2>1 DEF Connection
  <2> HIDE DEF K
  <2> QED
    BY <1>1, <2>2 DEF Knows
<1>4. ASSUME a.role # "phone" PROVE Within(a, K)
  <2>1. a.waiting \in Seq(Nat) /\ a.held \in Seq(Message)
    BY <1>4 DEF EndSound, Sound, PageType
  <2>2. \A k \in DOMAIN a.waiting : a.waiting[k] \in Nat /\ Knows(a, a.waiting[k])
    BY <1>4, <2>1 DEF Knows
  <2>3. \A k \in DOMAIN a.held : Speaks(a.held[k]) =>
           a.held[k].of \in Nat /\ Knows(a, a.held[k].of)
    <3>1. \A k \in DOMAIN a.held : a.held[k] \in Message
      BY <2>1
    <3>2. \A k \in DOMAIN a.held : a.held[k].of \in Nat
      BY <3>1 DEF Message
    <3> QED
      BY <1>4, <3>2 DEF Knows, Carries
  <2> HIDE DEF K
  <2> QED
    BY <1>1, <1>3, <2>2, <2>3 DEF Within
<1> HIDE DEF K
<1> QED
  BY <1>1, <1>3, <1>4 DEF Hears, K

LEMMA MovesTurn ==
    ASSUME NEW a, NEW q, NEW box, NEW d \in {0, 1}, NEW silent,
           Moves(a, q, Learns(a, box, d), silent), NEW rest, Skips(box, d, rest),
           NEW box2, box2 = rest \/ box2 = <<>>,
           NEW f, NEW far, NEW far2, NothingElse(far, q.outbox, far2),
           q.role = "observer" => \A k \in DOMAIN q.outbox : q.outbox[k].type # "offer",
           NEW paired, q.role = "phone" => PhoneFollows(a, q, paired)
    PROVE  Turn(a, q, q.outbox, box, box2, f, far, far2)
<1>0. q.role = a.role /\ Hears(q, Learns(a, box, d)) /\ Says(a, q) /\ Advances(a, q) /\ Stays(a, q)
  BY DEF Moves
<1>1. Reads(a, q, box, box2)
  <2>1. \A k \in DOMAIN box2 : k + d \in DOMAIN box /\ box2[k] = box[k + d]
    BY DEF Skips
  <2>2. \A n \in Nat \ {NoPeer} :
           Knows(q, n) => Knows(a, n) \/ (d = 1 /\ 1 \in DOMAIN box /\ Carries(box[1], n))
    BY <1>0, HearsKnows DEF Learns
  <2> QED
    BY <2>1, <2>2 DEF Reads
<1>2. Goes(a, q)
  BY <1>0 DEF Goes, Advances
<1>3. Tactful(a, q, q.outbox, f, far)
  BY <1>0 DEF Tactful, Says, Stays
<1>4. Offers(a, q, q.outbox) /\ (a.role = "phone" /\ a.misled => q.misled)
  <2>1. CASE q.role # "phone"
    BY <1>0, <2>1 DEF Offers
  <2>2. CASE q.role = "phone"
    <3>1. PhoneFollows(a, q, paired)
      BY <2>2
    <3> QED
      BY <3>1 DEF PhoneFollows, Offers
  <2> QED
    BY <2>1, <2>2
<1> QED
  BY <1>1, <1>2, <1>3, <1>4 DEF Turn

\* The phone goes up only if it hears of a join.
Rises(a, q, box, d) ==
    q.role = "phone" /\ q.state > P!WAITING_FOR_OBSERVER =>
        \/ d = 0 /\ a.state > P!WAITING_FOR_OBSERVER
        \/ /\ d = 1 /\ 1 \in DOMAIN box
           /\ \/ box[1].type = "join"
              \/ a.state > P!WAITING_FOR_OBSERVER /\ box[1].type # "leave"

\* The news that was read.
NewsRead(box, d) == d = 1 /\ 1 \in DOMAIN box /\ IsNews(box[1])

\* What is to be shown of a step: q comes of a when d messages are read.
Passes(a, q, box, d, f, silent, paired) ==
    /\ Moves(a, q, Learns(a, box, d), silent)
    /\ silent => NewsRead(box, d)
    /\ NewsRead(box, d) => ~Claim(q)
    /\ Claim(q) => \/ Claim(a) /\ Current(q) = Current(a)
                   \/ Current(q) # Pending /\ Pairs(q, f, Current(q))
    /\ q.role = "phone" => PhoneFollows(a, q, paired)
    /\ Rises(a, q, box, d)

LEMMA PassesFacts ==
    ASSUME NEW s \in Side, NEW a, End(a), Standing(a), NEW q, EndSound(s, q), NEW has \in BOOLEAN,
           a.ws = "open" => has, NEW box, NEW d, NEW f, NEW silent, NEW paired,
           Passes(a, q, box, d, f, silent, paired)
    PROVE  /\ Orderly(q.outbox) /\ (q.outbox # <<>> => has)
           /\ q.ws = "open" => has /\ ~Quits(q.outbox)
           /\ has /\ q.ws # "open" => (has /\ ~Quits(q.outbox)) \/ Quits(q.outbox)
           /\ has /\ a.ws # "open" => q.ws # "open"
           /\ Standing(q) /\ Advances(a, q) /\ (q.role = "phone" /\ ~q.misled => Once(q))
           /\ q.role = "observer" => \A k \in DOMAIN q.outbox : q.outbox[k].type # "offer"
<1>1. /\ q.role = a.role /\ q.ws \in {a.ws, "closed"} /\ Standing(q) /\ Says(a, q) /\ Advances(a, q)
      /\ q.role = "phone" => PhoneFollows(a, q, paired)
  BY DEF Passes, Moves
<1>2. Orderly(q.outbox) /\ (q.outbox # <<>> => has)
  BY <1>1 DEF Says, Orderly
<1>3. Quits(q.outbox) => q.ws = "closed"
  BY <1>1 DEF Quits, Says
<1>4. q.role = "phone" /\ ~q.misled => Once(q)
  BY <1>1 DEF PhoneFollows
<1>5. q.role = "observer" => \A k \in DOMAIN q.outbox : q.outbox[k].type # "offer"
  BY DEF EndSound, Sound, OffersToObserver
<1> QED
  BY <1>1, <1>2, <1>3, <1>4, <1>5

LEMMA PassesKeeps ==
    ASSUME DInv, SInv', NEW s \in Side, NEW o, o = Other(s), NEW d \in {0, 1},
           NEW rest \in Seq(Message), Skips(inbox[s], d, rest), NEW q, EndSound(s, q),
           NEW silent \in BOOLEAN, NEW paired,
           Passes(end[s], q, inbox[s], d, end[o], silent, paired), Becomes(s, q, rest)
    PROVE  SideInv(s)' /\ SideInv(o)'
<1> DEFINE a == end[s]
           f == end[o]
           has == s \in seated
           has2 == has /\ ~Quits(q.outbox)
           sits == o \in seated
<1>0. /\ SInv /\ o \in Side /\ o # s /\ Other(o) = s
      /\ EndSound(s, a) /\ EndSound(o, f)
      /\ inbox[s] \in Seq(Message) /\ inbox[o] \in Seq(Message)
      /\ Between(a, f, inbox[s], inbox[o], has, sits)
      /\ Between(f, a, inbox[o], inbox[s], sits, has)
  BY SidesAre
<1>1. /\ Link(a, f, inbox[o]) /\ Link(f, a, inbox[s]) /\ Standing(a) /\ Standing(f)
      /\ Placed(a, inbox[s], has) /\ Placed(f, inbox[o], sits)
      /\ Matched(a, f, inbox[s], sits) /\ Matched(f, a, inbox[o], has)
      /\ Present(a, inbox[s], sits) /\ Present(f, inbox[o], has)
  BY <1>0 DEF Between, Placed
<1>2. (a.ws = "open" => has) /\ (f.ws = "open" => sits)
  BY <1>1 DEF Placed
<1>3. End(a) /\ End(f)
  BY <1>0, <1>1, EndOf
<1>4. /\ Orderly(q.outbox) /\ (q.outbox # <<>> => has)
      /\ q.ws = "open" => has2
      /\ has /\ q.ws # "open" => has2 \/ Quits(q.outbox)
      /\ has /\ a.ws # "open" => q.ws # "open"
      /\ Standing(q) /\ Advances(a, q) /\ (q.role = "phone" /\ ~q.misled => Once(q))
      /\ q.role = "observer" => \A k \in DOMAIN q.outbox : q.outbox[k].type # "offer"
  BY <1>1, <1>2, <1>3, PassesFacts
<1>5. End(q)
  BY <1>4, EndOf
<1>6. Exchange(s, q, q.outbox, rest, has2) /\ end'[s] = [q EXCEPT !.outbox = <<>>]
  BY <1>0, <1>2, <1>4, BecomesExchanges
<1>7. Alike(q, end'[s])
  BY <1>6, SentAlike
<1>8. inbox'[s] \in Seq(Message) /\ inbox'[o] \in Seq(Message) /\ q.outbox \in Seq(Message)
  <2>1. inbox' \in [Side -> Seq(Message)]
    BY DEF SInv, RoomSound, Rooms
  <2>2. q.outbox \in Seq(Message)
    BY DEF EndSound, Working, PhoneType, Sound, PageType
  <2> QED
    BY <1>0, <2>1, <2>2
<1>9. /\ inbox'[s] = IF q.ws = "open" THEN rest ELSE <<>>
      /\ NothingElse(inbox[o], q.outbox, inbox'[o])
      /\ IF f.ws = "open" THEN Delivered(inbox[o], q.outbox, inbox'[o]) ELSE inbox'[o] = <<>>
  BY <1>6 DEF Exchange
<1>10. Turn(a, q, q.outbox, inbox[s], inbox'[s], f, inbox[o], inbox'[o])
  <2>1. /\ Moves(a, q, Learns(a, inbox[s], d), silent)
        /\ q.role = "phone" => PhoneFollows(a, q, paired)
        /\ inbox'[s] = rest \/ inbox'[s] = <<>>
    BY <1>9 DEF Passes
  <2> QED
    BY <1>4, <1>9, <2>1, MovesTurn
<1>11. Matched(q, f, inbox'[s], sits)
  <2>1. HasNews(inbox[s]) => HasNews(inbox'[s]) \/ ~Claim(q)
    <3> SUFFICES ASSUME NEW k \in DOMAIN inbox[s], IsNews(inbox[s][k]), Claim(q)
                 PROVE  HasNews(inbox'[s])
      BY DEF HasNews
    <3>1. inbox'[s] = rest
      BY <1>5, <1>9 DEF End
    <3>2. ~ (k = 1 /\ d = 1)
      BY DEF Passes, NewsRead
    <3>3. k > d
      BY <1>0, <3>2
    <3> QED
      BY <3>1, <3>3 DEF Skips, HasNews
  <2>2. Claim(q) => \/ Claim(a) /\ Current(q) = Current(a)
                    \/ Current(q) # Pending /\ Pairs(q, f, Current(q))
    BY DEF Passes
  <2>3. sits \in BOOLEAN /\ Advances(a, q) /\ Matched(a, f, inbox[s], sits)
    BY <1>1, <1>4
  <2> HIDE DEF a, f, sits
  <2> QED
    BY <1>3, <1>5, <2>1, <2>2, <2>3, MatchedStays
<1>12. Matched(f, q, inbox'[o], has2)
  <2>1. Current(a) # Pending /\ Engaged(a) /\ Current(q) # Current(a) =>
            \/ HasNews(inbox[s]) \/ q.ws # "open"
            \/ \E k \in DOMAIN q.outbox : q.outbox[k].type = "reset"
    <3>1. silent => HasNews(inbox[s])
      BY DEF Passes, NewsRead, HasNews
    <3>2. ~silent => Tells(a, q)
      BY DEF Passes, Moves
    <3> QED
      BY <3>1, <3>2 DEF Tells, Told
  <2>2. has /\ q.ws # "open" => has2 \/ \E k \in DOMAIN q.outbox : q.outbox[k].type = "leave"
    BY <1>4 DEF Quits
  <2>3. Answered(a, f, inbox[o]) /\ Heard(f, a, inbox[s]) /\ (f.ws = "open" => Delivered(inbox[o], q.outbox, inbox'[o]))
    BY <1>1, <1>9 DEF Link
  <2>4. has \in BOOLEAN /\ has2 \in BOOLEAN
    OBVIOUS
  <2>5. PICK far \in Seq(Message) : far = inbox[o]
    BY <1>0
  <2>6. PICK far2 \in Seq(Message) : far2 = inbox'[o]
    BY <1>8
  <2>7. PICK out \in Seq(Message) : out = q.outbox
    BY <1>8
  <2>8. PICK box : box = inbox[s]
    OBVIOUS
  <2> HIDE DEF a, f, has, has2
  <2>9. /\ (a.ws = "open" => has) /\ Advances(a, q) /\ (has /\ a.ws # "open" => q.ws # "open")
        /\ Matched(f, a, far, has) /\ End(a) /\ End(f) /\ End(q)
    BY <1>1, <1>2, <1>3, <1>4, <1>5, <2>5
  <2>10. Minds(a, q, out, box, has, has2)
    BY <2>1, <2>2, <2>7, <2>8, <2>9 DEF Minds
  <2>12. Answered(a, f, far) /\ Heard(f, a, box) /\ (f.ws = "open" => Delivered(far, out, far2))
    BY <2>3, <2>5, <2>6, <2>7, <2>8
  <2>11. Matched(f, q, far2, has2)
    BY <2>4, <2>9, <2>10, <2>12, MatchedFurther
  <2> QED
    BY <2>6, <2>11
<1>13. Present(q, inbox'[s], sits)
  <2>1. q.role = a.role /\ Rises(a, q, inbox[s], d)
    BY DEF Passes, Moves
  <2>2. \A k \in DOMAIN inbox'[s] : k + d \in DOMAIN inbox[s] /\ inbox'[s][k] = inbox[s][k + d]
    BY <1>9 DEF Skips
  <2>3. q.role = "phone" =>
           IF q.ws = "open"
           THEN \A k \in DOMAIN inbox[s] : k > d =>
                   k - d \in DOMAIN inbox'[s] /\ inbox'[s][k - d] = inbox[s][k]
           ELSE inbox'[s] = <<>> /\ q.state = P!AWAY
    BY <1>4, <1>9 DEF Skips, Standing
  <2>4. sits \in BOOLEAN
    OBVIOUS
  <2> HIDE DEF a, sits
  <2> QED
    BY <1>0, <1>1, <1>8, <2>1, <2>2, <2>3, <2>4, PresentStays DEF Rises
<1>14. Present(f, inbox'[o], has2)
  <2>1. \/ has2 \/ (~has /\ q.outbox = <<>>)
        \/ q.outbox # <<>> /\ q.outbox[Len(q.outbox)].type = "leave"
    BY <1>4 DEF Quits, Orderly
  <2>2. has \in BOOLEAN /\ has2 \in BOOLEAN
    OBVIOUS
  <2> HIDE DEF f, has, has2
  <2> QED
    BY <1>0, <1>1, <1>8, <1>9, <2>1, <2>2, PresentFurther
<1>15. has2 \in BOOLEAN
  OBVIOUS
<1> HIDE DEF has2
<1> QED
  BY <1>4, <1>6, <1>7, <1>8, <1>10, <1>11, <1>12, <1>13, <1>14, <1>15, TurnKeeps

LEMMA BothSides ==
    ASSUME SInv', NEW s \in Side, NEW o, o = Other(s), SideInv(s)', SideInv(o)'
    PROVE  DInv'
BY DEF DInv, Side, Other

\* A page before a task, in which it reads d messages.
LEMMA PageReady ==
    ASSUME DInv, NEW s \in Side, IsPage(s), NEW d
    PROVE  Ready(end[s], Learns(end[s], inbox[s], d))
<1>1. /\ SInv /\ EndSound(s, end[s]) /\ end[s].outbox = <<>>
      /\ Between(end[s], end[Other(s)], inbox[s], inbox[Other(s)], s \in seated, Other(s) \in seated)
  BY SidesAre
<1>2. Sound(end[s]) /\ end[s].role # "phone"
  BY <1>1, PageIs
<1>3. Shaped(end[s])
  BY <1>2 DEF Sound, Connected, Shaped
<1>4. Online(end[s])
  BY <1>1, <1>2 DEF Between, Placed, Standing
<1>5. Within(end[s], Learns(end[s], inbox[s], d))
  BY <1>1, <1>2, LearnsHears
<1> QED
  BY <1>1, <1>3, <1>4, <1>5 DEF Ready

LEMMA PagePasses ==
    ASSUME NEW s \in Side, NEW a, EndSound(s, a), a.role # "phone", NEW q, EndSound(s, q),
           NEW box, NEW d, NEW f, NEW silent, Moves(a, q, Learns(a, box, d), silent),
           PageFollows(a, q), silent => NewsRead(box, d),
           NewsRead(box, d) => q.state # CALL_IN_PROGRESS
    PROVE  Passes(a, q, box, d, f, silent, FALSE)
<1>1. q.role = a.role
  BY DEF Moves
<1>2. a \in PageType /\ q \in PageType
  BY <1>1 DEF EndSound, Sound
<1>3. a.overlapped \in BOOLEAN /\ q.overlapped \in BOOLEAN
  BY <1>2 DEF PageType
<1>4. Claim(q) => Claim(a) /\ Current(q) = Current(a)
  <2>1. SUFFICES ASSUME Claim(q) PROVE Claim(a) /\ Current(q) = Current(a)
    OBVIOUS
  <2>2. q.role = "observer" /\ q.state = CALL_IN_PROGRESS /\ ~q.overlapped
    BY <1>1, <2>1 DEF Claim, Trusted
  <2>3. a.state = CALL_IN_PROGRESS /\ q.promise = a.promise /\ ~a.overlapped
    BY <2>2 DEF PageFollows, CallKept
  <2> QED
    BY <1>1, <2>2, <2>3 DEF Claim, Trusted, Current
<1>5. NewsRead(box, d) => ~Claim(q)
  BY <1>1 DEF Claim
<1>6. Rises(a, q, box, d)
  BY <1>1 DEF Rises
<1> QED
  BY <1>1, <1>4, <1>5, <1>6 DEF Passes

\* A task of a page in which nothing is read.
LEMMA PageTaskKeeps ==
    ASSUME DInv, NEW s \in Side, IsPage(s), NEW q, Over(end[s], q),
           Moves(end[s], q, Learns(end[s], inbox[s], 0), FALSE), PageFollows(end[s], q),
           Steps(s, q) \/ Faults(s, q)
    PROVE  DInv'
<1>1. /\ SInv /\ EndSound(s, end[s]) /\ inbox[s] \in Seq(Message)
  BY SidesAre
<1>2. end[s].role # "phone" /\ EndSound(s, q)
  BY <1>1, PageIs, PageDone
<1>3. SInv'
  BY <1>1, PageStepsSound
<1>4. Becomes(s, q, inbox[s])
  BY DEF Steps, Faults
<1>5. Passes(end[s], q, inbox[s], 0, end[Other(s)], FALSE, FALSE)
  <2>1. ~NewsRead(inbox[s], 0)
    BY DEF NewsRead
  <2> QED
    BY <1>1, <1>2, <2>1, PagePasses
<1>6. Skips(inbox[s], 0, inbox[s])
  BY <1>1, SkipsIs
<1>7. SideInv(s)' /\ SideInv(Other(s))'
  BY <1>1, <1>2, <1>3, <1>4, <1>5, <1>6, PassesKeeps
<1> QED
  BY <1>3, <1>7, BothSides

LEMMA PageDoesKeeps ==
    ASSUME DInv, NEW s \in Side, IsPage(s), NEW q, Over(end[s], q),
           Does(end[s], q, Learns(end[s], inbox[s], 0), FALSE),
           Steps(s, q) \/ Faults(s, q)
    PROVE  DInv'
<1>1. Shaped(end[s])
  BY PageReady DEF Ready
<1>2. Moves(end[s], q, Learns(end[s], inbox[s], 0), FALSE) /\ PageFollows(end[s], q)
  BY <1>1, DoesMoves, DoesFollows
<1> QED
  BY <1>2, PageTaskKeeps

LEMMA PageRefusedKeeps ==
    ASSUME DInv, NEW s \in Side, PageRefused(s)
    PROVE  DInv'
<1>1. PICK code \in {1, 4, 5} : s = "observer" /\ Faults(s, Received(end[s], Error(code)))
  BY DEF PageRefused, observer
<1>2. SInv /\ EndSound(s, end[s])
  BY SidesAre
<1>3. IsPage(s)
  BY <1>1, <1>2 DEF EndSound, IsPage
<1>4. Over(end[s], Received(end[s], Error(code)))
  BY <1>2, <1>3, PageIs, ErrorOver
<1>5. Does(end[s], Received(end[s], Error(code)), Learns(end[s], inbox[s], 0), FALSE)
  <2>1. ErrOf(code) \in Err
    BY DEF ErrOf, Err
  <2>2. Error(code).type = "error" /\ Error(code).of = code
    BY DEF Error, Msg
  <2>3. Received(end[s], Error(code)) = Settle(Die(end[s], ErrOf(code)))
    BY <2>2 DEF Received
  <2>4. Ready(end[s], Learns(end[s], inbox[s], 0)) /\ Shaped(end[s])
    BY <1>3, PageReady DEF Ready
  <2>5. Does(end[s], Die(end[s], ErrOf(code)), Learns(end[s], inbox[s], 0), FALSE)
    BY <2>1, <2>4, DeathDoes
  <2> QED
    BY <2>3, <2>4, <2>5, FailDoes
<1> QED
  BY <1>1, <1>3, <1>4, <1>5, PageDoesKeeps

LEMMA PageMicKeeps ==
    ASSUME DInv, NEW s \in Side, PageMic(s)
    PROVE  DInv'
<1>1. /\ IsPage(s) /\ end[s].mic = "asked"
      /\ Steps(s, MicGranted(end[s])) \/ Faults(s, MicDenied(end[s]))
  BY DEF PageMic
<1>2. SInv
  BY SidesAre
<1>3. Over(end[s], MicGranted(end[s])) /\ Over(end[s], MicDenied(end[s]))
  BY <1>1, <1>2, PageIs, MicGrantedOver, MicDeniedOver
<1>4. Ready(end[s], Learns(end[s], inbox[s], 0))
  BY <1>1, PageReady
<1>5. /\ Does(end[s], MicGranted(end[s]), Learns(end[s], inbox[s], 0), FALSE)
      /\ Does(end[s], MicDenied(end[s]), Learns(end[s], inbox[s], 0), FALSE)
  BY <1>4, MicGrantedDoes, MicDeniedDoes
<1> QED
  BY <1>1, <1>3, <1>5, PageDoesKeeps

LEMMA PageLostKeeps ==
    ASSUME DInv, NEW s \in Side, PageLost(s)
    PROVE  DInv'
<1>1. IsPage(s) /\ (Faults(s, Lost(end[s])) \/ Faults(s, PingTimeout(end[s])))
  BY DEF PageLost
<1>2. SInv
  BY SidesAre
<1>3. Over(end[s], Lost(end[s])) /\ Over(end[s], PingTimeout(end[s]))
  BY <1>1, <1>2, PageIs, LostOver
<1>4. Ready(end[s], Learns(end[s], inbox[s], 0))
  BY <1>1, PageReady
<1>5. /\ Does(end[s], Lost(end[s]), Learns(end[s], inbox[s], 0), FALSE)
      /\ Does(end[s], PingTimeout(end[s]), Learns(end[s], inbox[s], 0), FALSE)
  BY <1>4, LostDoes, DeathDoes
<1> QED
  BY <1>1, <1>3, <1>5, PageDoesKeeps

LEMMA PageDescribesKeeps ==
    ASSUME DInv, NEW s \in Side, PageDescribes(s)
    PROVE  DInv'
<1>1. IsPage(s)
  BY DEF PageDescribes
<1>2. PICK i \in DOMAIN end[s].pcs :
          /\ end[s].pcs[i].desc = "making"
          /\ Steps(s, Described(end[s], i)) \/ Faults(s, Fail(end[s]))
  BY DEF PageDescribes
<1>3. SInv
  BY SidesAre
<1>4. Over(end[s], Described(end[s], i)) /\ Over(end[s], Fail(end[s]))
  BY <1>1, <1>2, <1>3, PageIs, DescribedOver, LostOver
<1>5. Ready(end[s], Learns(end[s], inbox[s], 0))
  BY <1>1, PageReady
<1>6. /\ Moves(end[s], Described(end[s], i), Learns(end[s], inbox[s], 0), FALSE)
      /\ PageFollows(end[s], Described(end[s], i))
  BY <1>5, DescribedMoves
<1>7. Does(end[s], Fail(end[s]), Learns(end[s], inbox[s], 0), FALSE)
  BY <1>5, DeathDoes
<1>8. CASE Steps(s, Described(end[s], i))
  BY <1>1, <1>4, <1>6, <1>8, PageTaskKeeps
<1>9. CASE Faults(s, Fail(end[s]))
  BY <1>1, <1>4, <1>7, <1>9, PageDoesKeeps
<1> QED
  BY <1>2, <1>8, <1>9

LEMMA PageGathersKeeps ==
    ASSUME DInv, NEW s \in Side, PageGathers(s)
    PROVE  DInv'
<1>1. IsPage(s)
  BY DEF PageGathers
<1>2. PICK i \in DOMAIN end[s].pcs : Steps(s, Gathered(end[s], i))
  BY DEF PageGathers
<1>3. SInv
  BY SidesAre
<1>4. Over(end[s], Gathered(end[s], i))
  BY <1>1, <1>3, PageIs, GatheredOver
<1>5. Ready(end[s], Learns(end[s], inbox[s], 0))
  BY <1>1, PageReady
<1>6. /\ Moves(end[s], Gathered(end[s], i), Learns(end[s], inbox[s], 0), FALSE)
      /\ PageFollows(end[s], Gathered(end[s], i))
  BY <1>5, GatheredMoves
<1> QED
  BY <1>1, <1>2, <1>4, <1>6, PageTaskKeeps

\* A step, or a fault, in which nothing is read.
LEMMA StepKeeps ==
    ASSUME DInv, SInv', NEW s \in Side, NEW q, EndSound(s, q), NEW paired,
           Passes(end[s], q, inbox[s], 0, end[Other(s)], FALSE, paired),
           Steps(s, q) \/ Faults(s, q)
    PROVE  DInv'
<1>1. inbox[s] \in Seq(Message)
  BY SidesAre
<1>2. Becomes(s, q, inbox[s])
  BY DEF Steps, Faults
<1>3. Skips(inbox[s], 0, inbox[s])
  BY <1>1, SkipsIs
<1>4. SideInv(s)' /\ SideInv(Other(s))'
  BY <1>1, <1>2, <1>3, PassesKeeps
<1> QED
  BY <1>4, BothSides

\* The call begins with the other end's connection.
LEMMA PageConnectsKeeps ==
    ASSUME DInv, SInv', NEW s \in Side, IsPage(s), NEW i \in DOMAIN end[s].pcs, Checking(s, i),
           Paired(s, i), NEW q, q = IceConnected(end[s], i), Over(end[s], q), Steps(s, q)
    PROVE  DInv'
<1> DEFINE a == end[s]
           f == end[Other(s)]
<1>1. /\ SInv /\ EndSound(s, a) /\ inbox[s] \in Seq(Message)
  BY SidesAre
<1>2. Sound(a) /\ a.role # "phone" /\ EndSound(s, q)
  BY <1>1, PageIs, PageDone
<1>3. Ready(a, Learns(a, inbox[s], 0))
  BY PageReady
<1>4. /\ Moves(a, q, Learns(a, inbox[s], 0), FALSE) /\ q.overlapped = a.overlapped
      /\ q.promise = a.promise /\ \A j \in DOMAIN a.pcs : q.pcs[j].peer = a.pcs[j].peer
  BY <1>3, IceConnectedMoves
<1>5. q.role = a.role
  BY <1>4 DEF Moves
<1>6. Claim(q) => Current(q) # Pending /\ Pairs(q, f, Current(q))
  <2>1. SUFFICES ASSUME Claim(q) PROVE Current(q) # Pending /\ Pairs(q, f, Current(q))
    OBVIOUS
  <2>2. ~a.overlapped
    BY <1>2, <1>4, <1>5, <2>1 DEF Claim
  <2>3. i = a.promise
    BY <1>2, <2>2 DEF Sound, Connected, Checking, IsOpen
  <2>4. i # Pending
    BY <1>2 DEF Sound, PageType
  <2>5. Current(q) = i
    BY <1>2, <1>4, <1>5, <2>3 DEF Current
  <2>6. Pairs(q, f, i)
    BY <1>4 DEF Pairs, Paired
  <2> QED
    BY <2>4, <2>5, <2>6
<1>7. ~NewsRead(inbox[s], 0)
  BY DEF NewsRead
<1>8. Rises(a, q, inbox[s], 0)
  BY <1>2, <1>5 DEF Rises
<1>9. Passes(a, q, inbox[s], 0, f, FALSE, FALSE)
  BY <1>2, <1>4, <1>5, <1>6, <1>7, <1>8 DEF Passes
<1> QED
  BY <1>2, <1>9, StepKeeps

LEMMA PageIceKeeps ==
    ASSUME DInv, NEW s \in Side, PageIce(s)
    PROVE  DInv'
<1>1. IsPage(s) /\ SInv
  BY SidesAre DEF PageIce
<1>2. PICK i \in DOMAIN end[s].pcs :
          /\ Checking(s, i)
          /\ \/ Paired(s, i) /\ Steps(s, IceConnected(end[s], i))
             \/ Steps(s, IceFailed(end[s], i)) \/ Faults(s, IceFailed(end[s], i))
  BY DEF PageIce
<1>3. end[s].ws # "connecting"
  <2>1. IsOpen(end[s].pcs[i])
    BY <1>2 DEF Checking, IsOpen
  <2>2. end[s].mic = "granted"
    BY <1>1, <2>1, PageIs DEF Sound, Connected
  <2> QED
    BY <1>1, <2>2, PageIs DEF Sound, Fresh
<1>4. Over(end[s], IceConnected(end[s], i)) /\ Over(end[s], IceFailed(end[s], i))
  BY <1>1, <1>3, PageIs, IceConnectedOver, IceFailedOver
<1>5. SInv'
  BY <1>1, PageIceSound
<1>6. CASE Paired(s, i) /\ Steps(s, IceConnected(end[s], i))
  BY <1>1, <1>2, <1>4, <1>5, <1>6, PageConnectsKeeps
<1>7. CASE Steps(s, IceFailed(end[s], i)) \/ Faults(s, IceFailed(end[s], i))
  <2>1. Ready(end[s], Learns(end[s], inbox[s], 0))
    BY <1>1, PageReady
  <2>2. Does(end[s], IceFailed(end[s], i), Learns(end[s], inbox[s], 0), FALSE)
    BY <2>1, IceFailedDoes
  <2> QED
    BY <1>1, <1>4, <1>7, <2>2, PageDoesKeeps
<1> QED
  BY <1>2, <1>6, <1>7

\* What a page reads.
LEMMA PageReceivesKeeps ==
    ASSUME DInv, NEW s \in Side, PageReceives(s)
    PROVE  DInv'
<1> DEFINE a == end[s]
           box == inbox[s]
           m == Head(box)
           q == Received(a, m)
           K == Learns(a, box, 1)
<1>1. /\ IsPage(s) /\ a.ws = "open" /\ box # <<>> /\ Becomes(s, q, Tail(box))
  BY DEF PageReceives
<1>2. SInv /\ EndSound(s, a) /\ box \in Seq(Message)
  BY SidesAre
<1>3. /\ Tail(box) \in Seq(Message) /\ Skips(box, 1, Tail(box))
      /\ 1 \in DOMAIN box /\ box[1] = m /\ m \in Message
  BY <1>1, <1>2, SkipsIs
<1>4. m.type = "offer" => a.role = "observer"
  <2>1. s = "wearer" => m.type # "offer"
    BY <1>1, <1>2, Boxes
  <2> QED
    BY <1>1, <1>2, <2>1, PageIs DEF RoleOn, Side
<1>5. Over(a, q)
  BY <1>1, <1>2, <1>3, <1>4, PageIs, ReceivedOver
<1>6. EndSound(s, q) /\ a.role # "phone"
  BY <1>1, <1>2, <1>5, PageIs, PageDone
<1>7. SInv'
  BY <1>2, PageReceivesSound
<1>8. Ready(a, K) /\ Shaped(a)
  BY <1>1, PageReady DEF Ready
<1>9. Speaks(m) => m.of \in K
  BY <1>3 DEF Learns, Carries, Message
<1>10. IsNews(m) \in BOOLEAN
  BY DEF IsNews
<1>11. Does(a, q, K, IsNews(m))
  BY <1>1, <1>3, <1>8, <1>9, ReceivedDoes
<1>12. Moves(a, q, K, IsNews(m)) /\ PageFollows(a, q)
  BY <1>8, <1>10, <1>11, DoesMoves, DoesFollows
<1>13. NewsRead(box, 1) <=> IsNews(m)
  BY <1>3 DEF NewsRead
<1>14. IsNews(m) => q.state # CALL_IN_PROGRESS
  BY <1>1, <1>3, <1>8, <1>9, NewsEnds
<1>15. Passes(a, q, box, 1, end[Other(s)], IsNews(m), FALSE)
  BY <1>2, <1>6, <1>12, <1>13, <1>14, PagePasses
<1>16. SideInv(s)' /\ SideInv(Other(s))'
  BY <1>1, <1>3, <1>6, <1>7, <1>10, <1>15, PassesKeeps
<1> QED
  BY <1>7, <1>16, BothSides

\* The phone before a task, in which it reads d messages.
LEMMA PhoneIsReady ==
    ASSUME DInv, PhoneWears, NEW d
    PROVE  /\ SInv /\ PhoneReady(wearer, Learns(wearer, inbox["wearer"], d))
           /\ end["wearer"] = wearer /\ "wearer" \in Side /\ EndSound("wearer", wearer)
           /\ Other("wearer") = "observer" /\ inbox["wearer"] \in Seq(Message)
           /\ Counted(observer) /\ end["observer"] = observer
<1> DEFINE box == inbox["wearer"]
<1>1. "wearer" \in Side /\ "observer" \in Side /\ Other("wearer") = "observer"
      /\ end["wearer"] = wearer /\ end["observer"] = observer
  BY DEF Side, Other, wearer, observer
<1>2. /\ SInv /\ EndSound("wearer", wearer) /\ EndSound("observer", observer)
      /\ wearer.outbox = <<>> /\ box \in Seq(Message)
      /\ Between(wearer, observer, box, inbox["observer"], "wearer" \in seated, "observer" \in seated)
  BY <1>1, SidesAre
<1>3. Working(wearer) /\ wearer.role = "phone"
  BY <1>2 DEF EndSound, PhoneWears
<1>4. Standing(wearer) /\ (~wearer.misled => Once(wearer))
  BY <1>2, <1>3 DEF Between, Placed
<1>5. Hears(wearer, Learns(wearer, box, d))
  BY <1>1, <1>2, LearnsHears
<1>6. Counted(observer)
  BY <1>2 DEF EndSound, Sound, PageType, Counted
<1> QED
  BY <1>1, <1>2, <1>3, <1>4, <1>5, <1>6 DEF PhoneReady

LEMMA PhonePasses ==
    ASSUME NEW a, Working(a), NEW q, Working(q), NEW f, Counted(f), NEW box, NEW d,
           Moves(a, q, Learns(a, box, d), FALSE), NEW paired \in BOOLEAN,
           PhoneFollows(a, q, paired), Rises(a, q, box, d),
           NewsRead(box, d) => ~Claims(q), paired => Pairs(a, f, Len(a.pcs))
    PROVE  Passes(a, q, box, d, f, FALSE, paired)
<1>1. /\ a.role = "phone" /\ q.role = "phone"
      /\ a.misled \in BOOLEAN /\ q.misled \in BOOLEAN /\ a.pcs \in Seq(Connection)
      /\ q.pcs \in Seq(Connection) /\ f.pcs \in Seq(Connection)
  BY DEF Working, PhoneType, Counted
<1>2. Advances(a, q)
  BY DEF Moves
<1>3. Claim(q) => \/ Claim(a) /\ Current(q) = Current(a)
                  \/ Current(q) # Pending /\ Pairs(q, f, Current(q))
  <2>1. SUFFICES ASSUME Claim(q)
                 PROVE  \/ Claim(a) /\ Current(q) = Current(a)
                        \/ Current(q) # Pending /\ Pairs(q, f, Current(q))
    OBVIOUS
  <2>2. ~q.misled /\ Claims(q) /\ q.state >= P!ESTABLISHING
    BY <1>1, <2>1 DEF Claim, Trusted, Claims
  <2>3. ~a.misled
    BY <2>2 DEF PhoneFollows
  <2>4. Len(q.pcs) = Len(a.pcs) /\ a.state >= P!ESTABLISHING /\ (Claims(a) \/ paired)
    BY <2>2 DEF PhoneFollows
  <2>5. Current(q) = Len(a.pcs) /\ Current(a) = Len(a.pcs)
    BY <1>1, <2>2, <2>4 DEF Current
  <2>6. CASE Claims(a)
    BY <1>1, <2>3, <2>5, <2>6 DEF Claim, Trusted
  <2>7. CASE paired
    <3>1. a.pcs # <<>>
      BY <2>4 DEF Working
    <3>2. Len(a.pcs) \in DOMAIN a.pcs /\ Len(a.pcs) # Pending
      BY <1>1, <3>1
    <3>3. a.pcs[Len(a.pcs)].peer \in DOMAIN f.pcs /\ f.pcs[a.pcs[Len(a.pcs)].peer].peer = Len(a.pcs)
      BY <2>7 DEF Pairs
    <3>4. a.pcs[Len(a.pcs)].peer # NoPeer
      BY <1>1, <3>3
    <3>5. q.pcs[Len(a.pcs)].peer = a.pcs[Len(a.pcs)].peer
      BY <1>2, <2>5, <3>2, <3>4 DEF Advances
    <3>6. Pairs(q, f, Len(a.pcs))
      BY <3>3, <3>5 DEF Pairs
    <3> QED
      BY <2>5, <3>2, <3>6
  <2> QED
    BY <2>4, <2>6, <2>7
<1>4. NewsRead(box, d) => ~Claim(q)
  BY <1>1 DEF Claim
<1> QED
  BY <1>3, <1>4 DEF Passes

\* A task of the phone in which nothing is read.
LEMMA PhoneTaskKeeps ==
    ASSUME DInv, PhoneWears, NEW q, Working(q), NEW paired \in BOOLEAN,
           PhoneDoes(wearer, q, Learns(wearer, inbox["wearer"], 0), paired),
           paired => Pairs(wearer, observer, Len(wearer.pcs)),
           Steps("wearer", q) \/ Faults("wearer", q)
    PROVE  DInv'
<1>1. /\ SInv /\ end["wearer"] = wearer /\ "wearer" \in Side /\ Working(wearer)
      /\ Other("wearer") = "observer" /\ end["observer"] = observer /\ Counted(observer)
  BY PhoneIsReady DEF PhoneReady
<1>2. SInv' /\ EndSound("wearer", q)
  BY <1>1, PhoneIs, PhoneStepsSound
<1>3. ~NewsRead(inbox["wearer"], 0) /\ Rises(wearer, q, inbox["wearer"], 0)
  BY DEF NewsRead, Rises, PhoneDoes, Stoops
<1>4. /\ Moves(wearer, q, Learns(wearer, inbox["wearer"], 0), FALSE)
      /\ PhoneFollows(wearer, q, paired)
  BY DEF PhoneDoes
<1>5. Passes(wearer, q, inbox["wearer"], 0, observer, FALSE, paired)
  BY <1>1, <1>3, <1>4, PhonePasses
<1> QED
  BY <1>1, <1>2, <1>5, StepKeeps

LEMMA PhoneHandlesKeeps ==
    ASSUME DInv, PhoneHandles
    PROVE  DInv'
<1>1. /\ PhoneWears /\ wearer.events # <<>> /\ Steps("wearer", P!Handled(wearer))
      /\ Head(wearer.events).what = "PC_ICE_FAILED" => Len(wearer.pcs) < MaxSessions
  BY DEF PhoneHandles, CanConnect
<1>2. PhoneReady(wearer, Learns(wearer, inbox["wearer"], 0)) /\ Working(wearer)
  BY <1>1, PhoneIsReady DEF PhoneReady
<1>3. Working(P!Handled(wearer))
  BY <1>1, <1>2, PhoneHandledWorks
<1>4. PhoneDoes(wearer, P!Handled(wearer), Learns(wearer, inbox["wearer"], 0), FALSE)
  BY <1>1, <1>2, HandledMoves
<1> QED
  BY <1>1, <1>3, <1>4, PhoneTaskKeeps

LEMMA PhonePostsKeeps ==
    ASSUME DInv, PhonePosts
    PROVE  DInv'
<1> DEFINE K == Learns(wearer, inbox["wearer"], 0)
<1>1. PhoneWears /\ wearer.state >= P!ESTABLISHING
  BY DEF PhonePosts, InSession
<1>2. /\ PhoneReady(wearer, K) /\ Working(wearer)
      /\ end["wearer"] = wearer /\ end["observer"] = observer /\ Other("wearer") = "observer"
  BY <1>1, PhoneIsReady DEF PhoneReady
<1>3. wearer.pcs # <<>>
  BY <1>1, <1>2 DEF Working
<1>4. /\ Working(P!Created(wearer)) /\ Working(P!Gathered(wearer))
      /\ Working(P!IceConnected(wearer)) /\ Working(P!IceFailed(wearer))
      /\ Working(P!CameraFailed(wearer))
  BY <1>2, <1>3, PhonePostWorks
<1>5. /\ wearer.creating => PhoneDoes(wearer, P!Created(wearer), K, FALSE)
      /\ PhoneDoes(wearer, P!Gathered(wearer), K, FALSE)
      /\ PhoneDoes(wearer, P!IceConnected(wearer), K, TRUE)
      /\ PhoneDoes(wearer, P!IceFailed(wearer), K, FALSE)
      /\ PhoneDoes(wearer, P!CameraFailed(wearer), K, FALSE)
  BY <1>1, <1>2, PhonePostsMoves
<1>6. \/ wearer.creating /\ Steps("wearer", P!Created(wearer))
      \/ Steps("wearer", P!Gathered(wearer))
      \/ Paired("wearer", P!Session(wearer)) /\ Steps("wearer", P!IceConnected(wearer))
      \/ Steps("wearer", P!IceFailed(wearer)) \/ Faults("wearer", P!IceFailed(wearer))
      \/ Faults("wearer", P!CameraFailed(wearer))
  BY DEF PhonePosts
<1>7. CASE wearer.creating /\ Steps("wearer", P!Created(wearer))
  BY <1>1, <1>4, <1>5, <1>7, PhoneTaskKeeps
<1>8. CASE Steps("wearer", P!Gathered(wearer))
  BY <1>1, <1>4, <1>5, <1>8, PhoneTaskKeeps
<1>9. CASE Paired("wearer", P!Session(wearer)) /\ Steps("wearer", P!IceConnected(wearer))
  <2>1. Pairs(wearer, observer, Len(wearer.pcs))
    BY <1>2, <1>9 DEF Paired, Pairs, P!Session
  <2> QED
    BY <1>1, <1>4, <1>5, <1>9, <2>1, PhoneTaskKeeps
<1>10. CASE Steps("wearer", P!IceFailed(wearer)) \/ Faults("wearer", P!IceFailed(wearer))
  BY <1>1, <1>4, <1>5, <1>10, PhoneTaskKeeps
<1>11. CASE Faults("wearer", P!CameraFailed(wearer))
  BY <1>1, <1>4, <1>5, <1>11, PhoneTaskKeeps
<1> QED
  BY <1>6, <1>7, <1>8, <1>9, <1>10, <1>11

LEMMA PhoneHeadsetKeeps ==
    ASSUME DInv, PhoneHeadset
    PROVE  DInv'
<1> DEFINE K == Learns(wearer, inbox["wearer"], 0)
<1>1. PhoneWears
  BY DEF PhoneHeadset
<1>2. PhoneReady(wearer, K) /\ Working(wearer)
  BY <1>1, PhoneIsReady DEF PhoneReady
<1>3. CASE /\ wearer.state = P!WAITING_FOR_HEADSET /\ Len(wearer.pcs) < MaxSessions
           /\ Steps("wearer", P!HeadsetConnected(wearer))
  <2>1. Working(P!HeadsetConnected(wearer)) /\ PhoneDoes(wearer, P!HeadsetConnected(wearer), K, FALSE)
    BY <1>2, <1>3, PhoneMoves, PhoneTurns
  <2> QED
    BY <1>1, <1>3, <2>1, PhoneTaskKeeps
<1>4. CASE wearer.state >= P!ESTABLISHING /\ Faults("wearer", P!HeadsetDisconnected(wearer))
  <2>1. /\ Working(P!HeadsetDisconnected(wearer))
        /\ PhoneDoes(wearer, P!HeadsetDisconnected(wearer), K, FALSE)
    BY <1>2, <1>4, PhoneMoves, PhoneTurns
  <2> QED
    BY <1>1, <1>4, <2>1, PhoneTaskKeeps
<1> QED
  BY <1>3, <1>4 DEF PhoneHeadset, CanConnect, InSession

LEMMA PhoneLostKeeps ==
    ASSUME DInv, PhoneLost
    PROVE  DInv'
<1> DEFINE K == Learns(wearer, inbox["wearer"], 0)
<1>1. PhoneWears /\ (Faults("wearer", P!Lost(wearer)) \/ Faults("wearer", P!GoAway(wearer)))
  BY DEF PhoneLost
<1>2. PhoneReady(wearer, K) /\ Working(wearer)
  BY <1>1, PhoneIsReady DEF PhoneReady
<1>3. /\ Working(P!Lost(wearer)) /\ PhoneDoes(wearer, P!Lost(wearer), K, FALSE)
      /\ Working(P!GoAway(wearer)) /\ PhoneDoes(wearer, P!GoAway(wearer), K, FALSE)
  BY <1>2, PhoneMoves, GoAwayWorks, PhoneTurns
<1> QED
  BY <1>1, <1>3, PhoneTaskKeeps

LEMMA PhoneReceivesKeeps ==
    ASSUME DInv, PhoneReceives
    PROVE  DInv'
<1> DEFINE box == inbox["wearer"]
           m == Head(box)
           q == P!Received(wearer, m)
           K == Learns(wearer, box, 1)
<1>1. /\ PhoneWears /\ wearer.ws = "open" /\ box # <<>>
      /\ m.type = "reset" => Len(wearer.pcs) < MaxSessions
      /\ Becomes("wearer", q, Tail(box))
  BY DEF PhoneReceives, CanConnect
<1>2. /\ SInv /\ PhoneReady(wearer, K) /\ Working(wearer) /\ end["wearer"] = wearer
      /\ "wearer" \in Side /\ Other("wearer") = "observer" /\ box \in Seq(Message)
      /\ Counted(observer) /\ end["observer"] = observer
  BY <1>1, PhoneIsReady DEF PhoneReady
<1>3. /\ Tail(box) \in Seq(Message) /\ Skips(box, 1, Tail(box))
      /\ 1 \in DOMAIN box /\ box[1] = m /\ m \in Message
  BY <1>1, <1>2, SkipsIs
<1>4. m.type # "offer"
  BY <1>1, <1>2, Boxes
<1>5. Working(q)
  BY <1>1, <1>2, <1>3, <1>4, PhoneReceivedWorks
<1>6. EndSound("wearer", q) /\ SInv'
  BY <1>1, <1>2, <1>5, PhoneIs, PhoneReceivesSound
<1>7. Speaks(m) => m.of \in K
  BY <1>3 DEF Learns, Carries, Message
<1>8. /\ Moves(wearer, q, K, FALSE) /\ PhoneFollows(wearer, q, FALSE)
      /\ (m.type # "join" => Stoops(wearer, q))
      /\ (IsNews(m) => ~Claims(q))
      /\ (m.type = "leave" => ~ (q.state > P!WAITING_FOR_OBSERVER))
  BY <1>1, <1>2, <1>3, <1>4, <1>7, PhoneReceivedMoves
<1>9. Rises(wearer, q, box, 1)
  BY <1>3, <1>8 DEF Rises, Stoops
<1>10. NewsRead(box, 1) => ~Claims(q)
  BY <1>3, <1>8 DEF NewsRead
<1>11. Passes(wearer, q, box, 1, observer, FALSE, FALSE)
  BY <1>2, <1>5, <1>8, <1>9, <1>10, PhonePasses
<1>12. SideInv("wearer")' /\ SideInv("observer")'
  BY <1>1, <1>2, <1>3, <1>6, <1>11, PassesKeeps
<1> QED
  BY <1>2, <1>6, <1>12, BothSides

-----------------------------------------------------------------------------
(* The steps by which an end joins the room.                               *)

\* What is to be shown of an end that joins.
Joins(a, q) ==
    /\ q.role = a.role /\ a.ws # "open" /\ q.ws = "open" /\ q.pcs = a.pcs
    /\ \A n \in Nat \ {NoPeer} : Knows(q, n) => Knows(a, n)
    /\ Current(a) = Pending /\ Current(q) = Pending /\ ~Claim(q)
    /\ q.role = "phone" => q.state = P!WAITING_FOR_OBSERVER /\ (a.misled => q.misled)

LEMMA JoinsFacts ==
    ASSUME NEW a, NEW q, Joins(a, q), Counted(a)
    PROVE  /\ Standing(q) /\ Advances(a, q) /\ Goes(a, q) /\ (q.role = "phone" => Once(q))
           /\ q.role = "phone" => ~ (q.state > P!WAITING_FOR_OBSERVER)
           /\ q.role = "phone" => ~ (q.state >= P!ESTABLISHING)
<1>1. /\ P!WAITING_FOR_OBSERVER \in Int /\ P!ESTABLISHING \in Int
      /\ P!WAITING_FOR_OBSERVER < P!ESTABLISHING
  BY PhoneStates
<1>2. q.role = "phone" => ~ (q.state >= P!ESTABLISHING)
  BY <1>1 DEF Joins
<1>3. q.role = "phone" => ~ (q.state > P!WAITING_FOR_OBSERVER)
  BY <1>1 DEF Joins
<1>4. Standing(q)
  BY DEF Joins, Standing, Online
<1>5. Len(a.pcs) <= Len(q.pcs)
  BY DEF Joins, Counted
<1>6. Advances(a, q) /\ Goes(a, q)
  BY <1>5 DEF Joins, Advances, Goes
<1> QED
  BY <1>2, <1>3, <1>4, <1>6 DEF Once

LEMMA JoinTurns ==
    ASSUME NEW a, NEW q, Joins(a, q), Counted(a), NEW m \in Message, m.type = "join",
           NEW box, NEW box2, \A k \in DOMAIN box2 : box2[k].type = "join",
           NEW f, NEW far, NEW far2, NothingElse(far, <<m>>, far2)
    PROVE  Turn(a, q, <<m>>, box, box2, f, far, far2)
<1>1. Goes(a, q) /\ (q.role = "phone" => ~ (q.state >= P!ESTABLISHING))
  BY JoinsFacts
<1>2. Reads(a, q, box, box2)
  BY DEF Reads, Joins
<1>3. \A k \in DOMAIN <<m>> : <<m>>[k].type = "join"
  OBVIOUS
<1>4. \A k \in DOMAIN <<m>> : ~Speaks(<<m>>[k]) /\ <<m>>[k].type # "offer"
  BY <1>3 DEF Speaks
<1>5. Tactful(a, q, <<m>>, f, far)
  BY <1>4 DEF Tactful, Joins
<1>6. Offers(a, q, <<m>>)
  BY <1>1 DEF Offers
<1>7. q.role = a.role /\ (a.role = "phone" /\ a.misled => q.misled)
  BY DEF Joins
<1> QED
  BY <1>1, <1>2, <1>5, <1>6, <1>7 DEF Turn

LEMMA JoinsKeep ==
    ASSUME DInv, SInv', NEW s \in Side, s \notin seated, NEW q, EndSound(s, q),
           Joins(end[s], q), NEW m \in Message, m.type = "join", q.outbox = <<m>>,
           Becomes(s, q, inbox[s])
    PROVE  DInv'
<1> DEFINE o == Other(s)
           a == end[s]
           f == end[o]
           has == s \in seated
           sits == o \in seated
<1>0. /\ SInv /\ o \in Side /\ Other(o) = s
      /\ EndSound(s, a) /\ EndSound(o, f)
      /\ inbox[s] \in Seq(Message) /\ inbox[o] \in Seq(Message)
      /\ Between(a, f, inbox[s], inbox[o], has, sits)
      /\ Between(f, a, inbox[o], inbox[s], sits, has)
  BY SidesAre
<1>1. /\ Link(a, f, inbox[o]) /\ Link(f, a, inbox[s]) /\ Standing(a) /\ Standing(f)
      /\ Placed(a, inbox[s], has) /\ Placed(f, inbox[o], sits)
      /\ Matched(f, a, inbox[o], has) /\ has = FALSE
  BY <1>0 DEF Between, Placed
<1>2. inbox[s] = <<>> /\ a.ws # "open" /\ (f.ws = "open" => sits)
  BY <1>1 DEF Placed, Joins
<1>3. End(a) /\ End(f)
  BY <1>0, <1>1, EndOf
<1>4. Counted(a)
  BY <1>3 DEF End
<1>5. /\ Standing(q) /\ Advances(a, q) /\ (q.role = "phone" => Once(q))
      /\ q.role = "phone" => ~ (q.state > P!WAITING_FOR_OBSERVER)
  BY <1>4, JoinsFacts
<1>6. End(q)
  BY <1>5, EndOf
<1>7. /\ end'[s] = [q EXCEPT !.outbox = <<>>]
      /\ \E box \in Seq(Message) : /\ \A k \in DOMAIN box : box[k].type = "join"
                                   /\ (Other(s) \notin seated => box = <<>>)
                                   /\ Exchange(s, q, <<m>>, box, TRUE)
  BY <1>0, <1>2, JoinExchanges DEF Joins
<1>8. PICK box \in Seq(Message) : /\ \A k \in DOMAIN box : box[k].type = "join"
                                  /\ (~sits => box = <<>>)
                                  /\ Exchange(s, q, <<m>>, box, TRUE)
  BY <1>7
<1>9. Alike(q, end'[s])
  BY <1>7, SentAlike
<1>10. inbox'[s] \in Seq(Message) /\ inbox'[o] \in Seq(Message) /\ <<m>> \in Seq(Message)
  <2>1. inbox' \in [Side -> Seq(Message)]
    BY DEF SInv, RoomSound, Rooms
  <2> QED
    BY <1>0, <2>1
<1>11. /\ inbox'[s] = box /\ NothingElse(inbox[o], <<m>>, inbox'[o])
       /\ f.ws = "open" => Delivered(inbox[o], <<m>>, inbox'[o])
  BY <1>8 DEF Exchange, Joins
<1>12. Turn(a, q, <<m>>, inbox[s], inbox'[s], f, inbox[o], inbox'[o])
  <2>1. \A k \in DOMAIN inbox'[s] : inbox'[s][k].type = "join"
    BY <1>8, <1>11
  <2> QED
    BY <1>4, <1>11, <2>1, JoinTurns
<1>13. Matched(q, f, inbox'[s], sits)
  BY DEF Joins, Matched
<1>14. Present(q, inbox'[s], sits)
  BY <1>5, <1>8, <1>11 DEF Present
<1>15. Present(f, inbox'[o], TRUE)
  BY DEF Present
<1>16. Matched(f, q, inbox'[o], TRUE)
  <2>1. Answered(a, f, inbox[o]) /\ Heard(f, a, inbox[s])
    BY <1>1 DEF Link
  <2>2. Minds(a, q, <<m>>, inbox[s], FALSE, TRUE)
    BY DEF Minds, Joins
  <2>3. PICK far \in Seq(Message) : far = inbox[o]
    BY <1>0
  <2>4. PICK far2 \in Seq(Message) : far2 = inbox'[o]
    BY <1>10
  <2>5. PICK out \in Seq(Message) : out = <<m>>
    BY <1>10
  <2>6. PICK b : b = inbox[s]
    OBVIOUS
  <2>7. PICK h \in BOOLEAN : h = FALSE
    OBVIOUS
  <2>8. PICK h2 \in BOOLEAN : h2 = TRUE
    OBVIOUS
  <2>9. /\ Minds(a, q, out, b, h, h2) /\ Answered(a, f, far) /\ Heard(f, a, b)
        /\ Matched(f, a, far, h) /\ (f.ws = "open" => Delivered(far, out, far2))
        /\ (a.ws = "open" => h) /\ Advances(a, q)
    BY <1>1, <1>2, <1>5, <1>11, <2>1, <2>2, <2>3, <2>4, <2>5, <2>6, <2>7, <2>8
  <2> HIDE DEF a, f
  <2>10. Matched(f, q, far2, h2)
    BY <1>3, <1>6, <2>9, MatchedFurther
  <2> QED
    BY <2>4, <2>8, <2>10
<1>17. SideInv(s)' /\ SideInv(o)'
  <2>1. q.ws = "open" => TRUE
    OBVIOUS
  <2> QED
    BY <1>5, <1>8, <1>9, <1>10, <1>12, <1>13, <1>14, <1>15, <1>16, TurnKeeps
<1> QED
  BY <1>17, BothSides

\* ws.onopen of a page.
LEMMA OpenedJoins ==
    ASSUME NEW p, Sound(p), p.ws = "connecting", p.outbox = <<>>, NEW q, q = Opened(p)
    PROVE  Joins(p, q) /\ \E m \in Message : m.type = "join" /\ q.outbox = <<m>>
<1>0. p \in PageType /\ p.state = WEBSOCKET_CONNECT /\ p.promise = Pending
  BY DEF Sound, Fresh
<1>1. PICK o : o = [p EXCEPT !.ws = "open"]
  OBVIOUS
<1>2. /\ o \in PageType /\ o.ws = "open" /\ o.role = p.role /\ o.state = p.state
      /\ o.pcs = p.pcs /\ o.held = p.held /\ o.waiting = p.waiting /\ o.promise = p.promise
      /\ o.outbox = <<>>
  BY <1>0, <1>1 DEF PageType
<1>3. PICK r : r = SetState(o, WAITING_FOR_JOIN)
  OBVIOUS
<1>4. /\ WAITING_FOR_JOIN \in PageState /\ WAITING_FOR_JOIN # ERROR
      /\ WAITING_FOR_JOIN # CALL_IN_PROGRESS /\ WEBSOCKET_CONNECT # ERROR
  BY States
<1>5. /\ r \in PageType /\ Keeps(o, r) /\ r.state = WAITING_FOR_JOIN /\ r.ws = "open"
      /\ r.promise = o.promise /\ r.held = o.held /\ r.pcs = o.pcs /\ r.outbox = <<>>
  BY <1>0, <1>2, <1>3, <1>4, SetStateIs
<1>6. PICK m \in Message : m = Msg("join") /\ m.type = "join"
  BY Typed DEF Types
<1>7. q = SendTo(r, m)
  BY <1>0, <1>1, <1>3, <1>6 DEF Opened
<1>8. /\ q \in PageType /\ Keeps(r, q) /\ q.state = r.state /\ q.ws = r.ws
      /\ q.promise = r.promise /\ q.held = r.held /\ q.pcs = r.pcs
      /\ q.outbox = Append(r.outbox, m)
  <2>1. LET z == SendTo(r, m)
        IN /\ z \in PageType
           /\ z.outbox = IF r.ws = "open" THEN Append(r.outbox, m) ELSE r.outbox
           /\ Keeps(r, z)
           /\ z.err = r.err /\ z.ws = r.ws /\ z.promise = r.promise /\ z.held = r.held
           /\ z.rejected = r.rejected /\ z.pcs = r.pcs /\ z.state = r.state
    BY <1>5, SendToIs
  <2> QED
    BY <1>5, <1>7, <2>1
<1>9. /\ q.role = p.role /\ q.role # "phone" /\ q.ws = "open" /\ q.state = WAITING_FOR_JOIN
      /\ q.promise = Pending /\ q.held = p.held /\ q.pcs = p.pcs /\ q.waiting = p.waiting
  BY <1>0, <1>2, <1>5, <1>8 DEF Keeps, PageType
<1>10. q.outbox = <<m>>
  BY <1>5, <1>8
<1>11. ~Claim(q)
  BY <1>4, <1>9 DEF Claim
<1>12. \A n \in Nat \ {NoPeer} : Knows(q, n) => Knows(p, n)
  BY <1>9 DEF Knows
<1>13. Current(p) = Pending /\ Current(q) = Pending
  BY <1>0, <1>9 DEF Current
<1> QED
  BY <1>6, <1>9, <1>10, <1>11, <1>12, <1>13 DEF Joins

LEMMA PageOpenedKeeps ==
    ASSUME DInv, NEW s \in Side, PageOpened(s)
    PROVE  DInv'
<1>1. /\ IsPage(s) /\ end[s].ws = "connecting" /\ s \notin seated
      /\ Becomes(s, Opened(end[s]), inbox[s])
  BY DEF PageOpened, Steps
<1>2. SInv /\ EndSound(s, end[s]) /\ end[s].outbox = <<>>
  BY SidesAre
<1>3. Sound(end[s])
  BY <1>1, <1>2, PageIs
<1>4. EndSound(s, Opened(end[s]))
  BY <1>1, <1>2, <1>3, OpenedOver, PageIs, PageDone
<1>5. SInv'
  BY <1>2, PageOpenedSound
<1>6. PICK q : q = Opened(end[s])
  OBVIOUS
<1>7. Joins(end[s], q) /\ \E m \in Message : m.type = "join" /\ q.outbox = <<m>>
  BY <1>1, <1>2, <1>3, <1>6, OpenedJoins
<1>8. PICK m \in Message : m.type = "join" /\ q.outbox = <<m>>
  BY <1>7
<1> QED
  BY <1>1, <1>4, <1>5, <1>6, <1>7, <1>8, JoinsKeep

\* WEBSOCKET_CONNECTED of the phone.
LEMMA ConnectedJoins ==
    ASSUME NEW ph, Working(ph), ph.ws = "closed", Standing(ph), ph.outbox = <<>>,
           NEW q, q = P!Connected(ph)
    PROVE  Joins(ph, q) /\ \E m \in Message : m.type = "join" /\ q.outbox = <<m>>
<1>0. ph \in PhoneType /\ ph.role = "phone" /\ ph.state = P!AWAY
  BY DEF Working, PhoneType, Standing
<1>1. PICK o : o = [ph EXCEPT !.ws = "open", !.state = P!WAITING_FOR_OBSERVER]
  OBVIOUS
<1>2. /\ o \in PhoneType /\ o.ws = "open" /\ o.role = "phone" /\ o.pcs = ph.pcs
      /\ o.state = P!WAITING_FOR_OBSERVER /\ o.outbox = <<>> /\ o.misled = ph.misled
      /\ o.events = ph.events
  BY <1>0, <1>1, PhoneStates DEF PhoneType
<1>3. /\ ~ (P!WAITING_FOR_OBSERVER >= P!ESTABLISHING) /\ ~ (P!AWAY >= P!ESTABLISHING)
  BY PhoneStates
<1>4. Working(o)
  BY <1>2, <1>3 DEF Working
<1>5. PICK m \in Message : m = P!Msg("join") /\ m.type = "join"
  BY PhoneSaid DEF Types
<1>6. q = P!SendTo(o, m)
  BY <1>1, <1>5 DEF P!Connected
<1>7. /\ Working(q) /\ q.state = o.state /\ q.ws = o.ws /\ q.pcs = o.pcs
      /\ q.misled = o.misled /\ q.outbox = Append(o.outbox, m)
  <2>1. LET z == P!SendTo(o, m)
        IN /\ Working(z) /\ z.state = o.state /\ z.ws = o.ws /\ z.pcs = o.pcs
           /\ z.creating = o.creating /\ z.events = o.events /\ z.misled = o.misled
           /\ z.outbox = IF o.ws = "open" THEN Append(o.outbox, m) ELSE o.outbox
    BY <1>4, <1>5, PhoneSendIs
  <2> QED
    BY <1>2, <1>6, <2>1
<1>8. q.role = "phone" /\ q.outbox = <<m>>
  BY <1>2, <1>7 DEF Working, PhoneType
<1>9. ~Claim(q)
  BY <1>2, <1>3, <1>7, <1>8 DEF Claim, Claims
<1>10. Current(ph) = Pending /\ Current(q) = Pending
  BY <1>0, <1>2, <1>3, <1>7, <1>8 DEF Current
<1>11. \A n \in Nat \ {NoPeer} : Knows(q, n) => Knows(ph, n)
  BY <1>0, <1>2, <1>7, <1>8 DEF Knows
<1> QED
  BY <1>0, <1>2, <1>5, <1>7, <1>8, <1>9, <1>10, <1>11 DEF Joins

LEMMA PhoneConnectsKeeps ==
    ASSUME DInv, PhoneConnects
    PROVE  DInv'
<1>1. /\ PhoneWears /\ wearer.ws = "closed" /\ "wearer" \notin seated
      /\ Becomes("wearer", P!Connected(wearer), inbox["wearer"])
  BY DEF PhoneConnects, Steps
<1>2. /\ SInv /\ Working(wearer) /\ Standing(wearer) /\ wearer.outbox = <<>>
      /\ end["wearer"] = wearer /\ "wearer" \in Side
  BY <1>1, PhoneIsReady DEF PhoneReady
<1>3. Working(P!Connected(wearer))
  BY <1>2, PhoneMoves
<1>4. EndSound("wearer", P!Connected(wearer)) /\ SInv'
  BY <1>1, <1>2, <1>3, PhoneIs, PhoneConnectsSound
<1>5. PICK q : q = P!Connected(wearer)
  OBVIOUS
<1>6. Joins(wearer, q) /\ \E m \in Message : m.type = "join" /\ q.outbox = <<m>>
  BY <1>1, <1>2, <1>5, ConnectedJoins
<1>7. PICK m \in Message : m.type = "join" /\ q.outbox = <<m>>
  BY <1>6
<1> QED
  BY <1>1, <1>2, <1>4, <1>5, <1>6, <1>7, JoinsKeep

-----------------------------------------------------------------------------
(* The server notices that a connection has ended.                         *)

\* What comes of it in the room.
LEMMA NoticeIs ==
    ASSUME SInv, NEW s \in Side, NEW o, o = Other(s), Notice(s), NEW m \in Message,
           m = Msg("leave"), m.type = "leave", end[o].ws = "open" => o \in seated
    PROVE  /\ Exchange(s, end[s], <<m>>, inbox[s], FALSE) /\ end' = end /\ inbox'[s] = <<>>
           /\ end[s].ws # "open" /\ s \in seated
<1>1. /\ s \in seated /\ end[s].ws # "open" /\ end' = end
      /\ RoomBecomes(Handle([inbox |-> inbox, seated |-> seated], s, m))
  BY DEF Notice
<1>2. PICK r : r = [inbox |-> inbox, seated |-> seated]
  OBVIOUS
<1>3. r \in Rooms /\ r.inbox = inbox /\ r.seated = seated
  BY <1>2 DEF SInv, RoomSound
<1>4. PICK z : z = Handle(r, s, m)
  OBVIOUS
<1>5. o \in Side /\ o # s
  BY OtherIs
<1>6. Forwards(r, s, o, m, z)
  BY <1>1, <1>3, <1>4, <1>5, ForwardIs
<1>7. /\ inbox' = [x \in Side |-> IF end[x].ws = "open" THEN z.inbox[x] ELSE <<>>]
      /\ seated' = z.seated
  BY <1>1, <1>2, <1>4 DEF RoomBecomes
<1>8. /\ z.seated = seated \ {s}
      /\ z.inbox[o] = IF o \in seated THEN Append(inbox[o], m) ELSE inbox[o]
  BY <1>3, <1>6 DEF Forwards
<1>9. inbox'[s] = <<>>
  BY <1>1, <1>7
<1>10. /\ NothingElse(inbox[o], <<m>>, inbox'[o])
       /\ IF end[o].ws = "open" THEN Delivered(inbox[o], <<m>>, inbox'[o]) ELSE inbox'[o] = <<>>
  <2>1. CASE end[o].ws = "open"
    <3>1. inbox'[o] = Append(inbox[o], m)
      BY <1>5, <1>7, <1>8, <2>1
    <3>2. PICK c : c = inbox'[o]
      OBVIOUS
    <3>3. inbox[o] \in Seq(Message)
      BY <1>5 DEF SInv, RoomSound, Rooms
    <3>4. NothingElse(inbox[o], <<m>>, c) /\ Delivered(inbox[o], <<m>>, c)
      BY <3>1, <3>2, <3>3, AppendGoes
    <3> QED
      BY <2>1, <3>2, <3>4
  <2>2. CASE end[o].ws # "open"
    <3>1. inbox'[o] = <<>>
      BY <1>5, <1>7, <2>2
    <3> QED
      BY <2>2, <3>1, NothingOfNothing
  <2> QED
    BY <2>1, <2>2
<1>11. seated' \subseteq Side /\ s \notin seated' /\ (o \in seated' <=> o \in seated)
  <2>1. seated \subseteq Side
    BY DEF SInv, RoomSound, Rooms
  <2> QED
    BY <1>5, <1>7, <1>8, <2>1
<1>12. Exchange(s, end[s], <<m>>, inbox[s], FALSE)
  BY <1>1, <1>9, <1>10, <1>11 DEF Exchange
<1> QED
  BY <1>1, <1>9, <1>12

\* To the others it is as if the end had said so itself.
LEMMA NoticeTurns ==
    ASSUME NEW a, End(a), Standing(a), a.ws # "open", NEW m \in Message, m.type = "leave",
           NEW box, NEW f, NEW far, NEW far2, NothingElse(far, <<m>>, far2), Answered(a, f, far)
    PROVE  Turn(a, a, <<m>>, box, <<>>, f, far, far2)
<1>1. ~Engaged(a)
  BY DEF End
<1>2. \A k \in DOMAIN <<m>> : <<m>>[k].type = "leave"
  OBVIOUS
<1>3. \A k \in DOMAIN <<m>> : ~Speaks(<<m>>[k]) /\ <<m>>[k].type # "offer"
  BY <1>2 DEF Speaks
<1>4. ~ (Current(a) # Pending /\ Reached(Current(a), f, far))
  BY <1>1 DEF Answered, End
<1>5. Tactful(a, a, <<m>>, f, far)
  BY <1>3, <1>4 DEF Tactful
<1>6. Goes(a, a)
  BY DEF Goes, End, Counted
<1>7. Reads(a, a, box, <<>>)
  BY DEF Reads
<1>8. Offers(a, a, <<m>>)
  BY <1>1 DEF Offers, Engaged
<1> QED
  BY <1>5, <1>6, <1>7, <1>8 DEF Turn

LEMMA NoticeKeeps ==
    ASSUME DInv, NEW s \in Side, Notice(s)
    PROVE  DInv'
<1> DEFINE o == Other(s)
           a == end[s]
           f == end[o]
           sits == o \in seated
<1>0. /\ SInv /\ o \in Side /\ Other(o) = s
      /\ EndSound(s, a) /\ EndSound(o, f)
      /\ inbox[s] \in Seq(Message) /\ inbox[o] \in Seq(Message)
      /\ Between(a, f, inbox[s], inbox[o], s \in seated, sits)
      /\ Between(f, a, inbox[o], inbox[s], sits, s \in seated)
  BY SidesAre
<1>1. /\ Link(a, f, inbox[o]) /\ Standing(a) /\ Standing(f)
      /\ Placed(a, inbox[s], s \in seated) /\ Placed(f, inbox[o], sits)
      /\ Present(f, inbox[o], s \in seated)
  BY <1>0 DEF Between, Placed
<1>2. f.ws = "open" => sits
  BY <1>1 DEF Placed
<1>3. End(a) /\ End(f)
  BY <1>0, <1>1, EndOf
<1>4. PICK m \in Message : m = Msg("leave") /\ m.type = "leave"
  BY Typed DEF Types
<1>5. /\ Exchange(s, a, <<m>>, inbox[s], FALSE) /\ end' = end /\ inbox'[s] = <<>>
      /\ a.ws # "open" /\ s \in seated
  BY <1>0, <1>2, <1>4, NoticeIs
<1>6. SInv'
  BY <1>0, NoticeSound
<1>7. Alike(a, end'[s])
  BY <1>5 DEF Alike
<1>8. inbox'[s] \in Seq(Message) /\ inbox'[o] \in Seq(Message) /\ <<m>> \in Seq(Message)
  <2>1. inbox' \in [Side -> Seq(Message)]
    BY <1>6 DEF SInv, RoomSound, Rooms
  <2> QED
    BY <1>0, <2>1
<1>9. /\ NothingElse(inbox[o], <<m>>, inbox'[o])
      /\ IF f.ws = "open" THEN Delivered(inbox[o], <<m>>, inbox'[o]) ELSE inbox'[o] = <<>>
  BY <1>5 DEF Exchange
<1>10. Turn(a, a, <<m>>, inbox[s], inbox'[s], f, inbox[o], inbox'[o])
  BY <1>1, <1>3, <1>4, <1>5, <1>9, NoticeTurns DEF Link
<1>11. Matched(a, f, inbox'[s], sits)
  BY <1>3, <1>5 DEF Matched, End
<1>12. Present(a, inbox'[s], sits)
  <2>1. a.role = "phone" => ~ (a.state > P!WAITING_FOR_OBSERVER)
    <3>1. a.role = "phone" => a.state = P!AWAY
      BY <1>1, <1>5 DEF Standing
    <3>2. ~ (P!AWAY > P!WAITING_FOR_OBSERVER)
      BY DEF P!AWAY, P!WAITING_FOR_OBSERVER
    <3> QED
      BY <3>1, <3>2
  <2> QED
    BY <1>5, <2>1 DEF Present
<1>13. Matched(f, a, inbox'[o], FALSE)
  <2>1. SUFFICES ASSUME Claim(f) PROVE HasNews(inbox'[o])
    BY DEF Matched
  <2>2. Delivered(inbox[o], <<m>>, inbox'[o])
    BY <1>3, <1>9, <2>1 DEF End
  <2>3. 1 \in DOMAIN <<m>> /\ <<m>>[1] = m
    OBVIOUS
  <2>4. Len(inbox[o]) + 1 \in DOMAIN inbox'[o] /\ inbox'[o][Len(inbox[o]) + 1] = m
    BY <2>2, <2>3 DEF Delivered
  <2> QED
    BY <1>4, <2>4 DEF HasNews, IsNews
<1>14. Present(f, inbox'[o], FALSE)
  <2>1. PICK far \in Seq(Message) : far = inbox[o]
    BY <1>0
  <2>2. PICK far2 \in Seq(Message) : far2 = inbox'[o]
    BY <1>8
  <2>3. PICK out \in Seq(Message) : out = <<m>>
    BY <1>8
  <2>4. PICK h \in BOOLEAN : h = TRUE
    OBVIOUS
  <2>5. PICK h2 \in BOOLEAN : h2 = FALSE
    OBVIOUS
  <2>6. out # <<>> /\ out[Len(out)].type = "leave"
    BY <1>4, <2>3
  <2>7. /\ NothingElse(far, out, far2) /\ Present(f, far, h)
        /\ IF f.ws = "open" THEN Delivered(far, out, far2) ELSE far2 = <<>>
    BY <1>1, <1>5, <1>9, <2>1, <2>2, <2>3, <2>4
  <2> HIDE DEF f
  <2>8. Present(f, far2, h2)
    BY <1>1, <2>6, <2>7, PresentFurther
  <2> QED
    BY <2>2, <2>5, <2>8
<1>15. a.role = "phone" /\ ~a.misled => Once(a)
  BY <1>1 DEF Placed
<1>16. SideInv(s)' /\ SideInv(o)'
  BY <1>0, <1>1, <1>5, <1>7, <1>8, <1>10, <1>11, <1>12, <1>13, <1>14, <1>15, TurnKeeps
<1> QED
  BY <1>6, <1>16, BothSides

-----------------------------------------------------------------------------
(* The observer loads the page again.                                      *)

\* The new page, which knows of nothing.
Anew(a, q) ==
    /\ q.role = "observer" /\ a.role = "observer" /\ q.ws = "connecting"
    /\ q.state = WEBSOCKET_CONNECT /\ q.promise = Pending /\ q.held = <<>> /\ q.waiting = <<>>
    /\ Len(q.pcs) = Len(a.pcs) /\ \A i \in DOMAIN q.pcs : q.pcs[i].peer = NoPeer

LEMMA ReloadIs ==
    ASSUME DInv, Reload
    PROVE  \E q : /\ EndSound("observer", q) /\ Anew(observer, q)
                  /\ end' = [end EXCEPT !["observer"] = q]
                  /\ RoomBecomes([inbox |-> inbox, seated |-> seated])
<1>1. PICK pcs : pcs = [i \in DOMAIN observer.pcs |-> ClosedPC]
  OBVIOUS
<1>2. PICK q : q = [Loaded("observer") EXCEPT !.pcs = pcs]
  OBVIOUS
<1>3. end' = [end EXCEPT !["observer"] = q] /\ RoomBecomes([inbox |-> inbox, seated |-> seated])
  BY <1>1, <1>2 DEF Reload
<1>4. /\ Sound(observer) /\ observer.role = "observer" /\ observer.pcs \in Seq(Connection)
  BY DEF DInv, SInv, EndSound, observer, Side, Sound, PageType, RoleOn
<1>5. /\ pcs \in Seq(Connection) /\ Len(pcs) = Len(observer.pcs)
      /\ \A i \in DOMAIN pcs : pcs[i] = ClosedPC
  <2>1. PICK old \in Seq(Connection) : old = observer.pcs
    BY <1>4
  <2>2. Len(old) \in Nat /\ DOMAIN old = 1 .. Len(old) /\ pcs = [i \in 1 .. Len(old) |-> ClosedPC]
    BY <1>1, <2>1
  <2>3. pcs \in Seq(Connection)
    BY <2>2, Typed
  <2>4. Len(pcs) = Len(old)
    BY <2>2, <2>3
  <2> QED
    BY <2>1, <2>2, <2>3, <2>4
<1>6. Sound(q) /\ ~q.rejected /\ q.outbox = <<>> /\ q.role = "observer"
  BY <1>2, <1>5, ReloadedSound
<1>7. q.ws = "connecting" /\ q.pcs = pcs
  BY <1>2 DEF Loaded
<1>8. /\ q.state = WEBSOCKET_CONNECT /\ q.promise = Pending /\ q.held = <<>>
      /\ q.waiting = <<>>
  BY <1>6, <1>7 DEF Sound, Fresh
<1>9. \A i \in DOMAIN q.pcs : q.pcs[i].peer = NoPeer
  BY <1>5, <1>7 DEF ClosedPC
<1>10. EndSound("observer", q)
  BY <1>6 DEF EndSound, RoleOn
<1>11. Anew(observer, q)
  BY <1>4, <1>5, <1>6, <1>7, <1>8, <1>9 DEF Anew
<1> QED
  BY <1>3, <1>10, <1>11

LEMMA AnewIs ==
    ASSUME NEW a, Counted(a), NEW q, Anew(a, q)
    PROVE  /\ Current(q) = Pending /\ Standing(q) /\ ~Claim(q) /\ Alike(q, q)
           /\ \A n \in Nat \ {NoPeer} : ~Knows(q, n)
           /\ \A f, far, far2, box : NothingElse(far, <<>>, far2) =>
                 Turn(a, q, <<>>, box, <<>>, f, far, far2)
<1>1. Current(q) = Pending
  BY DEF Current, Anew
<1>2. Standing(q)
  BY DEF Standing, Online, Anew
<1>3. WEBSOCKET_CONNECT # CALL_IN_PROGRESS
  BY States
<1>4. ~Claim(q)
  BY <1>3 DEF Claim, Anew
<1>5. Alike(q, q)
  BY DEF Alike
<1>6. \A n \in Nat \ {NoPeer} : ~Knows(q, n)
  BY DEF Knows, Anew
<1>7. Goes(a, q)
  BY <1>1 DEF Goes, Anew, Counted
<1>8. ASSUME NEW f, NEW far, NEW far2, NEW box, NothingElse(far, <<>>, far2)
      PROVE  Turn(a, q, <<>>, box, <<>>, f, far, far2)
  <2>1. Reads(a, q, box, <<>>)
    BY <1>6 DEF Reads
  <2>2. Tactful(a, q, <<>>, f, far)
    BY <1>1 DEF Tactful
  <2>3. Offers(a, q, <<>>)
    BY DEF Offers, Anew
  <2>4. a.role # "phone"
    BY DEF Anew
  <2> QED
    BY <1>7, <1>8, <2>1, <2>2, <2>3, <2>4 DEF Turn
<1> QED
  BY <1>1, <1>2, <1>4, <1>5, <1>6, <1>8

LEMMA ReloadKeeps ==
    ASSUME DInv, Reload
    PROVE  DInv'
<1> DEFINE f == end["wearer"]
           sits == "wearer" \in seated
           has == "observer" \in seated
           far == inbox["wearer"]
           far2 == inbox'["wearer"]
<1>s. "observer" \in Side /\ "wearer" \in Side /\ Other("observer") = "wearer"
      /\ end["observer"] = observer
  BY DEF Side, Other, observer
<1>0. /\ SInv /\ EndSound("observer", observer) /\ EndSound("wearer", f)
      /\ inbox["observer"] \in Seq(Message) /\ far \in Seq(Message)
      /\ Between(observer, f, inbox["observer"], far, has, sits)
      /\ Between(f, observer, far, inbox["observer"], sits, has)
  BY <1>s, SidesAre
<1>1. /\ Standing(observer) /\ Standing(f) /\ Placed(f, far, sits) /\ Present(f, far, has)
  BY <1>0 DEF Between, Placed
<1>2. End(observer) /\ End(f)
  BY <1>0, <1>1, <1>s, EndOf
<1>3. PICK q : /\ EndSound("observer", q) /\ Anew(observer, q)
               /\ end' = [end EXCEPT !["observer"] = q]
               /\ RoomBecomes([inbox |-> inbox, seated |-> seated])
  BY ReloadIs
<1>4. SInv'
  BY <1>0, ReloadSound
<1>5. end'["observer"] = q /\ end'["wearer"] = f
  BY <1>3, <1>s, <1>0 DEF SInv
<1>6. /\ Current(q) = Pending /\ Standing(q) /\ ~Claim(q) /\ Alike(q, q)
      /\ \A g, b, b2, box : NothingElse(b, <<>>, b2) => Turn(observer, q, <<>>, box, <<>>, g, b, b2)
  BY <1>2, <1>3, AnewIs DEF End
<1>7. q.ws = "connecting" /\ q.role = "observer"
  BY <1>3 DEF Anew
<1>8. /\ inbox'["observer"] = <<>> /\ far2 = (IF f.ws = "open" THEN far ELSE <<>>)
      /\ seated' = seated
  BY <1>3, <1>5, <1>7, <1>s DEF RoomBecomes
<1>9. NothingElse(far, <<>>, far2)
  BY <1>8 DEF NothingElse
<1>10. IF f.ws = "open" THEN Delivered(far, <<>>, far2) ELSE far2 = <<>>
  BY <1>8 DEF Delivered
<1>11. Exchange("observer", q, <<>>, inbox["observer"], has)
  <2>1. seated \subseteq Side
    BY <1>0 DEF SInv, RoomSound, Rooms
  <2> QED
    BY <1>5, <1>7, <1>8, <1>9, <1>10, <1>s, <2>1 DEF Exchange
<1>12. inbox'["observer"] \in Seq(Message) /\ far2 \in Seq(Message) /\ <<>> \in Seq(Message)
  BY <1>0, <1>8
<1>13. Turn(observer, q, <<>>, inbox["observer"], inbox'["observer"], f, far, far2)
  BY <1>6, <1>8, <1>9
<1>14. Matched(q, f, inbox'["observer"], sits) /\ Present(q, inbox'["observer"], sits)
  BY <1>6, <1>7 DEF Matched, Present
<1>15. Matched(f, q, far2, has)
  <2>1. SUFFICES ASSUME Claim(f), ~has PROVE HasNews(far2)
    BY <1>7 DEF Matched
  <2>2. f.ws = "open"
    BY <1>2, <2>1 DEF End
  <2>3. f.role = "phone" /\ f.state >= P!ESTABLISHING
    <3>1. f.role # "observer"
      BY <1>0 DEF EndSound, RoleOn
    <3> QED
      BY <2>1, <3>1 DEF Claim, Trusted, Claims
  <2>4. f.state > P!WAITING_FOR_OBSERVER
    <3>1. f.state \in P!PhoneState
      BY <1>0, <2>3 DEF EndSound, Working, PhoneType
    <3> QED
      BY <2>3, <3>1, PhoneStates
  <2>5. \E l \in DOMAIN far : far[l].type = "leave"
    BY <1>1, <2>1, <2>3, <2>4 DEF Present
  <2> QED
    BY <1>8, <2>2, <2>5 DEF HasNews, IsNews
<1>16. Present(f, far2, has)
  <2>1. PICK b \in Seq(Message) : b = far
    BY <1>0
  <2>2. PICK b2 \in Seq(Message) : b2 = far2
    BY <1>12
  <2>3. PICK out \in Seq(Message) : out = <<>>
    BY <1>12
  <2>0. has \in BOOLEAN
    OBVIOUS
  <2>4. PICK h \in BOOLEAN : h = has
    BY <2>0
  <2>5. /\ NothingElse(b, out, b2) /\ Present(f, b, h) /\ (h \/ (~h /\ out = <<>>))
        /\ IF f.ws = "open" THEN Delivered(b, out, b2) ELSE b2 = <<>>
    BY <1>1, <1>9, <1>10, <2>1, <2>2, <2>3, <2>4
  <2> HIDE DEF f, far, far2, has
  <2>6. Present(f, b2, h)
    BY <1>1, <2>5, PresentFurther
  <2> QED
    BY <2>2, <2>4, <2>6
<1>17. SideInv("observer")' /\ SideInv("wearer")'
  <2>1. has \in BOOLEAN /\ q.ws # "open" /\ q.role # "phone"
    BY <1>7
  <2> QED
    BY <1>3, <1>5, <1>6, <1>11, <1>12, <1>13, <1>14, <1>15, <1>16, <1>s, <1>0, <2>1, TurnKeeps
<1> QED
  BY <1>4, <1>17, <1>s, BothSides

-----------------------------------------------------------------------------
(* The invariant of the calls.                                             *)

\* An end that has done nothing yet.
Blank(e) ==
    /\ e.pcs = <<>> /\ Current(e) = Pending /\ Standing(e) /\ ~Claim(e) /\ e.ws # "open"
    /\ \A n \in Nat \ {NoPeer} : ~Knows(e, n)
    /\ e.role = "phone" => e.state = P!AWAY

LEMMA LoadedBlank ==
    ASSUME NEW role \in {"observer", "glass-wearer"}, NEW e, e = Loaded(role)
    PROVE  Blank(e)
<1>1. /\ e.role = role /\ e.role # "phone" /\ e.state = WEBSOCKET_CONNECT /\ e.ws = "connecting"
      /\ e.waiting = <<>> /\ e.promise = Pending /\ e.held = <<>> /\ e.pcs = <<>>
  BY DEF Loaded
<1>2. WEBSOCKET_CONNECT # CALL_IN_PROGRESS
  BY States
<1>3. Current(e) = Pending /\ Standing(e) /\ ~Claim(e)
  BY <1>1, <1>2 DEF Current, Standing, Online, Claim
<1>4. \A n \in Nat \ {NoPeer} : ~Knows(e, n)
  BY <1>1 DEF Knows
<1> QED
  BY <1>1, <1>3, <1>4 DEF Blank

LEMMA IdleBlank ==
    ASSUME NEW e, e = P!Idle
    PROVE  Blank(e)
<1>1. e.role = "phone" /\ e.state = P!AWAY /\ e.ws = "closed" /\ e.pcs = <<>>
  BY DEF P!Idle
<1>2. ~ (P!AWAY >= P!ESTABLISHING)
  BY PhoneStates
<1>3. Current(e) = Pending /\ Standing(e) /\ ~Claim(e)
  BY <1>1, <1>2 DEF Current, Standing, Claim, Claims
<1>4. \A n \in Nat \ {NoPeer} : ~Knows(e, n)
  BY <1>1 DEF Knows
<1> QED
  BY <1>1, <1>3, <1>4 DEF Blank

LEMMA BlankBetween ==
    ASSUME NEW e, NEW f, Blank(e), Blank(f)
    PROVE  Between(e, f, <<>>, <<>>, FALSE, FALSE)
<1>1. ~ (P!AWAY >= P!ESTABLISHING) /\ ~ (P!AWAY > P!WAITING_FOR_OBSERVER)
  BY PhoneStates DEF P!AWAY, P!WAITING_FOR_OBSERVER
<1>2. \A n \in Nat \ {NoPeer} : ~Reached(n, f, <<>>)
  BY DEF Blank, Reached
<1>3. Numbered(e, f, <<>>) /\ Answered(e, f, <<>>) /\ Heard(e, f, <<>>)
  BY <1>2 DEF Numbered, Answered, Heard, Blank
<1>4. Unsaid(e, f, <<>>)
  BY <1>1 DEF Unsaid, Blank
<1>5. Placed(e, <<>>, FALSE)
  BY <1>1 DEF Placed, Blank, Once
<1>6. Matched(e, f, <<>>, FALSE) /\ Present(e, <<>>, FALSE)
  BY <1>1 DEF Matched, Present, Blank
<1> QED
  BY <1>3, <1>4, <1>5, <1>6 DEF Between, Link

LEMMA InitKeeps == Init => DInv
<1> SUFFICES ASSUME Init PROVE DInv
  OBVIOUS
<1>1. PICK w \in Wearers :
          end = [observer |-> Loaded("observer"),
                 wearer |-> IF w = "phone" THEN P!Idle ELSE Loaded("glass-wearer")]
  BY DEF Init
<1>2. PICK o : o = Loaded("observer")
  OBVIOUS
<1>3. PICK e : e = IF w = "phone" THEN P!Idle ELSE Loaded("glass-wearer")
  OBVIOUS
<1>4. end = [observer |-> o, wearer |-> e]
  BY <1>1, <1>2, <1>3
<1>5. end["observer"] = o /\ end["wearer"] = e
  BY <1>4
<1>6. Blank(o)
  BY <1>2, LoadedBlank
<1>7. Blank(e)
  BY <1>3, LoadedBlank, IdleBlank
<1>8. inbox["observer"] = <<>> /\ inbox["wearer"] = <<>> /\ seated = {}
  BY DEF Init, Side
<1>9. Between(o, e, <<>>, <<>>, FALSE, FALSE) /\ Between(e, o, <<>>, <<>>, FALSE, FALSE)
  BY <1>6, <1>7, BlankBetween
<1>10. Other("observer") = "wearer" /\ Other("wearer") = "observer"
  BY DEF Other
<1>11. ("observer" \in seated) = FALSE /\ ("wearer" \in seated) = FALSE
  BY <1>8
<1>12. SideInv("observer") /\ SideInv("wearer")
  BY <1>5, <1>8, <1>9, <1>10, <1>11 DEF SideInv
<1> QED
  BY <1>12, InitSound DEF DInv

LEMMA NextKeeps == DInv /\ [Next]_vars => DInv'
<1> SUFFICES ASSUME DInv, [Next]_vars PROVE DInv'
  OBVIOUS
<1>1. CASE Reload
  BY <1>1, ReloadKeeps
<1>2. CASE PhoneNext
  BY <1>2, PhoneConnectsKeeps, PhoneReceivesKeeps, PhoneHandlesKeeps, PhonePostsKeeps,
     PhoneHeadsetKeeps, PhoneLostKeeps DEF PhoneNext
<1>3. ASSUME NEW s \in Side, PageNext(s)
      PROVE  DInv'
  BY <1>3, PageOpenedKeeps, PageReceivesKeeps, PageRefusedKeeps, PageMicKeeps,
     PageLostKeeps, PageDescribesKeeps, PageGathersKeeps, PageIceKeeps, NoticeKeeps
     DEF PageNext
<1>4. CASE UNCHANGED vars
  BY <1>4 DEF vars, DInv, SInv, SideInv
<1> QED
  BY <1>1, <1>2, <1>3, <1>4 DEF Next

LEMMA CallsInductive == Spec => []DInv
BY InitKeeps, NextKeeps, PTL DEF Spec

\* What the invariant says of the call of one side.
LEMMA MatchedMeans ==
    ASSUME DInv, NEW s \in Side, Claim(end[s])
    PROVE  \/ Current(end[s]) # Pending /\ Paired(s, Current(end[s]))
           \/ NewsFor(s)
<1>1. Matched(end[s], end[Other(s)], inbox[s], Other(s) \in seated)
  BY SidesAre DEF Between
<1>2. HasNews(inbox[s]) => NewsFor(s)
  BY DEF HasNews, IsNews, NewsFor
<1>3. Other(s) \in seated /\ end[Other(s)].ws # "open" => NewsFor(s)
  BY DEF NewsFor
<1>4. Pairs(end[s], end[Other(s)], Current(end[s])) => Paired(s, Current(end[s]))
  BY DEF Pairs, Paired
<1> QED
  BY <1>1, <1>2, <1>3, <1>4 DEF Matched

LEMMA ImpliesMatched == DInv => PageCallIsMatched /\ PhoneCallIsMatched
<1> SUFFICES ASSUME DInv PROVE PageCallIsMatched /\ PhoneCallIsMatched
  OBVIOUS
<1>0. /\ "observer" \in Side /\ "wearer" \in Side
      /\ end["observer"] = observer /\ end["wearer"] = wearer
  BY DEF Side, observer, wearer
<1>1. PageCallIsMatched
  <2>1. SUFFICES ASSUME InCall("observer"), ~observer.overlapped
                 PROVE  \/ observer.promise # Pending /\ Paired("observer", observer.promise)
                        \/ NewsFor("observer")
    BY DEF PageCallIsMatched
  <2>2. observer.role = "observer"
    BY <1>0 DEF DInv, SInv, EndSound, RoleOn
  <2>3. observer.state = CALL_IN_PROGRESS
    BY <1>0, <2>1, <2>2 DEF InCall, IsPage
  <2>4. Claim(observer) /\ Current(observer) = observer.promise
    BY <2>1, <2>2, <2>3 DEF Claim, Trusted, Current
  <2> QED
    BY <1>0, <2>4, MatchedMeans
<1>2. PhoneCallIsMatched
  <2>1. SUFFICES ASSUME PhoneWears, InCall("wearer"), ~wearer.misled
                 PROVE  Paired("wearer", P!Session(wearer)) \/ NewsFor("wearer")
    BY DEF PhoneCallIsMatched
  <2>2. wearer.role = "phone" /\ wearer.state = P!CALL_IN_PROGRESS
    BY <1>0, <2>1 DEF PhoneWears, InCall, IsPage
  <2>3. wearer.state >= P!ESTABLISHING
    BY <2>2, PhoneStates
  <2>4. Claim(wearer)
    BY <2>1, <2>2, <2>3 DEF Claim, Trusted, Claims
  <2>5. Current(wearer) = P!Session(wearer)
    BY <2>2, <2>3 DEF Current, P!Session
  <2> QED
    BY <1>0, <2>4, <2>5, MatchedMeans
<1> QED
  BY <1>1, <1>2

-----------------------------------------------------------------------------
(* The theorems.                                                           *)

LEMMA Implied == SInv => SessionTypeOK /\ OneConnection
<1> SUFFICES ASSUME SInv PROVE SessionTypeOK /\ OneConnection
  OBVIOUS
<1>1. /\ DOMAIN end = Side /\ \A s \in Side : EndSound(s, end[s])
      /\ seated \subseteq Side /\ "wearer" \in Side /\ end["wearer"] = wearer
  BY DEF SInv, RoomSound, Rooms, Side, wearer
<1>2. ~PhoneWears => wearer.role = "glass-wearer"
  BY <1>1 DEF PhoneWears, EndSound, RoleOn
<1>3. ASSUME NEW s \in Side, IsPage(s)
      PROVE  /\ end[s].state \in PageState /\ end[s].err \in Err \cup {NoErr}
             /\ (end[s].state = ERROR <=> end[s].err # NoErr)
             /\ end[s].ws \in {"connecting", "open", "closed"}
             /\ end[s].mic \in {"unasked", "asked", "granted", "denied"}
             /\ (end[s].mic = "asked" <=> end[s].waiting # <<>>)
             /\ end[s].promise \in Pending .. Len(end[s].pcs)
             /\ (end[s].held # <<>> => end[s].promise = Pending)
             /\ ~end[s].rejected
             /\ ~end[s].overlapped =>
                   \A i \in DOMAIN end[s].pcs : IsOpen(end[s].pcs[i]) => i = end[s].promise
  <2>1. Sound(end[s]) /\ ~end[s].rejected /\ end[s] \in PageType
    BY <1>3, PageIs DEF Sound
  <2>2. /\ end[s].state \in PageState /\ end[s].err \in Err \cup {NoErr}
        /\ end[s].ws \in {"connecting", "open", "closed"}
        /\ end[s].mic \in {"unasked", "asked", "granted", "denied"}
    BY <2>1 DEF PageType
  <2> QED
    BY <2>1, <2>2 DEF Sound, Connected
<1>4. ASSUME PhoneWears
      PROVE  /\ wearer.state \in P!PhoneState /\ Len(wearer.pcs) <= MaxSessions
             /\ \A k \in DOMAIN wearer.events : wearer.events[k].of \in DOMAIN wearer.pcs
  BY <1>4, PhoneIs DEF Working, PhoneType
<1>5. OneConnection
  BY <1>3 DEF OneConnection
<1>6. SessionTypeOK
  BY <1>1, <1>2, <1>3, <1>4 DEF SessionTypeOK
<1> QED
  BY <1>5, <1>6

\* Pages and phone stay in states of room.js and of CallFragment, a page has an error
\* just while it shows one, the prompt is open just while something waits for it, what is
\* held is held for a promise that is pending, no task ends with a rejection that nobody
\* has seen, and what the phone posts is of a connection it has made.
THEOREM SessionTypes == Spec => []SessionTypeOK
BY Inductive, Implied, PTL

\* A page never has an open connection beside that of its promise: whatever the order of
\* joins, leaves, resets, offers, errors, losses and reloads, closePC finds the connection
\* that is to be closed, unless two offers waited for the microphone together.
THEOREM PageHasOneConnection == Spec => []OneConnection
BY Inductive, Implied, PTL

\* An observer's page that shows a call, and did not let two offers wait for the microphone
\* together, shares its connection with the wearer's, or has a reset, a leave or an offer to
\* read or a leave to come: in whatever order resets, leaves, offers and losses cross, it is
\* not left in a call with nobody.
THEOREM PageCalls == Spec => []PageCallIsMatched
<1>1. DInv => PageCallIsMatched
  BY ImpliesMatched
<1> QED
  BY <1>1, CallsInductive, PTL

\* The same of the phone in CALL_IN_PROGRESS, unless gotoState has left an event of a
\* connection it has closed in the queue, and the phone took it for one of its own.
THEOREM PhoneCalls == Spec => []PhoneCallIsMatched
<1>1. DInv => PhoneCallIsMatched
  BY ImpliesMatched
<1> QED
  BY <1>1, CallsInductive, PTL

=============================================================================
