-------------------------- MODULE EdgePeerProofs --------------------------
(***************************************************************************)
(* The connection of module EdgePeer, for either role, any ICE servers and *)
(* candidates of the other end, and any bound on them: no line is dropped, *)
(* no candidate is lost, the page is told the worst state of the           *)
(* transports, all from one inductive invariant (EInv, in module           *)
(* EdgePeerCalls); and what the page sees is a connection of module Jsep,  *)
(* step by step (Steps).                                                   *)
(***************************************************************************)
EXTENDS EdgePeerCalls

USE DEF None

-----------------------------------------------------------------------------
(* What the other end trickles.                                            *)

\* All but the candidates of the other end is as it was.
Hears(p, q) ==
    /\ q.role = p.role /\ q.found = p.found
    /\ q.signaling = p.signaling /\ q.closed = p.closed /\ q.bundle = p.bundle
    /\ q.created = p.created /\ q.local = p.local
    /\ q.gathering = p.gathering /\ q.ice = p.ice
    /\ q.surfaced = p.surfaced /\ q.told = p.told
    /\ q.gatherers = p.gatherers /\ q.timers = p.timers /\ q.transceivers = p.transceivers
    /\ Len(q.remote) = Len(p.remote) /\ SameIce(p.transports, q.transports)

LEMMA HearsLive ==
    ASSUME NEW p \in PCType, NEW left, Live(p, left), NEW q \in PCType, Hears(p, q)
    PROVE  Live(q, left)
<1>1. p.remote \in Seq(SUBSET (RemoteCands \cup {END})) /\ q.remote \in Seq(SUBSET (RemoteCands \cup {END}))
  BY DEF PCType
<1>2. q.remote = <<>> <=> p.remote = <<>>
  BY <1>1, EmptySeq, Len(q.remote) = Len(p.remote) DEF Hears
<1>3. Lined(q)
  BY DEF Live, Lined, Second, Hears, SameIce
<1>4. Written(q)
  BY <1>2 DEF Live, Written, Hears
<1>5. IF q.role = "observer" THEN AnswerStage(q, left) ELSE OfferStage(q, left)
  BY <1>2 DEF Live, AnswerStage, OfferStage, Hears
<1>6. Running(q)
  BY <1>2, <1>3, StillRunning DEF Live, Hears
<1>7. Gathering(q)
  BY DEF Live, Gathering, Hears
<1>8. Kept(q)
  BY DEF Live, Kept, Hears
<1>9. q.transceivers # <<>>
  BY DEF Live, Hears
<1> QED
  BY <1>3, <1>4, <1>5, <1>6, <1>7, <1>8, <1>9 DEF Live

LEMMA CandidateWritten ==
    ASSUME NEW p \in PCType, NEW i \in DOMAIN p.remote, NEW c \in RemoteCands \cup {END},
           NEW us \in Seq(TransportType), SameIce(p.transports, us)
    PROVE  LET q == [[p EXCEPT !.transports = us] EXCEPT !.remote[i] = @ \cup {c}]
           IN q \in PCType /\ Hears(p, q)
<1> DEFINE rs == [p.remote EXCEPT ![i] = p.remote[i] \cup {c}]
<1>1. p.remote \in Seq(SUBSET (RemoteCands \cup {END}))
  BY DEF PCType
<1>2. p.remote[i] \cup {c} \in SUBSET (RemoteCands \cup {END})
  BY <1>1
<1>3. rs \in Seq(SUBSET (RemoteCands \cup {END})) /\ Len(rs) = Len(p.remote)
  BY <1>1, <1>2, ExceptIs
<1>4. [[p EXCEPT !.transports = us] EXCEPT !.remote[i] = @ \cup {c}]
      = [[p EXCEPT !.transports = us] EXCEPT !.remote = rs]
  BY DEF PCType
<1> HIDE DEF rs
<1>5. PICK q : q = [[p EXCEPT !.transports = us] EXCEPT !.remote = rs]
  OBVIOUS
<1>6. q \in PCType
  BY <1>3, <1>5 DEF PCType
<1>7. Hears(p, q)
  BY <1>3, <1>5 DEF PCType, Hears
<1> QED
  BY <1>4, <1>5, <1>6, <1>7

LEMMA CandidateAdded ==
    ASSUME NEW p \in PCType, NEW left, Live(p, left), NEW i \in DOMAIN Lines, NEW c \in RemoteCands
    PROVE  LET q == AddIceCandidate(p, i, c)
           IN q = Close(p) \/ q = p \/ (q \in PCType /\ Hears(p, q))
<1> DEFINE t == p.transceivers[i].transport
           own == i = 1 \/ t # p.transceivers[1].transport
           x == p.transports[t]
           y == [x EXCEPT !.remote = @ \cup {c}]
           us == IF own THEN [p.transports EXCEPT ![t] = y] ELSE p.transports
           q == [[p EXCEPT !.transports = us] EXCEPT !.remote[i] = @ \cup {c}]
<1> SUFFICES ASSUME p.remote # <<>>, ~p.transceivers[i].rejected, ~(own /\ Knows(p, t, c))
             PROVE  AddIceCandidate(p, i, c) = q /\ q \in PCType /\ Hears(p, q)
  BY Zenon DEF AddIceCandidate
<1>1. i \in 1 .. 2 /\ Len(p.remote) = 2 /\ p.remote \in Seq(SUBSET (RemoteCands \cup {END}))
  BY LinesAre DEF Live, Written, PCType
<1>2. i \in DOMAIN p.remote
  BY <1>1
<1>3. t \in DOMAIN p.transports /\ p.transports \in Seq(TransportType) /\ x \in TransportType
  BY <1>1 DEF Live, Lined, Second, PCType
<1>4. y \in TransportType /\ y.ice = x.ice /\ y.started = x.started /\ y.attached = x.attached
  BY <1>3 DEF TransportType
<1>5. AddIceCandidate(p, i, c) = q
  <2>1. AddIceCandidate(p, i, c)
        = [(IF own THEN [p EXCEPT !.transports[t].remote = @ \cup {c}] ELSE p)
              EXCEPT !.remote[i] = @ \cup {c}]
    BY DEF AddIceCandidate
  <2>2. CASE own
    <3>1. us = [p.transports EXCEPT ![t] = [p.transports[t] EXCEPT !.remote = @ \cup {c}]]
      BY <2>2, Zenon
    <3>2. [p EXCEPT !.transports[t].remote = @ \cup {c}] = [p EXCEPT !.transports = us]
      BY <3>1 DEF PCType
    <3> QED
      BY <2>1, <2>2, <3>2, Zenon
  <2>3. CASE ~own
    <3>1. us = p.transports
      BY <2>3
    <3>2. [p EXCEPT !.transports = us] = p
      BY <3>1 DEF PCType
    <3> QED
      BY <2>1, <2>3, <3>2
  <2> QED
    BY <2>2, <2>3
<1> HIDE DEF y
<1>6. us \in Seq(TransportType) /\ SameIce(p.transports, us)
  BY <1>3, <1>4 DEF SameIce
<1> HIDE DEF us
<1>7. q \in PCType /\ Hears(p, q)
  BY <1>2, <1>6, CandidateWritten
<1> QED
  BY <1>5, <1>7

LEMMA EndedIs ==
    ASSUME NEW us \in Seq(TransportType), NEW T
    PROVE  Ended(us, T) \in Seq(TransportType) /\ SameIce(us, Ended(us, T))
<1> DEFINE vs == Ended(us, T)
<1>1. \A t \in DOMAIN us : /\ vs[t] \in TransportType
                           /\ vs[t].ice = us[t].ice /\ vs[t].started = us[t].started
                           /\ vs[t].attached = us[t].attached
  <2> SUFFICES ASSUME NEW t \in DOMAIN us
               PROVE  /\ vs[t] \in TransportType
                      /\ vs[t].ice = us[t].ice /\ vs[t].started = us[t].started
                      /\ vs[t].attached = us[t].attached
    OBVIOUS
  <2>1. us[t] \in TransportType
    OBVIOUS
  <2>2. vs[t] = IF t \in T THEN [us[t] EXCEPT !.remote = @ \cup {END}] ELSE us[t]
    BY DEF Ended
  <2> HIDE DEF vs
  <2>3. CASE t \in T
    BY <2>1, <2>2, <2>3 DEF TransportType
  <2>4. CASE t \notin T
    BY <2>1, <2>2, <2>4
  <2> QED
    BY <2>3, <2>4
<1>2. vs = [t \in DOMAIN us |-> vs[t]]
  BY DEF Ended
<1> HIDE DEF vs
<1>3. vs \in Seq(TransportType) /\ Len(vs) = Len(us) /\ DOMAIN vs = DOMAIN us
  BY <1>1, <1>2, FunctionIsSeq
<1>4. SameIce(us, vs)
  BY <1>1, <1>3 DEF SameIce
<1> QED
  BY <1>3, <1>4 DEF vs

LEMMA CandidatesEnded ==
    ASSUME NEW p \in PCType, NEW left, Live(p, left)
    PROVE  LET q == EndOfCandidates(p) IN q = Close(p) \/ (q \in PCType /\ Hears(p, q))
<1> SUFFICES ASSUME p.remote # <<>>
             PROVE  EndOfCandidates(p) \in PCType /\ Hears(p, EndOfCandidates(p))
  BY DEF EndOfCandidates
<1> DEFINE ended == {i \in DOMAIN p.transceivers : ~p.transceivers[i].rejected /\ Leads(p, i)}
           T == {p.transceivers[i].transport : i \in ended}
           us == Ended(p.transports, T)
           rs == [i \in DOMAIN p.remote |->
                     IF i \in ended THEN p.remote[i] \cup {END} ELSE p.remote[i]]
<1>1. p.remote \in Seq(SUBSET (RemoteCands \cup {END})) /\ p.transports \in Seq(TransportType)
  BY DEF PCType
<1>2. us \in Seq(TransportType) /\ SameIce(p.transports, us)
  BY <1>1, EndedIs
<1>3. rs \in Seq(SUBSET (RemoteCands \cup {END})) /\ Len(rs) = Len(p.remote)
  <2>1. \A i \in DOMAIN p.remote : rs[i] \in SUBSET (RemoteCands \cup {END})
    BY <1>1
  <2>2. rs = [i \in DOMAIN p.remote |-> rs[i]]
    OBVIOUS
  <2> HIDE DEF rs
  <2> QED
    BY <1>1, <2>1, <2>2, FunctionIsSeq
<1>4. EndOfCandidates(p) = [[p EXCEPT !.transports = us] EXCEPT !.remote = rs]
  BY DEF EndOfCandidates
<1> HIDE DEF us, rs
<1>5. PICK q : q = [[p EXCEPT !.transports = us] EXCEPT !.remote = rs]
  OBVIOUS
<1>6. q \in PCType
  BY <1>2, <1>3, <1>5 DEF PCType
<1>7. Hears(p, q)
  BY <1>2, <1>3, <1>5 DEF PCType, Hears
<1> QED
  BY <1>4, <1>5, <1>6, <1>7

LEMMA TimedOut ==
    ASSUME NEW p \in PCType
    PROVE  Timeout(p) \in PCType /\ Hears(p, Timeout(p))
<1> DEFINE T == {t \in DOMAIN p.transports : t \in InUse(p) /\ p.transports[t].ice = "new"
                                                /\ p.transports[t].remote # {}}
           us == Ended(p.transports, T)
<1>1. p.transports \in Seq(TransportType)
  BY DEF PCType
<1>2. us \in Seq(TransportType) /\ SameIce(p.transports, us)
  BY <1>1, EndedIs
<1>4. Timeout(p) = [[p EXCEPT !.late = FALSE] EXCEPT !.transports = us]
  BY DEF Timeout, PCType
<1> HIDE DEF us
<1>5. PICK q : q = [[p EXCEPT !.late = FALSE] EXCEPT !.transports = us]
  OBVIOUS
<1>6. q \in PCType
  BY <1>2, <1>5 DEF PCType
<1>7. Hears(p, q)
  BY <1>2, <1>5 DEF PCType, Hears
<1> QED
  BY <1>4, <1>5, <1>6, <1>7

-----------------------------------------------------------------------------
(* The states of the transports.                                           *)

\* All but the ICE states and what the page is told of them is as it was.
SameButTold(p, q) ==
    /\ q.role = p.role /\ q.found = p.found
    /\ q.signaling = p.signaling /\ q.closed = p.closed /\ q.bundle = p.bundle
    /\ q.created = p.created /\ q.local = p.local /\ q.remote = p.remote
    /\ q.gathering = p.gathering /\ q.late = p.late /\ q.surfaced = p.surfaced
    /\ q.gatherers = p.gatherers /\ q.timers = p.timers /\ q.transceivers = p.transceivers

LEMMA ToldReady ==
    ASSUME NEW p \in PCType, NEW left, Ready(p, left), Kept(p), NEW q, SameButTold(p, q),
           DOMAIN q.transports = DOMAIN p.transports, Len(q.transports) = Len(p.transports),
           \A t \in DOMAIN p.transports :
               /\ ~q.transports[t].started => q.transports[t].ice \in {"new", "closed"}
               /\ q.transports[t].started => p.local # <<>> /\ p.remote # <<>>
               /\ ~p.closed => q.transports[t].ice # "closed"
               /\ q.transports[t].attached = p.transports[t].attached
    PROVE  Ready(q, left) /\ Kept(q)
<1>1. Lined(q)
  BY DEF Ready, SameButTold, Lined, Second
<1>2. Written(q)
  BY DEF Ready, SameButTold, Written
<1>3. IF q.role = "observer" THEN AnswerStage(q, left) ELSE OfferStage(q, left)
  BY DEF Ready, SameButTold, AnswerStage, OfferStage
<1>4. Gathering(q)
  BY DEF Ready, SameButTold, Gathering
<1>5. Kept(q)
  BY DEF Kept, SameButTold
<1>6. q.transceivers # <<>> /\ q.closed = (q.signaling = "closed")
  BY DEF Ready, SameButTold
<1>7. \A t \in DOMAIN q.transports :
          /\ ~q.transports[t].started => q.transports[t].ice \in {"new", "closed"}
          /\ q.transports[t].started => q.local # <<>> /\ q.remote # <<>>
          /\ ~q.closed => q.transports[t].ice # "closed"
          /\ (t = 2 /\ q.bundle) \/ q.transports[t].attached
  BY DEF Ready, SameButTold
<1> QED
  BY <1>1, <1>2, <1>3, <1>4, <1>5, <1>6, <1>7 DEF Ready

\* What the handler of a transport leaves.
Heard(p, h) ==
    \/ /\ Broken(p) /\ h = p
    \/ /\ ~Broken(p)
       /\ \E r \in PCType :
           /\ SameButTold(p, r) /\ r.transports = p.transports
           /\ r.ice = IceState(p) /\ r.told = IF p.closed THEN p.told ELSE IceState(p)
           /\ h = IF r.told = "failed" /\ ~p.closed THEN Close(r) ELSE r

LEMMA HeardIs ==
    ASSUME NEW p \in PCType, p.told = "failed" => p.closed
    PROVE  Heard(p, IceHandler(p))
<1> DEFINE state == IceState(p)
           told == IF p.closed THEN p.told ELSE state
           r == [[p EXCEPT !.ice = state] EXCEPT !.told = told]
<1>1. state \in IceKinds
  BY IceStateIs
<1>2. told \in IceKinds
  BY <1>1 DEF PCType
<1>3. CASE Broken(p)
  <2>1. UpdateIceConnectionState(p) = p
    BY <1>3 DEF UpdateIceConnectionState
  <2> QED
    BY <1>3, <2>1 DEF IceHandler, Heard, Dispatches
<1>4. CASE ~Broken(p)
  <2>1. UpdateIceConnectionState(p) = r
    BY <1>4 DEF UpdateIceConnectionState, Dispatches, PCType
  <2> HIDE DEF told
  <2>2. PICK q : q = r
    OBVIOUS
  <2>3. /\ q \in PCType /\ SameButTold(p, q) /\ q.transports = p.transports
        /\ q.ice = state /\ q.told = told
    BY <1>1, <1>2, <2>2 DEF PCType, SameButTold
  <2> HIDE DEF state, r
  <2>4. IceHandler(p) = IF q.told = "failed" /\ ~q.closed THEN Close(q) ELSE q
    BY <2>1, <2>2 DEF IceHandler, Dispatches
  <2>5. q.closed = p.closed
    BY <2>3 DEF SameButTold
  <2> QED
    BY <1>4, <2>3, <2>4, <2>5 DEF Heard, told, state
<1> QED
  BY <1>3, <1>4

LEMMA HeardLive ==
    ASSUME NEW p \in PCType, NEW left, Ready(p, left), Kept(p), p.told = "failed" => p.closed,
           NEW h, Heard(p, h)
    PROVE  h \in PCType /\ Live(h, left)
<1>1. CASE Broken(p) /\ h = p
  <2>1. Running(p)
    BY <1>1 DEF Ready, Running
  <2> QED
    BY <1>1, <2>1 DEF Ready, Live
<1>2. CASE ~Broken(p) /\ ~(Broken(p) /\ h = p)
  <2>1. PICK r \in PCType :
           /\ SameButTold(p, r) /\ r.transports = p.transports
           /\ r.ice = IceState(p) /\ r.told = IF p.closed THEN p.told ELSE IceState(p)
           /\ h = IF r.told = "failed" /\ ~p.closed THEN Close(r) ELSE r
    BY <1>2 DEF Heard
  <2>2. Ready(r, left) /\ Kept(r)
    BY <2>1, ToldReady DEF Ready
  <2>3. CASE r.told = "failed" /\ ~p.closed
    BY <2>1, <2>2, <2>3, CloseIs, ReadyCloses
  <2>4. CASE ~(r.told = "failed" /\ ~p.closed)
    <3>1. IceState(r) = IceState(p)
      BY <2>1 DEF IceState, FirstIn, InUse, SameButTold
    <3>2. Running(r)
      BY <2>1, <2>2, <2>4, <3>1 DEF Ready, Running, SameButTold
    <3> QED
      BY <2>1, <2>2, <2>4, <3>2 DEF Ready, Live
  <2> QED
    BY <2>3, <2>4
<1> QED
  BY <1>1, <1>2 DEF Heard

LEMMA MovesIs ==
    ASSUME NEW a, NEW b, <<a, b>> \in IceMoves
    PROVE  a \in IceKinds /\ b \in IceKinds
BY DEF IceMoves, IceKinds

LEMMA StateMoved ==
    ASSUME NEW p \in PCType, NEW left, Live(p, left), NEW t \in DOMAIN p.transports,
           NEW s \in IceKinds, p.transports[t].started
    PROVE  LET q == [p EXCEPT !.transports[t].ice = s]
           IN /\ q \in PCType /\ Ready(q, left) /\ Kept(q) /\ SameButTold(p, q)
              /\ q.ice = p.ice /\ q.told = p.told
              /\ DOMAIN q.transports = DOMAIN p.transports
              /\ q.transports[t].attached = p.transports[t].attached
              /\ \A k \in DOMAIN p.transports : k # t => q.transports[k] = p.transports[k]
<1> DEFINE x == p.transports[t]
           y == [x EXCEPT !.ice = s]
           us == [p.transports EXCEPT ![t] = y]
<1>1. x \in TransportType /\ p.transports \in Seq(TransportType)
  BY DEF PCType
<1>2. y \in TransportType /\ y.ice = s /\ y.started = TRUE /\ y.attached = x.attached
  BY <1>1 DEF TransportType, IceKinds
<1>3. [p EXCEPT !.transports[t].ice = s] = [p EXCEPT !.transports = us]
  BY DEF PCType
<1> HIDE DEF y
<1>4. /\ us \in Seq(TransportType) /\ Len(us) = Len(p.transports) /\ us[t] = y
      /\ DOMAIN us = DOMAIN p.transports
      /\ \A k \in DOMAIN p.transports : k # t => us[k] = p.transports[k]
  BY <1>1, <1>2, ExceptIs
<1> HIDE DEF us
<1>5. PICK q : q = [p EXCEPT !.transports = us]
  OBVIOUS
<1>6. /\ q \in PCType /\ SameButTold(p, q) /\ q.ice = p.ice /\ q.told = p.told
      /\ q.transports = us
  BY <1>4, <1>5 DEF PCType, SameButTold
<1>7. Ready(p, left) /\ Kept(p)
  BY ReadyLive
<1>8. \A k \in DOMAIN p.transports :
               /\ ~us[k].started => us[k].ice \in {"new", "closed"}
               /\ us[k].started => p.local # <<>> /\ p.remote # <<>>
               /\ ~p.closed => us[k].ice # "closed"
               /\ us[k].attached = p.transports[k].attached
  <2>1. s # "closed"
    BY DEF IceKinds
  <2>2. \A k \in DOMAIN p.transports :
               /\ ~p.transports[k].started => p.transports[k].ice \in {"new", "closed"}
               /\ p.transports[k].started => p.local # <<>> /\ p.remote # <<>>
               /\ ~p.closed => p.transports[k].ice # "closed"
    BY <1>7 DEF Ready
  <2> QED
    BY <1>2, <1>4, <2>1, <2>2
<1>9. Ready(q, left) /\ Kept(q)
  BY <1>4, <1>6, <1>7, <1>8, ToldReady
<1> QED
  BY <1>2, <1>3, <1>4, <1>5, <1>6, <1>9

LEMMA IceChanged ==
    ASSUME NEW p \in PCType, NEW left, Live(p, left), NEW t \in DOMAIN p.transports,
           NEW s, p.transports[t].started, <<p.transports[t].ice, s>> \in IceMoves
    PROVE  LET q == [p EXCEPT !.transports[t].ice = s]
               h == IF q.transports[t].attached THEN IceHandler(q) ELSE q
           IN h \in PCType /\ Live(h, left)
<1>1. s \in IceKinds
  BY MovesIs
<1>2. PICK q : q = [p EXCEPT !.transports[t].ice = s]
  OBVIOUS
<1>3. /\ q \in PCType /\ Ready(q, left) /\ Kept(q) /\ SameButTold(p, q)
      /\ q.ice = p.ice /\ q.told = p.told
      /\ DOMAIN q.transports = DOMAIN p.transports
      /\ q.transports[t].attached = p.transports[t].attached
      /\ \A k \in DOMAIN p.transports : k # t => q.transports[k] = p.transports[k]
  BY <1>1, <1>2, StateMoved
<1>4. Running(p) /\ Lined(p)
  BY DEF Live
<1>5. q.told = "failed" => q.closed
  BY <1>3, <1>4 DEF Running, SameButTold
<1>6. CASE q.transports[t].attached
  <2>1. Heard(q, IceHandler(q))
    BY <1>3, <1>5, HeardIs
  <2> QED
    BY <1>2, <1>3, <1>5, <1>6, <2>1, HeardLive
<1>7. CASE ~q.transports[t].attached
  <2>1. t = 2 /\ p.bundle
    BY <1>3, <1>4, <1>7 DEF Running
  <2>2. ~Broken(p) => InUse(p) = {1}
    BY <1>4, <2>1, LinedInUse DEF Lined, Second
  <2>3. InUse(q) = InUse(p) /\ (Broken(q) <=> Broken(p))
    BY <1>3 DEF SameButTold, InUse, Broken
  <2>4. 1 \in DOMAIN p.transports
    BY <1>4, LinedInUse
  <2>5. ~Broken(p) => \A k \in InUse(p) : q.transports[k].ice = p.transports[k].ice
    BY <1>3, <2>1, <2>2, <2>4
  <2>6. ~Broken(p) => IceState(q) = IceState(p)
    <3> SUFFICES ASSUME ~Broken(p) PROVE IceState(q) = IceState(p)
      OBVIOUS
    <3>1. {n \in DOMAIN Worst : \E k \in InUse(q) : q.transports[k].ice = Worst[n]}
          = {n \in DOMAIN Worst : \E k \in InUse(p) : p.transports[k].ice = Worst[n]}
      BY <2>3, <2>5
    <3>2. \A r : LET present == {n \in DOMAIN Worst : \E k \in InUse(r) : r.transports[k].ice = Worst[n]}
                 IN IceState(r) = IF present = {} THEN "new" ELSE Worst[Min(present)]
      BY DEF IceState, FirstIn, Worst
    <3> QED
      BY <3>1, <3>2
  <2>7. Running(q)
    BY <1>3, <1>4, <1>5, <2>3, <2>6 DEF Running, Ready, SameButTold
  <2>8. Live(q, left)
    BY <1>3, <2>7 DEF Ready, Live
  <2> QED
    BY <1>2, <1>3, <1>7, <2>8
<1> QED
  BY <1>6, <1>7

LEMMA Stopped ==
    ASSUME NEW p \in PCType, NEW left, Live(p, left)
    PROVE  IceHandler(p) \in PCType /\ Live(IceHandler(p), left)
<1>1. Ready(p, left) /\ Kept(p) /\ (p.told = "failed" => p.closed)
  BY ReadyLive DEF Live, Running
<1> QED
  BY <1>1, HeardIs, HeardLive

-----------------------------------------------------------------------------
(* The candidates of this end.                                             *)

LEMMA LocalCandsIs ==
    ASSUME NEW g \in 1 .. 2, NEW c \in {"host", "relay"}
    PROVE  <<g, c>> \in LocalCands
BY LinesAre DEF LocalCands

LEMMA EndIs == END \notin {"host", "relay"} /\ FoundKinds \ {END} = {"host", "relay"}
BY DEF END, FoundKinds

\* All but the candidates of this end is as it was.
SameButFound(p, q) ==
    /\ q.role = p.role /\ q.found = p.found
    /\ q.signaling = p.signaling /\ q.closed = p.closed /\ q.bundle = p.bundle
    /\ q.created = p.created /\ q.remote = p.remote
    /\ q.ice = p.ice /\ q.late = p.late /\ q.told = p.told
    /\ q.transceivers = p.transceivers /\ q.transports = p.transports

\* Gatherer g is the only one that has changed, at most in its state.
OnlyState(gs, hs, g) ==
    /\ Len(hs) = Len(gs) /\ DOMAIN hs = DOMAIN gs
    /\ hs[g].line = gs[g].line /\ hs[g].next = gs[g].next
    /\ hs[g].handler = gs[g].handler /\ hs[g].buffer = gs[g].buffer
    /\ \A k \in DOMAIN gs : k # g => hs[k] = gs[k]

\* Line g is the only one that has changed, and has candidates added.
OnlyCands(ls, ms, g, cs) ==
    /\ Len(ms) = Len(ls) /\ DOMAIN ms = DOMAIN ls
    /\ ms[g].sends = ls[g].sends /\ ms[g].takes = ls[g].takes
    /\ ms[g].cands = ls[g].cands \cup cs
    /\ \A k \in DOMAIN ls : k # g => ms[k] = ls[k]

\* What writing down candidate c of gatherer g does.
Writes(p, q, g, c) ==
    /\ q \in PCType /\ SameButFound(p, q) /\ q.timers = p.timers
    /\ OnlyState(p.gatherers, q.gatherers, g)
    /\ OnlyCands(p.local, q.local, g, {c})
    /\ q.surfaced = IF c # END /\ ~p.closed THEN Append(p.surfaced, <<g, c>>) ELSE p.surfaced

LEMMA LocalCandidateIs ==
    ASSUME NEW p \in PCType, NEW g \in DOMAIN p.gatherers, g \in 1 .. 2, p.gatherers[g].line = g,
           NEW c \in FoundKinds, g \in DOMAIN p.local, ~(p.bundle /\ g = 2)
    PROVE  Writes(p, LocalCandidate(p, g, c), g, c)
<1> DEFINE x == p.gatherers[g]
           l == p.local[g]
           state == IF c = END THEN "completed" ELSE IF x.state = "new" THEN "gathering" ELSE x.state
           y == [x EXCEPT !.state = state]
           m == [l EXCEPT !.cands = l.cands \cup {c}]
           gs == [p.gatherers EXCEPT ![g] = y]
           ls == [p.local EXCEPT ![g] = m]
           ss == IF c # END /\ ~p.closed THEN Append(p.surfaced, <<g, c>>) ELSE p.surfaced
           q == [[p EXCEPT !.gatherers = gs] EXCEPT !.local = ls]
           all == IF GatheredAll(q) THEN "complete" ELSE "gathering"
           h == [[q EXCEPT !.surfaced = ss] EXCEPT !.gathering = all]
<1>1. /\ x \in GathererType /\ p.gatherers \in Seq(GathererType)
      /\ l \in LineType /\ p.local \in Seq(LineType) /\ p.surfaced \in Seq(LocalCands)
  BY DEF PCType
<1>2. /\ y \in GathererType /\ y.line = x.line /\ y.next = x.next /\ y.handler = x.handler
      /\ y.buffer = x.buffer
  BY <1>1 DEF GathererType
<1>3. m \in LineType /\ m.sends = l.sends /\ m.takes = l.takes /\ m.cands = l.cands \cup {c}
  BY <1>1 DEF LineType
<1>4. LocalCandidate(p, g, c) = h
  <2> DEFINE q0 == [p EXCEPT !.gatherers[g].state = state, !.local[g].cands = @ \cup {c}]
             heard == IF c # END /\ ~p.closed
                      THEN [q0 EXCEPT !.surfaced = Append(@, <<g, c>>)] ELSE q0
  <2>0. g > 1 => g = 2
    OBVIOUS
  <2>1. ~(p.bundle /\ g > 1)
    BY <2>0
  <2>2. LocalCandidate(p, g, c)
        = [heard EXCEPT !.gathering = IF GatheredAll(q0) THEN "complete" ELSE "gathering"]
    <3>1. Dispatches(p) <=> ~p.closed
      BY DEF Dispatches
    <3> QED
      BY <2>1, <3>1 DEF LocalCandidate
  <2>3. q0 = q
    <3>1. q0 = [[p EXCEPT !.gatherers[g].state = state] EXCEPT !.local[g].cands = @ \cup {c}]
      BY DEF PCType
    <3>2. [p EXCEPT !.gatherers[g].state = state] = [p EXCEPT !.gatherers = gs]
      BY DEF PCType
    <3> QED
      BY <3>1, <3>2 DEF PCType
  <2> HIDE DEF q0
  <2>4. heard = [q EXCEPT !.surfaced = ss]
    <3>1. CASE c # END /\ ~p.closed
      BY <2>3, <3>1 DEF PCType
    <3>2. CASE ~(c # END /\ ~p.closed)
      BY <2>3, <3>2 DEF PCType
    <3> QED
      BY <3>1, <3>2
  <2> HIDE DEF heard, q, ss
  <2> QED
    BY <2>2, <2>3, <2>4
<1>5. ss \in Seq(LocalCands)
  <2>1. CASE c # END /\ ~p.closed
    <3>1. <<g, c>> \in LocalCands
      BY <2>1, EndIs, LocalCandsIs
    <3> QED
      BY <1>1, <2>1, <3>1
  <2>2. CASE ~(c # END /\ ~p.closed)
    BY <1>1, <2>2
  <2> QED
    BY <2>1, <2>2
<1>6. all \in {"new", "gathering", "complete"}
  OBVIOUS
<1> HIDE DEF y, m, ss
<1>7. /\ gs \in Seq(GathererType) /\ OnlyState(p.gatherers, gs, g)
      /\ ls \in Seq(LineType) /\ OnlyCands(p.local, ls, g, {c})
  <2>1. gs \in Seq(GathererType) /\ OnlyState(p.gatherers, gs, g)
    BY <1>1, <1>2, ExceptIs DEF OnlyState
  <2>2. ls \in Seq(LineType) /\ OnlyCands(p.local, ls, g, {c})
    BY <1>1, <1>3, ExceptIs DEF OnlyCands
  <2> QED
    BY <2>1, <2>2
<1> HIDE DEF gs, ls, all
<1>8. PICK r : r = h
  OBVIOUS
<1>9. /\ r \in PCType /\ SameButFound(p, r) /\ r.timers = p.timers
      /\ r.gatherers = gs /\ r.local = ls /\ r.surfaced = ss
  BY <1>5, <1>6, <1>7, <1>8 DEF PCType, SameButFound
<1> HIDE DEF h
<1>10. Writes(p, r, g, c)
  BY <1>7, <1>9 DEF Writes, ss
<1> QED
  BY <1>4, <1>8, <1>10

LEMMA FoundRest ==
    ASSUME NEW p \in PCType, NEW left, Live(p, left), NEW q \in PCType, SameButFound(p, q),
           Len(q.gatherers) = Len(p.gatherers), Len(q.local) = Len(p.local),
           \A i \in DOMAIN p.local : /\ q.local[i].sends = p.local[i].sends
                                     /\ q.local[i].takes = p.local[i].takes
    PROVE  /\ q.transceivers # <<>> /\ Lined(q) /\ Written(q) /\ Running(q)
           /\ IF q.role = "observer" THEN AnswerStage(q, left) ELSE OfferStage(q, left)
           /\ q.local = <<>> <=> p.local = <<>>
<1>1. p.local \in Seq(LineType) /\ q.local \in Seq(LineType)
  BY DEF PCType
<1>2. q.local = <<>> <=> p.local = <<>>
  BY <1>1, EmptySeq
<1>3. Lined(q)
  BY DEF Live, Lined, Second, SameButFound
<1>4. Written(q)
  <2>1. p.local # <<>> => DOMAIN p.local = 1 .. 2
    BY <1>1 DEF Live, Written
  <2> QED
    BY <1>2, <2>1 DEF Live, Written, SameButFound
<1>5. IF q.role = "observer" THEN AnswerStage(q, left) ELSE OfferStage(q, left)
  BY <1>2 DEF Live, AnswerStage, OfferStage, SameButFound
<1>6. SameIce(p.transports, q.transports)
  BY DEF SameIce, SameButFound
<1>7. Running(q)
  BY <1>2, <1>3, <1>6, StillRunning DEF Live, SameButFound
<1> QED
  BY <1>2, <1>3, <1>4, <1>5, <1>7 DEF Live, SameButFound

\* The gatherer has gone one candidate further.
Further(p, q, g) ==
    /\ q \in PCType /\ SameButFound(p, q) /\ q.timers = p.timers /\ q.local = p.local
    /\ q.surfaced = p.surfaced /\ q.gathering = p.gathering
    /\ Len(q.gatherers) = Len(p.gatherers) /\ DOMAIN q.gatherers = DOMAIN p.gatherers
    /\ q.gatherers[g].line = p.gatherers[g].line
    /\ q.gatherers[g].next = p.gatherers[g].next + 1
    /\ q.gatherers[g].handler = p.gatherers[g].handler
    /\ \A k \in DOMAIN p.gatherers : k # g => q.gatherers[k] = p.gatherers[k]

LEMMA FurtherIs ==
    ASSUME NEW p \in PCType, NEW g \in DOMAIN p.gatherers,
           p.gatherers[g].next \in DOMAIN p.found
    PROVE  LET q == [p EXCEPT !.gatherers[g].next = @ + 1]
           IN Further(p, q, g) /\ q.gatherers[g].buffer = p.gatherers[g].buffer
<1> DEFINE x == p.gatherers[g]
           y == [x EXCEPT !.next = x.next + 1]
           gs == [p.gatherers EXCEPT ![g] = y]
<1>1. x \in GathererType /\ p.gatherers \in Seq(GathererType)
  BY DEF PCType
<1>2. x.next + 1 \in 1 .. 4
  <2>1. p.found \in Seq(FoundKinds) /\ Len(p.found) \in 2 .. 3
    BY FoundParts DEF PCType
  <2> QED
    BY <2>1
<1>3. /\ y \in GathererType /\ y.line = x.line /\ y.next = x.next + 1 /\ y.handler = x.handler
      /\ y.buffer = x.buffer
  BY <1>1, <1>2 DEF GathererType
<1>4. [p EXCEPT !.gatherers[g].next = @ + 1] = [p EXCEPT !.gatherers = gs]
  BY DEF PCType
<1> HIDE DEF y
<1>5. /\ gs \in Seq(GathererType) /\ Len(gs) = Len(p.gatherers)
      /\ DOMAIN gs = DOMAIN p.gatherers /\ gs[g] = y
      /\ \A k \in DOMAIN p.gatherers : k # g => gs[k] = p.gatherers[k]
  BY <1>1, <1>3, ExceptIs
<1> HIDE DEF gs
<1>6. PICK q : q = [p EXCEPT !.gatherers = gs]
  OBVIOUS
<1>7. /\ q \in PCType /\ SameButFound(p, q) /\ q.timers = p.timers /\ q.local = p.local
      /\ q.surfaced = p.surfaced /\ q.gathering = p.gathering /\ q.gatherers = gs
  BY <1>5, <1>6 DEF PCType, SameButFound
<1> QED
  BY <1>3, <1>4, <1>5, <1>6, <1>7 DEF Further

\* The parts of Gathering.
OneGathers(p, g) ==
    LET x == p.gatherers[g]
    IN /\ x.line = g
       /\ x.next \in 1 .. Len(p.found) + 1
       /\ x.handler = "buffer" => Prefix(x.buffer, p.found) /\ Len(x.buffer) = x.next - 1
       /\ (x.handler = "buffer") <=> p.local = <<>>
       /\ x.handler = "none" => p.bundle /\ g = 2
       /\ (p.local # <<>>) =>
            \A n \in DOMAIN p.found : p.found[n] \in p.local[g].cands =>
               /\ n < x.next
               /\ \A k \in DOMAIN p.timers : p.timers[k].gatherer = g => Len(p.timers[k].found) < n

OneReplays(p, k) ==
    /\ p.timers[k].gatherer \in DOMAIN p.gatherers
    /\ Prefix(p.timers[k].found, p.found)
    /\ Len(p.timers[k].found) < p.gatherers[p.timers[k].gatherer].next
    /\ \A j \in DOMAIN p.timers : p.timers[j].gatherer = p.timers[k].gatherer => j = k

LEMMA GatheringIs ==
    ASSUME NEW p
    PROVE  Gathering(p) <=> /\ \A g \in DOMAIN p.gatherers : OneGathers(p, g)
                            /\ p.local = <<>> => p.timers = <<>>
                            /\ \A k \in DOMAIN p.timers : OneReplays(p, k)
BY DEF Gathering, OneGathers, OneReplays

\* The part of Kept.
OneKept(p, g) ==
    \/ p.closed \/ (p.bundle /\ g = 2) \/ p.local = <<>>
    \/ \A n \in 1 .. p.gatherers[g].next - 1 :
          \/ p.found[n] = END
          \/ <<g, p.found[n]>> \in ToSet(p.surfaced)
          \/ \E k \in DOMAIN p.timers : p.timers[k].gatherer = g /\ n <= Len(p.timers[k].found)

LEMMA KeptIs ==
    ASSUME NEW p
    PROVE  Kept(p) <=> \A g \in DOMAIN p.gatherers : OneKept(p, g)
BY DEF Kept, OneKept

LEMMA GatherTyped ==
    ASSUME NEW p \in PCType
    PROVE  /\ \A g \in DOMAIN p.gatherers :
                  p.gatherers[g].next \in Nat /\ p.gatherers[g] \in GathererType
           /\ \A k \in DOMAIN p.timers :
                  /\ Len(p.timers[k].found) \in Nat /\ p.timers[k].found \in Seq(FoundKinds)
                  /\ p.timers[k].gatherer \in 1 .. 2
           /\ Len(p.found) \in 2 .. 3 /\ DOMAIN p.found = 1 .. Len(p.found)
           /\ \A n \in 1 .. Len(p.found) : p.found[n] \in FoundKinds
<1>1. /\ p.gatherers \in Seq(GathererType) /\ p.timers \in Seq(TimerType)
      /\ p.found \in {<<"host", END>>, <<"host", "relay", END>>}
  BY DEF PCType
<1>2. \A g \in DOMAIN p.gatherers :
          p.gatherers[g].next \in Nat /\ p.gatherers[g] \in GathererType
  <2>1. \A g \in DOMAIN p.gatherers : p.gatherers[g] \in GathererType
    BY <1>1
  <2> QED
    BY <2>1 DEF GathererType
<1>3. \A k \in DOMAIN p.timers : p.timers[k] \in TimerType
  BY <1>1
<1>4. \A k \in DOMAIN p.timers :
                  /\ Len(p.timers[k].found) \in Nat /\ p.timers[k].found \in Seq(FoundKinds)
                  /\ p.timers[k].gatherer \in 1 .. 2
  BY <1>3, LinesAre DEF TimerType
<1>5. /\ Len(p.found) \in 2 .. 3 /\ DOMAIN p.found = 1 .. Len(p.found)
      /\ \A n \in 1 .. Len(p.found) : p.found[n] \in FoundKinds
  BY <1>1, FoundParts
<1> QED
  BY <1>2, <1>4, <1>5

\* What goes one candidate further stays in order.
LEMMA FurtherOne ==
    ASSUME NEW p \in PCType, NEW q \in PCType, NEW k \in DOMAIN p.gatherers, OneGathers(p, k),
           q.found = p.found, q.local = p.local, q.timers = p.timers, q.bundle = p.bundle,
           k \in DOMAIN q.gatherers,
           q.gatherers[k].line = p.gatherers[k].line,
           q.gatherers[k].handler = p.gatherers[k].handler,
           p.gatherers[k].next <= q.gatherers[k].next,
           q.gatherers[k].next \in 1 .. Len(p.found) + 1,
           q.gatherers[k].handler # "buffer"
    PROVE  OneGathers(q, k)
<1>1. /\ p.gatherers[k].next \in Nat /\ q.gatherers[k].next \in Nat
      /\ DOMAIN p.found = 1 .. Len(p.found) /\ Len(p.found) \in 2 .. 3
  BY GatherTyped
<1>2. p.local # <<>> =>
         \A n \in DOMAIN p.found : p.found[n] \in p.local[k].cands =>
            /\ n < p.gatherers[k].next
            /\ \A j \in DOMAIN p.timers : p.timers[j].gatherer = k => Len(p.timers[j].found) < n
  BY DEF OneGathers
<1>3. p.local # <<>> =>
         \A n \in DOMAIN p.found : p.found[n] \in p.local[k].cands =>
            /\ n < q.gatherers[k].next
            /\ \A j \in DOMAIN p.timers : p.timers[j].gatherer = k => Len(p.timers[j].found) < n
  BY <1>1, <1>2
<1> QED
  BY <1>3 DEF OneGathers

LEMMA FurtherRest ==
    ASSUME NEW p \in PCType, NEW left, Live(p, left), NEW g \in DOMAIN p.gatherers,
           NEW q, Further(p, q, g), p.gatherers[g].next \in DOMAIN p.found,
           p.gatherers[g].handler # "buffer"
    PROVE  /\ q.transceivers # <<>> /\ Lined(q) /\ Written(q) /\ Running(q) /\ Gathering(q)
           /\ IF q.role = "observer" THEN AnswerStage(q, left) ELSE OfferStage(q, left)
           /\ (p.bundle /\ g = 2) => Kept(q)
<1>1. /\ q.transceivers # <<>> /\ Lined(q) /\ Written(q) /\ Running(q)
      /\ IF q.role = "observer" THEN AnswerStage(q, left) ELSE OfferStage(q, left)
  BY FoundRest DEF Further
<1>2. /\ q \in PCType /\ DOMAIN q.gatherers = DOMAIN p.gatherers
      /\ q.found = p.found /\ q.local = p.local /\ q.timers = p.timers /\ q.bundle = p.bundle
      /\ q.surfaced = p.surfaced /\ q.closed = p.closed
      /\ \A k \in DOMAIN p.gatherers : k # g => q.gatherers[k] = p.gatherers[k]
      /\ q.gatherers[g].line = p.gatherers[g].line
      /\ q.gatherers[g].next = p.gatherers[g].next + 1
      /\ q.gatherers[g].handler = p.gatherers[g].handler
  BY DEF Further, SameButFound
<1>3. /\ \A k \in DOMAIN p.gatherers : OneGathers(p, k) /\ OneKept(p, k)
      /\ p.local = <<>> => p.timers = <<>>
      /\ \A k \in DOMAIN p.timers : OneReplays(p, k)
  BY GatheringIs, KeptIs DEF Live
<1>4. \A k \in DOMAIN p.gatherers : OneGathers(q, k)
  <2> SUFFICES ASSUME NEW k \in DOMAIN p.gatherers PROVE OneGathers(q, k)
    OBVIOUS
  <2>1. CASE k # g
    <3>1. q.gatherers[k] = p.gatherers[k]
      BY <1>2, <2>1
    <3> QED
      BY <1>2, <1>3, <3>1 DEF OneGathers
  <2>2. CASE k = g
    <3>1. /\ p.gatherers[k].next \in Nat /\ DOMAIN p.found = 1 .. Len(p.found)
          /\ Len(p.found) \in 2 .. 3
      BY GatherTyped
    <3>2. /\ p.gatherers[k].next <= q.gatherers[k].next
          /\ q.gatherers[k].next \in 1 .. Len(p.found) + 1
          /\ q.gatherers[k].handler # "buffer"
      BY <1>2, <2>2, <3>1
    <3>3. /\ q.gatherers[k].line = p.gatherers[k].line
          /\ q.gatherers[k].handler = p.gatherers[k].handler
      BY <1>2, <2>2
    <3> QED
      BY <1>2, <1>3, <3>2, <3>3, FurtherOne
  <2> QED
    BY <2>1, <2>2
<1>5. \A k \in DOMAIN p.timers : OneReplays(q, k)
  <2> SUFFICES ASSUME NEW k \in DOMAIN p.timers PROVE OneReplays(q, k)
    OBVIOUS
  <2> DEFINE f == p.timers[k].gatherer
  <2>1. f \in DOMAIN p.gatherers /\ Len(p.timers[k].found) < p.gatherers[f].next
    BY <1>3 DEF OneReplays
  <2>2. p.gatherers[f].next \in Nat /\ q.gatherers[f].next \in Nat /\ Len(p.timers[k].found) \in Nat
    BY <1>2, <2>1, GatherTyped
  <2>3. p.gatherers[f].next <= q.gatherers[f].next
    BY <1>2, <2>1, <2>2
  <2>4. Len(p.timers[k].found) < q.gatherers[f].next
    BY <2>1, <2>2, <2>3
  <2> QED
    BY <1>2, <1>3, <2>4 DEF OneReplays
<1>6. Gathering(q)
  BY <1>2, <1>3, <1>4, <1>5, GatheringIs
<1>7. (p.bundle /\ g = 2) => Kept(q)
  <2> SUFFICES ASSUME p.bundle, g = 2, NEW k \in DOMAIN p.gatherers PROVE OneKept(q, k)
    BY <1>2, KeptIs
  <2>1. CASE k = 2
    BY <1>2, <2>1 DEF OneKept
  <2>2. CASE k # 2
    <3>1. q.gatherers[k] = p.gatherers[k]
      BY <1>2, <2>2
    <3> QED
      BY <1>2, <1>3, <3>1 DEF OneKept
  <2> QED
    BY <2>1, <2>2
<1> QED
  BY <1>1, <1>6, <1>7

\* A candidate that is found for the page: of all that were found before, this is none.
LEMMA FoundDirect ==
    ASSUME NEW p \in PCType, NEW left, Live(p, left), NEW g \in DOMAIN p.gatherers,
           p.gatherers[g].next \in DOMAIN p.found, p.gatherers[g].handler = "direct",
           ~(p.bundle /\ g = 2),
           NEW q, Further(p, q, g), NEW h, Writes(q, h, g, p.found[p.gatherers[g].next])
    PROVE  h \in PCType /\ Live(h, left)
<1> DEFINE m == p.gatherers[g].next
           c == p.found[m]
<1>1. /\ \A k \in DOMAIN p.gatherers : OneGathers(q, k)
      /\ \A k \in DOMAIN p.gatherers : OneGathers(p, k) /\ OneKept(p, k)
      /\ q.local = <<>> => q.timers = <<>>
      /\ \A k \in DOMAIN p.timers : OneReplays(p, k)
      /\ \A k \in DOMAIN q.timers : OneReplays(q, k)
  <2>1. Gathering(q)
    BY FurtherRest
  <2>2. DOMAIN q.gatherers = DOMAIN p.gatherers
    BY DEF Further
  <2> QED
    BY <2>1, <2>2, GatheringIs, KeptIs DEF Live
<1>2. /\ q \in PCType /\ DOMAIN q.gatherers = DOMAIN p.gatherers
      /\ Len(q.gatherers) = Len(p.gatherers)
      /\ q.found = p.found /\ q.local = p.local /\ q.timers = p.timers /\ q.bundle = p.bundle
      /\ q.surfaced = p.surfaced /\ q.closed = p.closed
      /\ \A k \in DOMAIN p.gatherers : k # g => q.gatherers[k] = p.gatherers[k]
      /\ q.gatherers[g].next = m + 1
      /\ q.gatherers[g].handler = "direct"
  BY DEF Further, SameButFound
<1>3. /\ h \in PCType /\ DOMAIN h.gatherers = DOMAIN p.gatherers
      /\ Len(h.gatherers) = Len(p.gatherers)
      /\ h.found = p.found /\ h.timers = p.timers /\ h.bundle = p.bundle /\ h.closed = p.closed
      /\ h.surfaced = IF c # END /\ ~p.closed THEN Append(p.surfaced, <<g, c>>) ELSE p.surfaced
      /\ \A k \in DOMAIN p.gatherers : k # g => h.gatherers[k] = p.gatherers[k]
      /\ h.gatherers[g].line = q.gatherers[g].line
      /\ h.gatherers[g].next = m + 1 /\ h.gatherers[g].handler = "direct"
      /\ OnlyCands(p.local, h.local, g, {c})
  BY <1>2 DEF Writes, SameButFound, OnlyState
<1>4. /\ m \in Nat /\ DOMAIN p.found = 1 .. Len(p.found) /\ Len(p.found) \in 2 .. 3
      /\ \A k, n \in 1 .. Len(p.found) : p.found[k] = p.found[n] => k = n
      /\ m \in 1 .. Len(p.found)
      /\ \A k \in DOMAIN p.gatherers : p.gatherers[k].next \in Nat
      /\ \A k \in DOMAIN p.timers : Len(p.timers[k].found) \in Nat
  <2>1. p.found \in {<<"host", END>>, <<"host", "relay", END>>}
    BY DEF PCType
  <2> QED
    BY <2>1, GatherTyped, FoundParts
<1>5. p.local # <<>> /\ Len(p.local) = 2 /\ p.local \in Seq(LineType) /\ DOMAIN p.local = 1 .. 2
  BY <1>1 DEF Live, Written, PCType, OneGathers
<1>6. /\ h.transceivers # <<>> /\ Lined(h) /\ Written(h) /\ Running(h)
      /\ IF h.role = "observer" THEN AnswerStage(h, left) ELSE OfferStage(h, left)
      /\ h.local # <<>>
  <2>1. SameButFound(p, h)
    BY DEF Further, Writes, SameButFound
  <2>2. /\ Len(h.local) = Len(p.local)
        /\ \A i \in DOMAIN p.local : /\ h.local[i].sends = p.local[i].sends
                                     /\ h.local[i].takes = p.local[i].takes
    BY <1>3 DEF OnlyCands
  <2> QED
    BY <1>3, <1>5, <2>1, <2>2, FoundRest
<1> HIDE DEF m, c
<1>7. \A k \in DOMAIN p.gatherers : OneGathers(h, k)
  <2> SUFFICES ASSUME NEW k \in DOMAIN p.gatherers PROVE OneGathers(h, k)
    OBVIOUS
  <2>0. k \in DOMAIN p.local
    <3>1. Len(p.gatherers) \in 1 .. 2 /\ p.gatherers \in Seq(GathererType)
      BY DEF Live, Lined, Second, PCType
    <3> QED
      BY <1>5, <3>1
  <2>1. CASE k # g
    <3>1. h.gatherers[k] = p.gatherers[k] /\ h.local[k] = p.local[k]
      BY <1>3, <2>0, <2>1 DEF OnlyCands
    <3> QED
      BY <1>1, <1>3, <1>5, <1>6, <3>1 DEF OneGathers
  <2>2. CASE k = g
    <3>1. h.local[g].cands = p.local[g].cands \cup {c}
      BY <1>3 DEF OnlyCands
    <3>2. ASSUME NEW n \in DOMAIN p.found, p.found[n] \in h.local[g].cands
          PROVE  /\ n < m + 1
                 /\ \A j \in DOMAIN p.timers :
                        p.timers[j].gatherer = g => Len(p.timers[j].found) < n
      <4>1. CASE p.found[n] \in p.local[g].cands
        <5>1. /\ n < m
              /\ \A j \in DOMAIN p.timers :
                     p.timers[j].gatherer = g => Len(p.timers[j].found) < n
          BY <1>1, <1>5, <4>1 DEF OneGathers, m
        <5> QED
          BY <1>4, <5>1
      <4>2. CASE p.found[n] = c
        <5>1. n = m
          BY <1>4, <4>2 DEF c
        <5>2. \A j \in DOMAIN p.timers :
                  p.timers[j].gatherer = g => Len(p.timers[j].found) < m
          BY <1>1 DEF OneReplays, m
        <5> QED
          BY <1>4, <5>1, <5>2
      <4> QED
        BY <3>1, <3>2, <4>1, <4>2
    <3>3. /\ h.gatherers[g].line = g /\ m + 1 \in 1 .. Len(p.found) + 1
      BY <1>1, <1>2, <1>3 DEF OneGathers
    <3> QED
      BY <1>3, <1>6, <2>2, <3>2, <3>3 DEF OneGathers
  <2> QED
    BY <2>1, <2>2
<1>8. \A k \in DOMAIN h.timers : OneReplays(h, k)
  <2> SUFFICES ASSUME NEW k \in DOMAIN p.timers PROVE OneReplays(h, k)
    BY <1>3
  <2>1. OneReplays(q, k) /\ p.timers[k].gatherer \in DOMAIN p.gatherers
    BY <1>1, <1>2 DEF OneReplays
  <2>2. h.gatherers[p.timers[k].gatherer].next = q.gatherers[p.timers[k].gatherer].next
    BY <1>2, <1>3, <2>1
  <2> QED
    BY <1>2, <1>3, <2>1, <2>2 DEF OneReplays
<1>9. Gathering(h)
  BY <1>3, <1>6, <1>7, <1>8, GatheringIs
<1>10. \A k \in DOMAIN p.gatherers : OneKept(h, k)
  <2> SUFFICES ASSUME NEW k \in DOMAIN p.gatherers, ~p.closed PROVE OneKept(h, k)
    BY <1>3 DEF OneKept
  <2>1. p.surfaced \in Seq(LocalCands)
    BY DEF PCType
  <2>2. \A e \in ToSet(p.surfaced) : e \in ToSet(h.surfaced)
    <3>1. CASE c # END
      <4>1. h.surfaced = Append(p.surfaced, <<g, c>>)
        BY <1>3, <3>1
      <4> QED
        BY <2>1, <4>1 DEF ToSet
    <3>2. CASE c = END
      BY <1>3, <3>2
    <3> QED
      BY <3>1, <3>2
  <2>3. c # END => <<g, c>> \in ToSet(h.surfaced)
    <3> SUFFICES ASSUME c # END PROVE <<g, c>> \in ToSet(h.surfaced)
      OBVIOUS
    <3>1. h.surfaced = Append(p.surfaced, <<g, c>>)
      BY <1>3
    <3>2. DOMAIN h.surfaced = 1 .. Len(p.surfaced) + 1 /\ h.surfaced[Len(p.surfaced) + 1] = <<g, c>>
      BY <2>1, <3>1
    <3> QED
      BY <2>1, <3>2 DEF ToSet
  <2>4. CASE k # g
    <3>1. h.gatherers[k] = p.gatherers[k]
      BY <1>3, <2>4
    <3>2. OneKept(p, k)
      BY <1>1
    <3>3. \/ p.bundle /\ k = 2
          \/ \A n \in 1 .. p.gatherers[k].next - 1 :
                \/ p.found[n] = END
                \/ <<k, p.found[n]>> \in ToSet(p.surfaced)
                \/ \E j \in DOMAIN p.timers : p.timers[j].gatherer = k /\ n <= Len(p.timers[j].found)
      BY <1>5, <3>2 DEF OneKept
    <3>4. \/ p.bundle /\ k = 2
          \/ \A n \in 1 .. p.gatherers[k].next - 1 :
                \/ p.found[n] = END
                \/ <<k, p.found[n]>> \in ToSet(h.surfaced)
                \/ \E j \in DOMAIN p.timers : p.timers[j].gatherer = k /\ n <= Len(p.timers[j].found)
      BY <2>2, <3>3
    <3>5. h.found = p.found /\ h.timers = p.timers /\ h.bundle = p.bundle
      BY <1>3
    <3> QED
      BY <3>1, <3>4, <3>5 DEF OneKept
  <2>5. CASE k = g
    <3>1. ASSUME NEW n \in 1 .. m
          PROVE  \/ p.found[n] = END
                 \/ <<g, p.found[n]>> \in ToSet(h.surfaced)
                 \/ \E j \in DOMAIN p.timers : p.timers[j].gatherer = g /\ n <= Len(p.timers[j].found)
      <4>1. CASE n = m
        BY <2>3, <4>1 DEF c
      <4>2. CASE n # m
        <5>1. n \in 1 .. p.gatherers[g].next - 1
          BY <1>4, <4>2 DEF m
        <5> QED
          BY <1>1, <1>5, <2>2, <5>1 DEF OneKept
      <4> QED
        BY <4>1, <4>2
    <3>2. h.gatherers[g].next - 1 = m
      BY <1>3, <1>4
    <3> QED
      BY <1>3, <2>5, <3>1, <3>2 DEF OneKept
  <2> QED
    BY <2>4, <2>5
<1>11. Kept(h)
  BY <1>3, <1>10, KeptIs
<1> QED
  BY <1>3, <1>6, <1>9, <1>11 DEF Live

\* A candidate that is found before the local description is set waits in its gatherer.
Buffers(q, g, c, s) ==
    [q EXCEPT !.gatherers[g].state = s, !.gatherers[g].buffer = Append(@, c)]

IsBuffered(q, h, g, c) ==
    /\ h \in PCType /\ SameButFound(q, h) /\ h.timers = q.timers /\ h.local = q.local
    /\ h.surfaced = q.surfaced /\ h.gathering = q.gathering
    /\ Len(h.gatherers) = Len(q.gatherers) /\ DOMAIN h.gatherers = DOMAIN q.gatherers
    /\ h.gatherers[g].line = q.gatherers[g].line
    /\ h.gatherers[g].next = q.gatherers[g].next
    /\ h.gatherers[g].handler = q.gatherers[g].handler
    /\ h.gatherers[g].buffer = Append(q.gatherers[g].buffer, c)
    /\ \A k \in DOMAIN q.gatherers : k # g => h.gatherers[k] = q.gatherers[k]

LEMMA Buffered ==
    ASSUME NEW q \in PCType, NEW g \in DOMAIN q.gatherers, NEW c \in FoundKinds,
           NEW s \in {"completed", "gathering"}
    PROVE  IsBuffered(q, Buffers(q, g, c, s), g, c)
<1> DEFINE x == q.gatherers[g]
           w == [x EXCEPT !.state = s]
           y == [w EXCEPT !.buffer = Append(x.buffer, c)]
           gs == [q.gatherers EXCEPT ![g] = y]
           h == [q EXCEPT !.gatherers[g].state = s, !.gatherers[g].buffer = Append(@, c)]
<1>1. x \in GathererType /\ q.gatherers \in Seq(GathererType)
  BY DEF PCType
<1>2. /\ y \in GathererType /\ y.line = x.line /\ y.next = x.next /\ y.handler = x.handler
      /\ y.buffer = Append(x.buffer, c)
  <2>1. /\ w \in GathererType /\ w.line = x.line /\ w.next = x.next /\ w.handler = x.handler
        /\ w.buffer = x.buffer
    BY <1>1 DEF GathererType
  <2>2. Append(x.buffer, c) \in Seq(FoundKinds)
    BY <1>1 DEF GathererType
  <2> HIDE DEF w
  <2> QED
    BY <2>1, <2>2 DEF GathererType
<1>3. h = [q EXCEPT !.gatherers = gs]
  <2> DEFINE hs == [q.gatherers EXCEPT ![g] = w]
  <2>1. [q EXCEPT !.gatherers[g].state = s] = [q EXCEPT !.gatherers = hs]
    BY DEF PCType
  <2>2. h = [[q EXCEPT !.gatherers[g].state = s] EXCEPT !.gatherers[g].buffer = Append(@, c)]
    OBVIOUS
  <2>3. hs[g] = w /\ w.buffer = x.buffer
    BY <1>1 DEF GathererType
  <2>4. [hs EXCEPT ![g] = [hs[g] EXCEPT !.buffer = Append(hs[g].buffer, c)]] = gs
    BY <1>1, <2>3
  <2> HIDE DEF hs, gs, h
  <2>5. [[q EXCEPT !.gatherers = hs] EXCEPT !.gatherers[g].buffer = Append(@, c)]
        = [q EXCEPT !.gatherers = [hs EXCEPT ![g] = [hs[g] EXCEPT !.buffer = Append(hs[g].buffer, c)]]]
    BY DEF PCType
  <2> QED
    BY <2>1, <2>2, <2>4, <2>5
<1> HIDE DEF y, h
<1>4. /\ gs \in Seq(GathererType) /\ Len(gs) = Len(q.gatherers)
      /\ DOMAIN gs = DOMAIN q.gatherers /\ gs[g] = y
      /\ \A k \in DOMAIN q.gatherers : k # g => gs[k] = q.gatherers[k]
  BY <1>1, <1>2, ExceptIs
<1> HIDE DEF gs
<1>5. PICK r : r = [q EXCEPT !.gatherers = gs]
  OBVIOUS
<1>6. /\ r \in PCType /\ SameButFound(q, r) /\ r.timers = q.timers /\ r.local = q.local
      /\ r.surfaced = q.surfaced /\ r.gathering = q.gathering /\ r.gatherers = gs
  BY <1>4, <1>5 DEF PCType, SameButFound
<1>7. IsBuffered(q, r, g, c)
  BY <1>2, <1>4, <1>6 DEF IsBuffered
<1>8. Buffers(q, g, c, s) = h
  BY DEF Buffers, h
<1> QED
  BY <1>3, <1>5, <1>7, <1>8

LEMMA PrefixGrows ==
    ASSUME NEW f \in Seq(FoundKinds), NEW found, Len(found) \in Nat, Prefix(f, found),
           Len(f) + 1 \in 1 .. Len(found), found[Len(f) + 1] \in FoundKinds
    PROVE  LET e == Append(f, found[Len(f) + 1])
           IN Prefix(e, found) /\ Len(e) = Len(f) + 1
<1> DEFINE e == Append(f, found[Len(f) + 1])
<1>1. Len(e) = Len(f) + 1
  OBVIOUS
<1>2. \A n \in 1 .. Len(f) : e[n] = f[n]
  OBVIOUS
<1>3. e[Len(f) + 1] = found[Len(f) + 1]
  OBVIOUS
<1> HIDE DEF e
<1> QED
  BY <1>1, <1>2, <1>3 DEF Prefix

LEMMA FoundBuffered ==
    ASSUME NEW p \in PCType, NEW left, Live(p, left), NEW g \in DOMAIN p.gatherers,
           p.gatherers[g].next \in DOMAIN p.found, p.gatherers[g].handler = "buffer",
           NEW q, Further(p, q, g), q.gatherers[g].buffer = p.gatherers[g].buffer,
           NEW s \in {"completed", "gathering"}
    PROVE  LET h == Buffers(q, g, p.found[p.gatherers[g].next], s)
           IN h \in PCType /\ Live(h, left)
<1> DEFINE x == p.gatherers[g]
           m == x.next
           c == p.found[m]
<1>1. /\ OneGathers(p, g) /\ (p.local = <<>> => p.timers = <<>>)
      /\ \A k \in DOMAIN p.gatherers : OneGathers(p, k)
  BY GatheringIs DEF Live
<1>2. /\ x \in GathererType /\ m \in Nat /\ c \in FoundKinds /\ m \in 1 .. Len(p.found)
      /\ Len(p.found) \in Nat /\ DOMAIN p.found = 1 .. Len(p.found)
      /\ x.buffer \in Seq(FoundKinds)
  BY GatherTyped DEF GathererType
<1>3. p.local = <<>> /\ p.timers = <<>> /\ Prefix(x.buffer, p.found) /\ Len(x.buffer) = m - 1
      /\ x.line = g
  BY <1>1 DEF OneGathers
<1>4. q \in PCType /\ g \in DOMAIN q.gatherers
  BY DEF Further
<1> HIDE DEF m, c
<1>5. PICK h : h = Buffers(q, g, c, s)
  OBVIOUS
<1>6. IsBuffered(q, h, g, c)
  BY <1>2, <1>4, <1>5, Buffered
<1>7. /\ h.found = p.found /\ h.timers = <<>> /\ h.local = <<>> /\ h.bundle = p.bundle
      /\ Len(h.gatherers) = Len(p.gatherers) /\ DOMAIN h.gatherers = DOMAIN p.gatherers
      /\ h.gatherers[g].line = g /\ h.gatherers[g].next = m + 1
      /\ h.gatherers[g].handler = "buffer"
      /\ h.gatherers[g].buffer = Append(x.buffer, c)
      /\ \A k \in DOMAIN p.gatherers : k # g => h.gatherers[k] = p.gatherers[k]
      /\ SameButFound(p, h)
  BY <1>3, <1>6 DEF Further, IsBuffered, SameButFound, m
<1>8. /\ h.transceivers # <<>> /\ Lined(h) /\ Written(h) /\ Running(h)
      /\ IF h.role = "observer" THEN AnswerStage(h, left) ELSE OfferStage(h, left)
  <2>1. /\ Len(h.local) = Len(p.local)
        /\ \A i \in DOMAIN p.local : /\ h.local[i].sends = p.local[i].sends
                                     /\ h.local[i].takes = p.local[i].takes
    BY <1>3, <1>7
  <2> QED
    BY <1>6, <1>7, <2>1, FoundRest DEF IsBuffered
<1>9. \A k \in DOMAIN h.gatherers : OneGathers(h, k)
  <2> SUFFICES ASSUME NEW k \in DOMAIN p.gatherers PROVE OneGathers(h, k)
    BY <1>7
  <2>1. CASE k # g
    <3>1. h.gatherers[k] = p.gatherers[k]
      BY <1>7, <2>1
    <3> QED
      BY <1>1, <1>3, <1>7, <3>1 DEF OneGathers
  <2>2. CASE k = g
    <3>1. Len(x.buffer) + 1 = m
      BY <1>2, <1>3
    <3>2. Prefix(Append(x.buffer, c), p.found) /\ Len(Append(x.buffer, c)) = m
      BY <1>2, <1>3, <3>1, PrefixGrows DEF c
    <3>3. m + 1 \in 1 .. Len(p.found) + 1 /\ m = (m + 1) - 1
      BY <1>2
    <3> QED
      BY <1>7, <2>2, <3>2, <3>3 DEF OneGathers
  <2> QED
    BY <2>1, <2>2
<1>10. Gathering(h)
  <2>1. \A k \in DOMAIN h.timers : OneReplays(h, k)
    BY <1>7
  <2> QED
    BY <1>7, <1>9, <2>1, GatheringIs
<1>11. Kept(h)
  <2>1. \A k \in DOMAIN h.gatherers : OneKept(h, k)
    BY <1>7 DEF OneKept
  <2> QED
    BY <2>1, KeptIs
<1> QED
  BY <1>5, <1>6, <1>8, <1>10, <1>11, Zenon DEF Live, c, m, IsBuffered

LEMMA FindsLive ==
    ASSUME NEW p \in PCType, NEW left, Live(p, left), NEW g \in DOMAIN p.gatherers,
           p.gatherers[g].next \in DOMAIN p.found
    PROVE  Finds(p, g) \in PCType /\ Live(Finds(p, g), left)
<1> DEFINE x == p.gatherers[g]
           c == p.found[x.next]
           q0 == [p EXCEPT !.gatherers[g].next = @ + 1]
<1>1. PICK q : q = q0
  OBVIOUS
<1>2. Further(p, q, g) /\ q.gatherers[g].buffer = x.buffer
  BY <1>1, FurtherIs
<1>3. q \in PCType /\ q.gatherers[g].line = x.line /\ q.bundle = p.bundle /\ q.local = p.local
      /\ DOMAIN q.gatherers = DOMAIN p.gatherers
  BY <1>2 DEF Further, SameButFound
<1>4. Gathering(p) /\ OneGathers(p, g)
  BY GatheringIs DEF Live
<1>5. g \in 1 .. 2 /\ x.line = g
  BY <1>4 DEF Live, Lined, Second, PCType, OneGathers
<1>6. x.handler \in {"buffer", "direct", "none"} /\ c \in FoundKinds
  BY GatherTyped DEF GathererType
<1>7. CASE x.handler = "direct"
  <2>1. Finds(p, g) = LocalCandidate(q, g, c)
    BY <1>1, <1>7 DEF Finds
  <2>2. CASE p.bundle /\ g = 2
    <3>1. LocalCandidate(q, g, c) = q
      BY <1>3, <1>5, <2>2 DEF LocalCandidate
    <3>2. Live(q, left)
      BY <1>2, <1>7, <2>2, FurtherRest DEF Live
    <3> QED
      BY <1>3, <2>1, <3>1, <3>2
  <2>3. CASE ~(p.bundle /\ g = 2)
    <3>1. g \in DOMAIN p.local
      BY <1>4, <1>5, <1>7 DEF Live, Written, PCType, OneGathers
    <3>2. Writes(q, LocalCandidate(q, g, c), g, c)
      <4>1. g \in DOMAIN q.gatherers /\ q.gatherers[g].line = g /\ g \in DOMAIN q.local
            /\ ~(q.bundle /\ g = 2)
        BY <1>3, <1>5, <2>3, <3>1
      <4> HIDE DEF c, x
      <4> QED
        BY <1>3, <1>5, <1>6, <4>1, LocalCandidateIs
    <3> QED
      BY <1>2, <1>7, <2>1, <2>3, <3>2, FoundDirect
  <2> QED
    BY <2>2, <2>3
<1>8. CASE x.handler = "buffer"
  <2> DEFINE s == IF c = END THEN "completed" ELSE "gathering"
  <2>1. Finds(p, g) = Buffers(q, g, c, s)
    BY <1>1, <1>8 DEF Finds, Buffers
  <2>2. s \in {"completed", "gathering"}
    OBVIOUS
  <2> HIDE DEF s
  <2>3. LET h == Buffers(q, g, c, s)
        IN h \in PCType /\ Live(h, left)
    BY <1>2, <1>8, <2>2, FoundBuffered
  <2> QED
    BY <2>1, <2>3
<1>9. CASE x.handler = "none"
  <2>1. Finds(p, g) = q
    BY <1>1, <1>9 DEF Finds
  <2>2. p.bundle /\ g = 2
    BY <1>4, <1>9 DEF OneGathers
  <2>3. Live(q, left)
    BY <1>2, <1>9, <2>2, FurtherRest DEF Live
  <2> QED
    BY <1>3, <2>1, <2>3
<1> QED
  BY <1>6, <1>7, <1>8, <1>9

-----------------------------------------------------------------------------
(* The replay of what was buffered.                                        *)

IsReplay(f, p, g, F, m) ==
    f = [n \in 0 .. m |-> IF n = 0 THEN p ELSE LocalCandidate(f[n - 1], g, F[n])]

\* The recursive function of Replay exists: at most three candidates are buffered.
LEMMA ReplayExists ==
    ASSUME NEW p, NEW g, NEW F, NEW m \in 0 .. 3
    PROVE  \E f : IsReplay(f, p, g, F, m)
<1> DEFINE one == LocalCandidate(p, g, F[1])
           two == LocalCandidate(one, g, F[2])
           three == LocalCandidate(two, g, F[3])
           f == [n \in 0 .. m |-> IF n = 0 THEN p ELSE IF n = 1 THEN one
                                  ELSE IF n = 2 THEN two ELSE three]
<1>1. \A n \in 0 .. m : f[n] = IF n = 0 THEN p ELSE IF n = 1 THEN one
                               ELSE IF n = 2 THEN two ELSE three
  OBVIOUS
<1>2. f = [n \in 0 .. m |-> f[n]]
  OBVIOUS
<1> HIDE DEF f
<1>3. \A n \in 0 .. m : f[n] = IF n = 0 THEN p ELSE LocalCandidate(f[n - 1], g, F[n])
  <2> SUFFICES ASSUME NEW n \in 0 .. m
               PROVE  f[n] = IF n = 0 THEN p ELSE LocalCandidate(f[n - 1], g, F[n])
    OBVIOUS
  <2>1. n = 0 \/ n = 1 \/ n = 2 \/ n = 3
    OBVIOUS
  <2>2. n # 0 => n - 1 \in 0 .. m
    OBVIOUS
  <2>3. CASE n = 0
    BY <1>1, <2>3
  <2>4. CASE n = 1
    <3>1. f[0] = p /\ f[1] = one
      BY <1>1, <2>2, <2>4
    <3> QED
      BY <2>4, <3>1
  <2>5. CASE n = 2
    <3>1. f[1] = one /\ f[2] = two
      BY <1>1, <2>2, <2>5
    <3> QED
      BY <2>5, <3>1
  <2>6. CASE n = 3
    <3>1. f[2] = two /\ f[3] = three
      BY <1>1, <2>2, <2>6
    <3> QED
      BY <2>6, <3>1
  <2> QED
    BY <2>1, <2>3, <2>4, <2>5, <2>6
<1>4. IsReplay(f, p, g, F, m)
  BY <1>2, <1>3 DEF IsReplay
<1> QED
  BY <1>4

LEMMA ReplayIs ==
    ASSUME NEW p, NEW task, Len(task.found) \in 0 .. 3,
           p.gatherers[task.gatherer].handler # "none"
    PROVE  \E f : /\ Replay(p, task) = f[Len(task.found)]
                  /\ f[0] = p
                  /\ \A n \in 1 .. Len(task.found) :
                         f[n] = LocalCandidate(f[n - 1], task.gatherer, task.found[n])
<1> DEFINE f == CHOOSE h : h = [n \in 0 .. Len(task.found) |->
                   IF n = 0 THEN p ELSE LocalCandidate(h[n - 1], task.gatherer, task.found[n])]
<1>0. \E h : h = [n \in 0 .. Len(task.found) |->
                   IF n = 0 THEN p ELSE LocalCandidate(h[n - 1], task.gatherer, task.found[n])]
  <2>1. PICK h : IsReplay(h, p, task.gatherer, task.found, Len(task.found))
    BY ReplayExists
  <2> QED
    BY <2>1, Zenon DEF IsReplay
<1>1. IsReplay(f, p, task.gatherer, task.found, Len(task.found))
  BY <1>0, Zenon DEF IsReplay
<1>2. Replay(p, task) = f[Len(task.found)]
  BY DEF Replay
<1> HIDE DEF f
<1>3. \A n \in 0 .. Len(task.found) :
          f[n] = IF n = 0 THEN p ELSE LocalCandidate(f[n - 1], task.gatherer, task.found[n])
  BY <1>1 DEF IsReplay
<1>4. f[0] = p
  BY <1>3
<1>5. \A n \in 1 .. Len(task.found) :
          f[n] = LocalCandidate(f[n - 1], task.gatherer, task.found[n])
  BY <1>3
<1> QED
  BY <1>2, <1>4, <1>5

\* The candidates among the first m of a gatherer's: the end of them comes last.
Told(g, F, m) ==
    [k \in 1 .. (IF m > 0 /\ F[m] = END THEN m - 1 ELSE m) |-> <<g, F[k]>>]

\* What the replay of the first m has done.
Replayed(p, r, g, F, m) ==
    /\ r \in PCType /\ SameButFound(p, r) /\ r.timers = p.timers
    /\ OnlyState(p.gatherers, r.gatherers, g)
    /\ OnlyCands(p.local, r.local, g, {F[k] : k \in 1 .. m})
    /\ r.surfaced = IF p.closed THEN p.surfaced ELSE p.surfaced \o Told(g, F, m)

LEMMA EndIsLast ==
    ASSUME NEW found \in {<<"host", END>>, <<"host", "relay", END>>}, NEW n \in 1 .. Len(found)
    PROVE  found[n] = END <=> n = Len(found)
<1>1. "host" # END /\ "relay" # END
  BY DEF END
<1>2. CASE found = <<"host", END>>
  <2>1. n = 1 \/ n = 2
    BY <1>2
  <2> QED
    BY <1>1, <1>2, <2>1
<1>3. CASE found = <<"host", "relay", END>>
  <2>1. n = 1 \/ n = 2 \/ n = 3
    BY <1>3
  <2> QED
    BY <1>1, <1>3, <2>1
<1> QED
  BY <1>2, <1>3

LEMMA ReplaysNone ==
    ASSUME NEW p \in PCType, NEW g \in DOMAIN p.gatherers, NEW F
    PROVE  Replayed(p, p, g, F, 0)
<1>1. OnlyState(p.gatherers, p.gatherers, g)
  BY DEF OnlyState
<1>2. {F[k] : k \in 1 .. 0} = {}
  OBVIOUS
<1>3. OnlyCands(p.local, p.local, g, {})
  BY DEF OnlyCands
<1>4. Told(g, F, 0) = <<>>
  BY DEF Told
<1>5. p.surfaced \o <<>> = p.surfaced
  BY DEF PCType
<1> QED
  BY <1>1, <1>2, <1>3, <1>4, <1>5 DEF Replayed, SameButFound

LEMMA ToldGrows ==
    ASSUME NEW g \in 1 .. 2, NEW F \in Seq(FoundKinds), NEW m \in Nat, m + 1 \in 1 .. Len(F),
           m > 0 => F[m] # END, \A k \in 1 .. m : F[k] # END
    PROVE  /\ Told(g, F, m) \in Seq(LocalCands)
           /\ Told(g, F, m + 1) = IF F[m + 1] = END THEN Told(g, F, m)
                                  ELSE Append(Told(g, F, m), <<g, F[m + 1]>>)
<1>1. Told(g, F, m) = [k \in 1 .. m |-> <<g, F[k]>>]
  BY DEF Told
<1>2. \A k \in 1 .. m : <<g, F[k]>> \in LocalCands
  <2> SUFFICES ASSUME NEW k \in 1 .. m PROVE <<g, F[k]>> \in LocalCands
    OBVIOUS
  <2>1. F[k] \in FoundKinds /\ F[k] # END
    OBVIOUS
  <2> QED
    BY <2>1, EndIs, LocalCandsIs
<1>3. Told(g, F, m) \in Seq(LocalCands)
  BY <1>1, <1>2
<1>4. CASE F[m + 1] = END
  <2>1. Told(g, F, m + 1) = [k \in 1 .. m |-> <<g, F[k]>>]
    BY <1>4 DEF Told
  <2> QED
    BY <1>1, <1>3, <1>4, <2>1
<1>5. CASE F[m + 1] # END
  <2> DEFINE t == [k \in 1 .. m |-> <<g, F[k]>>]
             u == [k \in 1 .. m + 1 |-> <<g, F[k]>>]
             e == <<g, F[m + 1]>>
  <2>1. Told(g, F, m + 1) = u
    BY <1>5 DEF Told
  <2>2. Append(t, e) = u
    <3>1. t \in Seq(LocalCands \cup {e}) /\ u \in Seq(LocalCands \cup {e}) /\ Len(t) = m /\ Len(u) = m + 1
      BY <1>2
    <3>2. u[m + 1] = e /\ \A k \in 1 .. m : u[k] = t[k]
      OBVIOUS
    <3> HIDE DEF t, u, e
    <3>3. /\ Append(t, e) \in Seq(LocalCands \cup {e}) /\ Len(Append(t, e)) = m + 1
          /\ Append(t, e)[m + 1] = e
          /\ \A k \in 1 .. m : Append(t, e)[k] = t[k]
      BY <3>1
    <3> QED
      BY <3>1, <3>2, <3>3
  <2> QED
    BY <1>1, <1>3, <1>5, <2>1, <2>2
<1> QED
  BY <1>3, <1>4, <1>5

LEMMA SurfacedGrows ==
    ASSUME NEW s \in Seq(LocalCands), NEW t \in Seq(LocalCands), NEW e \in LocalCands
    PROVE  Append(s \o t, e) = s \o Append(t, e)
OBVIOUS

LEMMA CandsGrow ==
    ASSUME NEW F, NEW m \in Nat
    PROVE  {F[k] : k \in 1 .. m} \cup {F[m + 1]} = {F[k] : k \in 1 .. m + 1}
<1>1. 1 .. m + 1 = 1 .. m \cup {m + 1}
  OBVIOUS
<1> QED
  BY <1>1

LEMMA ReplaysOne ==
    ASSUME NEW p \in PCType, NEW g \in DOMAIN p.gatherers, g \in 1 .. 2,
           p.gatherers[g].line = g, g \in DOMAIN p.local, ~(p.bundle /\ g = 2),
           NEW F \in Seq(FoundKinds), NEW m \in Nat, m + 1 \in 1 .. Len(F),
           \A k \in 1 .. m : F[k] # END,
           NEW r, Replayed(p, r, g, F, m)
    PROVE  Replayed(p, LocalCandidate(r, g, F[m + 1]), g, F, m + 1)
<1> DEFINE c == F[m + 1]
           h == LocalCandidate(r, g, c)
<1>1. /\ r \in PCType /\ SameButFound(p, r) /\ r.timers = p.timers
      /\ OnlyState(p.gatherers, r.gatherers, g)
      /\ OnlyCands(p.local, r.local, g, {F[k] : k \in 1 .. m})
      /\ r.surfaced = IF p.closed THEN p.surfaced ELSE p.surfaced \o Told(g, F, m)
  BY DEF Replayed
<1>2. c \in FoundKinds
  OBVIOUS
<1>3. /\ g \in DOMAIN r.gatherers /\ r.gatherers[g].line = g /\ g \in DOMAIN r.local
      /\ ~(r.bundle /\ g = 2) /\ r.closed = p.closed
  BY <1>1 DEF SameButFound, OnlyState, OnlyCands
<1> HIDE DEF c
<1>4. Writes(r, h, g, c)
  BY <1>1, <1>2, <1>3, LocalCandidateIs
<1> HIDE DEF h
<1>5. /\ h \in PCType /\ SameButFound(r, h) /\ h.timers = r.timers
      /\ OnlyState(r.gatherers, h.gatherers, g)
      /\ OnlyCands(r.local, h.local, g, {c})
      /\ h.surfaced = IF c # END /\ ~p.closed THEN Append(r.surfaced, <<g, c>>) ELSE r.surfaced
  BY <1>3, <1>4 DEF Writes
<1>6. SameButFound(p, h) /\ h.timers = p.timers
  BY <1>1, <1>5 DEF SameButFound
<1>7. OnlyState(p.gatherers, h.gatherers, g)
  BY <1>1, <1>5 DEF OnlyState
<1>8. OnlyCands(p.local, h.local, g, {F[k] : k \in 1 .. m + 1})
  <2> DEFINE A == {F[k] : k \in 1 .. m}
             B == {F[k] : k \in 1 .. m + 1}
  <2>1. A \cup {c} = B
    BY CandsGrow DEF c
  <2> HIDE DEF A, B
  <2>2. OnlyCands(p.local, r.local, g, A)
    BY <1>1 DEF A
  <2>3. OnlyCands(p.local, h.local, g, B)
    BY <1>5, <2>1, <2>2 DEF OnlyCands
  <2> QED
    BY <2>3 DEF B
<1>9. h.surfaced = IF p.closed THEN p.surfaced ELSE p.surfaced \o Told(g, F, m + 1)
  <2>0. m > 0 => F[m] # END
    OBVIOUS
  <2>1. CASE p.closed
    BY <1>1, <1>5, <2>1
  <2>2. CASE ~p.closed /\ c = END
    <3>1. Told(g, F, m + 1) = Told(g, F, m)
      BY <2>0, <2>2, ToldGrows DEF c
    <3> QED
      BY <1>1, <1>5, <2>2, <3>1
  <2>3. CASE ~p.closed /\ c # END
    <3>1. /\ Told(g, F, m + 1) = Append(Told(g, F, m), <<g, c>>)
          /\ Told(g, F, m) \in Seq(LocalCands)
      BY <2>0, <2>3, ToldGrows DEF c
    <3>2. <<g, c>> \in LocalCands /\ p.surfaced \in Seq(LocalCands)
      BY <1>2, <2>3, EndIs, LocalCandsIs DEF PCType
    <3>3. Append(p.surfaced \o Told(g, F, m), <<g, c>>) = p.surfaced \o Append(Told(g, F, m), <<g, c>>)
      <4> DEFINE a == p.surfaced
                 b == Told(g, F, m)
                 e == <<g, c>>
      <4>1. a \in Seq(LocalCands) /\ b \in Seq(LocalCands) /\ e \in LocalCands
        BY <3>1, <3>2
      <4> HIDE DEF a, b, e
      <4>2. Append(a \o b, e) = a \o Append(b, e)
        BY <4>1, SurfacedGrows, Zenon
      <4> QED
        BY <4>2 DEF a, b, e
    <3> QED
      BY <1>1, <1>5, <2>3, <3>1, <3>3
  <2> QED
    BY <2>1, <2>2, <2>3
<1>10. Replayed(p, h, g, F, m + 1)
  BY <1>5, <1>6, <1>7, <1>8, <1>9 DEF Replayed
<1> QED
  BY <1>10 DEF h, c

LEMMA PrefixIs ==
    ASSUME NEW p \in PCType, NEW F \in Seq(FoundKinds), Prefix(F, p.found)
    PROVE  /\ Len(F) \in 0 .. 3
           /\ \A k \in 1 .. Len(F) : F[k] = p.found[k] /\ k \in 1 .. Len(p.found)
           /\ \A k \in 1 .. Len(F) : F[k] = END => k = Len(F)
<1>1. p.found \in {<<"host", END>>, <<"host", "relay", END>>} /\ Len(F) \in Nat
  BY DEF PCType
<1>2. Len(p.found) \in 2 .. 3
  BY <1>1, FoundParts
<1>3. Len(F) <= Len(p.found) /\ \A k \in 1 .. Len(F) : F[k] = p.found[k]
  BY DEF Prefix
<1>4. \A k \in 1 .. Len(F) : k \in 1 .. Len(p.found)
  BY <1>1, <1>2, <1>3
<1>5. \A k \in 1 .. Len(F) : F[k] = END => k = Len(F)
  <2> SUFFICES ASSUME NEW k \in 1 .. Len(F), F[k] = END PROVE k = Len(F)
    OBVIOUS
  <2>1. p.found[k] = END /\ k \in 1 .. Len(p.found)
    BY <1>3, <1>4
  <2>2. k = Len(p.found)
    BY <1>1, <2>1, EndIsLast
  <2> QED
    BY <1>1, <1>2, <1>3, <2>2
<1>6. Len(F) \in 0 .. 3
  <2> DEFINE l == Len(F)
             n == Len(p.found)
  <2>1. l \in Nat /\ n \in 2 .. 3 /\ l <= n
    BY <1>1, <1>2, <1>3
  <2> HIDE DEF l, n
  <2>2. l \in 0 .. 3
    BY <2>1
  <2> QED
    BY <2>2 DEF l
<1>7. \A k \in 1 .. Len(F) : F[k] = p.found[k] /\ k \in 1 .. Len(p.found)
  BY <1>3, <1>4
<1> QED
  BY <1>5, <1>6, <1>7

LEMMA ReplaysAll ==
    ASSUME NEW p \in PCType, NEW task, NEW g \in DOMAIN p.gatherers, task.gatherer = g,
           g \in 1 .. 2, p.gatherers[g].line = g, g \in DOMAIN p.local, ~(p.bundle /\ g = 2),
           NEW F \in Seq(FoundKinds), task.found = F, Prefix(F, p.found),
           p.gatherers[g].handler # "none"
    PROVE  Replayed(p, Replay(p, task), g, F, Len(F))
<1>1. Len(F) \in 0 .. 3 /\ \A k \in 1 .. Len(F) : F[k] = END => k = Len(F)
  BY PrefixIs
<1>2. PICK f : /\ Replay(p, task) = f[Len(F)]
               /\ f[0] = p
               /\ \A n \in 1 .. Len(F) : f[n] = LocalCandidate(f[n - 1], g, F[n])
  <2>1. Len(task.found) \in 0 .. 3 /\ p.gatherers[task.gatherer].handler # "none"
    BY <1>1
  <2>2. \E f : /\ Replay(p, task) = f[Len(task.found)]
               /\ f[0] = p
               /\ \A n \in 1 .. Len(task.found) :
                      f[n] = LocalCandidate(f[n - 1], task.gatherer, task.found[n])
    BY <2>1, ReplayIs
  <2> QED
    BY <2>2
<1>3. Replayed(p, f[0], g, F, 0)
  BY <1>2, ReplaysNone
<1>4. ASSUME NEW m \in Nat, m + 1 \in 1 .. Len(F), Replayed(p, f[m], g, F, m)
      PROVE  Replayed(p, f[m + 1], g, F, m + 1)
  <2>1. \A k \in 1 .. m : F[k] # END
    <3>1. \A k \in 1 .. m : k \in 1 .. Len(F) /\ k # Len(F)
      BY <1>1, <1>4
    <3> QED
      BY <1>1, <3>1
  <2>2. (m + 1) - 1 = m
    OBVIOUS
  <2>3. f[m + 1] = LocalCandidate(f[m], g, F[m + 1])
    BY <1>2, <1>4, <2>2
  <2> QED
    BY <1>4, <2>1, <2>3, ReplaysOne
<1>5. Len(F) >= 1 => Replayed(p, f[1], g, F, 1)
  BY <1>1, <1>3, <1>4, 0 + 1 = 1
<1>6. Len(F) >= 2 => Replayed(p, f[2], g, F, 2)
  BY <1>1, <1>4, <1>5, 1 + 1 = 2
<1>7. Len(F) >= 3 => Replayed(p, f[3], g, F, 3)
  BY <1>1, <1>4, <1>6, 2 + 1 = 3
<1>8. Len(F) = 0 \/ Len(F) = 1 \/ Len(F) = 2 \/ Len(F) = 3
  BY <1>1
<1>9. Replayed(p, f[Len(F)], g, F, Len(F))
  <2>1. CASE Len(F) = 0
    BY <1>3, <2>1
  <2>2. CASE Len(F) = 1
    BY <1>5, <2>2
  <2>3. CASE Len(F) = 2
    BY <1>6, <2>3
  <2>4. CASE Len(F) = 3
    BY <1>7, <2>4
  <2> QED
    BY <1>8, <2>1, <2>2, <2>3, <2>4
<1> QED
  BY <1>2, <1>9

LEMMA TailIs ==
    ASSUME NEW S, NEW s \in Seq(S), s # <<>>
    PROVE  /\ Head(s) = s[1] /\ 1 \in DOMAIN s /\ Tail(s) \in Seq(S)
           /\ \A k \in DOMAIN Tail(s) : k + 1 \in DOMAIN s /\ k + 1 # 1 /\ Tail(s)[k] = s[k + 1]
           /\ \A k \in DOMAIN s : k # 1 => k - 1 \in DOMAIN Tail(s) /\ Tail(s)[k - 1] = s[k]
OBVIOUS

\* What taking the first timer leaves.
TimerTaken(p, o, g) ==
    /\ o \in PCType /\ SameButFound(p, o) /\ o.gatherers = p.gatherers /\ o.local = p.local
    /\ o.surfaced = p.surfaced
    /\ Gathering(o)
    /\ \A k \in DOMAIN o.timers : o.timers[k].gatherer # g
    /\ \A k \in DOMAIN p.gatherers : k # g => OneKept(o, k)

LEMMA TimerTakenIs ==
    ASSUME NEW p \in PCType, NEW left, Live(p, left), p.timers # <<>>
    PROVE  TimerTaken(p, [p EXCEPT !.timers = Tail(@)], Head(p.timers).gatherer)
<1> DEFINE g == Head(p.timers).gatherer
           ts == Tail(p.timers)
<1>1. p.timers \in Seq(TimerType)
  BY DEF PCType
<1>2. /\ Head(p.timers) = p.timers[1] /\ 1 \in DOMAIN p.timers /\ ts \in Seq(TimerType)
      /\ \A k \in DOMAIN ts : k + 1 \in DOMAIN p.timers /\ k + 1 # 1 /\ ts[k] = p.timers[k + 1]
      /\ \A k \in DOMAIN p.timers : k # 1 => k - 1 \in DOMAIN ts /\ ts[k - 1] = p.timers[k]
  BY <1>1, TailIs
<1>3. [p EXCEPT !.timers = Tail(@)] = [p EXCEPT !.timers = ts]
  OBVIOUS
<1> HIDE DEF ts
<1>4. PICK o : o = [p EXCEPT !.timers = ts]
  OBVIOUS
<1>5. /\ o \in PCType /\ SameButFound(p, o) /\ o.gatherers = p.gatherers /\ o.local = p.local
      /\ o.surfaced = p.surfaced /\ o.timers = ts
  BY <1>2, <1>4 DEF PCType, SameButFound
<1>6. o.found = p.found /\ o.bundle = p.bundle /\ o.closed = p.closed
  BY <1>5 DEF SameButFound
<1>7. /\ \A k \in DOMAIN p.gatherers : OneGathers(p, k) /\ OneKept(p, k)
      /\ p.local = <<>> => p.timers = <<>>
      /\ \A k \in DOMAIN p.timers : OneReplays(p, k)
  BY GatheringIs, KeptIs DEF Live
<1>8. \A k \in DOMAIN p.gatherers : OneGathers(o, k)
  <2> SUFFICES ASSUME NEW k \in DOMAIN p.gatherers PROVE OneGathers(o, k)
    OBVIOUS
  <2>1. OneGathers(p, k)
    BY <1>7
  <2>2. ASSUME NEW n, \A j \in DOMAIN p.timers : p.timers[j].gatherer = k => Len(p.timers[j].found) < n
        PROVE  \A j \in DOMAIN ts : ts[j].gatherer = k => Len(ts[j].found) < n
    BY <1>2, <2>2
  <2> QED
    BY <1>5, <1>6, <2>1, <2>2 DEF OneGathers
<1>9. \A k \in DOMAIN ts : OneReplays(o, k)
  <2> SUFFICES ASSUME NEW k \in DOMAIN ts PROVE OneReplays(o, k)
    OBVIOUS
  <2>1. k + 1 \in DOMAIN p.timers /\ ts[k] = p.timers[k + 1] /\ OneReplays(p, k + 1)
    BY <1>2, <1>7
  <2>2. ASSUME NEW j \in DOMAIN ts, ts[j].gatherer = ts[k].gatherer PROVE j = k
    <3>1. j + 1 \in DOMAIN p.timers /\ ts[j] = p.timers[j + 1]
      BY <1>2
    <3>2. j + 1 = k + 1
      BY <2>1, <2>2, <3>1 DEF OneReplays
    <3>3. j \in Nat /\ k \in Nat
      BY <1>2
    <3> QED
      BY <3>2, <3>3
  <2> QED
    BY <1>5, <1>6, <2>1, <2>2 DEF OneReplays
<1>10. p.local # <<>>
  BY <1>7
<1>11. Gathering(o)
  BY <1>5, <1>8, <1>9, <1>10, GatheringIs
<1>12. \A k \in DOMAIN ts : ts[k].gatherer # g
  <2> SUFFICES ASSUME NEW k \in DOMAIN ts, ts[k].gatherer = g PROVE FALSE
    OBVIOUS
  <2>1. k + 1 \in DOMAIN p.timers /\ k + 1 # 1 /\ p.timers[k + 1].gatherer = p.timers[1].gatherer
    BY <1>2
  <2>2. OneReplays(p, 1)
    BY <1>2, <1>7
  <2> QED
    BY <2>1, <2>2 DEF OneReplays
<1>13. \A k \in DOMAIN p.gatherers : k # g => OneKept(o, k)
  <2> SUFFICES ASSUME NEW k \in DOMAIN p.gatherers, k # g, ~p.closed, ~(p.bundle /\ k = 2)
               PROVE  \A n \in 1 .. p.gatherers[k].next - 1 :
                         \/ p.found[n] = END
                         \/ <<k, p.found[n]>> \in ToSet(p.surfaced)
                         \/ \E j \in DOMAIN ts : ts[j].gatherer = k /\ n <= Len(ts[j].found)
    BY <1>5, <1>6 DEF OneKept
  <2> SUFFICES ASSUME NEW n \in 1 .. p.gatherers[k].next - 1,
                      NEW j \in DOMAIN p.timers, p.timers[j].gatherer = k, n <= Len(p.timers[j].found)
               PROVE  \E i \in DOMAIN ts : ts[i].gatherer = k /\ n <= Len(ts[i].found)
    BY <1>7, <1>10 DEF OneKept
  <2>1. j # 1
    BY <1>2
  <2>2. j - 1 \in DOMAIN ts /\ ts[j - 1] = p.timers[j]
    BY <1>2, <2>1
  <2> QED
    BY <2>2
<1>14. TimerTaken(p, o, g)
  BY <1>5, <1>11, <1>12, <1>13 DEF TimerTaken
<1> QED
  BY <1>3, <1>4, <1>14

LEMMA TakenLive ==
    ASSUME NEW p \in PCType, NEW left, Live(p, left), NEW o, NEW g, TimerTaken(p, o, g),
           p.bundle /\ g = 2
    PROVE  o \in PCType /\ Live(o, left)
<1>1. /\ o.transceivers # <<>> /\ Lined(o) /\ Written(o) /\ Running(o)
      /\ IF o.role = "observer" THEN AnswerStage(o, left) ELSE OfferStage(o, left)
  BY FoundRest DEF TimerTaken
<1>2. \A k \in DOMAIN o.gatherers : OneKept(o, k)
  <2> SUFFICES ASSUME NEW k \in DOMAIN p.gatherers PROVE OneKept(o, k)
    BY DEF TimerTaken
  <2>1. CASE k # g
    BY <2>1 DEF TimerTaken
  <2>2. CASE k = g
    BY <2>2 DEF TimerTaken, SameButFound, OneKept
  <2> QED
    BY <2>1, <2>2
<1>3. Kept(o)
  BY <1>2, KeptIs
<1> QED
  BY <1>1, <1>3 DEF TimerTaken, Live

LEMMA ReplayedLive ==
    ASSUME NEW p \in PCType, NEW left, Live(p, left), p.local # <<>>,
           NEW g \in DOMAIN p.gatherers, NEW F \in Seq(FoundKinds), Prefix(F, p.found),
           Len(F) < p.gatherers[g].next,
           \A j \in DOMAIN p.timers : p.timers[j].gatherer = g => p.timers[j].found = F,
           ~(p.bundle /\ g = 2),
           NEW o, TimerTaken(p, o, g), NEW r, Replayed(o, r, g, F, Len(F))
    PROVE  r \in PCType /\ Live(r, left)
<1>1. p.surfaced \in Seq(LocalCands)
  BY DEF PCType
<1>2. /\ \A k \in DOMAIN p.gatherers : OneGathers(p, k) /\ OneKept(p, k)
      /\ p.local = <<>> => p.timers = <<>>
      /\ \A k \in DOMAIN p.timers : OneReplays(p, k)
  BY GatheringIs, KeptIs DEF Live
<1>3. /\ g \in DOMAIN p.gatherers /\ F \in Seq(FoundKinds) /\ Prefix(F, p.found)
      /\ Len(F) < p.gatherers[g].next /\ p.local # <<>>
      /\ \A j \in DOMAIN p.timers : p.timers[j].gatherer = g => p.timers[j].found = F
  OBVIOUS
<1>4. /\ o \in PCType /\ SameButFound(p, o) /\ o.gatherers = p.gatherers /\ o.local = p.local
      /\ o.surfaced = p.surfaced
      /\ \A k \in DOMAIN o.gatherers : OneGathers(o, k)
      /\ \A k \in DOMAIN o.timers : OneReplays(o, k)
      /\ \A k \in DOMAIN o.timers : o.timers[k].gatherer # g
      /\ \A k \in DOMAIN p.gatherers : k # g => OneKept(o, k)
  BY GatheringIs DEF TimerTaken
<1>5. /\ r \in PCType /\ SameButFound(o, r) /\ r.timers = o.timers
      /\ OnlyState(p.gatherers, r.gatherers, g)
      /\ OnlyCands(p.local, r.local, g, {F[k] : k \in 1 .. Len(F)})
      /\ r.surfaced = IF p.closed THEN p.surfaced ELSE p.surfaced \o Told(g, F, Len(F))
  BY <1>4 DEF Replayed, SameButFound
<1>6. /\ SameButFound(p, r)
      /\ r.found = p.found /\ r.bundle = p.bundle /\ r.closed = p.closed
      /\ o.found = p.found /\ o.bundle = p.bundle /\ o.closed = p.closed
      /\ DOMAIN r.gatherers = DOMAIN p.gatherers /\ Len(r.gatherers) = Len(p.gatherers)
      /\ r.gatherers[g].line = p.gatherers[g].line
      /\ r.gatherers[g].next = p.gatherers[g].next
      /\ r.gatherers[g].handler = p.gatherers[g].handler
      /\ r.gatherers[g].buffer = p.gatherers[g].buffer
      /\ \A k \in DOMAIN p.gatherers : k # g => r.gatherers[k] = p.gatherers[k]
  BY <1>4, <1>5 DEF SameButFound, OnlyState
<1>7. /\ p.local \in Seq(LineType) /\ DOMAIN p.local = 1 .. 2 /\ Len(p.local) = 2
      /\ DOMAIN p.gatherers \subseteq 1 .. 2 /\ Len(p.gatherers) \in 1 .. 2
  <2>1. Len(p.gatherers) \in 1 .. 2 /\ p.gatherers \in Seq(GathererType)
    BY DEF Live, Lined, Second, PCType
  <2>2. p.local \in Seq(LineType) /\ Len(p.local) = 2
    BY <1>3 DEF Live, Written, PCType
  <2>3. DOMAIN p.gatherers \subseteq 1 .. 2
    BY <2>1
  <2>4. DOMAIN p.local = 1 .. 2
    BY <2>2
  <2> QED
    BY <2>1, <2>2, <2>3, <2>4
<1>8. /\ r.transceivers # <<>> /\ Lined(r) /\ Written(r) /\ Running(r)
      /\ IF r.role = "observer" THEN AnswerStage(r, left) ELSE OfferStage(r, left)
      /\ r.local # <<>>
  <2>1. /\ Len(r.local) = Len(p.local)
        /\ \A i \in DOMAIN p.local : /\ r.local[i].sends = p.local[i].sends
                                     /\ r.local[i].takes = p.local[i].takes
    BY <1>5, Zenon DEF OnlyCands
  <2> QED
    BY <1>3, <1>5, <1>6, <2>1, FoundRest, ZenonT(30)
<1>9. /\ \A k \in 1 .. Len(F) : F[k] = p.found[k] /\ k \in 1 .. Len(p.found)
      /\ \A k \in 1 .. Len(F) : F[k] = END => k = Len(F)
      /\ Len(F) \in 0 .. 3
      /\ DOMAIN p.found = 1 .. Len(p.found)
      /\ \A k, n \in 1 .. Len(p.found) : p.found[k] = p.found[n] => k = n
      /\ p.gatherers[g].next \in Nat
  <2>1. p.found \in {<<"host", END>>, <<"host", "relay", END>>}
    BY DEF PCType
  <2> QED
    BY <1>3, <2>1, PrefixIs, FoundParts, GatherTyped
<1>10. \A k \in DOMAIN p.gatherers : OneGathers(r, k)
  <2> SUFFICES ASSUME NEW k \in DOMAIN p.gatherers PROVE OneGathers(r, k)
    OBVIOUS
  <2>1. CASE k # g
    <3>1. r.gatherers[k] = p.gatherers[k] /\ r.local[k] = p.local[k]
      BY <1>5, <1>6, <1>7, <2>1, Zenon DEF OnlyCands
    <3>2. OneGathers(o, k)
      BY <1>4
    <3>3. /\ r.timers = o.timers /\ r.found = o.found /\ r.bundle = o.bundle
          /\ r.local # <<>> /\ o.local # <<>>
          /\ r.gatherers[k] = o.gatherers[k] /\ r.local[k] = o.local[k]
      BY <1>3, <1>4, <1>5, <1>6, <1>8, <3>1, ZenonT(30)
    <3> QED
      BY <3>2, <3>3 DEF OneGathers
  <2>2. CASE k = g
    <3>1. r.local[g].cands = p.local[g].cands \cup {F[i] : i \in 1 .. Len(F)}
      BY <1>5, Zenon DEF OnlyCands
    <3>2. ASSUME NEW n \in DOMAIN p.found, p.found[n] \in r.local[g].cands
          PROVE  /\ n < p.gatherers[g].next
                 /\ \A j \in DOMAIN o.timers :
                        o.timers[j].gatherer = g => Len(o.timers[j].found) < n
      <4>1. CASE p.found[n] \in p.local[g].cands
        BY <1>2, <1>3, <1>4, <4>1 DEF OneGathers
      <4>2. CASE p.found[n] \in {F[i] : i \in 1 .. Len(F)}
        <5>1. PICK i \in 1 .. Len(F) : p.found[n] = F[i]
          BY <4>2
        <5>2. n = i
          BY <1>9, <5>1
        <5> QED
          BY <1>3, <1>4, <1>9, <5>2
      <4> QED
        BY <3>1, <3>2, <4>1, <4>2
    <3>3. OneGathers(p, g)
      BY <1>2, <1>3
    <3> QED
      BY <1>3, <1>5, <1>6, <1>8, <2>2, <3>2, <3>3, ZenonT(30) DEF OneGathers
  <2> QED
    BY <2>1, <2>2
<1>11. \A k \in DOMAIN r.timers : OneReplays(r, k)
  <2> SUFFICES ASSUME NEW k \in DOMAIN o.timers PROVE OneReplays(r, k)
    BY <1>5
  <2>1. OneReplays(o, k)
    BY <1>4
  <2>2. o.timers[k].gatherer # g
    BY <1>4
  <2>3. r.gatherers[o.timers[k].gatherer] = p.gatherers[o.timers[k].gatherer]
    BY <1>4, <1>6, <2>1, <2>2 DEF OneReplays
  <2> QED
    BY <1>4, <1>5, <1>6, <2>1, <2>3, ZenonT(30) DEF OneReplays
<1>12. Gathering(r)
  BY <1>6, <1>8, <1>10, <1>11, GatheringIs
<1>13. ~p.closed => /\ \A e \in ToSet(p.surfaced) : e \in ToSet(r.surfaced)
                    /\ \A n \in 1 .. Len(F) : F[n] # END => <<g, F[n]>> \in ToSet(r.surfaced)
  <2> SUFFICES ASSUME ~p.closed
               PROVE  /\ \A e \in ToSet(p.surfaced) : e \in ToSet(r.surfaced)
                      /\ \A n \in 1 .. Len(F) : F[n] # END => <<g, F[n]>> \in ToSet(r.surfaced)
    OBVIOUS
  <2> DEFINE t == Told(g, F, Len(F))
             l == IF Len(F) > 0 /\ F[Len(F)] = END THEN Len(F) - 1 ELSE Len(F)
  <2>1. t = [k \in 1 .. l |-> <<g, F[k]>>] /\ l \in Nat /\ l <= Len(F)
    BY <1>9 DEF Told
  <2>2. g \in 1 .. 2
    BY <1>3, <1>7
  <2>3. \A k \in 1 .. l : k \in 1 .. Len(F) /\ F[k] # END
    BY <1>9, <2>1
  <2>4. \A n \in 1 .. Len(F) : F[n] # END => n \in 1 .. l
    BY <1>9, <2>1
  <2> HIDE DEF l
  <2>5. \A k \in 1 .. l : <<g, F[k]>> \in LocalCands
    <3> SUFFICES ASSUME NEW k \in 1 .. l PROVE <<g, F[k]>> \in LocalCands
      OBVIOUS
    <3>1. F[k] \in FoundKinds /\ F[k] # END
      BY <1>3, <2>3
    <3> QED
      BY <2>2, <3>1, EndIs, LocalCandsIs
  <2>6. t \in Seq(LocalCands) /\ Len(t) = l /\ \A k \in 1 .. l : t[k] = <<g, F[k]>>
    BY <2>1, <2>5
  <2> HIDE DEF t
  <2>7. r.surfaced = p.surfaced \o t
    BY <1>5 DEF t
  <2>8. /\ Len(p.surfaced \o t) = Len(p.surfaced) + l
        /\ \A n \in 1 .. Len(p.surfaced) : (p.surfaced \o t)[n] = p.surfaced[n]
        /\ \A n \in 1 .. l : (p.surfaced \o t)[Len(p.surfaced) + n] = t[n]
        /\ p.surfaced \o t \in Seq(LocalCands) /\ Len(p.surfaced) \in Nat
    BY <1>1, <2>1, <2>6
  <2>9. \A e \in ToSet(p.surfaced) : e \in ToSet(r.surfaced)
    <3> SUFFICES ASSUME NEW n \in 1 .. Len(p.surfaced) PROVE p.surfaced[n] \in ToSet(r.surfaced)
      BY <1>1 DEF ToSet
    <3>1. n \in DOMAIN r.surfaced /\ r.surfaced[n] = p.surfaced[n]
      BY <2>1, <2>7, <2>8
    <3> QED
      BY <3>1 DEF ToSet
  <2>10. ASSUME NEW n \in 1 .. Len(F), F[n] # END PROVE <<g, F[n]>> \in ToSet(r.surfaced)
    <3>1. n \in 1 .. l
      BY <2>4, <2>10
    <3>2. Len(p.surfaced) + n \in DOMAIN r.surfaced
          /\ r.surfaced[Len(p.surfaced) + n] = <<g, F[n]>>
      BY <2>1, <2>6, <2>7, <2>8, <3>1
    <3> QED
      BY <3>2 DEF ToSet
  <2> QED
    BY <2>9, <2>10
<1>14. \A k \in DOMAIN p.gatherers : OneKept(r, k)
  <2> SUFFICES ASSUME NEW k \in DOMAIN p.gatherers, ~p.closed, ~(p.bundle /\ k = 2)
               PROVE  \A n \in 1 .. r.gatherers[k].next - 1 :
                         \/ p.found[n] = END
                         \/ <<k, p.found[n]>> \in ToSet(r.surfaced)
                         \/ \E j \in DOMAIN o.timers :
                                o.timers[j].gatherer = k /\ n <= Len(o.timers[j].found)
    <3>1. r.found = p.found /\ r.timers = o.timers /\ r.bundle = p.bundle /\ r.closed = p.closed
      BY <1>5, <1>6
    <3> QED
      BY <3>1 DEF OneKept
  <2>1. CASE k # g
    <3>1. r.gatherers[k] = p.gatherers[k] /\ OneKept(o, k)
      BY <1>4, <1>6, <2>1
    <3>2. \A n \in 1 .. p.gatherers[k].next - 1 :
             \/ p.found[n] = END
             \/ <<k, p.found[n]>> \in ToSet(p.surfaced)
             \/ \E j \in DOMAIN o.timers :
                    o.timers[j].gatherer = k /\ n <= Len(o.timers[j].found)
      BY <1>3, <1>4, <1>6, <3>1, ZenonT(30) DEF OneKept
    <3> QED
      BY <1>13, <3>1, <3>2
  <2>2. CASE k = g
    <3> SUFFICES ASSUME NEW n \in 1 .. p.gatherers[g].next - 1
                 PROVE  p.found[n] = END \/ <<g, p.found[n]>> \in ToSet(r.surfaced)
      BY <1>6, <2>2, Zenon
    <3>1. \/ p.found[n] = END
          \/ <<g, p.found[n]>> \in ToSet(p.surfaced)
          \/ \E j \in DOMAIN p.timers : p.timers[j].gatherer = g /\ n <= Len(p.timers[j].found)
      BY <1>2, <1>3, <2>2 DEF OneKept
    <3>2. (\E j \in DOMAIN p.timers : p.timers[j].gatherer = g /\ n <= Len(p.timers[j].found))
          => n \in 1 .. Len(F)
      BY <1>1, <1>3, <1>9
    <3>3. n \in 1 .. Len(F) => p.found[n] = F[n]
      BY <1>9
    <3> QED
      BY <1>13, <3>1, <3>2, <3>3
  <2> QED
    BY <2>1, <2>2
<1>15. Kept(r)
  BY <1>6, <1>14, KeptIs
<1> QED
  BY <1>5, <1>8, <1>12, <1>15 DEF Live

\* The gatherer of a line that shares the transports of the first is not heard.
LEMMA Unheard ==
    ASSUME NEW p, NEW g, NEW c, p.bundle, p.gatherers[g].line = 2
    PROVE  LocalCandidate(p, g, c) = p
<1>1. p.bundle /\ p.gatherers[g].line > 1
  OBVIOUS
<1> QED
  BY <1>1, Zenon DEF LocalCandidate

LEMMA Stays ==
    ASSUME NEW f, NEW o, NEW l \in 0 .. 3, f[0] = o, \A n \in 1 .. l : f[n - 1] = o => f[n] = o
    PROVE  f[l] = o
<1>1. 1 \in 1 .. l => f[1] = o
  BY 1 - 1 = 0
<1>2. 2 \in 1 .. l => f[2] = o
  BY <1>1, 2 - 1 = 1
<1>3. 3 \in 1 .. l => f[3] = o
  BY <1>2, 3 - 1 = 2
<1>4. l = 0 \/ l = 1 \/ l = 2 \/ l = 3
  OBVIOUS
<1> QED
  BY <1>1, <1>2, <1>3, <1>4

LEMMA ReplaysUnheard ==
    ASSUME NEW o, NEW task, NEW F, F = task.found, Len(F) \in 0 .. 3,
           o.gatherers[task.gatherer].handler # "none",
           \A c : LocalCandidate(o, task.gatherer, c) = o
    PROVE  Replay(o, task) = o
<1>1. PICK l \in 0 .. 3 : l = Len(F)
  OBVIOUS
<1>2. PICK f : /\ Replay(o, task) = f[Len(F)] /\ f[0] = o
               /\ \A n \in 1 .. Len(F) : f[n] = LocalCandidate(f[n - 1], task.gatherer, F[n])
  BY ReplayIs
<1>3. \A n \in 1 .. l : f[n - 1] = o => f[n] = o
  BY <1>1, <1>2
<1>4. f[l] = o
  BY <1>2, <1>3, Stays
<1> QED
  BY <1>1, <1>2, <1>4

LEMMA ReplayLive ==
    ASSUME NEW p \in PCType, NEW left, Live(p, left), p.timers # <<>>
    PROVE  LET r == Replay([p EXCEPT !.timers = Tail(@)], Head(p.timers))
           IN r \in PCType /\ Live(r, left)
<1> DEFINE task == Head(p.timers)
           g == task.gatherer
           F == task.found
<1>1. PICK o : o = [p EXCEPT !.timers = Tail(@)]
  OBVIOUS
<1>2. TimerTaken(p, o, g)
  BY <1>1, TimerTakenIs
<1>3. p.timers \in Seq(TimerType) /\ task = p.timers[1] /\ 1 \in DOMAIN p.timers
  BY TailIs DEF PCType
<1>4. OneReplays(p, 1) /\ p.local # <<>>
  BY <1>3, GatheringIs DEF Live
<1>5. g \in DOMAIN p.gatherers /\ F \in Seq(FoundKinds) /\ Prefix(F, p.found)
  BY <1>3, <1>4, GatherTyped DEF OneReplays
<1>6. OneGathers(p, g)
  BY <1>5, GatheringIs DEF Live
<1>7. /\ o \in PCType /\ o.gatherers = p.gatherers /\ o.local = p.local /\ o.found = p.found
      /\ o.bundle = p.bundle
  BY <1>2 DEF TimerTaken, SameButFound
<1>8. g \in 1 .. 2 /\ p.gatherers[g].line = g /\ g \in DOMAIN p.local
  <2>1. g \in 1 .. 2
    BY <1>3, GatherTyped
  <2>2. p.local \in Seq(LineType) /\ Len(p.local) = 2
    BY <1>4 DEF Live, Written, PCType
  <2>3. DOMAIN p.local = 1 .. 2
    BY <2>2
  <2> QED
    BY <1>6, <2>1, <2>3 DEF OneGathers
<1>9. CASE p.gatherers[g].handler = "none"
  <2>1. p.bundle /\ g = 2
    BY <1>6, <1>9 DEF OneGathers
  <2>2. Replay(o, task) = o
    BY <1>7, <1>9 DEF Replay
  <2>3. Live(o, left)
    BY <1>2, <2>1, TakenLive
  <2> QED
    BY <1>1, <1>7, <2>2, <2>3
<1>10. CASE p.gatherers[g].handler # "none" /\ p.bundle /\ g = 2
  <2> DEFINE r == Replay(o, task)
  <2>1. \A c : LocalCandidate(o, g, c) = o
    <3>1. o.bundle /\ o.gatherers[g].line = 2
      BY <1>7, <1>8, <1>10
    <3> QED
      BY <3>1, Unheard
  <2>2. Len(F) \in 0 .. 3 /\ o.gatherers[g].handler # "none"
    BY <1>5, <1>7, <1>10, PrefixIs
  <2>7. r = o
    BY <2>1, <2>2, ReplaysUnheard
  <2>8. Live(o, left)
    BY <1>2, <1>10, TakenLive
  <2> QED
    BY <1>1, <1>7, <2>7, <2>8
<1>11. CASE p.gatherers[g].handler # "none" /\ ~(p.bundle /\ g = 2)
  <2>1. Replayed(o, Replay(o, task), g, F, Len(F))
    BY <1>5, <1>7, <1>8, <1>11, ReplaysAll
  <2>2. /\ Len(F) < p.gatherers[g].next
        /\ \A j \in DOMAIN p.timers : p.timers[j].gatherer = g => p.timers[j].found = F
    BY <1>3, <1>4 DEF OneReplays
  <2>3. PICK r : r = Replay(o, task)
    OBVIOUS
  <2>4. r \in PCType /\ Live(r, left)
    BY <1>2, <1>4, <1>5, <1>11, <2>1, <2>2, <2>3, ReplayedLive
  <2> QED
    BY <1>1, <2>3, <2>4
<1> QED
  BY <1>9, <1>10, <1>11

-----------------------------------------------------------------------------
(* The calls of the page.                                                  *)

LEMMA Heads ==
    /\ Head(<<"setLocal">>) = "setLocal" /\ Tail(<<"setLocal">>) = <<>>
    /\ Head(<<"createAnswer", "setLocal">>) = "createAnswer"
    /\ Tail(<<"createAnswer", "setLocal">>) = <<"setLocal">>
    /\ Head(<<"addStream", "createAnswer", "setLocal">>) = "addStream"
    /\ Tail(<<"addStream", "createAnswer", "setLocal">>) = <<"createAnswer", "setLocal">>
    /\ Head(<<"setRemote", "addStream", "createAnswer", "setLocal">>) = "setRemote"
    /\ Tail(<<"setRemote", "addStream", "createAnswer", "setLocal">>)
       = <<"addStream", "createAnswer", "setLocal">>
    /\ Head(<<"makeOffer", "setLocal">>) = "makeOffer"
    /\ Tail(<<"makeOffer", "setLocal">>) = <<"setLocal">>
  OBVIOUS

LEMMA HasPCLive ==
    ASSUME EInv, HasPC
    PROVE  Live(pc, calls) /\ pc \in PCType /\ ~pc.closed
  BY BareIs DEF EInv, Good, HasPC

\* Where in its chain the page is with a connection that is not closed.
LEMMA CallsAre ==
    ASSUME EInv, calls # <<>>
    PROVE  \/ /\ Bare(pc) /\ pc.role = "observer" /\ Head(calls) = "setRemote"
              /\ Tail(calls) = <<"addStream", "createAnswer", "setLocal">>
           \/ /\ Live(pc, <<"addStream", "createAnswer", "setLocal">>)
              /\ pc.role = "observer" /\ Head(calls) = "addStream"
              /\ Tail(calls) = <<"createAnswer", "setLocal">>
           \/ /\ Live(pc, <<"createAnswer", "setLocal">>)
              /\ pc.role = "observer" /\ Head(calls) = "createAnswer"
              /\ Tail(calls) = <<"setLocal">>
           \/ /\ Live(pc, <<"setLocal">>) /\ pc.role = "observer" /\ Head(calls) = "setLocal"
              /\ Tail(calls) = <<>>
           \/ /\ Bare(pc) /\ pc.role # "observer" /\ Head(calls) = "makeOffer"
              /\ Tail(calls) = <<"setLocal">>
           \/ /\ Live(pc, <<"setLocal">>) /\ pc.role # "observer" /\ Head(calls) = "setLocal"
              /\ Tail(calls) = <<>>
<1>1. CASE Bare(pc) /\ calls = Chain(pc.role)
  BY <1>1, Heads DEF Chain
<1>2. CASE Live(pc, calls)
  <2>1. CASE pc.role = "observer"
    <3>1. AnswerStage(pc, calls)
      BY <1>2, <2>1 DEF Live
    <3>2. \/ calls = <<"addStream", "createAnswer", "setLocal">>
          \/ calls = <<"createAnswer", "setLocal">>
          \/ calls = <<"setLocal">>
      BY <3>1 DEF AnswerStage
    <3> QED
      BY <1>2, <2>1, <3>2, Heads
  <2>2. CASE pc.role # "observer"
    <3>1. OfferStage(pc, calls)
      BY <1>2, <2>2 DEF Live
    <3>2. calls = <<"setLocal">>
      BY <3>1 DEF OfferStage
    <3> QED
      BY <1>2, <2>2, <3>2, Heads
  <2> QED
    BY <2>1, <2>2
<1> QED
  BY <1>1, <1>2 DEF EInv, Good

LEMMA Ran ==
    ASSUME EInv, NEW call, NEW q, Runs(call, q),
           ~pc.closed => q \in PCType /\ Live(q, Tail(calls))
    PROVE  EInv'
<1>1. trickles' \in Nat
  BY DEF Runs, EInv
<1>2. CASE pc.closed
  <2>1. Live(pc, calls) /\ pc \in PCType
    BY <1>2, BareIs DEF EInv, Good
  <2>2. pc' = pc /\ calls' = <<>>
    BY <1>2 DEF Runs
  <2>3. Live(pc, <<>>)
    BY <1>2, <2>1, ClosedEnds
  <2> QED
    BY <1>1, <2>1, <2>2, <2>3 DEF EInv, Good
<1>3. CASE ~pc.closed
  <2>1. pc' = q /\ calls' = Tail(calls)
    BY <1>3 DEF Runs
  <2> QED
    BY <1>1, <1>3, <2>1 DEF EInv, Good
<1> QED
  BY <1>2, <1>3

LEMMA OnlyPC ==
    ASSUME EInv, pc' \in PCType, Live(pc', calls), calls' = calls, trickles' \in Nat
    PROVE  EInv'
  BY DEF EInv, Good

LEMMA PageCallsKeep ==
    ASSUME EInv, PageCalls
    PROVE  EInv'
<1>0. pc \in PCType
  BY DEF EInv
<1>1. ASSUME NEW d \in Offers, MakeAnswer(d) PROVE EInv'
  <2>1. calls # <<>> /\ Head(calls) = "setRemote"
        /\ Runs("setRemote", SetRemoteDescription(pc, "offer", d, TRUE))
    BY <1>1 DEF MakeAnswer, Runs
  <2>2. /\ Bare(pc) /\ pc.role = "observer"
        /\ Tail(calls) = <<"addStream", "createAnswer", "setLocal">>
    BY <2>1, CallsAre
  <2>3. IsAsked(pc, SetRemoteDescription(pc, "offer", d, TRUE))
    BY <1>0, <2>2, OfferTaken
  <2>4. Live(SetRemoteDescription(pc, "offer", d, TRUE), Tail(calls))
    BY <1>0, <2>2, <2>3, AskedGood
  <2>5. SetRemoteDescription(pc, "offer", d, TRUE) \in PCType
    BY <2>3 DEF IsAsked
  <2> QED
    BY <2>1, <2>4, <2>5, Ran
<1>2. ASSUME AddsStream PROVE EInv'
  <2>1. calls # <<>> /\ Head(calls) = "addStream" /\ Runs("addStream", AddStream(pc))
    BY <1>2 DEF AddsStream, Runs
  <2>2. /\ Live(pc, <<"addStream", "createAnswer", "setLocal">>) /\ pc.role = "observer"
        /\ Tail(calls) = <<"createAnswer", "setLocal">>
    BY <2>1, CallsAre
  <2>3. ~pc.closed => AddStream(pc) \in PCType /\ Live(AddStream(pc), Tail(calls))
    BY <1>0, <2>2, StreamAdded
  <2> QED
    BY <2>1, <2>3, Ran
<1>3. ASSUME CreatesAnswer PROVE EInv'
  <2>1. calls # <<>> /\ Head(calls) = "createAnswer" /\ Runs("createAnswer", CreateAnswer(pc))
    BY <1>3 DEF CreatesAnswer, Runs
  <2>2. /\ Live(pc, <<"createAnswer", "setLocal">>) /\ pc.role = "observer"
        /\ Tail(calls) = <<"setLocal">>
    BY <2>1, CallsAre
  <2>3. ~pc.closed => CreateAnswer(pc) \in PCType /\ Live(CreateAnswer(pc), Tail(calls))
    BY <1>0, <2>2, AnswerCreated
  <2> QED
    BY <2>1, <2>3, Ran
<1>4. ASSUME MakeOffer PROVE EInv'
  <2>1. calls # <<>> /\ Head(calls) = "makeOffer"
        /\ Runs("makeOffer", CreateOffer(AddStream(pc)))
    BY <1>4 DEF MakeOffer, Runs
  <2>2. Bare(pc) /\ pc.role # "observer" /\ Tail(calls) = <<"setLocal">>
    BY <2>1, CallsAre
  <2>3. IsOffered(pc, CreateOffer(AddStream(pc)))
    BY <1>0, <2>2, OfferMade
  <2>4. Live(CreateOffer(AddStream(pc)), Tail(calls))
    BY <1>0, <2>2, <2>3, OfferedGood
  <2>5. CreateOffer(AddStream(pc)) \in PCType
    BY <2>3 DEF IsOffered
  <2> QED
    BY <2>1, <2>4, <2>5, Ran
<1>5. ASSUME SetsLocal PROVE EInv'
  <2> DEFINE type == IF pc.role = "observer" THEN "answer" ELSE "offer"
             q == IF Allowed("local", type, pc.signaling)
                  THEN SetLocalDescription(pc, type) ELSE Close(pc)
  <2>1. calls # <<>> /\ Head(calls) = "setLocal" /\ Runs("setLocal", q)
    BY <1>5 DEF SetsLocal, Runs
  <2>2. Live(pc, <<"setLocal">>) /\ Tail(calls) = <<>>
    BY <2>1, CallsAre
  <2>3. ~pc.closed => q \in PCType /\ Live(q, Tail(calls))
    <3>1. CASE pc.role = "observer"
      BY <1>0, <2>2, <3>1, AnswerSet
    <3>2. CASE pc.role # "observer"
      BY <1>0, <2>2, <3>2, OfferSet
    <3> QED
      BY <3>1, <3>2
  <2> QED
    BY <2>1, <2>3, Ran
<1> QED
  BY <1>1, <1>2, <1>3, <1>4, <1>5 DEF PageCalls

LEMMA PageKeeps ==
    ASSUME EInv, PageNext
    PROVE  EInv'
<1>0. pc \in PCType
  BY DEF EInv
<1>1. CASE PageCalls
  BY <1>1, PageCallsKeep
<1>2. ASSUME NEW d \in Answers, NEW detaches \in BOOLEAN, SetAnswer(d, detaches)
      PROVE  EInv'
  <2> DEFINE q == SetRemoteDescription(pc, "answer", d, detaches)
  <2>1. /\ Live(pc, <<>>) /\ ~pc.closed
        /\ pc' = q /\ calls = <<>> /\ calls' = calls /\ trickles' = trickles
    BY <1>2, HasPCLive DEF SetAnswer
  <2>2. pc.signaling = "have-local-offer"
    BY <1>2 DEF SetAnswer, Allowed
  <2>3. pc.role # "observer" /\ pc.remote = <<>> /\ pc.local # <<>>
    BY <2>1, <2>2 DEF Live, AnswerStage, OfferStage
  <2>4. d.bundle \in BOOLEAN
    BY AnswersAre
  <2>5. /\ q \in PCType /\ Taken(pc, q, d.bundle)
        /\ q.role = pc.role /\ q.found = pc.found /\ q.closed = pc.closed
        /\ q.bundle = d.bundle /\ q.signaling = "stable"
        /\ q.created = pc.created /\ q.local = pc.local /\ Len(q.remote) = 2 /\ q.remote # <<>>
        /\ q.ice = pc.ice /\ q.timers = pc.timers
        /\ q.surfaced = pc.surfaced /\ q.told = pc.told
    BY <1>0, <2>1, <2>2, <2>3, AnswerTaken
  <2> HIDE DEF q
  <2>6. Live(q, <<>>)
    BY <1>0, <2>1, <2>3, <2>4, <2>5, TakenGood
  <2> QED
    BY <2>1, <2>5, <2>6, OnlyPC DEF EInv
<1>3. ASSUME HasPC, pc' = Close(pc), UNCHANGED <<calls, trickles>> PROVE EInv'
  <2>1. Live(pc, calls) /\ IsClosed(pc, pc')
    BY <1>0, <1>3, HasPCLive, CloseIs
  <2>2. pc' \in PCType /\ Live(pc', calls)
    BY <1>0, <2>1, ClosedLive
  <2> QED
    BY <1>3, <2>2, OnlyPC DEF EInv
<1>4. ASSUME NEW i \in DOMAIN Lines, NEW c \in RemoteCands \cup {END}, AddsCandidate(i, c)
      PROVE  EInv'
  <2>1. /\ Live(pc, calls) /\ calls' = calls
        /\ pc' = IF c = END THEN EndOfCandidates(pc) ELSE AddIceCandidate(pc, i, c)
    BY <1>4, HasPCLive DEF AddsCandidate
  <2>2. trickles' \in Nat
    BY <1>4 DEF AddsCandidate, EInv
  <2>3. pc' = Close(pc) \/ pc' = pc \/ (pc' \in PCType /\ Hears(pc, pc'))
    <3>1. CASE c = END
      BY <1>0, <2>1, <3>1, CandidatesEnded
    <3>2. CASE c # END
      BY <1>0, <2>1, <3>2, CandidateAdded
    <3> QED
      BY <3>1, <3>2
  <2>4. pc' \in PCType /\ Live(pc', calls)
    <3>1. CASE pc' = Close(pc)
      BY <1>0, <2>1, <3>1, CloseIs, ClosedLive
    <3>2. CASE pc' = pc
      BY <1>0, <2>1, <3>2
    <3>3. CASE pc' \in PCType /\ Hears(pc, pc')
      BY <1>0, <2>1, <3>3, HearsLive
    <3> QED
      BY <2>3, <3>1, <3>2, <3>3
  <2> QED
    BY <2>1, <2>2, <2>4, OnlyPC
<1> QED
  BY <1>1, <1>2, <1>3, <1>4 DEF PageNext, RefusesAnswer, Closes

LEMMA BrowserKeeps ==
    ASSUME EInv, BrowserNext
    PROVE  EInv'
<1>0. pc \in PCType /\ trickles \in Nat
  BY DEF EInv
<1>1. Live(pc, calls)
  <2>1. CASE Bare(pc)
    <3>1. /\ pc.gatherers = <<>> /\ pc.transports = <<>> /\ pc.timers = <<>>
          /\ DOMAIN pc.gatherers = {} /\ DOMAIN pc.transports = {} /\ ~pc.late
      BY <2>1, BareIs DEF Bare, New
    <3> QED
      BY <3>1 DEF BrowserNext, TimerFires, LateTimerFires
  <2> QED
    BY <2>1 DEF EInv, Good
<1>2. ASSUME NEW g \in DOMAIN pc.gatherers, GathererFinds(g) PROVE EInv'
  <2>1. pc' \in PCType /\ Live(pc', calls)
    BY <1>0, <1>1, <1>2, FindsLive DEF GathererFinds
  <2> QED
    BY <1>0, <1>2, <2>1, OnlyPC DEF GathererFinds
<1>3. ASSUME TimerFires PROVE EInv'
  <2>1. pc.timers # <<>> /\ calls' = calls /\ trickles' = trickles
        /\ pc' = Replay([pc EXCEPT !.timers = Tail(@)], Head(pc.timers))
    BY <1>3 DEF TimerFires
  <2>2. pc' \in PCType /\ Live(pc', calls)
    BY <1>0, <1>1, <2>1, ReplayLive
  <2> QED
    BY <1>0, <2>1, <2>2, OnlyPC
<1>4. ASSUME LateTimerFires PROVE EInv'
  <2>1. pc' \in PCType /\ Hears(pc, pc')
    BY <1>0, <1>4, TimedOut DEF LateTimerFires
  <2>2. Live(pc', calls)
    BY <1>0, <1>1, <2>1, HearsLive
  <2> QED
    BY <1>0, <1>4, <2>1, <2>2, OnlyPC DEF LateTimerFires
<1>5. ASSUME NEW t \in DOMAIN pc.transports, NEW s \in IceTargets, IceChanges(t, s) PROVE EInv'
  <2> DEFINE q == [pc EXCEPT !.transports[t].ice = s]
             h == IF q.transports[t].attached THEN IceHandler(q) ELSE q
  <2>1. /\ pc.transports[t].started /\ <<pc.transports[t].ice, s>> \in IceMoves
        /\ pc' = h /\ calls' = calls /\ trickles' = trickles
    BY <1>5 DEF IceChanges
  <2>2. h \in PCType /\ Live(h, calls)
    BY <1>0, <1>1, <2>1, IceChanged
  <2> HIDE DEF h
  <2> QED
    BY <1>0, <2>1, <2>2, OnlyPC
<1>6. ASSUME NEW t \in DOMAIN pc.transports, TransportStops(t) PROVE EInv'
  <2>1. pc' \in PCType /\ Live(pc', calls)
    BY <1>0, <1>1, <1>6, Stopped DEF TransportStops
  <2> QED
    BY <1>0, <1>6, <2>1, OnlyPC DEF TransportStops
<1> QED
  BY <1>2, <1>3, <1>4, <1>5, <1>6 DEF BrowserNext

LEMMA Inductive == Spec => []EInv
<1>1. Init => EInv
  BY InitGood
<1>2. EInv /\ [Next]_vars => EInv'
  <2>1. ASSUME EInv, Next PROVE EInv'
    BY <2>1, PageKeeps, BrowserKeeps DEF Next
  <2>2. ASSUME EInv, UNCHANGED vars PROVE EInv'
    BY <2>2 DEF vars, EInv, Good
  <2> QED
    BY <2>1, <2>2
<1> QED
  BY <1>1, <1>2, PTL DEF Spec

-----------------------------------------------------------------------------
(* What the page relies on.                                                *)

LEMMA NoElements == DOMAIN <<>> = {} /\ Len(<<>>) = 0
<1>1. Len(<<>>) = 0 /\ DOMAIN <<>> = 1 .. 0
  OBVIOUS
<1> QED
  BY <1>1

LEMMA BareEmpty ==
    ASSUME NEW p, Bare(p)
    PROVE  /\ DOMAIN p.transceivers = {} /\ Len(p.transceivers) = 0
           /\ DOMAIN p.gatherers = {} /\ p.signaling = "stable" /\ p.closed = FALSE
           /\ p.ice = "new" /\ p.told = "new" /\ InUse(p) = {}
<1>1. DOMAIN p.transceivers = {} /\ Len(p.transceivers) = 0 /\ DOMAIN p.gatherers = {}
  <2>1. p.transceivers = <<>> /\ p.gatherers = <<>>
    BY BareIs
  <2> QED
    BY <2>1, NoElements
<1>2. InUse(p) = {}
  BY <1>1 DEF InUse
<1> QED
  BY <1>1, <1>2, BareIs

LEMMA TypeFollows == EInv => EdgeTypeOK
<1> SUFFICES ASSUME EInv PROVE EdgeTypeOK
  OBVIOUS
<1>0. pc \in PCType
  BY DEF EInv
<1>1. Len(Lines) = 2
  BY DEF Lines
<1>2. /\ Len(pc.transceivers) <= Len(Lines)
      /\ \A i \in DOMAIN pc.transceivers : pc.transceivers[i].kind = Lines[i]
      /\ pc.closed = (pc.signaling = "closed")
  <2>1. CASE Bare(pc)
    <3>1. pc.signaling # "closed" /\ ~pc.closed
      BY <2>1, BareEmpty
    <3>2. pc.closed \in BOOLEAN
      BY <1>0 DEF PCType
    <3>3. DOMAIN pc.transceivers = {} /\ Len(pc.transceivers) = 0
      BY <2>1, BareEmpty
    <3> QED
      BY <1>1, <3>1, <3>2, <3>3
  <2>2. CASE Live(pc, calls)
    <3>1. Lined(pc) /\ Running(pc)
      BY <2>2 DEF Live
    <3>2. /\ Len(pc.transceivers) = 2 /\ pc.transceivers \in Seq(TransceiverType)
          /\ pc.transceivers[1].kind = "audio" /\ pc.transceivers[2].kind = "video"
      BY <1>0, <3>1 DEF Lined, PCType
    <3>3. DOMAIN pc.transceivers = 1 .. 2
      BY <3>2
    <3> QED
      BY <1>1, <3>1, <3>2, <3>3, LinesAre DEF Running
  <2> QED
    BY <2>1, <2>2 DEF EInv, Good
<1>3. /\ pc.transports \in Seq(TransportType) /\ pc.transceivers \in Seq(TransceiverType)
      /\ pc.surfaced \in Seq(LocalCands)
      /\ pc.signaling \in {"stable", "have-local-offer", "have-remote-offer", "closed"}
      /\ pc.gathering \in {"new", "gathering", "complete"}
  BY <1>0 DEF PCType
<1>4. ToSet(pc.surfaced) \subseteq LocalCands
  BY <1>3 DEF ToSet
<1> QED
  BY <1>2, <1>3, <1>4 DEF EdgeTypeOK

LEMMA LinesFollow == EInv => LinesAgree
<1> SUFFICES ASSUME EInv, NEW i \in DOMAIN pc.transceivers, ~pc.transceivers[i].rejected
             PROVE  LET x == pc.transceivers[i]
                        first == pc.transceivers[1]
                    IN /\ {x.sender, x.receiver} \subseteq {None, x.transport}
                       /\ (pc.bundle /\ pc.remote # <<>>) =>
                              x.transport = first.transport /\ x.gatherer = first.gatherer
                       /\ (~pc.bundle /\ i > 1) => x.transport # first.transport
                       /\ (x.sending /\ pc.local # <<>>) => pc.local[i].sends
                       /\ (x.receiving /\ pc.local # <<>>) => pc.local[i].takes
  BY DEF LinesAgree
<1>1. pc \in PCType /\ Live(pc, calls)
  BY BareEmpty DEF EInv, Good
<1>2. Lined(pc) /\ Written(pc)
  BY <1>1 DEF Live
<1>3. i = 1 \/ i = 2
  BY <1>1, <1>2 DEF Lined, PCType
<1>4. CASE i = 1
  BY <1>2, <1>4 DEF Lined, Written, Second
<1>5. CASE i = 2
  <2>1. pc.transceivers[2] # Refused("video")
    BY <1>5 DEF Refused
  <2> QED
    BY <1>2, <1>5, <2>1 DEF Lined, Written, Second
<1> QED
  BY <1>3, <1>4, <1>5

LEMMA ToldFollows == EInv => ToldTheWorst
<1> SUFFICES ASSUME EInv, ~pc.closed, ~Broken(pc)
             PROVE  /\ pc.told = pc.ice
                    /\ pc.told \in Up <=> /\ InUse(pc) # {}
                                          /\ \A t \in InUse(pc) : pc.transports[t].ice \in Up
                    /\ pc.told = "disconnected" =>
                           \E t \in InUse(pc) : pc.transports[t].ice = "disconnected"
  BY DEF ToldTheWorst
<1>1. CASE Bare(pc)
  BY <1>1, BareEmpty DEF Up
<1>2. CASE Live(pc, calls)
  <2>1. pc \in PCType /\ Lined(pc) /\ Running(pc)
    BY <1>2 DEF Live, EInv
  <2>2. pc.told = pc.ice /\ pc.ice = IceState(pc)
    BY <2>1 DEF Running
  <2>3. InUse(pc) # {} /\ InUse(pc) \subseteq DOMAIN pc.transports
    BY <2>1, LinedInUse
  <2>4. \A t \in InUse(pc) : pc.transports[t].ice \in IceKinds
    <3> SUFFICES ASSUME NEW t \in DOMAIN pc.transports PROVE pc.transports[t].ice \in IceKinds
      BY <2>3
    <3>1. pc.transports[t] \in TransportType
      BY <2>1 DEF PCType
    <3> QED
      BY <2>1, <3>1 DEF Running, TransportType, IceKinds
  <2> QED
    BY <2>2, <2>3, <2>4, IceStateIs
<1> QED
  BY <1>1, <1>2 DEF EInv, Good

LEMMA KeptFollows == EInv => NoCandidateLost
<1> SUFFICES ASSUME EInv, NEW g \in DOMAIN pc.gatherers, ~pc.closed,
                    ~(pc.bundle /\ pc.gatherers[g].line > 1),
                    NEW n \in 1 .. pc.gatherers[g].next - 1
             PROVE  LET x == pc.gatherers[g]
                        replayed == UNION {ToSet(pc.timers[k].found) :
                            k \in {k \in DOMAIN pc.timers : pc.timers[k].gatherer = g}}
                        waits == IF pc.local = <<>> THEN ToSet(x.buffer) ELSE replayed
                    IN \/ pc.found[n] \in waits \cup {END}
                       \/ <<x.line, pc.found[n]>> \in ToSet(pc.surfaced)
  BY DEF NoCandidateLost
<1> DEFINE replayed == UNION {ToSet(pc.timers[k].found) :
                            k \in {k \in DOMAIN pc.timers : pc.timers[k].gatherer = g}}
<1>1. CASE Bare(pc)
  BY <1>1, BareEmpty
<1>2. CASE Live(pc, calls)
  <2>1. /\ pc \in PCType /\ OneGathers(pc, g) /\ OneKept(pc, g)
        /\ \A k \in DOMAIN pc.timers : OneReplays(pc, k)
    BY <1>2, GatheringIs, KeptIs DEF Live, EInv
  <2>2. pc.gatherers[g].line = g /\ pc.gatherers[g].next \in Nat
    BY <2>1, GatherTyped DEF OneGathers
  <2>3. CASE pc.local = <<>>
    <3>1. /\ pc.gatherers[g].buffer \in Seq(FoundKinds)
          /\ Prefix(pc.gatherers[g].buffer, pc.found)
          /\ Len(pc.gatherers[g].buffer) = pc.gatherers[g].next - 1
      BY <2>1, <2>3, GatherTyped DEF OneGathers, GathererType
    <3>2. n \in DOMAIN pc.gatherers[g].buffer /\ pc.gatherers[g].buffer[n] = pc.found[n]
      BY <2>2, <3>1 DEF Prefix
    <3>3. pc.found[n] \in ToSet(pc.gatherers[g].buffer)
      BY <3>2 DEF ToSet
    <3> QED
      BY <2>3, <3>3
  <2>4. CASE pc.local # <<>>
    <3>1. ~(pc.bundle /\ g = 2)
      BY <2>2
    <3>2. \/ pc.found[n] = END
          \/ <<g, pc.found[n]>> \in ToSet(pc.surfaced)
          \/ \E k \in DOMAIN pc.timers : pc.timers[k].gatherer = g /\ n <= Len(pc.timers[k].found)
      BY <2>1, <2>4, <3>1 DEF OneKept
    <3>3. ASSUME NEW k \in DOMAIN pc.timers, pc.timers[k].gatherer = g,
                 n <= Len(pc.timers[k].found)
          PROVE  pc.found[n] \in replayed
      <4>1. pc.timers[k].found \in Seq(FoundKinds) /\ Prefix(pc.timers[k].found, pc.found)
        BY <2>1, GatherTyped DEF OneReplays
      <4>2. n \in DOMAIN pc.timers[k].found /\ pc.timers[k].found[n] = pc.found[n]
        BY <2>2, <3>3, <4>1 DEF Prefix
      <4>3. pc.found[n] \in ToSet(pc.timers[k].found)
        BY <4>2 DEF ToSet
      <4> QED
        BY <3>3, <4>3
    <3> QED
      BY <2>2, <2>4, <3>2, <3>3
  <2> QED
    BY <2>3, <2>4
<1> QED
  BY <1>1, <1>2 DEF EInv, Good

\* EdgeTypeOK: every part of the connection has its type, in every reachable state, and
\* each line its own transceiver, of its kind.
THEOREM TypeCorrect == Spec => []EdgeTypeOK
  BY Inductive, TypeFollows, PTL

\* LinesAgree: bundled lines share the transports of the first and lines that are not
\* bundled share none; no line sends or receives what its local description denies.
THEOREM LinesAlwaysAgree == Spec => []LinesAgree
  BY Inductive, LinesFollow, PTL

\* ToldTheWorst: unless a line was refused, what an open connection told the page last is
\* how it is: "connected" when every line is, and never before.
THEOREM PageIsToldTheWorst == Spec => []ToldTheWorst
  BY Inductive, ToldFollows, PTL

\* NoCandidateLost: what a gatherer found waits in its buffer, then in the timer that
\* replays it, or the page has heard of it.
THEOREM CandidatesAreKept == Spec => []NoCandidateLost
  BY Inductive, KeptFollows, PTL

-----------------------------------------------------------------------------
(* What the page relies on, step by step.                                  *)

\* The candidates written into the local description.
Described(p) == UNION {{<<i, c>> : c \in p.local[i].cands \ {END}} : i \in DOMAIN p.local}

SameDescriptions(p, q) ==
    (q.local # <<>>) = (p.local # <<>>) /\ (q.remote # <<>>) = (p.remote # <<>>)

\* The page sees no difference.
Same(p, q) ==
    /\ q.signaling = p.signaling /\ SameDescriptions(p, q)
    /\ Described(q) = Described(p) /\ q.surfaced = p.surfaced /\ q.told = p.told

\* The steps of Jsep, from one connection to the next.
SetsOwn(p, q) ==
    /\ p.local = <<>> /\ q.local # <<>>
    /\ \/ p.signaling = "stable" /\ q.signaling = "have-local-offer"
       \/ p.signaling = "have-remote-offer" /\ q.signaling = "stable"
    /\ (q.remote # <<>>) = (p.remote # <<>>)
    /\ Described(q) = Described(p) /\ q.surfaced = p.surfaced /\ q.told = p.told

SetsOther(p, q) ==
    /\ p.remote = <<>> /\ q.remote # <<>>
    /\ \/ p.signaling = "stable" /\ q.signaling = "have-remote-offer"
       \/ p.signaling = "have-local-offer" /\ q.signaling = "stable"
    /\ (q.local # <<>>) = (p.local # <<>>)
    /\ Described(q) = Described(p) /\ q.surfaced = p.surfaced /\ q.told = p.told

Tells(p, q, cs) ==
    /\ cs \in SeqOf(LocalCands, 3) /\ cs # <<>> /\ IsInjective(cs)
    /\ Described(p) \cap ToSet(cs) = {}
    /\ Described(q) = Described(p) \cup ToSet(cs)
    /\ q.surfaced = IF p.signaling = "closed" THEN p.surfaced ELSE p.surfaced \o cs

Trickles(p, q) ==
    /\ p.local # <<>> /\ q.signaling = p.signaling /\ SameDescriptions(p, q) /\ q.told = p.told
    /\ \E cs : Tells(p, q, cs)

Reports(p, q) ==
    /\ p.local # <<>> /\ p.remote # <<>> /\ p.signaling = "stable"
    /\ q.told \in IceKinds \ {p.told}
    /\ q.signaling = IF q.told = "failed" THEN "closed" ELSE "stable"
    /\ SameDescriptions(p, q) /\ Described(q) = Described(p) /\ q.surfaced = p.surfaced

Shuts(p, q) ==
    /\ p.signaling # "closed" /\ q.signaling = "closed"
    /\ SameDescriptions(p, q)
    /\ Described(q) = Described(p) /\ q.surfaced = p.surfaced /\ q.told = p.told

Steps(p, q) ==
    Same(p, q) \/ SetsOwn(p, q) \/ SetsOther(p, q) \/ Trickles(p, q) \/ Reports(p, q)
    \/ Shuts(p, q)

LEMMA StartsAsJsep == Init => J!Init
<1> SUFFICES ASSUME NEW role \in Roles, pc = New(role) PROVE J!Init
  BY DEF Init
<1>1. /\ pc.signaling = "stable" /\ pc.local = <<>> /\ pc.remote = <<>>
      /\ pc.surfaced = <<>> /\ pc.told = "new"
  BY DEF New
<1>2. UNION {{<<i, c>> : c \in pc.local[i].cands \ {END}} : i \in DOMAIN pc.local} = {}
  BY <1>1, NoElements
<1> QED
  BY <1>1, <1>2 DEF J!Init

LEMMA StepsAreJsep ==
    ASSUME Steps(pc, pc')
    PROVE  [J!Next]_(J!vars)
<1> DEFINE D == UNION {{<<i, c>> : c \in pc.local[i].cands \ {END}} : i \in DOMAIN pc.local}
<1>0. Described(pc) = D /\ Described(pc') = D'
  BY DEF Described
<1>1. CASE Same(pc, pc')
  <2>1. J!vars' = J!vars
    BY <1>0, <1>1 DEF Same, SameDescriptions, J!vars
  <2> QED
    BY <2>1
<1>2. CASE SetsOwn(pc, pc')
  <2>1. J!SetLocal
    BY <1>0, <1>2 DEF SetsOwn, J!SetLocal
  <2> QED
    BY <2>1 DEF J!Next
<1>3. CASE SetsOther(pc, pc')
  <2>1. J!SetRemote
    BY <1>0, <1>3 DEF SetsOther, J!SetRemote
  <2> QED
    BY <2>1 DEF J!Next
<1>4. CASE Trickles(pc, pc')
  <2>1. PICK cs : Tells(pc, pc', cs)
    BY <1>4 DEF Trickles
  <2>2. cs \in J!Batches
    BY <2>1 DEF Tells, J!Batches, SeqOf, J!SeqOf, IsInjective, J!IsInjective
  <2>3. ToSet(cs) = J!ToSet(cs)
    BY DEF ToSet, J!ToSet
  <2>4. J!Trickle
    BY <1>0, <1>4, <2>1, <2>2, <2>3 DEF Trickles, Tells, SameDescriptions, J!Trickle
  <2> QED
    BY <2>4 DEF J!Next
<1>5. CASE Reports(pc, pc')
  <2>1. J!Report
    BY <1>0, <1>5 DEF Reports, SameDescriptions, IceKinds, J!Report, J!IceStates
  <2> QED
    BY <2>1 DEF J!Next
<1>6. CASE Shuts(pc, pc')
  <2>1. J!Close
    BY <1>0, <1>6 DEF Shuts, SameDescriptions, J!Close
  <2> QED
    BY <2>1 DEF J!Next
<1> QED
  BY <1>1, <1>2, <1>3, <1>4, <1>5, <1>6 DEF Steps

LEMMA SameLocal ==
    ASSUME NEW p, NEW q, q.local = p.local
    PROVE  Described(q) = Described(p)
  BY DEF Described

LEMMA NotDescribed ==
    ASSUME NEW p, p.local = <<>> \/ \A i \in DOMAIN p.local : p.local[i].cands = {}
    PROVE  Described(p) = {}
<1>1. \A i \in DOMAIN p.local : p.local[i].cands = {}
  BY NoElements
<1> QED
  BY <1>1 DEF Described

LEMMA SameIs == \A p : Same(p, p)
  BY DEF Same, SameDescriptions

LEMMA ShutsIs ==
    ASSUME NEW p, p.signaling # "closed", NEW q, IsClosed(p, q)
    PROVE  Shuts(p, q)
  BY SameLocal DEF IsClosed, Shuts, SameDescriptions

LEMMA SetsOwnIs ==
    ASSUME NEW p \in PCType, Live(p, <<"setLocal">>), ~p.closed, NEW q,
           q.local = p.created, q.remote = p.remote,
           q.surfaced = p.surfaced, q.told = p.told,
           q.signaling = IF p.role = "observer" THEN "stable" ELSE "have-local-offer"
    PROVE  SetsOwn(p, q)
<1>1. /\ Written(p) /\ Running(p)
      /\ IF p.role = "observer" THEN AnswerStage(p, <<"setLocal">>)
         ELSE OfferStage(p, <<"setLocal">>)
  BY DEF Live
<1>2. p.signaling # "closed"
  BY <1>1 DEF Running
<1>3. /\ p.local = <<>> /\ p.created # <<>>
      /\ p.signaling = IF p.role = "observer" THEN "have-remote-offer" ELSE "stable"
  BY <1>1, <1>2 DEF AnswerStage, OfferStage, PCType
<1>4. Described(p) = {}
  BY <1>3, NotDescribed
<1>5. \A i \in DOMAIN q.local : q.local[i].cands = {}
  <2>1. p.created \in Seq(LineType) /\ Len(p.created) = 2
        /\ \A i \in 1 .. 2 : p.created[i].cands = {}
    BY <1>1, <1>3 DEF Written, PCType
  <2>2. DOMAIN p.created = 1 .. 2
    BY <2>1
  <2> QED
    BY <2>1, <2>2
<1>6. Described(q) = {}
  BY <1>5, NotDescribed
<1> QED
  BY <1>3, <1>4, <1>6 DEF SetsOwn

LEMMA PageSteps ==
    ASSUME EInv, PageNext
    PROVE  Steps(pc, pc')
<1>0. pc \in PCType
  BY DEF EInv
<1>1. ASSUME NEW call, NEW q, Runs(call, q), ~pc.closed => Steps(pc, q)
      PROVE  Steps(pc, pc')
  BY <1>1, SameIs DEF Runs, Steps
<1>2. ASSUME NEW d \in Offers, MakeAnswer(d) PROVE Steps(pc, pc')
  <2> DEFINE q == SetRemoteDescription(pc, "offer", d, TRUE)
  <2>1. calls # <<>> /\ Head(calls) = "setRemote" /\ Runs("setRemote", q)
    BY <1>2 DEF MakeAnswer, Runs
  <2>2. Bare(pc) /\ pc.role = "observer"
    BY <2>1, CallsAre
  <2>3. IsAsked(pc, q)
    BY <1>0, <2>2, OfferTaken
  <2>4. pc.remote = <<>> /\ pc.signaling = "stable"
    BY <2>2, BareIs
  <2> HIDE DEF q
  <2>5. SetsOther(pc, q)
    BY <2>3, <2>4, SameLocal DEF IsAsked, SetsOther
  <2> QED
    BY <1>1, <2>1, <2>5 DEF Steps
<1>3. ASSUME AddsStream PROVE Steps(pc, pc')
  <2> DEFINE q == AddStream(pc)
  <2>1. calls # <<>> /\ Head(calls) = "addStream" /\ Runs("addStream", q)
    BY <1>3 DEF AddsStream, Runs
  <2>2. Live(pc, <<"addStream", "createAnswer", "setLocal">>) /\ pc.role = "observer"
    BY <2>1, CallsAre
  <2>3. ~pc.closed => Rest(pc, q)
    BY <1>0, <2>2, StreamAdded
  <2> HIDE DEF q
  <2>4. ~pc.closed => Same(pc, q)
    BY <2>3, SameLocal DEF Rest, Same, SameDescriptions
  <2> QED
    BY <1>1, <2>1, <2>4 DEF Steps
<1>4. ASSUME CreatesAnswer PROVE Steps(pc, pc')
  <2> DEFINE q == CreateAnswer(pc)
  <2>1. calls # <<>> /\ Head(calls) = "createAnswer" /\ Runs("createAnswer", q)
    BY <1>4 DEF CreatesAnswer, Runs
  <2>2. Live(pc, <<"createAnswer", "setLocal">>) /\ pc.role = "observer"
    BY <2>1, CallsAre
  <2>3. ~pc.closed => /\ q.signaling = pc.signaling /\ q.local = pc.local /\ q.remote = pc.remote
                      /\ q.surfaced = pc.surfaced /\ q.told = pc.told
    BY <1>0, <2>2, AnswerCreated
  <2> HIDE DEF q
  <2>4. ~pc.closed => Same(pc, q)
    BY <2>3, SameLocal DEF Same, SameDescriptions
  <2> QED
    BY <1>1, <2>1, <2>4 DEF Steps
<1>5. ASSUME MakeOffer PROVE Steps(pc, pc')
  <2> DEFINE q == CreateOffer(AddStream(pc))
  <2>1. calls # <<>> /\ Head(calls) = "makeOffer" /\ Runs("makeOffer", q)
    BY <1>5 DEF MakeOffer, Runs
  <2>2. Bare(pc) /\ pc.role # "observer"
    BY <2>1, CallsAre
  <2>3. IsOffered(pc, q)
    BY <1>0, <2>2, OfferMade
  <2> HIDE DEF q
  <2>4. Same(pc, q)
    BY <2>3, SameLocal DEF IsOffered, Same, SameDescriptions
  <2> QED
    BY <1>1, <2>1, <2>4 DEF Steps
<1>6. ASSUME SetsLocal PROVE Steps(pc, pc')
  <2> DEFINE type == IF pc.role = "observer" THEN "answer" ELSE "offer"
             q == IF Allowed("local", type, pc.signaling)
                  THEN SetLocalDescription(pc, type) ELSE Close(pc)
  <2>1. calls # <<>> /\ Head(calls) = "setLocal" /\ Runs("setLocal", q)
    BY <1>6 DEF SetsLocal, Runs
  <2>2. Live(pc, <<"setLocal">>)
    BY <2>1, CallsAre
  <2>3. ~pc.closed =>
            /\ q.local = pc.created /\ q.remote = pc.remote
            /\ q.surfaced = pc.surfaced /\ q.told = pc.told
            /\ q.signaling = IF pc.role = "observer" THEN "stable" ELSE "have-local-offer"
    <3>1. CASE pc.role = "observer"
      BY <1>0, <2>2, <3>1, AnswerSet
    <3>2. CASE pc.role # "observer"
      BY <1>0, <2>2, <3>2, OfferSet
    <3> QED
      BY <3>1, <3>2
  <2> HIDE DEF q
  <2>4. ~pc.closed => SetsOwn(pc, q)
    BY <1>0, <2>2, <2>3, SetsOwnIs
  <2> QED
    BY <1>1, <2>1, <2>4 DEF Steps
<1>7. ASSUME NEW d \in Answers, NEW detaches \in BOOLEAN, SetAnswer(d, detaches)
      PROVE  Steps(pc, pc')
  <2> DEFINE q == SetRemoteDescription(pc, "answer", d, detaches)
  <2>1. /\ Live(pc, <<>>) /\ ~pc.closed /\ pc' = q
    BY <1>7, HasPCLive DEF SetAnswer
  <2>2. pc.signaling = "have-local-offer"
    BY <1>7 DEF SetAnswer, Allowed
  <2>3. pc.role # "observer" /\ pc.remote = <<>>
    BY <2>1, <2>2 DEF Live, AnswerStage, OfferStage
  <2>4. /\ q \in PCType /\ Taken(pc, q, d.bundle)
        /\ q.role = pc.role /\ q.found = pc.found /\ q.closed = pc.closed
        /\ q.bundle = d.bundle /\ q.signaling = "stable"
        /\ q.created = pc.created /\ q.local = pc.local /\ Len(q.remote) = 2 /\ q.remote # <<>>
        /\ q.gathering = pc.gathering /\ q.ice = pc.ice /\ q.timers = pc.timers
        /\ q.surfaced = pc.surfaced /\ q.told = pc.told
    BY <1>0, <2>1, <2>2, <2>3, AnswerTaken
  <2> HIDE DEF q
  <2>5. SetsOther(pc, q)
    BY <2>2, <2>3, <2>4, SameLocal DEF SetsOther
  <2> QED
    BY <2>1, <2>5 DEF Steps
<1>8. ASSUME HasPC, pc' = Close(pc) PROVE Steps(pc, pc')
  <2>1. IsClosed(pc, pc')
    BY <1>0, <1>8, CloseIs
  <2>2. pc.signaling # "closed"
    BY <1>8, HasPCLive DEF Live, Running
  <2> QED
    BY <2>1, <2>2, ShutsIs DEF Steps
<1>9. ASSUME NEW i \in DOMAIN Lines, NEW c \in RemoteCands \cup {END}, AddsCandidate(i, c)
      PROVE  Steps(pc, pc')
  <2>1. /\ HasPC /\ Live(pc, calls)
        /\ pc' = IF c = END THEN EndOfCandidates(pc) ELSE AddIceCandidate(pc, i, c)
    BY <1>9, HasPCLive DEF AddsCandidate
  <2>2. pc' = Close(pc) \/ pc' = pc \/ (pc' \in PCType /\ Hears(pc, pc'))
    <3>1. CASE c = END
      BY <1>0, <2>1, <3>1, CandidatesEnded
    <3>2. CASE c # END
      BY <1>0, <2>1, <3>2, CandidateAdded
    <3> QED
      BY <3>1, <3>2
  <2>3. ASSUME pc' \in PCType, Hears(pc, pc') PROVE Same(pc, pc')
    <3>1. (pc'.remote # <<>>) = (pc.remote # <<>>)
      <4>1. /\ pc.remote \in Seq(SUBSET (RemoteCands \cup {END}))
            /\ pc'.remote \in Seq(SUBSET (RemoteCands \cup {END}))
            /\ Len(pc'.remote) = Len(pc.remote)
        BY <1>0, <2>3 DEF PCType, Hears
      <4> QED
        BY <4>1, EmptySeq
    <3> QED
      BY <2>3, <3>1, SameLocal DEF Hears, Same, SameDescriptions
  <2> QED
    BY <1>8, <2>1, <2>2, <2>3, SameIs DEF Steps
<1> QED
  BY <1>2, <1>3, <1>4, <1>5, <1>6, <1>7, <1>8, <1>9
     DEF PageNext, PageCalls, RefusesAnswer, Closes

LEMMA DescribedIs ==
    ASSUME NEW p, NEW e
    PROVE  e \in Described(p) <=>
               \E i \in DOMAIN p.local : \E c \in p.local[i].cands : c # END /\ e = <<i, c>>
  BY DEF Described

\* What the candidates cs of gatherer g add to it.
Adds(g, cs) == {<<g, c>> : c \in cs \ {END}}

LEMMA DescribedGrows ==
    ASSUME NEW p, NEW q, NEW g, g \in DOMAIN p.local, NEW cs,
           OnlyCands(p.local, q.local, g, cs)
    PROVE  \A e : e \in Described(q) <=> e \in Described(p) \/ e \in Adds(g, cs)
<1>1. ASSUME NEW e \in Described(q) PROVE e \in Described(p) \/ e \in Adds(g, cs)
  <2>1. PICK i \in DOMAIN q.local : \E c \in q.local[i].cands : c # END /\ e = <<i, c>>
    BY DescribedIs
  <2>2. PICK c \in q.local[i].cands : c # END /\ e = <<i, c>>
    BY <2>1
  <2>3. CASE i = g
    <3>1. c \in p.local[g].cands \/ c \in cs
      BY <2>2, <2>3 DEF OnlyCands
    <3> QED
      BY <2>2, <2>3, <3>1, DescribedIs DEF Adds
  <2>4. CASE i # g
    <3>1. i \in DOMAIN p.local /\ c \in p.local[i].cands
      BY <2>1, <2>2, <2>4 DEF OnlyCands
    <3> QED
      BY <2>2, <3>1, DescribedIs
  <2> QED
    BY <2>3, <2>4
<1>2. ASSUME NEW e \in Described(p) PROVE e \in Described(q)
  <2>1. PICK i \in DOMAIN p.local : \E c \in p.local[i].cands : c # END /\ e = <<i, c>>
    BY DescribedIs
  <2>2. PICK c \in p.local[i].cands : c # END /\ e = <<i, c>>
    BY <2>1
  <2>3. i \in DOMAIN q.local /\ c \in q.local[i].cands
    BY <2>1, <2>2 DEF OnlyCands
  <2> QED
    BY <2>2, <2>3, DescribedIs
<1>3. ASSUME NEW c \in cs \ {END} PROVE <<g, c>> \in Described(q)
  <2>1. g \in DOMAIN q.local /\ c \in q.local[g].cands
    BY <1>3 DEF OnlyCands
  <2> QED
    BY <1>3, <2>1, DescribedIs
<1> QED
  BY <1>1, <1>2, <1>3 DEF Adds

\* The candidates of F, which a gatherer finds one by one, the last of which may end them.
FoundAre(F, cs) == \A c : c \in cs <=> \E k \in 1 .. Len(F) : c = F[k]
Once(F) == /\ \A k \in 1 .. Len(F) : F[k] = END => k = Len(F)
           /\ \A k, n \in 1 .. Len(F) : F[k] = F[n] => k = n
Unwritten(p, g, F) == \A k \in 1 .. Len(F) : F[k] \notin p.local[g].cands

\* t is the first l candidates of F, as gatherer g tells them.
TellsFirst(g, F, l, t) ==
    /\ l <= Len(F) /\ DOMAIN t = 1 .. l
    /\ t \in [1 .. l -> LocalCands]
    /\ \A k \in 1 .. l : t[k] = <<g, F[k]>> /\ F[k] # END
    /\ \A k \in 1 .. Len(F) : F[k] # END => k \in 1 .. l

LEMMA ToldIs ==
    ASSUME NEW g \in 1 .. 2, NEW F \in Seq(FoundKinds), Len(F) \in 0 .. 3, Once(F)
    PROVE  \E l \in 0 .. 3 : TellsFirst(g, F, l, Told(g, F, Len(F)))
<1> DEFINE l == IF Len(F) > 0 /\ F[Len(F)] = END THEN Len(F) - 1 ELSE Len(F)
           t == Told(g, F, Len(F))
<1>1. t = [k \in 1 .. l |-> <<g, F[k]>>]
  BY DEF Told
<1>2. l \in 0 .. 3 /\ l <= Len(F)
  OBVIOUS
<1>3. \A k \in 1 .. l : k \in 1 .. Len(F) /\ F[k] # END
  BY DEF Once
<1>4. \A k \in 1 .. Len(F) : F[k] # END => k \in 1 .. l
  OBVIOUS
<1> HIDE DEF l, t
<1>5. \A k \in 1 .. l : <<g, F[k]>> \in LocalCands
  <2> SUFFICES ASSUME NEW k \in 1 .. l PROVE <<g, F[k]>> \in LocalCands
    OBVIOUS
  <2>1. F[k] \in FoundKinds /\ F[k] # END
    BY <1>3
  <2> QED
    BY <2>1, EndIs, LocalCandsIs
<1>6. /\ t \in [1 .. l -> LocalCands] /\ DOMAIN t = 1 .. l
      /\ \A k \in 1 .. l : t[k] = <<g, F[k]>>
  BY <1>1, <1>5
<1>7. TellsFirst(g, F, l, t)
  BY <1>2, <1>3, <1>4, <1>6 DEF TellsFirst
<1> QED
  BY <1>2, <1>7 DEF t

LEMMA NoneTold == ASSUME NEW S, NEW s \in Seq(S) PROVE s \o <<>> = s
  OBVIOUS

LEMMA NewlyTold ==
    ASSUME NEW p, NEW g, NEW F \in Seq(FoundKinds), NEW l \in 0 .. 3, NEW t, NEW cs,
           TellsFirst(g, F, l, t), FoundAre(F, cs), Unwritten(p, g, F)
    PROVE  /\ Adds(g, cs) = ToSet(t)
           /\ Described(p) \cap ToSet(t) = {}
<1>1. \A e : e \in ToSet(t) <=> \E k \in 1 .. l : e = t[k]
  BY DEF ToSet, TellsFirst
<1>2. \A k \in 1 .. l : k \in 1 .. Len(F)
  BY DEF TellsFirst
<1>3. \A e : e \in Adds(g, cs) <=> \E c \in cs \ {END} : e = <<g, c>>
  BY DEF Adds
<1>4. ASSUME NEW e \in Adds(g, cs) PROVE e \in ToSet(t)
  <2>1. PICK c \in cs \ {END} : e = <<g, c>>
    BY <1>3
  <2>2. PICK k \in 1 .. Len(F) : c = F[k]
    BY DEF FoundAre
  <2>3. k \in 1 .. l /\ e = t[k]
    BY <2>1, <2>2 DEF TellsFirst
  <2> QED
    BY <2>3, <1>1
<1>5. ASSUME NEW e \in ToSet(t)
      PROVE  /\ e \in Adds(g, cs)
             /\ e \notin Described(p)
  <2>1. PICK k \in 1 .. l : e = t[k]
    BY <1>1
  <2>2. k \in 1 .. Len(F) /\ F[k] \in cs \ {END} /\ e = <<g, F[k]>>
    BY <2>1, <1>2 DEF TellsFirst, FoundAre
  <2>3. ASSUME e \in Described(p) PROVE FALSE
    <3>1. PICK i \in DOMAIN p.local : \E c \in p.local[i].cands : c # END /\ e = <<i, c>>
      BY <2>3, DescribedIs
    <3>2. F[k] \in p.local[g].cands
      BY <3>1, <2>2
    <3> QED
      BY <3>2, <2>2 DEF Unwritten
  <2> QED
    BY <1>3, <2>2, <2>3
<1> QED
  BY <1>4, <1>5

LEMMA NewsIs ==
    ASSUME NEW p, NEW g \in 1 .. 2, NEW F \in Seq(FoundKinds), Len(F) \in 0 .. 3, Once(F),
           Unwritten(p, g, F), NEW cs, FoundAre(F, cs), NEW t, t = Told(g, F, Len(F))
    PROVE  /\ Adds(g, cs) = ToSet(t)
           /\ Described(p) \cap ToSet(t) = {}
           /\ IsInjective(t) /\ t \in SeqOf(LocalCands, 3)
           /\ t = <<>> => ToSet(t) = {}
<1>1. PICK l \in 0 .. 3 : TellsFirst(g, F, l, Told(g, F, Len(F)))
  BY ToldIs
<1>2. TellsFirst(g, F, l, t)
  BY <1>1
<1>3. t \in SeqOf(LocalCands, 3)
  BY <1>2 DEF SeqOf, TellsFirst
<1>4. Adds(g, cs) = ToSet(t) /\ Described(p) \cap ToSet(t) = {}
  BY <1>2, NewlyTold
<1>5. IsInjective(t)
  <2> SUFFICES ASSUME NEW k \in 1 .. l, NEW n \in 1 .. l, t[k] = t[n] PROVE k = n
    BY <1>2 DEF IsInjective, TellsFirst
  <2>1. F[k] = F[n] /\ k \in 1 .. Len(F) /\ n \in 1 .. Len(F)
    BY <1>2 DEF TellsFirst
  <2> QED
    BY <2>1 DEF Once
<1>6. t = <<>> => ToSet(t) = {}
  BY NoElements DEF ToSet
<1> QED
  BY <1>3, <1>4, <1>5, <1>6

LEMMA TricklesIs ==
    ASSUME NEW p \in PCType, NEW q \in PCType, p.closed = (p.signaling = "closed"),
           NEW g \in 1 .. 2, g \in DOMAIN p.local, p.local # <<>>, q.local # <<>>,
           NEW F \in Seq(FoundKinds), Len(F) \in 0 .. 3, Once(F), Unwritten(p, g, F),
           SameButFound(p, q), NEW cs, FoundAre(F, cs), OnlyCands(p.local, q.local, g, cs),
           q.surfaced = IF p.closed THEN p.surfaced ELSE p.surfaced \o Told(g, F, Len(F))
    PROVE  Steps(p, q)
<1>1. PICK t : t = Told(g, F, Len(F))
  OBVIOUS
<1>2. /\ Adds(g, cs) = ToSet(t)
      /\ Described(p) \cap ToSet(t) = {}
      /\ IsInjective(t) /\ t \in SeqOf(LocalCands, 3)
      /\ t = <<>> => ToSet(t) = {}
  BY <1>1, NewsIs
<1>3. Described(q) = Described(p) \cup Adds(g, cs)
  <2>1. g \in DOMAIN p.local /\ OnlyCands(p.local, q.local, g, cs)
    OBVIOUS
  <2>2. \A e : e \in Described(q) <=> e \in Described(p) \/ e \in Adds(g, cs)
    BY <2>1, DescribedGrows
  <2> QED
    BY <2>2
<1>4. Described(q) = Described(p) \cup ToSet(t)
  BY <1>2, <1>3
<1>5. q.surfaced = IF p.signaling = "closed" THEN p.surfaced ELSE p.surfaced \o t
  BY <1>1
<1>6. SameDescriptions(p, q) /\ q.signaling = p.signaling /\ q.told = p.told
  BY DEF SameButFound, SameDescriptions
<1>7. CASE t = <<>>
  <2>1. p.surfaced \o t = p.surfaced
    BY <1>7, NoneTold DEF PCType
  <2>2. q.surfaced = p.surfaced
    BY <1>5, <2>1
  <2>3. Described(q) = Described(p)
    BY <1>2, <1>4, <1>7
  <2>4. Same(p, q)
    BY <1>6, <2>2, <2>3 DEF Same
  <2> QED
    BY <2>4 DEF Steps
<1>8. CASE t # <<>>
  <2>1. Tells(p, q, t)
    BY <1>2, <1>4, <1>5, <1>8 DEF Tells
  <2> QED
    BY <1>6, <2>1 DEF Trickles, Steps
<1> QED
  BY <1>7, <1>8

LEMMA FoundSame ==
    ASSUME NEW p, NEW q, SameButFound(p, q), q.local = p.local, q.surfaced = p.surfaced
    PROVE  Same(p, q)
BY SameLocal DEF SameButFound, Same, SameDescriptions

LEMMA ToldSame ==
    ASSUME NEW p, NEW q, SameButTold(p, q), q.told = p.told
    PROVE  Same(p, q)
BY SameLocal DEF SameButTold, Same, SameDescriptions

\* F is candidate c of gatherer g alone, which is told after s.
TellsOne(s, g, c, F) ==
    /\ Len(F) = 1 /\ F[1] = c
    /\ c # END => s \o Told(g, F, Len(F)) = Append(s, <<g, c>>)
    /\ c = END => s \o Told(g, F, Len(F)) = s

LEMMA OneTold ==
    ASSUME NEW s \in Seq(LocalCands), NEW g \in 1 .. 2, NEW c \in FoundKinds
    PROVE  \E F \in Seq(FoundKinds) : TellsOne(s, g, c, F)
<1>0. PICK F : F = <<c>>
  OBVIOUS
<1>1. F \in Seq(FoundKinds) /\ Len(F) = 1 /\ F[1] = c
  BY <1>0
<1> DEFINE t == Told(g, F, Len(F))
<1>2. CASE c = END
  <2>1. t = [k \in 1 .. 0 |-> <<g, F[k]>>]
    BY <1>1, <1>2 DEF Told
  <2> HIDE DEF t
  <2>2. t \in [1 .. 0 -> LocalCands]
    BY <2>1
  <2>3. t \in Seq(LocalCands) /\ Len(t) = 0
    BY <2>2
  <2>4. t = <<>>
    BY <2>3, EmptySeq
  <2>5. s \o t = s
    BY <2>4, NoneTold
  <2> QED
    BY <1>1, <1>2, <2>5 DEF t, TellsOne
<1>3. CASE c # END
  <2>1. c \in {"host", "relay"} /\ <<g, c>> \in LocalCands
    BY <1>3, EndIs, LocalCandsIs
  <2>2. t = [k \in 1 .. 1 |-> <<g, F[k]>>]
    BY <1>1, <1>3 DEF Told
  <2>3. t = <<<<g, c>>>>
    <3>1. \A k \in 1 .. 1 : F[k] = c
      BY <1>1
    <3>2. t = [k \in 1 .. 1 |-> <<g, c>>]
      BY <2>2, <3>1
    <3> QED
      BY <3>2
  <2> HIDE DEF t
  <2>4. \A e \in LocalCands : s \o <<e>> = Append(s, e)
    OBVIOUS
  <2>5. s \o t = Append(s, <<g, c>>)
    BY <2>1, <2>3, <2>4
  <2> QED
    BY <1>1, <1>3, <2>5 DEF t, TellsOne
<1> QED
  BY <1>2, <1>3

LEMMA DirectSteps ==
    ASSUME NEW p \in PCType, NEW left, Live(p, left), NEW g \in DOMAIN p.gatherers,
           NEW m, m = p.gatherers[g].next, m \in DOMAIN p.found,
           NEW c, c = p.found[m], c \in FoundKinds, g \in 1 .. 2,
           g \in DOMAIN p.local, p.local # <<>>,
           NEW q, Further(p, q, g), NEW h, Writes(q, h, g, c)
    PROVE  Steps(p, h)
<1>1. OneGathers(p, g) /\ p.closed = (p.signaling = "closed")
  BY GatheringIs DEF Live, Running
<1>2. m \in Nat
  BY GatherTyped
<1>3. c \notin p.local[g].cands
  BY <1>1, <1>2 DEF OneGathers
<1>4. p.surfaced \in Seq(LocalCands) /\ p.local \in Seq(LineType)
  BY DEF PCType
<1>5. \E F \in Seq(FoundKinds) : TellsOne(p.surfaced, g, c, F)
  BY <1>4, OneTold
<1>6. PICK F \in Seq(FoundKinds) : TellsOne(p.surfaced, g, c, F)
  BY <1>5
<1>7. Len(F) \in 0 .. 3 /\ Once(F) /\ Unwritten(p, g, F) /\ FoundAre(F, {c})
  <2>1. Len(F) = 1 /\ F[1] = c
    BY <1>6 DEF TellsOne
  <2>2. \A k \in 1 .. Len(F) : k = 1
    BY <2>1
  <2>3. 1 \in 1 .. Len(F) /\ Len(F) \in 0 .. 3
    BY <2>1
  <2>4. Once(F)
    BY <2>1, <2>2 DEF Once
  <2>5. Unwritten(p, g, F)
    BY <1>3, <2>1, <2>2 DEF Unwritten
  <2>6. FoundAre(F, {c})
    BY <2>1, <2>2, <2>3 DEF FoundAre
  <2> QED
    BY <2>3, <2>4, <2>5, <2>6
<1>8. /\ h \in PCType /\ SameButFound(p, h) /\ OnlyCands(p.local, h.local, g, {c})
      /\ q.surfaced = p.surfaced /\ q.closed = p.closed
  BY DEF Further, Writes, SameButFound
<1>9. h.surfaced = IF p.closed THEN p.surfaced ELSE p.surfaced \o Told(g, F, Len(F))
  BY <1>6, <1>8 DEF Writes, TellsOne
<1>10. h.local # <<>>
  <2>1. h.local \in Seq(LineType) /\ Len(h.local) = Len(p.local)
    BY <1>8 DEF OnlyCands, PCType
  <2> QED
    BY <1>4, <2>1, EmptySeq
<1> QED
  BY <1>1, <1>6, <1>7, <1>8, <1>9, <1>10, TricklesIs

LEMMA FindsSteps ==
    ASSUME NEW p \in PCType, NEW left, Live(p, left), NEW g \in DOMAIN p.gatherers,
           p.gatherers[g].next \in DOMAIN p.found
    PROVE  Steps(p, Finds(p, g))
<1> DEFINE x == p.gatherers[g]
           c == p.found[x.next]
           q0 == [p EXCEPT !.gatherers[g].next = @ + 1]
<1>1. PICK q : q = q0
  OBVIOUS
<1>2. Further(p, q, g) /\ q.gatherers[g].buffer = x.buffer
  BY <1>1, FurtherIs
<1>3. /\ q \in PCType /\ q.gatherers[g].line = x.line /\ q.bundle = p.bundle
      /\ q.local = p.local /\ DOMAIN q.gatherers = DOMAIN p.gatherers
      /\ SameButFound(p, q) /\ q.surfaced = p.surfaced
  BY <1>2 DEF Further, SameButFound
<1>4. Gathering(p) /\ OneGathers(p, g)
  BY GatheringIs DEF Live
<1>5. g \in 1 .. 2 /\ x.line = g
  BY <1>4 DEF Live, Lined, Second, PCType, OneGathers
<1>6. x.handler \in {"buffer", "direct", "none"} /\ c \in FoundKinds
  BY GatherTyped DEF GathererType
<1>7. Same(p, q)
  BY <1>3, FoundSame
<1>8. CASE x.handler = "direct"
  <2>1. Finds(p, g) = LocalCandidate(q, g, c)
    BY <1>1, <1>8 DEF Finds
  <2>2. CASE p.bundle /\ g = 2
    <3>1. LocalCandidate(q, g, c) = q
      BY <1>3, <1>5, <2>2 DEF LocalCandidate
    <3> QED
      BY <1>7, <2>1, <3>1 DEF Steps
  <2>3. CASE ~(p.bundle /\ g = 2)
    <3>1. p.local # <<>> /\ g \in DOMAIN p.local
      BY <1>4, <1>5, <1>8 DEF Live, Written, PCType, OneGathers
    <3>2. PICK h : h = LocalCandidate(q, g, c)
      OBVIOUS
    <3>3. Writes(q, h, g, c)
      <4>1. g \in DOMAIN q.gatherers /\ q.gatherers[g].line = g /\ g \in DOMAIN q.local
            /\ ~(q.bundle /\ g = 2)
        BY <1>3, <1>5, <2>3, <3>1
      <4> HIDE DEF c, x
      <4> QED
        BY <1>3, <1>5, <1>6, <3>2, <4>1, LocalCandidateIs
    <3>4. Steps(p, h)
      BY <1>2, <1>5, <1>6, <3>1, <3>3, DirectSteps
    <3> QED
      BY <2>1, <3>2, <3>4
  <2> QED
    BY <2>2, <2>3
<1>9. CASE x.handler = "buffer"
  <2> DEFINE s == IF c = END THEN "completed" ELSE "gathering"
  <2>1. Finds(p, g) = Buffers(q, g, c, s)
    BY <1>1, <1>9 DEF Finds, Buffers
  <2>2. s \in {"completed", "gathering"}
    OBVIOUS
  <2> HIDE DEF s, c
  <2>3. PICK h : h = Buffers(q, g, c, s)
    OBVIOUS
  <2>4. IsBuffered(q, h, g, c)
    BY <1>3, <1>6, <2>2, <2>3, Buffered
  <2>5. SameButFound(p, h) /\ h.local = p.local /\ h.surfaced = p.surfaced
    BY <1>3, <2>4 DEF IsBuffered, SameButFound
  <2>6. Same(p, h)
    BY <2>5, FoundSame
  <2> QED
    BY <2>1, <2>3, <2>6 DEF Steps
<1>10. CASE x.handler = "none"
  <2>1. Finds(p, g) = q
    BY <1>1, <1>10 DEF Finds
  <2> QED
    BY <1>7, <2>1 DEF Steps
<1> QED
  BY <1>6, <1>8, <1>9, <1>10

\* What the replay has done, with the candidates it told of as one set.
LEMMA ReplayedIs ==
    ASSUME NEW p, NEW r, NEW g, NEW F, Replayed(p, r, g, F, Len(F))
    PROVE  \E cs : FoundAre(F, cs) /\ OnlyCands(p.local, r.local, g, cs)
<1> DEFINE cs == {F[k] : k \in 1 .. Len(F)}
<1>1. FoundAre(F, cs)
  BY DEF FoundAre
<1>2. OnlyCands(p.local, r.local, g, cs)
  BY DEF Replayed
<1> QED
  BY <1>1, <1>2

LEMMA ReplaySteps ==
    ASSUME NEW p \in PCType, NEW left, Live(p, left), p.timers # <<>>
    PROVE  Steps(p, Replay([p EXCEPT !.timers = Tail(@)], Head(p.timers)))
<1> DEFINE task == Head(p.timers)
           g == task.gatherer
           F == task.found
<1>1. PICK o : o = [p EXCEPT !.timers = Tail(@)]
  OBVIOUS
<1>2. TimerTaken(p, o, g)
  BY <1>1, TimerTakenIs
<1>3. p.timers \in Seq(TimerType) /\ task = p.timers[1] /\ 1 \in DOMAIN p.timers
  BY TailIs DEF PCType
<1>4. OneReplays(p, 1) /\ p.local # <<>>
  BY <1>3, GatheringIs DEF Live
<1>5. g \in DOMAIN p.gatherers /\ F \in Seq(FoundKinds) /\ Prefix(F, p.found)
  BY <1>3, <1>4, GatherTyped DEF OneReplays
<1>6. OneGathers(p, g)
  BY <1>5, GatheringIs DEF Live
<1>7. /\ o \in PCType /\ o.gatherers = p.gatherers /\ o.local = p.local /\ o.found = p.found
      /\ o.bundle = p.bundle /\ SameButFound(p, o) /\ o.surfaced = p.surfaced
      /\ o.closed = p.closed
  BY <1>2 DEF TimerTaken, SameButFound
<1>8. g \in 1 .. 2 /\ p.gatherers[g].line = g /\ g \in DOMAIN p.local /\ p.local \in Seq(LineType)
  <2>1. g \in 1 .. 2
    BY <1>3, GatherTyped
  <2>2. p.local \in Seq(LineType) /\ Len(p.local) = 2
    BY <1>4 DEF Live, Written, PCType
  <2>3. DOMAIN p.local = 1 .. 2
    BY <2>2
  <2> QED
    BY <1>6, <2>1, <2>2, <2>3 DEF OneGathers
<1>9. Same(p, o)
  BY <1>7, FoundSame
<1>10. CASE p.gatherers[g].handler = "none"
  <2>1. Replay(o, task) = o
    BY <1>7, <1>10 DEF Replay
  <2> QED
    BY <1>1, <1>9, <2>1 DEF Steps
<1>11. CASE p.gatherers[g].handler # "none" /\ p.bundle /\ g = 2
  <2>1. \A c : LocalCandidate(o, g, c) = o
    <3>1. o.bundle /\ o.gatherers[g].line = 2
      BY <1>7, <1>8, <1>11
    <3> QED
      BY <3>1, Unheard
  <2>2. Len(F) \in 0 .. 3 /\ o.gatherers[g].handler # "none"
    BY <1>5, <1>7, <1>11, PrefixIs
  <2>3. Replay(o, task) = o
    BY <2>1, <2>2, ReplaysUnheard
  <2> QED
    BY <1>1, <1>9, <2>3 DEF Steps
<1>12. CASE p.gatherers[g].handler # "none" /\ ~(p.bundle /\ g = 2)
  <2>1. PICK r : r = Replay(o, task)
    OBVIOUS
  <2>2. Replayed(o, r, g, F, Len(F))
    BY <1>5, <1>7, <1>8, <1>12, <2>1, ReplaysAll
  <2>3. PICK cs : FoundAre(F, cs) /\ OnlyCands(o.local, r.local, g, cs)
    BY <2>2, ReplayedIs
  <2>4. /\ r \in PCType /\ SameButFound(o, r)
        /\ r.surfaced = IF o.closed THEN o.surfaced ELSE o.surfaced \o Told(g, F, Len(F))
    BY <2>2 DEF Replayed
  <2>5. /\ \A k \in 1 .. Len(F) : F[k] = p.found[k] /\ k \in 1 .. Len(p.found)
        /\ \A k \in 1 .. Len(F) : F[k] = END => k = Len(F)
        /\ Len(F) \in 0 .. 3
        /\ DOMAIN p.found = 1 .. Len(p.found)
        /\ \A k, n \in 1 .. Len(p.found) : p.found[k] = p.found[n] => k = n
    <3>1. p.found \in {<<"host", END>>, <<"host", "relay", END>>}
      BY DEF PCType
    <3> QED
      BY <1>5, <3>1, PrefixIs, FoundParts, GatherTyped
  <2>6. \A n \in DOMAIN p.found : p.found[n] \in p.local[g].cands => Len(F) < n
    BY <1>3, <1>4, <1>6 DEF OneGathers
  <2> HIDE DEF F, g, task
  <2>7. Once(F)
    BY <2>5 DEF Once
  <2>8. Unwritten(p, g, F)
    <3> SUFFICES ASSUME NEW k \in 1 .. Len(F), F[k] \in p.local[g].cands PROVE FALSE
      BY DEF Unwritten
    <3>1. k \in DOMAIN p.found /\ p.found[k] \in p.local[g].cands
      BY <2>5
    <3>2. Len(F) < k
      BY <2>6, <3>1
    <3> QED
      BY <2>5, <3>2
  <2>9. r.local # <<>>
    <3>1. r.local \in Seq(LineType) /\ Len(r.local) = Len(p.local)
      BY <1>7, <2>3, <2>4 DEF OnlyCands, PCType
    <3> QED
      BY <1>4, <1>8, <3>1, EmptySeq
  <2>10. SameButFound(p, r) /\ OnlyCands(p.local, r.local, g, cs)
    BY <1>7, <2>3, <2>4 DEF SameButFound
  <2>11. r.surfaced = IF p.closed THEN p.surfaced ELSE p.surfaced \o Told(g, F, Len(F))
    BY <1>7, <2>4
  <2>12. p.closed = (p.signaling = "closed")
    BY DEF Live, Running
  <2>13. FoundAre(F, cs) /\ Len(F) \in 0 .. 3 /\ r \in PCType
    BY <2>3, <2>4, <2>5
  <2>14. Steps(p, r)
    BY <1>4, <1>5, <1>8, <2>7, <2>8, <2>9, <2>10, <2>11, <2>12, <2>13, TricklesIs
  <2> QED
    BY <1>1, <2>1, <2>14 DEF task
<1> QED
  BY <1>10, <1>11, <1>12

\* What the page is told of the transports.
LEMMA HeardSteps ==
    ASSUME NEW p \in PCType, NEW left, Live(p, left),
           ~p.closed => p.local # <<>> /\ p.remote # <<>>,
           NEW q \in PCType, SameButTold(p, q), q.told = p.told, NEW h, Heard(q, h)
    PROVE  Steps(p, h)
<1>1. Running(p) /\ p.closed = (p.signaling = "closed") /\ (p.told = "failed" => p.closed)
  BY DEF Live, Running
<1>2. CASE h = q
  BY <1>2, ToldSame DEF Steps
<1>3. ASSUME NEW r \in PCType, SameButTold(q, r),
             r.told = IF q.closed THEN q.told ELSE IceState(q),
             h = IF r.told = "failed" /\ ~q.closed THEN Close(r) ELSE r
      PROVE  Steps(p, h)
  <2>1. SameButTold(p, r) /\ q.closed = p.closed
    BY <1>3 DEF SameButTold
  <2>2. CASE r.told = p.told
    <3>1. h = r
      BY <1>1, <1>3, <2>1, <2>2
    <3> QED
      BY <2>1, <2>2, <3>1, ToldSame DEF Steps
  <2>3. CASE r.told # p.told
    <3>1. ~p.closed
      BY <1>3, <2>1, <2>3
    <3>2. r.told \in IceKinds \ {p.told}
      BY <2>3 DEF PCType
    <3>3. p.signaling = "stable" /\ p.local # <<>> /\ p.remote # <<>>
      <4>1. p.local # <<>> /\ p.remote # <<>>
        BY <3>1
      <4>2. IF p.role = "observer" THEN AnswerStage(p, left) ELSE OfferStage(p, left)
        BY DEF Live
      <4>3. CASE p.role = "observer"
        <5>1. left = <<>>
          BY <4>1, <4>2, <4>3, Zenon DEF AnswerStage
        <5>2. /\ left # <<"addStream", "createAnswer", "setLocal">>
              /\ left # <<"createAnswer", "setLocal">> /\ left # <<"setLocal">>
          BY <5>1
        <5> QED
          BY <3>1, <4>1, <4>2, <4>3, <5>2, Zenon DEF AnswerStage
      <4>4. CASE p.role # "observer"
        BY <3>1, <4>1, <4>2, <4>4, Zenon DEF OfferStage
      <4> QED
        BY <4>1, <4>3, <4>4
    <3>4. /\ r.signaling = "stable" /\ r.local = p.local /\ r.remote = p.remote
          /\ r.surfaced = p.surfaced
      BY <2>1, <3>3 DEF SameButTold
    <3>5. /\ h.told = r.told
          /\ h.signaling = IF r.told = "failed" THEN "closed" ELSE "stable"
          /\ h.local = p.local /\ h.remote = p.remote /\ h.surfaced = p.surfaced
      <4>1. CASE r.told = "failed"
        <5>1. h = Close(r)
          BY <1>3, <2>1, <3>1, <4>1
        <5>2. IsClosed(r, h)
          BY <5>1, CloseIs
        <5> QED
          BY <3>4, <4>1, <5>2 DEF IsClosed
      <4>2. CASE r.told # "failed"
        BY <1>3, <3>4, <4>2
      <4> QED
        BY <4>1, <4>2
    <3>6. Described(h) = Described(p)
      BY <3>5, SameLocal
    <3>7. Reports(p, h)
      BY <3>2, <3>3, <3>5, <3>6 DEF Reports, SameDescriptions
    <3> QED
      BY <3>7 DEF Steps
  <2> QED
    BY <2>2, <2>3
<1> QED
  BY <1>2, <1>3 DEF Heard

LEMMA HearsSame ==
    ASSUME NEW p \in PCType, NEW q \in PCType, Hears(p, q)
    PROVE  Same(p, q)
<1>1. /\ p.remote \in Seq(SUBSET (RemoteCands \cup {END}))
      /\ q.remote \in Seq(SUBSET (RemoteCands \cup {END}))
      /\ Len(q.remote) = Len(p.remote)
  BY DEF PCType, Hears
<1>2. (q.remote # <<>>) = (p.remote # <<>>)
  BY <1>1, EmptySeq
<1> QED
  BY <1>2, SameLocal DEF Hears, Same, SameDescriptions

LEMMA BrowserSteps ==
    ASSUME EInv, BrowserNext
    PROVE  Steps(pc, pc')
<1>0. pc \in PCType
  BY DEF EInv
<1>1. Live(pc, calls)
  <2>1. CASE Bare(pc)
    <3>1. /\ pc.gatherers = <<>> /\ pc.transports = <<>> /\ pc.timers = <<>>
          /\ DOMAIN pc.gatherers = {} /\ DOMAIN pc.transports = {} /\ ~pc.late
      BY <2>1, BareIs DEF Bare, New
    <3> QED
      BY <3>1 DEF BrowserNext, TimerFires, LateTimerFires
  <2> QED
    BY <2>1 DEF EInv, Good
<1>2. ASSUME NEW g \in DOMAIN pc.gatherers, GathererFinds(g) PROVE Steps(pc, pc')
  BY <1>0, <1>1, <1>2, FindsSteps DEF GathererFinds
<1>3. ASSUME TimerFires PROVE Steps(pc, pc')
  BY <1>0, <1>1, <1>3, ReplaySteps DEF TimerFires
<1>4. ASSUME LateTimerFires PROVE Steps(pc, pc')
  <2>1. pc' \in PCType /\ Hears(pc, pc')
    BY <1>0, <1>4, TimedOut DEF LateTimerFires
  <2> QED
    BY <1>0, <2>1, HearsSame DEF Steps
<1>5. ASSUME NEW t \in DOMAIN pc.transports, NEW s \in IceTargets, IceChanges(t, s)
      PROVE  Steps(pc, pc')
  <2>1. s \in IceKinds /\ pc.transports[t].started
    BY <1>5, MovesIs DEF IceChanges
  <2>2. PICK q : q = [pc EXCEPT !.transports[t].ice = s]
    OBVIOUS
  <2>3. /\ q \in PCType /\ Ready(q, calls) /\ Kept(q) /\ SameButTold(pc, q)
        /\ q.ice = pc.ice /\ q.told = pc.told
        /\ DOMAIN q.transports = DOMAIN pc.transports
        /\ q.transports[t].attached = pc.transports[t].attached
        /\ \A k \in DOMAIN pc.transports : k # t => q.transports[k] = pc.transports[k]
    BY <1>0, <1>1, <2>1, <2>2, StateMoved
  <2>4. pc' = IF q.transports[t].attached THEN IceHandler(q) ELSE q
    BY <1>5, <2>2 DEF IceChanges
  <2>5. pc.local # <<>> /\ pc.remote # <<>> /\ (pc.told = "failed" => pc.closed)
    BY <1>1, <2>1 DEF Live, Running
  <2>6. q.told = "failed" => q.closed
    BY <2>3, <2>5 DEF SameButTold
  <2>7. CASE pc' = q
    BY <2>3, <2>7, ToldSame DEF Steps
  <2>8. CASE pc' = IceHandler(q)
    <3>1. Heard(q, pc')
      BY <2>3, <2>6, <2>8, HeardIs
    <3> QED
      BY <1>0, <1>1, <2>3, <2>5, <3>1, HeardSteps
  <2> QED
    BY <2>4, <2>7, <2>8
<1>6. ASSUME NEW t \in DOMAIN pc.transports, TransportStops(t) PROVE Steps(pc, pc')
  <2>1. pc.closed /\ (pc.told = "failed" => pc.closed)
    BY <1>1, <1>6 DEF TransportStops, Live, Running
  <2>2. Heard(pc, pc')
    BY <1>0, <1>6, <2>1, HeardIs DEF TransportStops
  <2>3. SameButTold(pc, pc)
    BY DEF SameButTold
  <2> QED
    BY <1>0, <1>1, <2>1, <2>2, <2>3, HeardSteps
<1> QED
  BY <1>2, <1>3, <1>4, <1>5, <1>6 DEF BrowserNext

\* IsJsep: every behaviour of Edge's connection behind the shim is one of the
\* connection the page is written against.
THEOREM ShimIsJsep == Spec => IsJsep
<1>1. Init => J!Init
  BY StartsAsJsep
<1>2. EInv /\ [Next]_vars => [J!Next]_(J!vars)
  <2>1. ASSUME EInv, Next PROVE [J!Next]_(J!vars)
    BY <2>1, PageSteps, BrowserSteps, StepsAreJsep DEF Next
  <2>2. ASSUME UNCHANGED vars PROVE [J!Next]_(J!vars)
    BY <2>2 DEF vars, J!vars
  <2> QED
    BY <2>1, <2>2
<1> QED
  BY <1>1, <1>2, Inductive, PTL DEF Spec, IsJsep, J!Spec
=============================================================================
