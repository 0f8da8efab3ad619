------------------------------ MODULE EdgePeer ------------------------------
(***************************************************************************)
(* The RTCPeerConnection that webrtc-adapter.js builds in Edge over the    *)
(* ORTC objects of the browser (one gatherer, one ICE and one DTLS         *)
(* transport per m-line, shared once the ends agree on BUNDLE), as the     *)
(* page of a room uses it: room.js makes one offer or one answer with a    *)
(* connection, gives it candidates, and closes it.                         *)
(*                                                                         *)
(* `pc' is the connection with its ORTC objects; `calls' are the calls of  *)
(* the page's promise chain that have not run.  The page runs a chain in   *)
(* one task; the shim does not rely on that and buffers the candidates     *)
(* that are found inside a chain, so the browser's events come between any *)
(* two calls here.                                                         *)
(***************************************************************************)
EXTENDS Integers, FiniteSets, SequencesExt

CONSTANTS
    Roles,          \* "glass-wearer" makes the offer, "observer" the answer
    IceServers,     \* what the server adds to an offer: a sequence of kinds of url
    RemoteCands,    \* candidates of the other end
    VideoCodecs,    \* sets of codecs the other end may have for video
    EdgeVersion,
    MaxTrickles     \* bound: candidates of the other end after its description

LocalCodecs == [audio |-> {"opus"}, video |-> {"h264"}]
Tracks(role) == IF role = "observer" THEN <<"audio">> ELSE <<"audio", "video">>
Lines == <<"audio", "video">>  \* the m-lines of every offer of a wearer

None == 0
END == "end-of-candidates"

VARIABLES pc, calls, trickles

vars == <<pc, calls, trickles>>

-----------------------------------------------------------------------------
(* Construction                                                            *)

\* The urls Edge is given: one TURN url over UDP, and STUN from version 14393 on.
FilterIceServers(urls, version) ==
    LET turns == {i \in DOMAIN urls : urls[i] = "turn-udp"}
        stays(i) == \/ i \in turns /\ \A j \in turns : i <= j
                    \/ urls[i] = "stun" /\ version >= 14393
    IN FoldLeftDomain(LAMBDA kept, i : IF stays(i) THEN Append(kept, urls[i]) ELSE kept,
                      <<>>, urls)

\* The wrapper's own filter gets no version, and no version is no new version.
ShimFilter(urls) == FilterIceServers(urls, 0)

Configured(urls) == FilterIceServers(ShimFilter(urls), EdgeVersion)

\* What a gatherer finds, in order.  No state depends on more than their number.
Found(urls) ==
    IF Configured(urls) = <<>> THEN <<"host", END>> ELSE <<"host", "relay", END>>

\* The default of a page that offers; the server's with an offer to answer.
Urls(role) == IF role = "observer" THEN IceServers ELSE <<"stun">>

New(role) ==
    [role |-> role, found |-> Found(Urls(role)),
     signaling |-> "stable", closed |-> FALSE, bundle |-> FALSE,
     transceivers |-> <<>>, gatherers |-> <<>>, transports |-> <<>>,
     created |-> <<>>, local |-> <<>>, remote |-> <<>>,
     gathering |-> "new", ice |-> "new",
     timers |-> <<>>, late |-> FALSE,
     surfaced |-> <<>>, told |-> "new"]  \* what the page hears

\* Mutant of Dispatches: a closed connection still tells.
DispatchesAlways(p) == TRUE

\* Events of a closed connection are not dispatched.
Dispatches(p) == ~p.closed

-----------------------------------------------------------------------------
(* Transceivers                                                            *)

Transport == [ice |-> "new", remote |-> {}, started |-> FALSE,
              attached |-> TRUE]

AddTransport(p) == [p EXCEPT !.transports = Append(@, Transport)]

CreateTransceiver(p, kind) ==
    LET shared == p.bundle /\ p.transceivers # <<>>
        q == IF shared THEN p ELSE AddTransport(p)
        t == IF shared THEN p.transceivers[1].transport ELSE Len(q.transports)
    IN [q EXCEPT !.transceivers = Append(@,
            [kind |-> kind, rejected |-> FALSE, gatherer |-> None, transport |-> t,
             sender |-> None, receiver |-> None, codecs |-> {},
             sending |-> FALSE, receiving |-> FALSE])]

\* A section that is refused has no transports left.
Refused(kind) ==
    [kind |-> kind, rejected |-> TRUE, gatherer |-> None, transport |-> None,
     sender |-> None, receiver |-> None, codecs |-> {},
     sending |-> FALSE, receiving |-> FALSE]

\* Mutant of AddTrack: every track has a transceiver of its own.
AddTrackAnew(p, kind) ==
    LET q == CreateTransceiver(p, kind)
        i == Len(q.transceivers)
    IN [q EXCEPT !.transceivers[i].sender = q.transceivers[i].transport]

\* The last transceiver of the kind that sends no track takes it.
AddTrack(p, kind) ==
    LET free == {i \in DOMAIN p.transceivers : /\ p.transceivers[i].kind = kind
                                              /\ p.transceivers[i].sender = None}
        q == IF free = {} THEN CreateTransceiver(p, kind) ELSE p
        i == IF free = {} THEN Len(q.transceivers) ELSE Max(free)
    IN [q EXCEPT !.transceivers[i].sender = q.transceivers[i].transport]

\* The tracks of a stream, in order.
AddStream(p) ==
    LET withAudio == AddTrack(p, Tracks(p.role)[1])
    IN IF Len(Tracks(p.role)) = 1 THEN withAudio ELSE AddTrack(withAudio, Tracks(p.role)[2])

-----------------------------------------------------------------------------
(* Gathering.  A gatherer gathers from its creation; what it finds is       *)
(* buffered until a local description is set, then replayed by a timer.     *)

CreateIceGatherer(p, i) ==
    IF p.bundle /\ i > 1
    THEN [p EXCEPT !.transceivers[i].gatherer = p.transceivers[1].gatherer]
    ELSE [p EXCEPT !.gatherers = Append(@, [line |-> i, state |-> "new", next |-> 1,
                                            handler |-> "buffer", buffer |-> <<>>]),
                   !.transceivers[i].gatherer = Len(p.gatherers) + 1]

\* Mutant of Gather: the buffered candidates are forgotten.
GatherForgetting(p, i) ==
    LET g == p.transceivers[i].gatherer
    IN IF p.gatherers[g].handler = "direct" THEN p
       ELSE [p EXCEPT !.gatherers[g].handler = "direct", !.gatherers[g].buffer = <<>>,
                      !.timers = Append(@, [gatherer |-> g, found |-> <<>>])]

Gather(p, i) ==
    LET g == p.transceivers[i].gatherer
    IN IF p.gatherers[g].handler = "direct" THEN p
       ELSE [p EXCEPT !.gatherers[g].handler = "direct", !.gatherers[g].buffer = <<>>,
                      !.timers = Append(@, [gatherer |-> g, found |-> p.gatherers[g].buffer])]

GatheredAll(p) ==
    \A i \in DOMAIN p.transceivers :
        LET g == p.transceivers[i].gatherer
        IN g # None /\ p.gatherers[g].state = "completed"

\* The handler of _gather: the candidate is written into the local description
\* and surfaced.  With BUNDLE the gatherers of the other lines are not heard.
LocalCandidate(p, g, c) ==
    LET line == p.gatherers[g].line
        state == IF c = END THEN "completed"
                 ELSE IF p.gatherers[g].state = "new" THEN "gathering"
                 ELSE p.gatherers[g].state
        q == [p EXCEPT !.gatherers[g].state = state,
                       !.local[line].cands = @ \cup {c}]
        heard == IF c # END /\ Dispatches(p)
                 THEN [q EXCEPT !.surfaced = Append(@, <<line, c>>)] ELSE q
    IN IF p.bundle /\ line > 1 THEN p
       ELSE [heard EXCEPT !.gathering = IF GatheredAll(q) THEN "complete" ELSE "gathering"]

\* What becomes of the next candidate of a gatherer.
Finds(p, g) ==
    LET c == p.found[p.gatherers[g].next]
        q == [p EXCEPT !.gatherers[g].next = @ + 1]
    IN CASE p.gatherers[g].handler = "direct" -> LocalCandidate(q, g, c)
         [] p.gatherers[g].handler = "buffer" ->
                [q EXCEPT !.gatherers[g].state = IF c = END THEN "completed" ELSE "gathering",
                          !.gatherers[g].buffer = Append(@, c)]
         [] OTHER -> q

\* Without its handler the replay throws.
Replay(p, task) ==
    IF p.gatherers[task.gatherer].handler = "none" THEN p
    ELSE LET upTo[n \in 0 .. Len(task.found)] ==
                 IF n = 0 THEN p ELSE LocalCandidate(upTo[n - 1], task.gatherer, task.found[n])
         IN upTo[Len(task.found)]

-----------------------------------------------------------------------------
(* Descriptions                                                            *)

\* What a section of a description says: whether its end sends and takes media, and the
\* candidates of its line.
Line(kind, sends, takes, codecs, cands) ==
    [kind |-> kind, sends |-> sends, takes |-> takes, codecs |-> codecs, cands |-> cands]

\* A section with no codec is written with port 0, which is how a line is refused.
Rejects(s) == s.codecs = {}

\* The section of a transceiver: its direction says what it has.
MediaSection(x, codecs) ==
    Line(x.kind, x.sender # None, x.receiver # None, codecs, {})

Allowed(action, type, signaling) ==
    signaling \in CASE action = "local" /\ type = "offer" -> {"stable", "have-local-offer"}
                    [] action = "remote" /\ type = "offer" -> {"stable", "have-remote-offer"}
                    [] action = "local" /\ type = "answer" -> {"have-remote-offer"}
                    [] action = "remote" /\ type = "answer" -> {"have-local-offer"}

\* A codec, RTX of one included, is common when both ends name it.
CommonCodecs(x) == LocalCodecs[x.kind] \cap x.codecs

\* A sender always sends; a receiver needs a common codec.
Transceive(x, send, recv) ==
    [x EXCEPT !.sending = @ \/ (send /\ x.sender # None),
              !.receiving = @ \/ (recv /\ x.receiver # None /\ CommonCodecs(x) # {})]

Start(p, i) == [p EXCEPT !.transports[p.transceivers[i].transport].started = TRUE]

\* What is done to the m-lines of a description, in order: it has those of Lines.
EachLine(step(_, _), p) == step(step(p, 1), 2)

\* Every line gets a gatherer and a receiver before it is described.
OfferLine(p, i) ==
    LET x == p.transceivers[i]
        q == IF x.gatherer = None THEN CreateIceGatherer(p, i) ELSE p
    IN [q EXCEPT !.transceivers[i].receiver = x.transport]

CreateOffer(p) ==
    LET q == EachLine(OfferLine, p)
    IN [q EXCEPT !.created = [i \in DOMAIN q.transceivers |->
            MediaSection(q.transceivers[i], LocalCodecs[q.transceivers[i].kind])]]

CreateAnswer(p) ==
    [p EXCEPT !.created = [i \in DOMAIN p.remote |->
        LET x == p.transceivers[i]
        IN MediaSection(x, IF x.rejected THEN {} ELSE CommonCodecs(x))]]

\* Only the transports of the first line are started when all share them.
Leads(p, i) == i = 1 \/ ~p.bundle

\* With an answer the receivers run since the remote description was set.
AnswerLine(p, i) ==
    LET x == p.transceivers[i]
        led == IF Leads(p, i) THEN Start(Gather(p, i), i) ELSE p
    IN IF x.rejected THEN p
       ELSE [led EXCEPT !.transceivers[i] = Transceive(x, CommonCodecs(x) # {}, FALSE)]

SetLocalDescription(p, type) ==
    LET q == IF type = "offer" THEN EachLine(Gather, p) ELSE EachLine(AnswerLine, p)
    IN [q EXCEPT !.local = p.created,
                 !.signaling = IF type = "offer" THEN "have-local-offer" ELSE "stable"]

\* `detaches' tells whether deleting an event handler of an ORTC object detaches it: it
\* does not where handlers are accessors of the prototype.
Dispose(p, i, detaches) ==
    LET x == p.transceivers[i]
    IN [p EXCEPT !.gatherers[x.gatherer].handler = IF detaches THEN "none" ELSE @,
                 !.transports[x.transport].attached = ~detaches]

\* Mutant of ShareTransports: the sender stays on the transport of its own line.
ShareTransportsButSender(p, i, detaches) ==
    LET first == p.transceivers[1]
        x == p.transceivers[i]
        moved(t) == IF t = None THEN None ELSE first.transport
    IN [Dispose(p, i, detaches) EXCEPT !.transceivers[i] =
           [x EXCEPT !.gatherer = first.gatherer, !.transport = first.transport,
                     !.receiver = moved(x.receiver)]]

\* BUNDLE: the line gives up its gatherer and transports for those of the first.
ShareTransports(p, i, detaches) ==
    LET first == p.transceivers[1]
        x == p.transceivers[i]
        moved(t) == IF t = None THEN None ELSE first.transport
    IN [Dispose(p, i, detaches) EXCEPT !.transceivers[i] =
           [x EXCEPT !.gatherer = first.gatherer, !.transport = first.transport,
                     !.sender = moved(x.sender), !.receiver = moved(x.receiver)]]

\* The candidates of a description are for a transport that has not begun.
AddCandidates(p, i, cands) ==
    LET t == p.transceivers[i].transport
    IN [p EXCEPT !.transports[t].remote = IF p.transports[t].ice = "new"
                                          THEN @ \cup cands ELSE @]

OfferedLine(p, i, s) ==
    LET made == IF i \in DOMAIN p.transceivers THEN p ELSE CreateTransceiver(p, s.kind)
        q == IF made.transceivers[i].gatherer = None THEN CreateIceGatherer(made, i) ELSE made
        r == AddCandidates(q, i, s.cands)
        x == [r.transceivers[i] EXCEPT !.codecs = s.codecs,
                  !.receiver = IF s.sends THEN r.transceivers[i].transport ELSE None]
    IN [r EXCEPT !.transceivers[i] = Transceive(x, FALSE, s.sends)]

AnsweredLine(p, i, s) ==
    LET q == AddCandidates(p, i, s.cands)
        r == IF Leads(q, i) THEN Start(q, i) ELSE q
        x == Transceive([r.transceivers[i] EXCEPT !.codecs = s.codecs], s.takes, s.sends)
    IN [r EXCEPT !.transceivers[i] =
            IF s.sends THEN x ELSE [x EXCEPT !.receiver = None, !.receiving = FALSE]]

\* An answer refuses a section by leaving it no codec.
RemoteLine(p, type, i, s, detaches) ==
    IF Rejects(s) THEN [p EXCEPT !.transceivers[i] = Refused(s.kind)]
    ELSE LET q == IF p.bundle /\ i > 1 /\ i \in DOMAIN p.transceivers
                  THEN ShareTransports(p, i, detaches) ELSE p
         IN IF type = "offer" THEN OfferedLine(q, i, s) ELSE AnsweredLine(q, i, s)

SetRemoteDescription(p, type, d, detaches) ==
    LET q == EachLine(LAMBDA r, i : RemoteLine(r, type, i, d.lines[i], detaches),
                      [p EXCEPT !.bundle = d.bundle])
    IN [q EXCEPT !.remote = [i \in DOMAIN d.lines |-> d.lines[i].cands],
                 !.signaling = IF type = "offer" THEN "have-remote-offer" ELSE "stable",
                 !.late = TRUE]

-----------------------------------------------------------------------------
(* The transports                                                          *)

InUse(p) == {p.transceivers[i].transport : i \in DOMAIN p.transceivers}

\* The first state of an order that a transport in use has.
FirstIn(order, p) ==
    LET present == {n \in DOMAIN order : \E t \in InUse(p) : p.transports[t].ice = order[n]}
    IN IF present = {} THEN "new" ELSE order[Min(present)]

\* Mutant of IceState: one transport that is connected connects the whole.
IceStateOfBest(p) ==
    FirstIn(<<"failed", "connected", "checking", "disconnected", "new", "completed">>, p)

\* The worst state of a transport is that of the connection.
IceState(p) ==
    FirstIn(<<"failed", "checking", "disconnected", "new", "connected", "completed">>, p)

\* A refused line has no transport: looking for its state throws.
Broken(p) == \E i \in DOMAIN p.transceivers : p.transceivers[i].rejected

UpdateIceConnectionState(p) ==
    LET state == IceState(p)
    IN IF Broken(p) THEN p
       ELSE [p EXCEPT !.ice = state, !.told = IF Dispatches(p) THEN state ELSE @]

\* The transports of lines that share them are stopped with the first line.
Close(p) ==
    [p EXCEPT !.transports = [t \in DOMAIN @ |->
                  IF t \in InUse(p) THEN [@[t] EXCEPT !.ice = "closed"]
                  ELSE @[t]],
              !.transceivers = [i \in DOMAIN @ |->
                  [@[i] EXCEPT !.sending = FALSE, !.receiving = FALSE]],
              !.closed = TRUE, !.signaling = "closed"]

\* The handler of a transport.  The page closes a connection that has failed.
IceHandler(p) ==
    LET q == UpdateIceConnectionState(p)
    IN IF q.told = "failed" /\ Dispatches(q) THEN Close(q) ELSE q

IceMoves == {<<"new", "checking">>, <<"checking", "connected">>, <<"checking", "failed">>,
             <<"connected", "completed">>, <<"connected", "disconnected">>,
             <<"completed", "disconnected">>, <<"disconnected", "checking">>,
             <<"disconnected", "connected">>, <<"disconnected", "failed">>}
IceTargets == {move[2] : move \in IceMoves}
Up == {"connected", "completed"}

-----------------------------------------------------------------------------
(* The candidates of the other end                                         *)

\* maybeAddCandidate: a transport does not take a candidate twice.
Knows(p, t, c) == c \in p.transports[t].remote

\* A candidate that the transport has is refused; one for a line that shares the
\* first line's transport is only written down.
AddIceCandidate(p, i, c) ==
    LET t == p.transceivers[i].transport
        own == i = 1 \/ t # p.transceivers[1].transport
        added == IF own THEN [p EXCEPT !.transports[t].remote = @ \cup {c}] ELSE p
    IN CASE p.remote = <<>> -> Close(p)
         [] p.remote # <<>> /\ p.transceivers[i].rejected -> p
         [] OTHER -> IF own /\ Knows(p, t, c) THEN Close(p)
                     ELSE [added EXCEPT !.remote[i] = @ \cup {c}]

\* The end of the candidates of some transports.
Ended(transports, T) ==
    [t \in DOMAIN transports |->
        IF t \in T THEN [transports[t] EXCEPT !.remote = @ \cup {END}] ELSE transports[t]]

\* The end of candidates goes to every transport, the first of a bundle alone.
EndOfCandidates(p) ==
    LET ended == {i \in DOMAIN p.transceivers : ~p.transceivers[i].rejected /\ Leads(p, i)}
    IN IF p.remote = <<>> THEN Close(p)
       ELSE [p EXCEPT !.transports = Ended(@, {p.transceivers[i].transport : i \in ended}),
                      !.remote = [i \in DOMAIN @ |->
                          IF i \in ended THEN @[i] \cup {END} ELSE @[i]]]

\* Four seconds after a remote description no more candidates are expected by a
\* transport that has some and is still new.
Timeout(p) ==
    [p EXCEPT !.late = FALSE,
              !.transports = Ended(@, {t \in DOMAIN @ : t \in InUse(p) /\ @[t].ice = "new"
                                                        /\ @[t].remote # {}})]

-----------------------------------------------------------------------------
(* The page                                                                *)

Chain(role) == IF role = "observer"
               THEN <<"setRemote", "addStream", "createAnswer", "setLocal">>
               ELSE <<"makeOffer", "setLocal">>

\* A call on a closed connection is refused, which ends the chain.
Runs(call, q) ==
    /\ calls # <<>> /\ Head(calls) = call
    /\ IF pc.closed THEN pc' = pc /\ calls' = <<>> ELSE pc' = q /\ calls' = Tail(calls)
    /\ UNCHANGED trickles

\* The offers of a wearer, sent before a candidate is found, and the answers of an
\* observer, which may hold some.  A line without a common codec is refused.
Offers ==
    {[bundle |-> b, lines |-> <<Line("audio", TRUE, TRUE, {"opus"}, {}),
                                Line("video", TRUE, FALSE, LocalCodecs.video, {})>>] :
        b \in BOOLEAN}
Answers ==
    {[bundle |-> b, lines |-> <<Line("audio", TRUE, TRUE, {"opus"}, cs),
                                Line("video", FALSE, TRUE, v \cap LocalCodecs.video, {})>>] :
        b \in BOOLEAN, cs \in SUBSET RemoteCands, v \in VideoCodecs}

\* makeAnswer.  No line of the offer has transports to give up.
MakeAnswer(d) == Runs("setRemote", SetRemoteDescription(pc, "offer", d, TRUE))
AddsStream == Runs("addStream", AddStream(pc))

CreatesAnswer == Runs("createAnswer", CreateAnswer(pc))

\* makeOffer.
MakeOffer == Runs("makeOffer", CreateOffer(AddStream(pc)))

SetsLocal ==
    LET type == IF pc.role = "observer" THEN "answer" ELSE "offer"
    IN Runs("setLocal", IF Allowed("local", type, pc.signaling)
                        THEN SetLocalDescription(pc, type) ELSE Close(pc))

\* The page has the connection from its first call until it closes it.
HasPC == pc.transceivers # <<>> /\ ~pc.closed

\* setAnswer, once the offer is sent.
SetAnswer(d, detaches) ==
    /\ HasPC /\ calls = <<>>
    /\ Allowed("remote", "answer", pc.signaling)
    /\ pc' = SetRemoteDescription(pc, "answer", d, detaches)
    /\ UNCHANGED <<calls, trickles>>

\* A late answer is refused, whatever it says, and the page dies of it.
RefusesAnswer ==
    /\ HasPC /\ calls = <<>>
    /\ ~Allowed("remote", "answer", pc.signaling)
    /\ pc' = Close(pc)
    /\ UNCHANGED <<calls, trickles>>

AddsCandidate(i, c) ==
    /\ HasPC /\ trickles < MaxTrickles
    /\ pc' = IF c = END THEN EndOfCandidates(pc) ELSE AddIceCandidate(pc, i, c)
    /\ trickles' = trickles + 1
    /\ UNCHANGED calls

\* closePC, for whatever reason.
Closes == HasPC /\ pc' = Close(pc) /\ UNCHANGED <<calls, trickles>>

-----------------------------------------------------------------------------
(* The browser's events                                                    *)

GathererFinds(g) ==
    /\ pc.gatherers[g].next \in DOMAIN pc.found
    /\ pc' = Finds(pc, g)
    /\ UNCHANGED <<calls, trickles>>

\* setTimeout without delay, first come first served.
TimerFires ==
    /\ pc.timers # <<>>
    /\ LET task == Head(pc.timers)
       IN pc' = Replay([pc EXCEPT !.timers = Tail(@)], task)
    /\ UNCHANGED <<calls, trickles>>

\* Unless it does nothing.
LateTimerFires ==
    /\ pc.late /\ Timeout(pc).transports # pc.transports
    /\ pc' = Timeout(pc)
    /\ UNCHANGED <<calls, trickles>>

\* The state of a transport changes; Edge reports it if it has a handler.
IceChanges(t, s) ==
    /\ pc.transports[t].started
    /\ <<pc.transports[t].ice, s>> \in IceMoves
    /\ LET q == [pc EXCEPT !.transports[t].ice = s]
       IN pc' = IF q.transports[t].attached THEN IceHandler(q) ELSE q
    /\ UNCHANGED <<calls, trickles>>

\* A transport reports that it was stopped.
TransportStops(t) ==
    /\ pc.transports[t].ice = "closed"
    /\ pc' = IceHandler(pc)
    /\ UNCHANGED <<calls, trickles>>

-----------------------------------------------------------------------------
Init ==
    \E role \in Roles :
        /\ pc = New(role)
        /\ calls = Chain(role)
        /\ trickles = 0

PageCalls ==
    \/ \E d \in Offers : MakeAnswer(d)
    \/ AddsStream \/ CreatesAnswer \/ MakeOffer \/ SetsLocal

PageNext ==
    \/ PageCalls
    \/ \E d \in Answers, detaches \in BOOLEAN : SetAnswer(d, detaches)
    \/ RefusesAnswer
    \/ \E i \in DOMAIN Lines, c \in RemoteCands \cup {END} : AddsCandidate(i, c)
    \/ Closes

BrowserNext ==
    \/ \E g \in DOMAIN pc.gatherers : GathererFinds(g)
    \/ TimerFires \/ LateTimerFires
    \/ \E t \in DOMAIN pc.transports, s \in IceTargets : IceChanges(t, s)
    \/ \E t \in DOMAIN pc.transports : TransportStops(t)

Next == PageNext \/ BrowserNext

Spec == Init /\ [][Next]_vars

-----------------------------------------------------------------------------
LocalCands == {<<i, c>> : i \in DOMAIN Lines, c \in {"host", "relay"}}

TransportType ==
    [ice : {"new", "checking", "connected", "completed", "disconnected", "failed", "closed"},
     remote : SUBSET (RemoteCands \cup {END}), started : BOOLEAN, attached : BOOLEAN]
TransceiverType ==
    LET index == {None} \cup DOMAIN Lines
    IN [kind : {"audio", "video"}, rejected : BOOLEAN, gatherer : index, transport : index,
        sender : index, receiver : index, codecs : SUBSET UNION {LocalCodecs.audio, LocalCodecs.video},
        sending : BOOLEAN, receiving : BOOLEAN]

\* Every part of the connection has its type, and a line of an offer its own transceiver:
\* the track of the observer goes to the line of its kind (addTrack, :457-466).
EdgeTypeOK ==
    /\ Len(pc.transceivers) <= Len(Lines)
    /\ pc.signaling \in {"stable", "have-local-offer", "have-remote-offer", "closed"}
    /\ pc.gathering \in {"new", "gathering", "complete"}
    /\ \A t \in DOMAIN pc.transports : pc.transports[t] \in TransportType
    /\ \A i \in DOMAIN pc.transceivers :
        pc.transceivers[i] \in TransceiverType /\ pc.transceivers[i].kind = Lines[i]
    /\ ToSet(pc.surfaced) \subseteq LocalCands
    /\ pc.closed = (pc.signaling = "closed")

\* Once the ends agree on BUNDLE every accepted line gathers, connects, sends and receives
\* over the transports of the first; without it each line's sender and receiver are on the
\* line's own; and a line sends and receives nothing its local description denies
\* (setRemoteDescription, :988-1007, and the order in which receivers are made and
\* transports shared).
LinesAgree ==
    \A i \in DOMAIN pc.transceivers :
        LET x == pc.transceivers[i]
            first == pc.transceivers[1]
        IN ~x.rejected =>
            /\ {x.sender, x.receiver} \subseteq {None, x.transport}
            /\ (pc.bundle /\ pc.remote # <<>>) =>
                   x.transport = first.transport /\ x.gatherer = first.gatherer
            /\ (~pc.bundle /\ i > 1) => x.transport # first.transport
            /\ (x.sending /\ pc.local # <<>>) => pc.local[i].sends
            /\ (x.receiving /\ pc.local # <<>>) => pc.local[i].takes

\* Unless a line was refused, what the page was last told is how the connection is: it is
\* told "connected" when every line is connected and never before (:1282-1317; transports
\* are dropped, shared and stopped without events).
ToldTheWorst ==
    (~pc.closed /\ ~Broken(pc)) =>
        /\ pc.told = pc.ice
        /\ pc.told \in Up <=> /\ InUse(pc) # {}
                              /\ \A t \in InUse(pc) : pc.transports[t].ice \in Up
        /\ pc.told = "disconnected" =>
               \E t \in InUse(pc) : pc.transports[t].ice = "disconnected"

\* Nothing a gatherer finds is lost.  Until the local description is set it waits in the
\* gatherer's buffer, then in the timer that replays it, and then the page has heard of it;
\* unless the page has closed the connection or the first line carries this one (the buffer
\* of _createIceGatherer and the timer of _gather, :569-695).
NoCandidateLost ==
    \A g \in DOMAIN pc.gatherers :
        LET x == pc.gatherers[g]
            replayed == UNION {ToSet(pc.timers[k].found) :
                                   k \in {k \in DOMAIN pc.timers : pc.timers[k].gatherer = g}}
            waits == IF pc.local = <<>> THEN ToSet(x.buffer) ELSE replayed
        IN \/ pc.closed
           \/ pc.bundle /\ x.line > 1
           \/ \A n \in 1 .. (x.next - 1) :
                  pc.found[n] \in waits \cup {END} \/ <<x.line, pc.found[n]>> \in ToSet(pc.surfaced)

\* The connection does what the page relies on: one description of each end in order, each
\* local candidate written down and surfaced once and only after its description, no event
\* after it is closed, no ICE state before both descriptions.
J == INSTANCE Jsep WITH
        Candidates <- LocalCands,
        signaling <- pc.signaling,
        local <- pc.local # <<>>,
        remote <- pc.remote # <<>>,
        described <- UNION {{<<i, c>> : c \in pc.local[i].cands \ {END}} : i \in DOMAIN pc.local},
        surfaced <- pc.surfaced,
        told <- pc.told
IsJsep == J!Spec
=============================================================================
