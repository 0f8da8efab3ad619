------------------------------ MODULE Session -------------------------------
(***************************************************************************)
(* A call, end to end: the observer's page (Browser), the glass wearer's   *)
(* phone (Phone) or page (Browser), and between them the room of the       *)
(* server, of which module Router has the whole program and Server the     *)
(* queues: messages reach the other member of the room once and in order.  *)
(*                                                                         *)
(* A handler and the forwarding of what it sends are one step: what a      *)
(* client has sent and the server not yet handled, it may as well send     *)
(* later.  `inbox' holds what is on the way from the server to a client.   *)
(***************************************************************************)
EXTENDS Browser

CONSTANTS
    Wearers,     \* the wearers of this instance: "phone", "page"
    MaxSessions, \* bound: connections the wearer makes
    MaxFaults,   \* bound: things that fail without a cause in the model
    MaxReloads,  \* bound: times the observer loads the page again
    MaxEvents    \* bound: the listener posts while fewer of its messages wait

ASSUME SessionBounds == /\ Wearers \subseteq {"phone", "page"} /\ Wearers # {}
                        /\ MaxSessions \in Nat /\ MaxFaults \in Nat /\ MaxReloads \in Nat
                        /\ MaxEvents \in Nat \ {0}

P == INSTANCE Phone

Side == {"observer", "wearer"}
Other(s) == IF s = "observer" THEN "wearer" ELSE "observer"

VARIABLES
    end,     \* the page or phone on each side
    inbox,   \* the messages on their way to it
    seated,  \* the sides that hold a seat in the room
    faults, reloads

vars == <<end, inbox, seated, faults, reloads>>

observer == end["observer"]
wearer == end["wearer"]
PhoneWears == wearer.role = "phone"

-----------------------------------------------------------------------------
(* The room                                                                *)

\* What the router does with a message of one side.
Handle(room, s, m) ==
    LET o == Other(s)
        tell == [room EXCEPT !.inbox[o] = Append(@, m)]
    IN CASE m.type = "join" ->
                IF o \in room.seated
                THEN [seated |-> room.seated \cup {s},
                      inbox |-> [x \in Side |-> Append(room.inbox[x], m)]]
                ELSE [room EXCEPT !.seated = @ \cup {s}]
         [] m.type = "leave" ->
                [(IF o \in room.seated /\ s \in room.seated THEN tell ELSE room)
                    EXCEPT !.seated = @ \ {s}]
         [] OTHER -> IF o \in room.seated THEN tell ELSE room

\* The same with all that it has sent.
HandleAll(room, s, sent) ==
    LET upTo[n \in 0 .. Len(sent)] ==
            IF n = 0 THEN room ELSE Handle(upTo[n - 1], s, sent[n])
    IN upTo[Len(sent)]

\* The room becomes r; a socket that is not open delivers nothing.
RoomBecomes(r) ==
    /\ inbox' = [x \in Side |-> IF end'[x].ws = "open" THEN r.inbox[x] ELSE <<>>]
    /\ seated' = r.seated

\* Side s becomes e with `box' left to read, and what it sent is handled.
Becomes(s, e, box) ==
    /\ end' = [end EXCEPT ![s] = [e EXCEPT !.outbox = <<>>]]
    /\ RoomBecomes(HandleAll([inbox |-> [inbox EXCEPT ![s] = box], seated |-> seated],
                             s, e.outbox))

Steps(s, e) == Becomes(s, e, inbox[s]) /\ UNCHANGED <<faults, reloads>>

\* The same for what fails by itself.
Faults(s, e) == /\ faults < MaxFaults /\ faults' = faults + 1
                /\ Becomes(s, e, inbox[s]) /\ UNCHANGED reloads

\* The server finds out that a connection has ended.
Notice(s) ==
    /\ s \in seated /\ end[s].ws # "open"
    /\ UNCHANGED <<end, faults, reloads>>
    /\ RoomBecomes(Handle([inbox |-> inbox, seated |-> seated], s, Msg("leave")))

-----------------------------------------------------------------------------
(* Pages                                                                   *)

IsPage(s) == end[s].role # "phone"
InCall(s) == end[s].state = IF IsPage(s) THEN CALL_IN_PROGRESS ELSE P!CALL_IN_PROGRESS
CanConnect == Len(wearer.pcs) < MaxSessions

PageOpened(s) == /\ IsPage(s) /\ end[s].ws = "connecting" /\ s \notin seated
                 /\ Steps(s, Opened(end[s]))

PageReceives(s) ==
    /\ IsPage(s) /\ end[s].ws = "open" /\ inbox[s] # <<>>
    /\ Becomes(s, Received(end[s], Head(inbox[s])), Tail(inbox[s]))
    /\ UNCHANGED <<faults, reloads>>

\* The room is refused to the observer: another has the seat, or the name is bad.
PageRefused(s) ==
    /\ s = "observer" /\ observer.state = WAITING_FOR_JOIN
    /\ \E code \in {1, 4, 5} : Faults(s, Received(observer, Error(code)))

PageMic(s) == /\ IsPage(s) /\ end[s].mic = "asked"
              /\ \/ Steps(s, MicGranted(end[s]))
                 \/ Faults(s, MicDenied(end[s]))

\* The socket is lost, or no pong comes in time.
PageLost(s) == /\ IsPage(s) /\ end[s].ws # "closed"
               /\ Faults(s, Lost(end[s])) \/ Faults(s, PingTimeout(end[s]))

PageDescribes(s) ==
    /\ IsPage(s)
    /\ \E i \in DOMAIN end[s].pcs :
          /\ end[s].pcs[i].desc = "making"
          /\ Steps(s, Described(end[s], i)) \/ Faults(s, Fail(end[s]))

\* A candidate changes nothing on the phone: one for the phone is left out.
PageGathers(s) ==
    /\ IsPage(s) /\ ~PhoneWears
    /\ \E i \in DOMAIN end[s].pcs :
          /\ end[s].pcs[i].desc = "made" /\ end[s].pcs[i].gathers
          /\ Steps(s, Gathered(end[s], i))

\* The observer loads the page again, which closes the socket and the connections
\* of the old one; the new page's connections are numbered from there.
Reload ==
    /\ observer.ws # "connecting" /\ reloads < MaxReloads /\ reloads' = reloads + 1
    /\ end' = [end EXCEPT !["observer"] =
                   [Loaded("observer") EXCEPT !.pcs = [i \in DOMAIN observer.pcs |-> ClosedPC]]]
    /\ RoomBecomes([inbox |-> inbox, seated |-> seated]) /\ UNCHANGED faults

-----------------------------------------------------------------------------
(* ICE, between the two connections                                        *)

\* Connection i of side s has a path to the peer's only if each has the
\* description of the other.
Paired(s, i) ==
    LET j == end[s].pcs[i].peer
    IN /\ j \in DOMAIN end[Other(s)].pcs
       /\ end[Other(s)].pcs[j].peer = i

\* It has none, and will have none: no answer is on its way either.
Hopeless(s, i) ==
    /\ ~Paired(s, i)
    /\ \A k \in DOMAIN inbox[Other(s)] :
          inbox[Other(s)][k] # Answer(i, end[s].pcs[i].peer)

Checking(s, i) == end[s].pcs[i].desc = "made" /\ end[s].pcs[i].peer # NoPeer

PageIce(s) ==
    /\ IsPage(s)
    /\ \E i \in DOMAIN end[s].pcs :
          /\ Checking(s, i)
          /\ \/ /\ end[s].pcs[i].ice = "new" /\ Paired(s, i)
                /\ Steps(s, IceConnected(end[s], i))
             \/ /\ end[s].pcs[i].ice # "failed" /\ Hopeless(s, i)
                /\ Steps(s, IceFailed(end[s], i))
             \/ /\ end[s].pcs[i].ice # "failed" /\ Paired(s, i)
                /\ Faults(s, IceFailed(end[s], i))

-----------------------------------------------------------------------------
(* The phone                                                               *)

InSession == wearer.state >= P!ESTABLISHING

PhoneConnects == /\ PhoneWears /\ wearer.ws = "closed" /\ "wearer" \notin seated
                 /\ Steps("wearer", P!Connected(wearer))

PhoneReceives ==
    /\ PhoneWears /\ wearer.ws = "open" /\ inbox["wearer"] # <<>>
    /\ Head(inbox["wearer"]).type = "reset" => CanConnect
    /\ Becomes("wearer", P!Received(wearer, Head(inbox["wearer"])), Tail(inbox["wearer"]))
    /\ UNCHANGED <<faults, reloads>>

PhoneHandles ==
    /\ PhoneWears /\ wearer.events # <<>>
    /\ Head(wearer.events).what = "PC_ICE_FAILED" => CanConnect
    /\ Steps("wearer", P!Handled(wearer))

PhonePosts ==
    /\ PhoneWears /\ InSession /\ Len(wearer.events) < MaxEvents
    /\ LET i == P!Session(wearer)
           pc == wearer.pcs[i]
       IN \/ wearer.creating /\ Steps("wearer", P!Created(wearer))
          \/ pc.desc = "made" /\ pc.gathers /\ Steps("wearer", P!Gathered(wearer))
          \/ /\ Checking("wearer", i) /\ pc.ice = "new" /\ Paired("wearer", i)
             /\ Steps("wearer", P!IceConnected(wearer))
          \/ /\ Checking("wearer", i) /\ pc.ice # "failed" /\ Hopeless("wearer", i)
             /\ Steps("wearer", P!IceFailed(wearer))
          \/ /\ Checking("wearer", i) /\ pc.ice # "failed" /\ Paired("wearer", i)
             /\ Faults("wearer", P!IceFailed(wearer))
          \/ Faults("wearer", P!CameraFailed(wearer))

PhoneHeadset ==
    /\ PhoneWears
    /\ \/ /\ wearer.state = P!WAITING_FOR_HEADSET /\ CanConnect
          /\ Steps("wearer", P!HeadsetConnected(wearer))
       \/ InSession /\ Faults("wearer", P!HeadsetDisconnected(wearer))

PhoneLost == /\ PhoneWears /\ wearer.ws = "open"
             /\ Faults("wearer", P!Lost(wearer)) \/ Faults("wearer", P!GoAway(wearer))

-----------------------------------------------------------------------------
Init ==
    /\ \E w \in Wearers :
          end = [observer |-> Loaded("observer"),
                 wearer |-> IF w = "phone" THEN P!Idle ELSE Loaded("glass-wearer")]
    /\ inbox = [s \in Side |-> <<>>]
    /\ seated = {} /\ faults = 0 /\ reloads = 0

PageNext(s) == PageOpened(s) \/ PageReceives(s) \/ PageRefused(s) \/ PageMic(s)
               \/ PageLost(s) \/ PageDescribes(s) \/ PageGathers(s) \/ PageIce(s)
               \/ Notice(s)
PhoneNext == PhoneConnects \/ PhoneReceives \/ PhoneHandles \/ PhonePosts
             \/ PhoneHeadset \/ PhoneLost

Next == Reload \/ PhoneNext \/ \E s \in Side : PageNext(s)

Spec == Init /\ [][Next]_vars

\* What runs by itself: a page's or the phone's next event comes, whichever it
\* is, and the server notices what has ended.  Nothing is assumed of what fails.
PageRuns(s) == /\ faults' = faults
               /\ \/ PageOpened(s) \/ PageReceives(s) \/ PageMic(s)
                  \/ PageDescribes(s) \/ PageIce(s) \/ Notice(s)
PhoneRuns == /\ faults' = faults
             /\ PhoneConnects \/ PhoneReceives \/ PhoneHandles \/ PhonePosts \/ PhoneHeadset

Fairness == /\ \A s \in Side : WF_vars(PageRuns(s))
            /\ WF_vars(PhoneRuns)

FairSpec == Spec /\ Fairness

-----------------------------------------------------------------------------
(* Properties                                                              *)

\* Pages and phone are in states of their programs, within the bounds; a page has
\* an error just when it shows one, and something waits for the microphone just
\* while the prompt is open.
SessionTypeOK ==
    /\ DOMAIN end = Side /\ ~PhoneWears => wearer.role = "glass-wearer"
    /\ \A s \in Side : IsPage(s) =>
          /\ end[s].state \in PageState
          /\ end[s].err \in Err \cup {NoErr} /\ (end[s].state = ERROR <=> end[s].err # NoErr)
          /\ end[s].ws \in {"connecting", "open", "closed"}
          /\ end[s].mic \in {"unasked", "asked", "granted", "denied"}
          /\ end[s].mic = "asked" <=> end[s].waiting # <<>>
          /\ end[s].promise \in Pending .. Len(end[s].pcs)
          /\ end[s].held # <<>> => end[s].promise = Pending
          /\ ~end[s].rejected
    /\ PhoneWears => /\ wearer.state \in P!PhoneState
                     /\ Len(wearer.pcs) <= MaxSessions
                     /\ \A k \in DOMAIN wearer.events : wearer.events[k].of \in DOMAIN wearer.pcs
    /\ seated \subseteq Side

\* room.js: a page has no open connection but the one its promise holds, which
\* the next leave, reset, offer or error closes; unless two offers waited for
\* the microphone together, of which the second makes an unreachable connection.
OneConnection ==
    \A s \in Side : IsPage(s) /\ ~end[s].overlapped =>
        \A i \in DOMAIN end[s].pcs : IsOpen(end[s].pcs[i]) => i = end[s].promise

\* Side s has still to hear that the other side has gone or begun anew.
NewsFor(s) ==
    \/ \E k \in DOMAIN inbox[s] : inbox[s][k].type \in {"reset", "leave", "offer"}
    \/ Other(s) \in seated /\ end[Other(s)].ws # "open"

\* The observer is shown a call only as long as the wearer has the other end of
\* this very connection, or news of the contrary is on its way: no reset, leave or
\* offer, in whatever order they cross, leaves a page in a call with nobody.
PageCallIsMatched ==
    InCall("observer") /\ ~observer.overlapped =>
        \/ observer.promise # Pending /\ Paired("observer", observer.promise)
        \/ NewsFor("observer")

\* The same of the phone, unless an event of a connection it has closed (module
\* Call: gotoState leaves them in the queue) took it there.
PhoneCallIsMatched ==
    PhoneWears /\ InCall("wearer") /\ ~wearer.misled =>
        Paired("wearer", P!Session(wearer)) \/ NewsFor("wearer")

\* The bound on connections is what the phone waits for.
AtBound ==
    /\ PhoneWears /\ ~CanConnect
    /\ \/ wearer.state = P!WAITING_FOR_HEADSET
       \/ inbox["wearer"] # <<>> /\ Head(inbox["wearer"]).type = "reset"
       \/ wearer.events # <<>> /\ Head(wearer.events).what = "PC_ICE_FAILED"

\* The call cannot come any more: a phone that took the event of a closed
\* connection for one of its own, a wearer's page after a reset.
Astray == IF PhoneWears THEN wearer.misled
          ELSE wearer.state = ESTABLISHING /\ wearer.promise = Pending

\* Two that have joined the room come to a call, or a page says why not: no order
\* of joins, prompts, offers, answers, resets, reloads and losses leaves them
\* waiting for each other.
CallOrVerdict ==
    seated = Side ~> \/ InCall("observer") /\ InCall("wearer")
                     \/ \E s \in Side : IsPage(s) /\ end[s].state = ERROR
                     \/ Astray \/ AtBound

=============================================================================
