----------------------------- MODULE CallService -----------------------------
(***************************************************************************)
(* The service that owns the call (service/CallService.java), between the  *)
(* activity (MainActivity.java and its fragments), the thread of the call  *)
(* (the ends of Call.java) and the system that keeps services alive.       *)
(*                                                                         *)
(* The service and the activity live on the main thread: each of their     *)
(* steps handles the head of `main' or something the user does.  A call    *)
(* has a thread of its own; of its states three are told apart here, IDLE, *)
(* ERROR and ROOM, which stands for everything from WAITING_FOR_NETWORK on *)
(* (module Call has them).  The system starts, stops and binds as Android  *)
(* documents it: a service lives as long as it is started or bound.        *)
(*                                                                         *)
(* Left out: permissions (taken as granted), preferences, the death of the *)
(* process, and how the texts of notification and screen look.             *)
(***************************************************************************)
EXTENDS FiniteSetsExt, Sift

CONSTANTS
    MaxStarts,    \* bound: requests for a call
    MaxHangUps,   \* bound: uses of the notification's "End call"
    MaxVisits,    \* bound: how often the activity comes to the front
    MaxFailures   \* bound: errors of all calls together

ASSUME ServiceAssumption ==
    {MaxStarts, MaxHangUps, MaxVisits, MaxFailures} \subseteq Nat

None == 0
Calls == 1 .. MaxStarts
Services == 1 .. MaxStarts + MaxHangUps + MaxVisits
CallState == {"IDLE", "ERROR", "ROOM"}

VARIABLES
    calls,     \* the Call objects
    service,   \* the CallService object that lives, and its mCall
    activity,  \* whether it is started, its mCallService, and the fragment it shows
    notice,    \* the state in the notification, or "none"
    main,      \* the queue of the main thread
    system,    \* what the system knows of the service
    past       \* history and bounds

vars == <<calls, service, activity, notice, main, system, past>>

Whole == [calls |-> calls, service |-> service, activity |-> activity,
          notice |-> notice, main |-> main, system |-> system, past |-> past]

Become(w) ==
    /\ calls' = w.calls
    /\ service' = w.service
    /\ activity' = w.activity
    /\ notice' = w.notice
    /\ main' = w.main
    /\ system' = w.system
    /\ past' = w.past

NewCall == [state |-> "IDLE",    \* mState
            thread |-> "none",   \* what mThread does
            box |-> <<>>,        \* messages of mHandler
            delayed |-> FALSE,   \* a RESTART is due in some seconds
            quits |-> FALSE,     \* quitSafely was called
            reports |-> None]    \* the service whose message is registered

NoService == [id |-> None, call |-> None]
NoView == [state |-> "none", call |-> None]

Init ==
    /\ calls = [c \in Calls |-> NewCall]
    /\ service = NoService
    /\ activity = [started |-> FALSE, service |-> None, view |-> NoView]
    /\ notice = "none"
    /\ main = <<>>
    /\ system = [record |-> None, last |-> None,   \* the service that is up; services made
                 started |-> FALSE, bound |-> FALSE,
                 told |-> FALSE]                   \* the binding was announced
    /\ past = [starts |-> 0, hangUps |-> 0, visits |-> 0, failures |-> 0,
               ended |-> {},        \* calls somebody has hung up
               overrun |-> FALSE]   \* stopSelf met a start that was still queued

Enqueue(w, item) == [w EXCEPT !.main = Append(@, item)]

-----------------------------------------------------------------------------
(* The system                                                              *)

BringUp(w) ==
    IF w.system.record # None THEN w
    ELSE LET n == w.system.last + 1
         IN Enqueue([w EXCEPT !.system.record = n, !.system.last = n],
                    [kind |-> "create", service |-> n])

BringDown(w) ==
    IF w.system.record = None \/ w.system.started \/ w.system.bound THEN w
    ELSE Enqueue([w EXCEPT !.system.record = None], [kind |-> "destroy"])

StartService(w, item) == Enqueue([BringUp(w) EXCEPT !.system.started = TRUE], item)

\* Without a startId, it undoes all starts, those still queued among them.  The
\* system ignores a service it has already brought down.
StopSelf(w) ==
    IF w.system.record # w.service.id THEN w
    ELSE BringDown([w EXCEPT !.system.started = FALSE,
                             !.past.overrun = @ \/ \E i \in DOMAIN w.main :
                                                     w.main[i].kind = "start"])

\* The system calls onServiceConnected through the main thread, once per binding.
AnnounceBinding ==
    /\ system.bound /\ ~system.told
    /\ service.id # None /\ service.id = system.record
    /\ Become(Enqueue([Whole EXCEPT !.system.told = TRUE], [kind |-> "connected"]))

-----------------------------------------------------------------------------
(* The thread of a call                                                    *)

\* A thread that quits takes no more messages.
Send(w, c, what) ==
    IF w.calls[c].quits THEN w ELSE [w EXCEPT !.calls[c].box = Append(@, what)]

\* Mutant of LetGo: nobody disposes of the call.
LetGoForgotten(w, c) == [w EXCEPT !.calls[c].reports = None]

\* Unregistered and disposed of: it stops, then the thread ends.  The delayed
\* restart is not kept.
LetGo(w, c) ==
    [Send(w, c, "STOP") EXCEPT !.calls[c].quits = TRUE,
                               !.calls[c].delayed = FALSE,
                               !.calls[c].reports = None]

\* Where a message takes a call, if it takes it anywhere.
Targets(state, what) ==
    CASE state = "IDLE" /\ what = "START" -> {"ROOM", "ERROR"}
      [] state = "ERROR" /\ what = "RESTART" -> {"ROOM", "ERROR"}
      [] state # "IDLE" /\ what = "STOP" -> {"IDLE"}
      [] OTHER -> {}

NoRestart(box) == Only(box, {"START", "STOP"})

\* gotoState sets mState, ...
GotoState(c, k, s) ==
    LET failures == past.failures + (IF s = "ERROR" THEN 1 ELSE 0)
    IN /\ failures =< MaxFailures
       /\ calls' = [calls EXCEPT ![c] = [k EXCEPT !.state = s, !.thread = "fires"]]
       /\ past' = [past EXCEPT !.failures = failures]
       /\ UNCHANGED <<service, activity, notice, main, system>>

\* A restart that is taken is the only one.
TakeMessage(c) ==
    /\ calls[c].thread = "waits" /\ calls[c].box # <<>>
    /\ \E s \in Targets(calls[c].state, Head(calls[c].box)) :
         GotoState(c, IF Head(calls[c].box) = "RESTART"
                      THEN [calls[c] EXCEPT !.box = NoRestart(@), !.delayed = FALSE]
                      ELSE [calls[c] EXCEPT !.box = Tail(@)],
                   s)

\* Whatever else goes wrong in a room ends in an error.
Fail(c) ==
    /\ calls[c].thread = "waits" /\ calls[c].state = "ROOM"
    /\ GotoState(c, calls[c], "ERROR")

\* ... tells the service if it still listens, ...
FireStateChanged(c) ==
    /\ calls[c].thread = "fires"
    /\ Become(LET w == [Whole EXCEPT !.calls[c].thread = "works"]
              IN IF calls[c].reports = None THEN w
                 ELSE Enqueue(w, [kind |-> "state", service |-> calls[c].reports,
                                  call |-> c, state |-> calls[c].state]))

\* ... and does the work: only then is the old state taken down.  An error may
\* come with a restart.
Work(c) ==
    /\ calls[c].thread = "works"
    /\ \E retry \in BOOLEAN :
         calls' = [calls EXCEPT
                     ![c].thread = "waits",
                     ![c].box = IF calls[c].state = "ROOM" THEN @ ELSE NoRestart(@),
                     ![c].delayed = retry /\ calls[c].state = "ERROR" /\ ~calls[c].quits]
    /\ UNCHANGED <<service, activity, notice, main, system, past>>

DropMessage(c) ==
    /\ calls[c].thread = "waits" /\ calls[c].box # <<>>
    /\ Targets(calls[c].state, Head(calls[c].box)) = {}
    /\ calls' = [calls EXCEPT ![c].box = Tail(@)]
    /\ UNCHANGED <<service, activity, notice, main, system, past>>

DelayOver(c) ==
    /\ calls[c].delayed
    /\ calls' = [calls EXCEPT ![c].delayed = FALSE, ![c].box = Append(@, "RESTART")]
    /\ UNCHANGED <<service, activity, notice, main, system, past>>

ThreadEnds(c) ==
    /\ calls[c].thread = "waits" /\ calls[c].quits /\ calls[c].box = <<>>
    /\ calls' = [calls EXCEPT ![c].thread = "ended"]
    /\ UNCHANGED <<service, activity, notice, main, system, past>>

-----------------------------------------------------------------------------
(* The main thread: the service                                            *)

\* The fragment is attached later, by a task of its own.
ShowFragment(w, s) ==
    IF w.activity.service = None \/ w.activity.service # w.service.id THEN w
    ELSE Enqueue(w, [kind |-> "attach", state |-> s])

StateOf(w) == IF w.service.call = None THEN "IDLE" ELSE w.calls[w.service.call].state

OnCreate(w, m) == [w EXCEPT !.service = [id |-> m.service, call |-> None]]

\* Mutant of OnDestroy: the message stays registered.
OnDestroyRegistered(w) ==
    LET gone == IF w.service.call = None THEN w
                ELSE [Send(w, w.service.call, "STOP") EXCEPT !.calls[w.service.call].quits = TRUE]
    IN [gone EXCEPT !.service = NoService, !.notice = "none"]

OnDestroy(w) ==
    LET gone == IF w.service.call = None THEN w ELSE LetGo(w, w.service.call)
    IN [gone EXCEPT !.service = NoService, !.notice = "none"]

\* Hanging up does not wait for the call to end.
OnHangUp(w) ==
    StopSelf(IF w.service.call = None THEN w
             ELSE [Send(w, w.service.call, "STOP") EXCEPT !.past.ended = @ \cup {w.service.call}])

Unused(w) == {c \in Calls : w.calls[c].thread = "none"}

\* The notification is built before the call.
BeginCall(w) ==
    LET c == Min(Unused(w))
    IN [w EXCEPT !.service.call = c, !.notice = "IDLE",
                 !.calls[c] = [@ EXCEPT !.thread = "waits", !.box = <<"START">>,
                                        !.reports = w.service.id]]

\* Mutant of OnStart: a request that is ignored stops the service, as a bad one does.
OnStartStops(w, m) ==
    IF w.service.call # None \/ ~m.good THEN StopSelf(w) ELSE BeginCall(w)

OnStart(w, m) ==
    CASE w.service.call # None -> w
      [] w.service.call = None /\ ~m.good -> StopSelf(w)
      [] w.service.call = None /\ m.good -> BeginCall(w)

\* MSG_CALL_STATE_CHANGED.  The notification shows the state the call is in by
\* now, the fragment the one the message brings.
OnCallStateChanged(w, m) ==
    IF m.service # w.service.id \/ m.call # w.service.call THEN w
    ELSE IF m.state # "IDLE" THEN ShowFragment([w EXCEPT !.notice = StateOf(w)], m.state)
    ELSE ShowFragment(StopSelf([LetGo(w, m.call) EXCEPT !.service.call = None,
                                                        !.notice = "none"]),
                      "IDLE")

-----------------------------------------------------------------------------
(* The main thread: the activity                                           *)

\* Mutant of OnServiceConnected: the listener is not told the state at once.
OnServiceConnectedSilently(w) == [w EXCEPT !.activity.service = w.service.id]

\* onServiceConnected registers the listener, which is told the state at once.
OnServiceConnected(w) == ShowFragment([w EXCEPT !.activity.service = w.service.id], StateOf(w))

\* A fragment asks the service for its call when it is attached; the room
\* selection has none.
OnAttach(w, m) ==
    [w EXCEPT !.activity.view = [state |-> m.state,
                                 call |-> IF m.state = "IDLE" THEN None ELSE w.service.call]]

Handled(w, m) ==
    CASE m.kind = "create" -> OnCreate(w, m)
      [] m.kind = "destroy" -> OnDestroy(w)
      [] m.kind = "start" -> OnStart(w, m)
      [] m.kind = "hang up" -> OnHangUp(w)
      [] m.kind = "state" -> OnCallStateChanged(w, m)
      [] m.kind = "connected" -> OnServiceConnected(w)
      [] m.kind = "attach" -> OnAttach(w, m)

MainThread ==
    /\ main # <<>>
    /\ Become(Handled([Whole EXCEPT !.main = Tail(@)], Head(main)))

\* onStart binds; BIND_AUTO_CREATE brings the service up.
ActivityStarts ==
    /\ ~activity.started /\ past.visits < MaxVisits
    /\ Become(BringUp([Whole EXCEPT !.activity.started = TRUE, !.system.bound = TRUE,
                                    !.past.visits = @ + 1]))

\* onStop: no announcement comes after the unbinding; a fragment that waits is
\* attached before, and gone with the others.
ActivityStops ==
    /\ activity.started
    /\ Become(BringDown([Whole EXCEPT
                !.activity = [started |-> FALSE, service |-> None, view |-> NoView],
                !.system.bound = FALSE, !.system.told = FALSE,
                !.main = Only(@, {m \in Range(@) : m.kind \notin {"connected", "attach"}})]))

RequestCall(good) ==
    /\ past.starts < MaxStarts
    /\ Become(StartService([Whole EXCEPT !.past.starts = @ + 1],
                           [kind |-> "start", good |-> good]))

\* The room selection lets only valid names pass, ...
JoinRoom == activity.view.state = "IDLE" /\ RequestCall(TRUE)

\* ... a link that was followed may have none.  It comes at any time: it is what
\* brings the activity to the front.
FollowLink == \E good \in BOOLEAN : RequestCall(good)

\* The buttons of the fragments; they act on the call the fragment has got.  Each
\* is pressed once: pressed again it posts what is queued already.
HangUp ==
    /\ activity.view.state \in {"ERROR", "ROOM"} /\ activity.view.call # None
    /\ activity.view.call \notin past.ended
    /\ Become([Send(Whole, activity.view.call, "STOP")
                 EXCEPT !.past.ended = @ \cup {activity.view.call}])

Restart ==
    /\ activity.view.state = "ERROR" /\ activity.view.call # None
    /\ "RESTART" \notin Range(calls[activity.view.call].box)
    /\ Become(Send(Whole, activity.view.call, "RESTART"))

\* "End call" in the notification.
EndCall ==
    /\ notice \in {"ERROR", "ROOM"} /\ past.hangUps < MaxHangUps
    /\ Become(StartService([Whole EXCEPT !.past.hangUps = @ + 1], [kind |-> "hang up"]))

CallThread(c) ==
    \/ TakeMessage(c) \/ DropMessage(c) \/ FireStateChanged(c) \/ Work(c) \/ ThreadEnds(c)

Next ==
    \/ MainThread
    \/ AnnounceBinding
    \/ \E c \in Calls : CallThread(c) \/ Fail(c) \/ DelayOver(c)
    \/ ActivityStarts \/ ActivityStops
    \/ JoinRoom \/ FollowLink \/ HangUp \/ Restart \/ EndCall

Spec == Init /\ [][Next]_vars

-----------------------------------------------------------------------------
(* Properties                                                              *)

Quiet(c) == calls[c].thread # "fires"

\* Type correctness; and just the call of the service has the service's message.
ServiceTypeOK ==
    /\ calls \in [Calls -> [state : CallState,
                            thread : {"none", "waits", "fires", "works", "ended"},
                            box : Seq({"START", "STOP", "RESTART"}),
                            delayed : BOOLEAN, quits : BOOLEAN,
                            reports : Services \cup {None}]]
    /\ service \in [id : Services \cup {None}, call : Calls \cup {None}]
    /\ activity \in [started : BOOLEAN, service : Services \cup {None},
                     view : [state : CallState \cup {"none"}, call : Calls \cup {None}]]
    /\ notice \in CallState \cup {"none"}
    /\ Range(main) \subseteq
         [kind : {"destroy", "hang up", "connected"}]
         \cup [kind : {"create"}, service : Services]
         \cup [kind : {"start"}, good : BOOLEAN]
         \cup [kind : {"state"}, service : Services, call : Calls, state : CallState]
         \cup [kind : {"attach"}, state : CallState]
    /\ system \in [record : Services \cup {None}, last : Services \cup {None},
                   started : BOOLEAN, bound : BOOLEAN, told : BOOLEAN]
    /\ past.ended \subseteq Calls
    /\ \A c \in Calls : calls[c].reports = (IF service.call = c THEN service.id ELSE None)

\* When the main thread has nothing to do and the call has told its state, the
\* notification and the screen show that state, and the buttons act on that call,
\* whenever the activity came and went and however the messages were delayed.
StateIsShown ==
    (main = <<>> /\ (service.call = None \/ Quiet(service.call))) =>
      LET state == IF service.call = None THEN "IDLE" ELSE calls[service.call].state
      IN /\ notice = (IF service.call = None THEN "none" ELSE state)
         /\ activity.service # None =>
              activity.view = [state |-> state,
                               call |-> IF state = "IDLE" THEN None ELSE service.call]

\* A call that runs belongs to the service or has been told to end; and a service
\* that nobody needs any more is brought down.
NothingLingers ==
    /\ \A c \in Calls : calls[c].thread \notin {"none", "ended"} =>
         service.call = c \/ calls[c].quits
    /\ (main = <<>> /\ ~activity.started /\ service.call = None) => system.record = None

\* No service is destroyed under a call that nobody has hung up, so that it can be
\* left to go on in the background (InRoomFragment.java:92), unless a start was
\* still queued when a service stopped itself, then or earlier (onStartCommand and
\* handleMessage call stopSelf without a startId).
KeptUnlessOverrun ==
    [][(service.call # None /\ service'.id # service.id) =>
         service.call \in past.ended \/ past.overrun]_vars

=============================================================================
