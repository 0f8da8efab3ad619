------------------------------ MODULE Capturer ------------------------------
(***************************************************************************)
(* The camera of the glasses (service/IristickCapturer.java).              *)
(*                                                                         *)
(* The call's thread starts a capturer, changes its zoom and stops it; the *)
(* camera thread runs a queue of tasks: what the code posts, and what the  *)
(* headset reports of a camera device.  Both hold mStateLock while they    *)
(* work; stopCapture gives it up while it waits for an opening session.    *)
(* Every opening gets a device of its own, numbered in their order.        *)
(*                                                                         *)
(* Left out: frames, auto focus and pictures, which change no state the    *)
(* rest depends on, and the end of the camera thread after dispose.        *)
(***************************************************************************)
EXTENDS Naturals, Sequences, FiniteSets

CONSTANTS
    Cameras,     \* length of mCameraNames
    ZoomLevels,  \* the levels the user chooses from
    Faults,      \* when devices fail in this instance: "opening", "streaming"
    Throws,      \* whether the headset may refuse to open a camera
    MaxFailures, \* how many failures are retried before one is reported (3)
    MaxFaults,   \* bound: how many failures the headset reports
    MaxZooms     \* bound: how often the user changes the zoom

ASSUME CapturerAssumption ==
    /\ Cameras \in Nat \ {0}
    /\ ZoomLevels \subseteq Nat /\ ZoomLevels # {}
    /\ Faults \subseteq {"opening", "streaming"}
    /\ Throws \in BOOLEAN
    /\ {MaxFailures, MaxFaults, MaxZooms} \subseteq Nat

NoDevice == 0

\* An opening is due to the start, to a zoom or to a failure.
Device == 1 .. 1 + MaxFaults + MaxZooms

VARIABLE cap

Task(what, of) == [what |-> what, of |-> of]

Init ==
    \E z \in ZoomLevels :
      cap = [opening |-> FALSE,      \* mSessionOpening
             stopping |-> FALSE,     \* mStopping
             failures |-> 0,         \* mFailureCount
             zoom |-> z,             \* mZoom
             index |-> 0,            \* mCameraIdx
             device |-> NoDevice,    \* mCamera, and mSurface with it
             session |-> NoDevice,   \* mCaptureSession: the device it is of
             request |-> z,          \* the zoom of the repeating request
             tasks |-> <<>>,         \* the camera thread's queue
             delayed |-> 0,          \* reopenings in their 200 ms
             caller |-> "new",       \* where the call's thread is
             wish |-> z,             \* the zoom the user chose last
             glasses |-> [d \in Device |-> "none"],  \* the devices outside
             lens |-> [d \in Device |-> 0],          \* the camera each one is
             faults |-> 0, zooms |-> 0,  \* what the bounds count
             reported |-> FALSE,     \* onCameraError was called
             refused |-> FALSE,      \* history: the headset refused an opening
             unplugged |-> FALSE,    \* a disconnection was handled
             overlapped |-> FALSE]   \* history: opened a camera beside an opening

-----------------------------------------------------------------------------
(* Steps of the code, on a record s.                                       *)

Posting(s, what, of) == [s EXCEPT !.tasks = Append(@, Task(what, of))]

\* Mutant of CloseCamera: the old device is forgotten but not closed.
CloseCameraForgets(s) ==
    [s EXCEPT !.session = NoDevice, !.device = NoDevice]

CloseCamera(s) ==
    [Posting(s, "close", s.device) EXCEPT !.session = NoDevice, !.device = NoDevice]

\* Mutant of OpenCamera: the new device is asked for before the old one is closed.
OpenCameraFirst(s, resetFailures) ==
    CloseCamera(Posting([s EXCEPT !.failures = IF resetFailures THEN 0 ELSE @,
                                  !.opening = TRUE], "open", NoDevice))

OpenCamera(s, resetFailures) ==
    Posting([CloseCamera(s) EXCEPT
                !.failures = IF resetFailures THEN 0 ELSE @,
                !.opening = TRUE], "open", NoDevice)

\* Mutant of EndCapture: the capturer is stopping for ever.
EndCaptureStopping(s) == IF s.session # NoDevice THEN CloseCamera(s) ELSE s

\* stopCapture after its wait.
EndCapture(s) ==
    [(IF s.session # NoDevice THEN CloseCamera(s) ELSE s) EXCEPT !.stopping = FALSE]

\* Mutant of AbandonOpening: the opening goes on for those who wait for it.
AbandonOpeningStuck(s) ==
    IF s.opening /\ s.device # NoDevice
    THEN [s EXCEPT !.glasses[s.device] = "closed", !.device = NoDevice]
    ELSE s

AbandonOpening(s) ==
    IF ~ s.opening THEN s
    ELSE LET closed == IF s.device = NoDevice THEN s
                       ELSE [s EXCEPT !.glasses[s.device] = "closed",
                                      !.device = NoDevice]
         IN  [closed EXCEPT !.opening = FALSE]

Disconnected(s) ==
    IF s.stopping THEN [s EXCEPT !.unplugged = TRUE]
    ELSE EndCapture([s EXCEPT !.unplugged = TRUE])

\* Mutant of FailedWith: the failure is counted but the retry not posted.
FailedWithNoRetry(s) ==
    IF s.failures < MaxFailures /\ ~ s.stopping
    THEN [s EXCEPT !.failures = @ + 1]
    ELSE IF s.stopping THEN [s EXCEPT !.reported = TRUE]
    ELSE EndCapture([s EXCEPT !.reported = TRUE])

FailedWith(s) ==
    IF s.failures < MaxFailures /\ ~ s.stopping
    THEN [s EXCEPT !.failures = @ + 1, !.delayed = @ + 1]
    ELSE IF s.stopping THEN [s EXCEPT !.reported = TRUE]
    ELSE EndCapture([s EXCEPT !.reported = TRUE])

HandleFailure(s, disconnected) ==
    LET t == AbandonOpening(s) IN IF disconnected THEN Disconnected(t) ELSE FailedWith(t)

WrongCamera(s) ==
    /\ Cameras >= 2
    /\ \/ s.zoom = 0 /\ s.index # 0
       \/ s.zoom > 0 /\ s.index # 1

ApplyParametersInternal(s) ==
    IF s.opening \/ s.stopping \/ s.session = NoDevice THEN s
    ELSE IF WrongCamera(s) THEN OpenCamera([s EXCEPT !.index = (@ + 1) % 2], TRUE)
    ELSE [s EXCEPT !.request = s.zoom]

-----------------------------------------------------------------------------
(* The call's thread.                                                      *)

StartCapture ==
    /\ cap.caller = "new"
    /\ ~ cap.opening /\ cap.session = NoDevice
    /\ cap' = OpenCamera([cap EXCEPT
                  !.caller = "running",
                  !.index = IF Cameras >= 2 /\ cap.zoom > 0 THEN 1 ELSE 0], TRUE)

SetZoom(z) ==
    /\ cap.caller = "running"
    /\ cap.zooms < MaxZooms
    /\ cap' = Posting([cap EXCEPT !.wish = z, !.zooms = @ + 1], "zoom", z)

\* stopCapture, called to stop and again by dispose; it waits if it must.
Waiting == [running |-> "stopping", stopped |-> "disposing"]
Returned == [running |-> "stopped", stopping |-> "stopped",
             stopped |-> "disposed", disposing |-> "disposed"]

StopCapture ==
    /\ cap.caller \in DOMAIN Waiting
    /\ cap' = IF cap.opening
              THEN [cap EXCEPT !.stopping = TRUE, !.caller = Waiting[@]]
              ELSE EndCapture([cap EXCEPT !.caller = Returned[@]])

StopCaptureWakes ==
    /\ cap.caller \in {"stopping", "disposing"}
    /\ ~ cap.opening
    /\ cap' = EndCapture([cap EXCEPT !.caller = Returned[@]])

-----------------------------------------------------------------------------
(* The camera thread.                                                      *)

Take(what) == cap.tasks # <<>> /\ Head(cap.tasks).what = what
Of == Head(cap.tasks).of
Taken == [cap EXCEPT !.tasks = Tail(@)]

CloseTask ==
    /\ Take("close")
    /\ cap' = IF Of = NoDevice THEN Taken ELSE [Taken EXCEPT !.glasses[Of] = "closed"]

\* The headset takes the request, or throws: then only the error is reported.
OpenTask ==
    /\ Take("open")
    /\ \/ \E d \in Device :
            /\ cap.glasses[d] = "none"
            /\ \A e \in Device : e < d => cap.glasses[e] # "none"
            /\ cap' = [Taken EXCEPT !.glasses[d] = "opening", !.lens[d] = cap.index]
       \/ Throws /\ cap' = [Taken EXCEPT !.reported = TRUE, !.refused = TRUE]

\* Nothing keeps a retry from opening a camera while another opening goes on: one
\* of a zoom meanwhile, or one whose end the code wrongly believed in.
Queued(what, d) == \E i \in 1 .. Len(cap.tasks) : cap.tasks[i] = Task(what, d)
Underway == \/ cap.opening
            \/ Queued("open", NoDevice)
            \/ \E d \in Device : \/ cap.glasses[d] \in {"opening", "configuring"}
                                \/ Queued("opened", d) \/ Queued("configured", d)

ReopenTask ==
    /\ Take("reopen")
    /\ cap' = OpenCamera([Taken EXCEPT !.overlapped = @ \/ Underway], FALSE)

ZoomTask == Take("zoom") /\ cap' = ApplyParametersInternal([Taken EXCEPT !.zoom = Of])

\* A device that was closed or failed before does not get a session.
OnOpened ==
    /\ Take("opened")
    /\ cap' = [Taken EXCEPT !.device = Of,
                            !.glasses[Of] = IF @ = "open" THEN "configuring" ELSE @]

\* Mutant of OnConfigured: a zoom chosen during the opening is forgotten.
OnConfiguredAsIs ==
    /\ Take("configured")
    /\ cap' = [Taken EXCEPT !.opening = FALSE, !.session = Of]

OnConfigured ==
    /\ Take("configured")
    /\ cap' = ApplyParametersInternal([Taken EXCEPT !.opening = FALSE, !.session = Of])

OnConfigureFailed == Take("configureFailed") /\ cap' = HandleFailure(Taken, FALSE)

\* A failure is also taken while mCamera is null, though it may be of a device whose
\* closing is queued, and not of the one being opened.
Accepted(d) == cap.device = d \/ cap.device = NoDevice

OnFailure(what) ==
    /\ Take(what)
    /\ cap' = IF Accepted(Of) THEN HandleFailure(Taken, what = "disconnected") ELSE Taken

OnError == OnFailure("error")
OnDisconnected == OnFailure("disconnected")

CameraThread ==
    \/ CloseTask
    \/ OpenTask
    \/ ReopenTask
    \/ ZoomTask
    \/ OnOpened
    \/ OnConfigured
    \/ OnConfigureFailed
    \/ OnError
    \/ OnDisconnected

\* The 200 ms of a retry are over.
DelayOver ==
    /\ cap.delayed > 0
    /\ cap' = Posting([cap EXCEPT !.delayed = @ - 1], "reopen", NoDevice)

-----------------------------------------------------------------------------
(* The headset.  A device reports one failure and nothing after it.        *)

DeviceOpens(d) ==
    /\ cap.glasses[d] = "opening"
    /\ cap' = Posting([cap EXCEPT !.glasses[d] = "open"], "opened", d)

DeviceConfigures(d) ==
    /\ cap.glasses[d] = "configuring"
    /\ cap' = Posting([cap EXCEPT !.glasses[d] = "ready"], "configured", d)

Failing(s, d, what) ==
    Posting([s EXCEPT !.glasses[d] = "failed", !.faults = @ + 1], what, d)

DeviceFails(d) ==
    /\ cap.faults < MaxFaults
    /\ \/ /\ cap.glasses[d] = "opening" /\ "opening" \in Faults
          /\ \E what \in {"error", "disconnected"} : cap' = Failing(cap, d, what)
       \/ /\ cap.glasses[d] = "configuring" /\ "opening" \in Faults
          /\ cap' = Failing(cap, d, "configureFailed")
       \/ /\ cap.glasses[d] \in {"open", "ready"} /\ "streaming" \in Faults
          /\ \E what \in {"error", "disconnected"} : cap' = Failing(cap, d, what)

DeviceAnswers(d) == DeviceOpens(d) \/ DeviceConfigures(d)

Next ==
    \/ StartCapture
    \/ \E z \in ZoomLevels : SetZoom(z)
    \/ StopCapture
    \/ StopCaptureWakes
    \/ CameraThread
    \/ DelayOver
    \/ \E d \in Device : DeviceAnswers(d) \/ DeviceFails(d)

Spec == Init /\ [][Next]_cap

\* The threads run, the timer fires, the headset answers what it accepted.
FairSpec ==
    /\ Spec
    /\ WF_cap(StopCaptureWakes)
    /\ WF_cap(CameraThread)
    /\ WF_cap(DelayOver)
    /\ \A d \in Device : WF_cap(DeviceAnswers(d))

-----------------------------------------------------------------------------
(* Properties.                                                             *)

\* Every field has its type; failures stay within their limit, and stopCapture
\* is the only one to stop (lines 83-96).
CapturerTypeOK ==
    /\ cap.failures \in 0 .. MaxFailures
    /\ cap.zoom \in ZoomLevels /\ cap.wish \in ZoomLevels /\ cap.request \in ZoomLevels
    /\ cap.index \in {0, 1} /\ cap.index < Cameras
    /\ {cap.device, cap.session} \subseteq Device \cup {NoDevice}
    /\ cap.glasses \in [Device -> {"none", "opening", "open", "configuring", "ready",
                                   "failed", "closed"}]
    /\ cap.caller \in {"new", "running"} \cup DOMAIN Returned \cup {"disposing", "disposed"}
    /\ cap.stopping <=> cap.caller \in {"stopping", "disposing"}

\* Some properties hold only until a retry opens a camera beside an opening that
\* goes on (ReopenTask): then the first device to open is forgotten.

InUse(d) == cap.glasses[d] \in {"opening", "open", "configuring", "ready"}

\* No camera is left on that nobody will close: a device in use is the current
\* one, is about to be, or its closing is queued (closeCamera, handleFailure).
NoOrphan ==
    ~ cap.overlapped =>
        \A d \in Device :
          InUse(d) => \/ cap.device = d
                      \/ cap.glasses[d] = "opening"
                      \/ Queued("opened", d)
                      \/ Queued("close", d)

\* The glasses are never asked for two cameras at once: a device has been closed
\* when the next one is requested (openCamera posts the closing first).
OneCamera ==
    ~ cap.overlapped => Cardinality({d \in Device : InUse(d)}) <= 1

Live == /\ cap.session # NoDevice /\ cap.glasses[cap.session] = "ready"
        /\ cap.device = cap.session

\* Once the camera streams and the queue is drained, it shows what the user chose
\* last: the right camera and the right zoom, whatever was chosen while a camera
\* was opening or failing (applyParametersInternal, onConfigured).
ZoomShown ==
    /\ Live /\ cap.tasks = <<>> /\ cap.delayed = 0
    /\ cap.caller = "running" /\ ~ cap.overlapped
    => /\ cap.request = cap.wish
       /\ Cameras >= 2 => cap.lens[cap.session] = (IF cap.wish > 0 THEN 1 ELSE 0)

InStop == cap.caller \in {"stopping", "disposing"}

\* "stopCapture: Waiting for session to open" (line 173): the wait ends, because
\* a session that is opening opens or fails.
StopReturns == InStop ~> ~ InStop

\* The same as long as the headset does not refuse to open a camera, however
\* often cameras fail and are opened again meanwhile.
StopReturnsIfOpened == InStop ~> (~ InStop \/ cap.refused)

\* A capturer that was started shows video, or its listener is told that it cannot,
\* however often a device fails, or it is stopped (handleFailure).
VideoOrVerdict ==
    (cap.caller = "running") ~> \/ Live \/ cap.reported \/ cap.unplugged
                                \/ cap.caller # "running" \/ cap.overlapped

=============================================================================
