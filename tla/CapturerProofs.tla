--------------------------- MODULE CapturerProofs ---------------------------
(***************************************************************************)
(* The camera of module Capturer, for any number of cameras, zoom levels,  *)
(* failures and zooms: one camera at a time, none left on, and the picture *)
(* that the user chose last.                                               *)
(*                                                                         *)
(* The argument is that an opening is on its way in exactly one place: as  *)
(* a task to open, as a device that is opening or configuring, or as the   *)
(* headset's report of that.  What closes the last device is queued before *)
(* the task that opens the next.                                           *)
(***************************************************************************)
EXTENDS Capturer, FiniteSetTheorems, TLAPS

Fields == {"opening", "stopping", "failures", "zoom", "index", "device", "session",
           "request", "tasks", "delayed", "caller", "wish", "glasses", "lens", "faults",
           "zooms", "reported", "refused", "unplugged", "overlapped"}

Callers == {"new", "running", "stopping", "stopped", "disposing", "disposed"}
States == {"none", "opening", "open", "configuring", "ready", "failed", "closed"}

Reports == {"opened", "configured", "configureFailed", "error", "disconnected"}
Tasks == [what : {"close"}, of : Device \cup {NoDevice}]
         \cup [what : {"open", "reopen"}, of : {NoDevice}]
         \cup [what : {"zoom"}, of : ZoomLevels]
         \cup [what : Reports, of : Device]

-----------------------------------------------------------------------------
(* The invariant, of a record s.                                           *)

Typed(s) ==
    /\ DOMAIN s = Fields
    /\ s.opening \in BOOLEAN /\ s.stopping \in BOOLEAN /\ s.overlapped \in BOOLEAN
    /\ s.failures \in 0 .. MaxFailures
    /\ s.zoom \in ZoomLevels /\ s.wish \in ZoomLevels /\ s.request \in ZoomLevels
    /\ s.index \in {0, 1} /\ s.index < Cameras
    /\ s.device \in Device \cup {NoDevice} /\ s.session \in Device \cup {NoDevice}
    /\ s.glasses \in [Device -> States] /\ DOMAIN s.lens = Device
    /\ s.tasks \in Seq(Tasks) /\ s.delayed \in Nat

\* Only stopCapture is stopping, and nothing happens before the start.
Called(s) ==
    /\ s.caller \in Callers /\ (s.stopping <=> s.caller \in {"stopping", "disposing"})
    /\ s.caller = "new" => /\ s.tasks = <<>> /\ s.delayed = 0 /\ s.session = NoDevice
                           /\ \A d \in Device : s.glasses[d] = "none"

\* The zoom is the user's choice, or the last task that sets it is.
Wished(s) ==
    /\ (\A i \in DOMAIN s.tasks : s.tasks[i].what # "zoom") => s.zoom = s.wish
    /\ \A i \in DOMAIN s.tasks :
          /\ s.tasks[i].what = "zoom"
          /\ \A j \in DOMAIN s.tasks : j > i => s.tasks[j].what # "zoom"
          => s.tasks[i].of = s.wish

Exclusive(s) == s.opening => s.session = NoDevice

\* A session shows the zoom, but while it is being stopped.
Applied(s) ==
    s.session # NoDevice /\ ~ s.stopping => s.request = s.zoom /\ ~ WrongCamera(s)

On(x) == x \in {"opening", "open", "configuring", "ready"}
Pending(x) == x \in {"opening", "configuring"}
Step(t) == t.what \in {"open", "opened", "configured"}
Has(s, what, d) == \E i \in DOMAIN s.tasks : s.tasks[i] = Task(what, d)

\* An opening is on its way in at most one place, and there is no session then.
OneOpening(s) ==
    /\ \A i, j \in DOMAIN s.tasks : Step(s.tasks[i]) /\ Step(s.tasks[j]) => i = j
    /\ \A d, e \in Device : Pending(s.glasses[d]) /\ Pending(s.glasses[e]) => d = e
    /\ \A i \in DOMAIN s.tasks, d \in Device :
          ~ (Step(s.tasks[i]) /\ Pending(s.glasses[d]))
    /\ \A i \in DOMAIN s.tasks : Step(s.tasks[i]) => s.session = NoDevice
    /\ \A d \in Device : Pending(s.glasses[d]) => s.session = NoDevice

\* The device on its way is the only one that is on; before the next one is
\* asked for, every device that is on will be closed.
OneOn(s) ==
    /\ \A d, e \in Device : On(s.glasses[d]) /\ On(s.glasses[e]) => d = e
    /\ \A i \in DOMAIN s.tasks, d \in Device :
          s.tasks[i].what \in {"opened", "configured"} /\ On(s.glasses[d])
          => d = s.tasks[i].of
    /\ \A i \in DOMAIN s.tasks, d \in Device :
          s.tasks[i].what = "open" /\ On(s.glasses[d])
          => \E j \in DOMAIN s.tasks : j < i /\ s.tasks[j] = Task("close", d)

\* A device that is on is known to the code or will be.
Known(s) ==
    \A d \in Device :
        /\ On(s.glasses[d]) => \/ s.device = d \/ s.glasses[d] = "opening"
                               \/ Has(s, "opened", d) \/ Has(s, "close", d)
        /\ s.glasses[d] = "open" => Has(s, "opened", d)

\* The device on its way, and that of the session, is the camera that was chosen.
Chosen(s) ==
    /\ \A d \in Device : Pending(s.glasses[d]) => s.lens[d] = s.index
    /\ \A i \in DOMAIN s.tasks :
          s.tasks[i].what \in {"opened", "configured"} => s.lens[s.tasks[i].of] = s.index
    /\ s.session # NoDevice => s.lens[s.session] = s.index

Devices(s) == OneOpening(s) /\ OneOn(s) /\ Known(s)

Pipe(s) == Devices(s) /\ Chosen(s)

Kept(s) ==
    /\ Typed(s) /\ Wished(s) /\ Exclusive(s) /\ Applied(s)
    /\ ~ s.overlapped => Pipe(s)

CapInv == Kept(cap) /\ Called(cap)

-----------------------------------------------------------------------------
(* Records and queues.                                                     *)

\* t is s, but for some fields.
Changes(s, t, names) ==
    DOMAIN t = Fields /\ \A f \in Fields \ names : t[f] = s[f]

\* The devices are numbered from 1.
LEMMA DeviceFacts == NoDevice \notin Device /\ Device \subseteq Nat
BY CapturerAssumption DEF NoDevice, Device

\* What the tasks are.
LEMMA TaskFacts ==
    /\ \A d \in Device \cup {NoDevice} : Task("close", d) \in Tasks
    /\ Task("open", NoDevice) \in Tasks /\ Task("reopen", NoDevice) \in Tasks
    /\ \A z \in ZoomLevels : Task("zoom", z) \in Tasks
    /\ \A what \in Reports, d \in Device : Task(what, d) \in Tasks
    /\ \A what, of : Task(what, of).what = what /\ Task(what, of).of = of
    /\ \A k \in Tasks : /\ k = Task(k.what, k.of)
                        /\ k.what = "close" => k.of \in Device \cup {NoDevice}
                        /\ k.what \in {"open", "reopen"} => k.of = NoDevice
                        /\ k.what = "zoom" => k.of \in ZoomLevels
                        /\ k.what \in Reports => k.of \in Device
BY DEF Task, Tasks, Reports

\* A task is queued.
LEMMA PutTask ==
    ASSUME NEW q \in Seq(Tasks), NEW k \in Tasks
    PROVE  /\ Append(q, k) \in Seq(Tasks) /\ DOMAIN q \subseteq Nat /\ Len(q) + 1 \in Nat
           /\ \A i \in DOMAIN q : /\ i \in DOMAIN Append(q, k) /\ Append(q, k)[i] = q[i]
                                  /\ i < Len(q) + 1
           /\ Len(q) + 1 \in DOMAIN Append(q, k) /\ Append(q, k)[Len(q) + 1] = k
           /\ \A i \in DOMAIN Append(q, k) : i \in DOMAIN q \/ i = Len(q) + 1
OBVIOUS

\* The first task is taken.
LEMMA TakeTask ==
    ASSUME NEW q \in Seq(Tasks), q # <<>>
    PROVE  /\ Tail(q) \in Seq(Tasks) /\ DOMAIN q \subseteq Nat /\ DOMAIN Tail(q) \subseteq Nat
           /\ 1 \in DOMAIN q /\ Head(q) = q[1] /\ Head(q) \in Tasks
           /\ \A i \in DOMAIN q : i >= 1
           /\ \A i \in DOMAIN Tail(q) : /\ i + 1 \in DOMAIN q /\ Tail(q)[i] = q[i + 1]
                                        /\ i + 1 # 1
           /\ \A i \in DOMAIN q : i # 1 => /\ i - 1 \in DOMAIN Tail(q)
                                           /\ Tail(q)[i - 1] = q[i]
OBVIOUS

-----------------------------------------------------------------------------
(* What the changes of the queue and of the devices keep.                  *)

\* A task that is no part of an opening is queued; the device may be given up if
\* the task closes it.
LEMMA PutKeeps ==
    ASSUME NEW s, NEW t, NEW k \in Tasks, s.tasks \in Seq(Tasks), ~ Step(k), Devices(s),
           t.tasks = Append(s.tasks, k), t.glasses = s.glasses,
           t.session = s.session \/ t.session = NoDevice,
           t.device = s.device \/ k = Task("close", s.device)
    PROVE  /\ Devices(t)
           /\ Chosen(s) /\ t.lens = s.lens /\ t.index = s.index => Chosen(t)
<1> DEFINE q == s.tasks
           u == Append(q, k)
           l == Len(q) + 1
<1>1. /\ \A i \in DOMAIN q : i \in DOMAIN u /\ u[i] = q[i]
      /\ l \in DOMAIN u /\ u[l] = k
      /\ \A i \in DOMAIN u : i \in DOMAIN q \/ i = l
  BY PutTask
<1>2. t.tasks = u
  OBVIOUS
<1> HIDE DEF u, l
<1>3. \A i \in DOMAIN u : Step(u[i]) => i \in DOMAIN q /\ u[i] = q[i]
  BY <1>1
<1>4. OneOpening(t)
  BY <1>2, <1>3 DEF Devices, OneOpening
<1>5. OneOn(t)
  <2>1. \A i \in DOMAIN u : u[i].what \in {"open", "opened", "configured"} => Step(u[i])
    BY DEF Step
  <2> QED
    BY <1>1, <1>2, <1>3, <2>1 DEF Devices, OneOn
<1>6. Known(t)
  <2>1. \A what, d : Has(s, what, d) => Has(t, what, d)
    BY <1>1, <1>2 DEF Has
  <2>2. k = Task("close", s.device) => Has(t, "close", s.device)
    BY <1>1, <1>2 DEF Has
  <2> QED
    BY <2>1, <2>2 DEF Devices, Known
<1>7. Chosen(s) /\ t.lens = s.lens /\ t.index = s.index => Chosen(t)
  BY <1>2, <1>3 DEF Chosen, Step
<1> QED
  BY <1>4, <1>5, <1>6, <1>7 DEF Devices

\* Nothing of an opening is under way.
Idle(s) == /\ \A i \in DOMAIN s.tasks : ~ Step(s.tasks[i])
           /\ \A d \in Device : ~ Pending(s.glasses[d])

\* The next opening is queued behind the closing of the last device.
LEMMA OpenKeeps ==
    ASSUME NEW s, NEW t, s.tasks \in Seq(Tasks), Idle(s), Devices(s),
           s.device = NoDevice, s.session = NoDevice,
           t.tasks = Append(s.tasks, Task("open", NoDevice)), t.glasses = s.glasses,
           t.session = s.session, t.device = s.device
    PROVE  Pipe(t)
<1> DEFINE q == s.tasks
           k == Task("open", NoDevice)
           u == Append(q, k)
           l == Len(q) + 1
<1>1. /\ \A i \in DOMAIN q : i \in DOMAIN u /\ u[i] = q[i] /\ i < l
      /\ l \in DOMAIN u /\ u[l] = k
      /\ \A i \in DOMAIN u : i \in DOMAIN q \/ i = l
      /\ k.what = "open"
  BY PutTask, TaskFacts
<1>2. t.tasks = u
  OBVIOUS
<1> HIDE DEF u, l, k
<1>3. \A i \in DOMAIN u : Step(u[i]) => i = l
  BY <1>1 DEF Idle
<1>4. ASSUME NEW d \in Device, On(s.glasses[d])
      PROVE  \E j \in DOMAIN q : q[j] = Task("close", d)
  <2>1. ~ Has(s, "opened", d)
    BY TaskFacts DEF Has, Idle, Step
  <2> QED
    BY <1>4, <2>1, DeviceFacts DEF Devices, Known, Idle, Pending, Has
<1>5. OneOpening(t)
  BY <1>2, <1>3 DEF OneOpening, Idle
<1>6. OneOn(t)
  <2>1. \A i \in DOMAIN u : u[i].what \in {"opened", "configured"} => FALSE
    BY <1>1, <1>3 DEF Step
  <2>2. ASSUME NEW i \in DOMAIN u, u[i].what = "open", NEW d \in Device, On(s.glasses[d])
        PROVE  \E j \in DOMAIN u : j < i /\ u[j] = Task("close", d)
    <3>1. i = l
      BY <1>3, <2>2 DEF Step
    <3>2. PICK j \in DOMAIN q : q[j] = Task("close", d)
      BY <1>4, <2>2
    <3>3. j \in DOMAIN u /\ u[j] = Task("close", d) /\ j < l
      BY <1>1, <3>2
    <3> QED
      BY <3>1, <3>3
  <2>3. \A d, e \in Device : On(s.glasses[d]) /\ On(s.glasses[e]) => d = e
    BY DEF OneOn, Devices
  <2> QED
    BY <1>2, <2>1, <2>2, <2>3 DEF OneOn
<1>7. Known(t)
  <2>1. \A what, d : Has(s, what, d) => Has(t, what, d)
    BY <1>1, <1>2 DEF Has
  <2> QED
    BY <2>1 DEF Devices, Known
<1>8. Chosen(t)
  <2>1. \A i \in DOMAIN u : u[i].what \in {"opened", "configured"} => FALSE
    BY <1>1, <1>3 DEF Step
  <2> QED
    BY <1>2, <2>1 DEF Chosen, Idle
<1> QED
  BY <1>5, <1>6, <1>7, <1>8 DEF Pipe, Devices

\* A task is taken that neither closes a device nor is part of an opening.
LEMMA TakeKeeps ==
    ASSUME NEW s, NEW t, s.tasks \in Seq(Tasks), s.tasks # <<>>, ~ Step(Head(s.tasks)),
           Head(s.tasks).what # "close", Pipe(s), t.tasks = Tail(s.tasks),
           t.glasses = s.glasses, t.lens = s.lens, t.index = s.index,
           t.device = s.device, t.session = s.session
    PROVE  Pipe(t)
<1> DEFINE q == s.tasks
           u == Tail(q)
<1>1. /\ DOMAIN q \subseteq Nat /\ DOMAIN u \subseteq Nat
      /\ \A i \in DOMAIN u : i + 1 \in DOMAIN q /\ u[i] = q[i + 1]
      /\ \A i \in DOMAIN q : i # 1 => i - 1 \in DOMAIN u /\ u[i - 1] = q[i]
      /\ Head(q) = q[1]
  BY TakeTask
<1>2. t.tasks = u
  OBVIOUS
<1> HIDE DEF u
<1>3. OneOpening(t)
  <2>1. ASSUME NEW i \in DOMAIN u, NEW j \in DOMAIN u, Step(u[i]), Step(u[j])
        PROVE  i = j
    <3>1. i + 1 = j + 1
      BY <1>1, <2>1 DEF Pipe, Devices, OneOpening
    <3> QED
      BY <1>1, <3>1
  <2>2. \A i \in DOMAIN u : Step(u[i]) => /\ s.session = NoDevice
                                          /\ \A d \in Device : ~ Pending(s.glasses[d])
    BY <1>1 DEF Pipe, Devices, OneOpening
  <2> QED
    BY <1>2, <2>1, <2>2 DEF Pipe, Devices, OneOpening
<1>4. OneOn(t)
  <2>1. ASSUME NEW i \in DOMAIN u, NEW d \in Device, u[i].what = "open", On(s.glasses[d])
        PROVE  \E j \in DOMAIN u : j < i /\ u[j] = Task("close", d)
    <3>1. PICK j \in DOMAIN q : j < i + 1 /\ q[j] = Task("close", d)
      BY <1>1, <2>1 DEF Pipe, Devices, OneOn
    <3>2. j # 1
      BY <1>1, <3>1, TaskFacts
    <3>3. j - 1 \in DOMAIN u /\ j - 1 < i /\ u[j - 1] = Task("close", d)
      BY <1>1, <3>1, <3>2
    <3> QED
      BY <3>3
  <2>2. ASSUME NEW i \in DOMAIN u, u[i].what \in {"opened", "configured"},
               NEW d \in Device, On(s.glasses[d])
        PROVE  d = u[i].of
    BY <1>1, <2>2 DEF Pipe, Devices, OneOn
  <2> QED
    BY <1>2, <2>1, <2>2 DEF Pipe, Devices, OneOn
<1>5. Known(t)
  <2>1. ASSUME NEW w \in {"opened", "close"}, NEW d, Has(s, w, d)
        PROVE  Has(t, w, d)
    <3>1. PICK i \in DOMAIN q : q[i] = Task(w, d)
      BY <2>1 DEF Has
    <3>2. i # 1
      <4>1. q[i].what = w
        BY <3>1 DEF Task
      <4>2. q[1].what # w
        BY <1>1, <2>1 DEF Step
      <4> QED
        BY <4>1, <4>2
    <3>3. i - 1 \in DOMAIN u /\ u[i - 1] = Task(w, d)
      BY <1>1, <3>1, <3>2
    <3> QED
      BY <1>2, <3>3 DEF Has
  <2> QED
    BY <2>1 DEF Pipe, Devices, Known
<1>6. Chosen(t)
  BY <1>1, <1>2 DEF Pipe, Chosen
<1> QED
  BY <1>3, <1>4, <1>5, <1>6 DEF Pipe, Devices

\* A device is closed or fails.
LEMMA OffKeeps ==
    ASSUME NEW s, NEW t, NEW d \in Device, NEW x \in {"closed", "failed"}, Pipe(s),
           s.glasses \in [Device -> States], t.glasses = [s.glasses EXCEPT ![d] = x],
           t.device = s.device \/ (t.device = NoDevice /\ s.device = d),
           t.tasks = s.tasks, t.lens = s.lens, t.index = s.index, t.session = s.session
    PROVE  Pipe(t)
<1>1. \A e \in Device : /\ e # d => t.glasses[e] = s.glasses[e]
                        /\ ~ On(t.glasses[d]) /\ ~ Pending(t.glasses[d])
                        /\ t.glasses[d] # "open"
  BY DEF On, Pending
<1>2. OneOpening(t)
  BY <1>1 DEF Pipe, Devices, OneOpening
<1>3. OneOn(t)
  BY <1>1 DEF Pipe, Devices, OneOn
<1>4. Known(t)
  BY <1>1 DEF Pipe, Devices, Known, Has
<1>5. Chosen(t)
  BY <1>1 DEF Pipe, Chosen
<1> QED
  BY <1>2, <1>3, <1>4, <1>5 DEF Pipe, Devices

\* The user's choice is not touched by other tasks that are queued.
LEMMA PutWished ==
    ASSUME NEW s, NEW t, NEW k \in Tasks, s.tasks \in Seq(Tasks), k.what # "zoom", Wished(s),
           t.tasks = Append(s.tasks, k), t.zoom = s.zoom, t.wish = s.wish
    PROVE  Wished(t)
<1> DEFINE q == s.tasks
           u == Append(q, k)
           l == Len(q) + 1
<1>1. /\ \A i \in DOMAIN q : i \in DOMAIN u /\ u[i] = q[i]
      /\ l \in DOMAIN u /\ u[l] = k
      /\ \A i \in DOMAIN u : i \in DOMAIN q \/ i = l
  BY PutTask
<1>2. t.tasks = u
  OBVIOUS
<1> HIDE DEF u, l
<1> QED
  BY <1>1, <1>2 DEF Wished

\* Nor by other tasks that are taken.
LEMMA TakeWished ==
    ASSUME NEW s, NEW t, s.tasks \in Seq(Tasks), s.tasks # <<>>,
           Head(s.tasks).what # "zoom", Wished(s),
           t.tasks = Tail(s.tasks), t.zoom = s.zoom, t.wish = s.wish
    PROVE  Wished(t)
<1> DEFINE q == s.tasks
           u == Tail(q)
<1>1. /\ DOMAIN q \subseteq Nat /\ DOMAIN u \subseteq Nat
      /\ \A i \in DOMAIN u : i + 1 \in DOMAIN q /\ u[i] = q[i + 1]
      /\ \A i \in DOMAIN q : i # 1 => i - 1 \in DOMAIN u /\ u[i - 1] = q[i]
      /\ Head(q) = q[1]
  BY TakeTask
<1>2. t.tasks = u
  OBVIOUS
<1> HIDE DEF u
<1>3. ASSUME \A i \in DOMAIN u : u[i].what # "zoom"
      PROVE  t.zoom = t.wish
  BY <1>1, <1>3 DEF Wished
<1>4. ASSUME NEW i \in DOMAIN u, u[i].what = "zoom",
             \A j \in DOMAIN u : j > i => u[j].what # "zoom"
      PROVE  u[i].of = t.wish
  <2>2. ASSUME NEW j \in DOMAIN q, j > i + 1
        PROVE  q[j].what # "zoom"
    <3>1. j # 1 /\ j - 1 > i
      BY <1>1, <2>2
    <3> QED
      BY <1>1, <1>4, <3>1
  <2> QED
    BY <1>1, <1>4, <2>2 DEF Wished
<1> QED
  BY <1>2, <1>3, <1>4 DEF Wished

-----------------------------------------------------------------------------
(* The helpers of the code.                                                *)

\* What posting changes.
LEMMA PostingIs ==
    ASSUME NEW s, DOMAIN s = Fields, NEW what, NEW of
    PROVE  /\ Changes(s, Posting(s, what, of), {"tasks"})
           /\ Posting(s, what, of).tasks = Append(s.tasks, Task(what, of))
BY DEF Changes, Posting, Fields

\* A task that neither zooms nor opens is posted.
LEMMA PostingKeeps ==
    ASSUME NEW s, Kept(s), NEW k \in Tasks, ~ Step(k), k.what # "zoom"
    PROVE  Kept(Posting(s, k.what, k.of))
<1> DEFINE t == Posting(s, k.what, k.of)
<1>1. Changes(s, t, {"tasks"}) /\ t.tasks = Append(s.tasks, k)
  BY PostingIs, TaskFacts DEF Kept, Typed
<1>2. s.tasks \in Seq(Tasks) /\ Append(s.tasks, k) \in Seq(Tasks)
  BY PutTask DEF Kept, Typed
<1> HIDE DEF t
<1>3. Typed(t)
  BY <1>1, <1>2 DEF Kept, Typed, Changes, Fields
<1>4. Wished(t)
  BY <1>1, <1>2, PutWished DEF Kept, Changes, Fields
<1>5. Exclusive(t) /\ Applied(t)
  BY <1>1 DEF Kept, Exclusive, Applied, WrongCamera, Changes, Fields
<1>6. ~ t.overlapped => Pipe(t)
  BY <1>1, <1>2, PutKeeps DEF Kept, Pipe, Changes, Fields
<1>7. Kept(t)
  BY <1>3, <1>4, <1>5, <1>6 DEF Kept
<1> QED
  BY <1>7 DEF t

\* What closing the camera changes.
LEMMA CloseCameraIs ==
    ASSUME NEW s, DOMAIN s = Fields
    PROVE  /\ Changes(s, CloseCamera(s), {"tasks", "session", "device"})
           /\ CloseCamera(s).tasks = Append(s.tasks, Task("close", s.device))
           /\ CloseCamera(s).session = NoDevice /\ CloseCamera(s).device = NoDevice
BY DEF Changes, CloseCamera, Posting, Fields

\* The camera is closed; what was to show need not any more.
LEMMA CloseCameraKeeps ==
    ASSUME NEW s, Typed(s), Wished(s)
    PROVE  /\ Typed(CloseCamera(s)) /\ Wished(CloseCamera(s))
           /\ Exclusive(CloseCamera(s)) /\ Applied(CloseCamera(s))
           /\ Devices(s) => Devices(CloseCamera(s))
           /\ Pipe(s) => Pipe(CloseCamera(s))
<1> DEFINE t == CloseCamera(s)
           k == Task("close", s.device)
<1>1. /\ Changes(s, t, {"tasks", "session", "device"}) /\ t.tasks = Append(s.tasks, k)
      /\ t.session = NoDevice /\ t.device = NoDevice
  BY CloseCameraIs DEF Typed
<1>2. k \in Tasks /\ k.what = "close" /\ ~ Step(k)
  BY TaskFacts DEF Typed, Step
<1>3. s.tasks \in Seq(Tasks) /\ Append(s.tasks, k) \in Seq(Tasks)
  BY <1>2, PutTask DEF Typed
<1> HIDE DEF t
<1>4. Typed(t)
  BY <1>1, <1>3 DEF Typed, Changes, Fields
<1>5. Wished(t)
  BY <1>1, <1>2, <1>3, PutWished DEF Changes, Fields
<1>6. Exclusive(t) /\ Applied(t)
  BY <1>1 DEF Exclusive, Applied
<1>7. Devices(s) => Devices(t) /\ (Chosen(s) => Chosen(t))
  <2>1. t.glasses = s.glasses /\ t.lens = s.lens /\ t.index = s.index
    BY <1>1 DEF Changes, Fields
  <2> QED
    BY <1>1, <1>2, <1>3, <2>1, PutKeeps
<1> QED
  BY <1>4, <1>5, <1>6, <1>7 DEF Pipe, t

\* The camera is opened anew when no opening is under way.
LEMMA OpenCameraKeeps ==
    ASSUME NEW s, Typed(s), Wished(s), NEW reset \in BOOLEAN,
           ~ s.overlapped => Devices(s) /\ Idle(s)
    PROVE  /\ Kept(OpenCamera(s, reset))
           /\ Changes(s, OpenCamera(s, reset),
                      {"tasks", "session", "device", "failures", "opening"})
<1> DEFINE c == CloseCamera(s)
           a == [c EXCEPT !.failures = IF reset THEN 0 ELSE @, !.opening = TRUE]
           t == Posting(a, "open", NoDevice)
           k == Task("open", NoDevice)
<1>1. /\ Changes(s, c, {"tasks", "session", "device"})
      /\ c.tasks = Append(s.tasks, Task("close", s.device))
      /\ c.session = NoDevice /\ c.device = NoDevice
      /\ Typed(c) /\ Wished(c) /\ (Devices(s) => Devices(c))
  BY CloseCameraIs, CloseCameraKeeps DEF Typed
<1>2. OpenCamera(s, reset) = t
  BY DEF OpenCamera
<1> HIDE DEF c
<1>3. /\ Changes(c, a, {"failures", "opening"}) /\ a.opening = TRUE
      /\ a.failures \in {0, c.failures}
  BY <1>1 DEF Changes, Fields
<1> HIDE DEF a
<1>4. Changes(a, t, {"tasks"}) /\ t.tasks = Append(a.tasks, k)
  BY <1>3, PostingIs DEF Changes
<1> HIDE DEF t
<1>5. /\ c.tasks \in Seq(Tasks) /\ a.tasks = c.tasks
      /\ k \in Tasks /\ k.what = "open" /\ Append(c.tasks, k) \in Seq(Tasks)
  <2>1. c.tasks \in Seq(Tasks) /\ a.tasks = c.tasks
    BY <1>1, <1>3 DEF Typed, Changes, Fields
  <2> QED
    BY <2>1, PutTask, TaskFacts
<1>6. Changes(c, t, {"tasks", "failures", "opening"}) /\ t.failures \in {0, c.failures}
      /\ t.opening = TRUE
  BY <1>3, <1>4 DEF Changes, Fields
<1>7. Typed(t)
  <2>1. 0 \in 0 .. MaxFailures
    BY CapturerAssumption
  <2>2. /\ t.failures \in 0 .. MaxFailures /\ t.opening \in BOOLEAN
        /\ t.tasks \in Seq(Tasks)
    BY <1>1, <1>4, <1>5, <1>6, <2>1 DEF Typed
  <2> QED
    BY <1>1, <1>6, <2>2 DEF Typed, Changes, Fields
<1>8. Wished(t)
  <2>1. t.zoom = c.zoom /\ t.wish = c.wish
    BY <1>6 DEF Changes, Fields
  <2>2. t.tasks = Append(c.tasks, k) /\ k.what # "zoom"
    BY <1>4, <1>5
  <2> QED
    BY <1>1, <1>5, <2>1, <2>2, PutWished
<1>9. t.session = NoDevice /\ t.device = NoDevice /\ t.glasses = s.glasses
      /\ t.overlapped = s.overlapped
  BY <1>1, <1>6 DEF Changes, Fields
<1>10. ~ t.overlapped => Pipe(t)
  <2> SUFFICES ASSUME ~ t.overlapped
               PROVE  Pipe(t)
    OBVIOUS
  <2>1. Devices(c)
    BY <1>1, <1>9
  <2>2. Idle(c)
    <3>1. c.glasses = s.glasses /\ Idle(s)
      BY <1>1, <1>9 DEF Changes, Fields
    <3>2. ~ Step(Task("close", s.device)) /\ Task("close", s.device) \in Tasks
      BY TaskFacts DEF Step, Typed
    <3>3. \A i \in DOMAIN c.tasks : ~ Step(c.tasks[i])
      <4>1. s.tasks \in Seq(Tasks)
        BY DEF Typed
      <4> QED
        BY <1>1, <3>1, <3>2, <4>1, PutTask DEF Idle
    <3> QED
      BY <3>1, <3>3 DEF Idle
  <2>3. t.glasses = c.glasses /\ t.session = c.session /\ t.device = c.device
    BY <1>1, <1>6 DEF Changes, Fields
  <2> QED
    BY <1>1, <1>4, <1>5, <2>1, <2>2, <2>3, OpenKeeps
<1>11. Exclusive(t) /\ Applied(t)
  BY <1>9 DEF Exclusive, Applied
<1>12. Changes(s, t, {"tasks", "session", "device", "failures", "opening"})
  BY <1>1, <1>6 DEF Changes, Fields
<1> QED
  BY <1>2, <1>7, <1>8, <1>10, <1>11, <1>12 DEF Kept

\* What is kept does not depend on the other fields.
LEMMA OthersKept ==
    ASSUME NEW s, Kept(s), NEW t,
           Changes(s, t, {"stopping", "caller", "failures", "delayed", "reported", "refused",
                          "unplugged", "zooms", "faults"}),
           t.failures \in 0 .. MaxFailures, t.delayed \in Nat, t.stopping \in BOOLEAN,
           t.stopping \/ ~ s.stopping \/ s.session = NoDevice
    PROVE  Kept(t)
<1>1. /\ t.tasks = s.tasks /\ t.glasses = s.glasses /\ t.lens = s.lens /\ t.index = s.index
      /\ t.device = s.device /\ t.session = s.session /\ t.zoom = s.zoom /\ t.wish = s.wish
      /\ t.request = s.request /\ t.opening = s.opening /\ t.overlapped = s.overlapped
      /\ DOMAIN t = Fields
  BY DEF Changes, Fields
<1>2. Typed(t)
  BY <1>1 DEF Kept, Typed
<1>3. Wished(t)
  BY <1>1 DEF Kept, Wished
<1>4. Exclusive(t) /\ Applied(t)
  BY <1>1 DEF Kept, Exclusive, Applied, WrongCamera
<1>5. Pipe(s) => Pipe(t)
  BY <1>1 DEF Pipe, Devices, OneOpening, OneOn, Known, Chosen, Has
<1> QED
  BY <1>1, <1>2, <1>3, <1>4, <1>5 DEF Kept

\* stopCapture after its wait, called by a failure too.
LEMMA EndCaptureKeeps ==
    ASSUME NEW s, Kept(s)
    PROVE  /\ Kept(EndCapture(s)) /\ EndCapture(s).stopping = FALSE
           /\ Changes(s, EndCapture(s), {"tasks", "session", "device", "stopping"})
           /\ EndCapture(s).session = NoDevice
<1> DEFINE c == IF s.session # NoDevice THEN CloseCamera(s) ELSE s
           t == [c EXCEPT !.stopping = FALSE]
<1>1. Kept(c) /\ c.session = NoDevice /\ Changes(s, c, {"tasks", "session", "device"})
  <2>1. CASE s.session # NoDevice
    <3>1. Kept(CloseCamera(s))
      <4>1. s.overlapped = CloseCamera(s).overlapped
        BY CloseCameraIs DEF Changes, Fields, Kept, Typed
      <4> QED
        BY <4>1, CloseCameraKeeps DEF Kept
    <3> QED
      BY <2>1, <3>1, CloseCameraIs DEF Kept, Typed
  <2>2. CASE s.session = NoDevice
    BY <2>2 DEF Changes, Kept, Typed
  <2> QED
    BY <2>1, <2>2
<1> HIDE DEF c
<1>2. Changes(c, t, {"stopping"}) /\ t.stopping = FALSE
  BY <1>1 DEF Changes, Fields
<1>3. EndCapture(s) = t
  BY DEF EndCapture, c
<1> HIDE DEF t
<1>4. Kept(t)
  <2>1. t.failures = c.failures /\ t.delayed = c.delayed
    BY <1>2 DEF Changes, Fields
  <2>2. Changes(c, t, {"stopping", "caller", "failures", "delayed", "reported", "refused",
                       "unplugged", "zooms", "faults"})
    BY <1>2 DEF Changes
  <2>3. c.failures \in 0 .. MaxFailures /\ c.delayed \in Nat
    BY <1>1 DEF Kept, Typed
  <2> QED
    BY <1>1, <1>2, <2>1, <2>2, <2>3, OthersKept
<1>5. t.session = NoDevice /\ Changes(s, t, {"tasks", "session", "device", "stopping"})
  BY <1>1, <1>2 DEF Changes, Fields
<1> QED
  BY <1>2, <1>3, <1>4, <1>5

\* An opening that failed is given up, and its device closed.
LEMMA AbandonOpeningKeeps ==
    ASSUME NEW s, Kept(s)
    PROVE  /\ Kept(AbandonOpening(s))
           /\ Changes(s, AbandonOpening(s), {"glasses", "device", "opening"})
<1> DEFINE c == IF s.device = NoDevice THEN s
                ELSE [s EXCEPT !.glasses[s.device] = "closed", !.device = NoDevice]
           t == [c EXCEPT !.opening = FALSE]
<1>0. DOMAIN s = Fields
  BY DEF Kept, Typed
<1>1. CASE ~ s.opening
  BY <1>0, <1>1 DEF AbandonOpening, Changes
<1>2. CASE s.opening
  <2>1. AbandonOpening(s) = t
    BY <1>2 DEF AbandonOpening
  <2>2. /\ Changes(s, c, {"glasses", "device"})
        /\ \/ c.glasses = s.glasses /\ c.device = s.device
           \/ /\ s.device \in Device /\ c.device = NoDevice
              /\ c.glasses = [s.glasses EXCEPT ![s.device] = "closed"]
    BY <1>0 DEF Changes, Fields, Kept, Typed
  <2> HIDE DEF c
  <2>3. /\ Changes(s, t, {"glasses", "device", "opening"}) /\ t.opening = FALSE
        /\ t.glasses = c.glasses /\ t.device = c.device
    BY <2>2 DEF Changes, Fields
  <2> HIDE DEF t
  <2>4. /\ t.tasks = s.tasks /\ t.lens = s.lens /\ t.index = s.index /\ t.session = s.session
        /\ t.overlapped = s.overlapped /\ t.zoom = s.zoom /\ t.wish = s.wish
    BY <2>3 DEF Changes, Fields
  <2>5. Typed(t)
    <3>1. t.glasses \in [Device -> States] /\ t.device \in Device \cup {NoDevice}
      BY <2>2, <2>3 DEF Kept, Typed, States
    <3> QED
      BY <2>3, <3>1 DEF Kept, Typed, Changes, Fields
  <2>6. Wished(t)
    BY <2>4 DEF Kept, Wished
  <2>7. Exclusive(t) /\ Applied(t)
    BY <1>2, <2>3, <2>4 DEF Kept, Exclusive, Applied
  <2>8. Pipe(s) => Pipe(t)
    <3>1. CASE t.glasses = s.glasses /\ t.device = s.device
      BY <2>4, <3>1 DEF Pipe, Devices, OneOpening, OneOn, Known, Chosen, Has
    <3>2. CASE /\ s.device \in Device /\ t.device = NoDevice
               /\ t.glasses = [s.glasses EXCEPT ![s.device] = "closed"]
      <4>1. s.glasses \in [Device -> States]
        BY DEF Kept, Typed
      <4> QED
        BY <2>4, <3>2, <4>1, OffKeeps
    <3> QED
      BY <2>2, <2>3, <3>1, <3>2
  <2> QED
    BY <2>1, <2>3, <2>4, <2>5, <2>6, <2>7, <2>8 DEF Kept
<1> QED
  BY <1>1, <1>2 DEF Kept, Typed

\* A failure is handled: the camera is stopped, or a retry is delayed.
LEMMA HandleFailureKeeps ==
    ASSUME NEW s, Kept(s), s.caller # "new", s.caller \in Callers,
           s.stopping <=> s.caller \in {"stopping", "disposing"}, NEW lost \in BOOLEAN
    PROVE  Kept(HandleFailure(s, lost)) /\ Called(HandleFailure(s, lost))
<1> DEFINE t == AbandonOpening(s)
           u == [t EXCEPT !.unplugged = TRUE]
           v == [t EXCEPT !.failures = @ + 1, !.delayed = @ + 1]
           w == [t EXCEPT !.reported = TRUE]
           Good(x) == Kept(x) /\ x.caller = s.caller /\ x.stopping = s.stopping
<1>1. Good(t)
  BY AbandonOpeningKeeps DEF Changes, Fields
<1> HIDE DEF t
<1>2. ASSUME NEW x, Good(x)
      PROVE  Kept(x) /\ Called(x)
  BY <1>2 DEF Called
<1>3. ASSUME NEW x, Good(x), ~ x.stopping
      PROVE  Good(EndCapture(x))
  <2>1. x.stopping = FALSE
    BY <1>3 DEF Kept, Typed
  <2>2. /\ Kept(EndCapture(x)) /\ EndCapture(x).stopping = FALSE
        /\ EndCapture(x).caller = x.caller
    BY <1>3, EndCaptureKeeps DEF Changes, Fields
  <2> QED
    BY <1>3, <2>1, <2>2
<1>4. t.failures \in 0 .. MaxFailures /\ t.delayed \in Nat /\ t.stopping \in BOOLEAN
      /\ DOMAIN t = Fields
  BY <1>1 DEF Kept, Typed
<1> DEFINE names == {"stopping", "caller", "failures", "delayed", "reported", "refused",
                     "unplugged", "zooms", "faults"}
<1>5. Good(u)
  <2>1. Changes(t, u, names) /\ u.failures = t.failures /\ u.delayed = t.delayed
        /\ u.stopping = t.stopping /\ u.caller = t.caller
    BY <1>4 DEF Changes, Fields
  <2> HIDE DEF u
  <2> QED
    BY <1>1, <1>4, <2>1, OthersKept
<1>6. Good(w)
  <2>1. Changes(t, w, names) /\ w.failures = t.failures /\ w.delayed = t.delayed
        /\ w.stopping = t.stopping /\ w.caller = t.caller
    BY <1>4 DEF Changes, Fields
  <2> HIDE DEF w
  <2> QED
    BY <1>1, <1>4, <2>1, OthersKept
<1>7. t.failures < MaxFailures => Good(v)
  <2>1. Changes(t, v, names) /\ v.failures = t.failures + 1 /\ v.delayed = t.delayed + 1
        /\ v.stopping = t.stopping /\ v.caller = t.caller
    BY <1>4 DEF Changes, Fields
  <2>2. t.failures < MaxFailures => t.failures + 1 \in 0 .. MaxFailures
    BY <1>4, CapturerAssumption
  <2> HIDE DEF v
  <2> QED
    BY <1>1, <1>4, <2>1, <2>2, OthersKept
<1>8. Good(Disconnected(t))
  <2>1. u.stopping = t.stopping
    BY <1>4 DEF Fields
  <2> HIDE DEF u, Good
  <2>2. t.stopping => Disconnected(t) = u
    BY DEF Disconnected, u
  <2>3. ~ t.stopping => Disconnected(t) = EndCapture(u)
    BY DEF Disconnected, u
  <2> QED
    BY <1>3, <1>5, <2>1, <2>2, <2>3
<1>9. Good(FailedWith(t))
  <2>1. w.stopping = t.stopping
    BY <1>4 DEF Fields
  <2> HIDE DEF w, v, Good
  <2>2. t.failures < MaxFailures /\ ~ t.stopping => FailedWith(t) = v
    BY DEF FailedWith, v
  <2>3. ~ (t.failures < MaxFailures /\ ~ t.stopping) =>
           FailedWith(t) = IF t.stopping THEN w ELSE EndCapture(w)
    BY DEF FailedWith, w
  <2> QED
    BY <1>3, <1>6, <1>7, <2>1, <2>2, <2>3
<1> HIDE DEF Good
<1>10. HandleFailure(s, lost) = IF lost THEN Disconnected(t) ELSE FailedWith(t)
  BY DEF HandleFailure, t
<1> QED
  BY <1>2, <1>8, <1>9, <1>10

\* The parameters are applied to the session, or the other camera is opened.
LEMMA ApplyKeeps ==
    ASSUME NEW s, Typed(s), Wished(s), Exclusive(s), ~ s.overlapped => Pipe(s)
    PROVE  /\ Kept(ApplyParametersInternal(s))
           /\ Changes(s, ApplyParametersInternal(s),
                      {"tasks", "session", "device", "failures", "opening", "index", "request"})
<1> DEFINE a == [s EXCEPT !.index = (s.index + 1) % 2]
           r == [s EXCEPT !.request = s.zoom]
<1>1. CASE s.opening \/ s.stopping \/ s.session = NoDevice
  <2>1. Applied(s)
    BY <1>1 DEF Exclusive, Applied
  <2> QED
    BY <1>1, <2>1 DEF ApplyParametersInternal, Kept, Changes, Typed
<1>2. CASE ~ (s.opening \/ s.stopping \/ s.session = NoDevice) /\ WrongCamera(s)
  <2>1. ApplyParametersInternal(s) = OpenCamera(a, TRUE)
    BY <1>2 DEF ApplyParametersInternal
  <2>2. Changes(s, a, {"index"}) /\ a.index = (s.index + 1) % 2
    BY DEF Changes, Fields, Typed
  <2>3. a.index \in {0, 1} /\ a.index < Cameras
    BY <1>2, <2>2, CapturerAssumption DEF WrongCamera, Typed
  <2> HIDE DEF a
  <2>4. Typed(a)
    BY <2>2, <2>3 DEF Typed, Changes, Fields
  <2>5. /\ a.tasks = s.tasks /\ a.zoom = s.zoom /\ a.wish = s.wish /\ a.glasses = s.glasses
        /\ a.device = s.device /\ a.session = s.session /\ a.overlapped = s.overlapped
    BY <2>2 DEF Changes, Fields
  <2>6. Wished(a)
    BY <2>5 DEF Wished
  <2>7. ~ a.overlapped => Devices(a) /\ Idle(a)
    BY <1>2, <2>5 DEF Pipe, Devices, OneOpening, OneOn, Known, Has, Idle
  <2>8. /\ Kept(OpenCamera(a, TRUE))
        /\ Changes(a, OpenCamera(a, TRUE),
                   {"tasks", "session", "device", "failures", "opening"})
    BY <2>4, <2>6, <2>7, OpenCameraKeeps
  <2> QED
    BY <2>1, <2>2, <2>8 DEF Changes
<1>3. CASE ~ (s.opening \/ s.stopping \/ s.session = NoDevice) /\ ~ WrongCamera(s)
  <2>1. ApplyParametersInternal(s) = r
    BY <1>3 DEF ApplyParametersInternal
  <2>2. Changes(s, r, {"request"}) /\ r.request = s.zoom
    BY DEF Changes, Fields, Typed
  <2> HIDE DEF r
  <2>3. Typed(r)
    BY <2>2 DEF Typed, Changes, Fields
  <2>4. /\ r.tasks = s.tasks /\ r.zoom = s.zoom /\ r.wish = s.wish /\ r.glasses = s.glasses
        /\ r.device = s.device /\ r.session = s.session /\ r.overlapped = s.overlapped
        /\ r.lens = s.lens /\ r.index = s.index /\ r.opening = s.opening
    BY <2>2 DEF Changes, Fields
  <2>5. Wished(r)
    BY <2>4 DEF Wished
  <2>6. Exclusive(r) /\ Applied(r)
    BY <1>3, <2>2, <2>4 DEF Exclusive, Applied, WrongCamera
  <2>7. ~ r.overlapped => Pipe(r)
    BY <2>4 DEF Pipe, Devices, OneOpening, OneOn, Known, Chosen, Has
  <2> QED
    BY <2>1, <2>2, <2>3, <2>5, <2>6, <2>7 DEF Kept, Changes
<1> QED
  BY <1>1, <1>2, <1>3

-----------------------------------------------------------------------------
(* The steps of the call's thread.                                         *)

\* The capturer is made.
LEMMA CapturerAtFirst == Init => CapInv
<1> SUFFICES ASSUME Init
             PROVE  CapInv
  OBVIOUS
<1>1. /\ DOMAIN cap = Fields /\ cap.opening = FALSE /\ cap.stopping = FALSE
      /\ cap.overlapped = FALSE /\ cap.failures = 0 /\ cap.index = 0 /\ cap.delayed = 0
      /\ cap.device = NoDevice /\ cap.session = NoDevice /\ cap.tasks = <<>>
      /\ cap.glasses = [d \in Device |-> "none"] /\ cap.lens = [d \in Device |-> 0]
      /\ cap.caller = "new"
      /\ cap.zoom \in ZoomLevels /\ cap.wish = cap.zoom /\ cap.request = cap.zoom
  <2>1. DOMAIN cap = Fields
    BY DEF Init, Fields
  <2>2. /\ cap.zoom \in ZoomLevels /\ cap.wish = cap.zoom /\ cap.request = cap.zoom
        /\ cap.tasks = <<>> /\ cap.caller = "new"
        /\ cap.device = NoDevice /\ cap.session = NoDevice
    BY DEF Init
  <2>3. /\ cap.opening = FALSE /\ cap.stopping = FALSE /\ cap.overlapped = FALSE
        /\ cap.failures = 0 /\ cap.index = 0 /\ cap.delayed = 0
    BY DEF Init
  <2>4. cap.glasses = [d \in Device |-> "none"] /\ cap.lens = [d \in Device |-> 0]
    BY DEF Init
  <2> QED
    BY <2>1, <2>2, <2>3, <2>4
<1>2. Typed(cap)
  <2>1. /\ cap.failures \in 0 .. MaxFailures /\ cap.index < Cameras
        /\ cap.delayed \in Nat
    BY <1>1, CapturerAssumption
  <2>2. cap.tasks \in Seq(Tasks)
    BY <1>1
  <2>3. cap.glasses \in [Device -> States] /\ DOMAIN cap.lens = Device
    BY <1>1 DEF States
  <2> QED
    BY <1>1, <2>1, <2>2, <2>3 DEF Typed
<1>3. Wished(cap) /\ Exclusive(cap) /\ Applied(cap)
  BY <1>1 DEF Wished, Exclusive, Applied
<1>4. Pipe(cap)
  BY <1>1 DEF Pipe, Devices, OneOpening, OneOn, Known, Chosen, On, Pending
<1>5. Called(cap)
  BY <1>1 DEF Called, Callers
<1> QED
  BY <1>2, <1>3, <1>4, <1>5 DEF CapInv, Kept

LEMMA StartCaptureKeeps ==
    ASSUME CapInv, StartCapture
    PROVE  CapInv'
<1> DEFINE x == IF Cameras >= 2 /\ cap.zoom > 0 THEN 1 ELSE 0
           s == [cap EXCEPT !.caller = "running", !.index = x]
<1>0. DOMAIN cap = Fields
  BY DEF CapInv, Kept, Typed
<1>1. cap' = OpenCamera(s, TRUE)
  BY DEF StartCapture
<1>2. /\ Changes(cap, s, {"caller", "index"}) /\ s.caller = "running"
      /\ s.index \in {0, 1} /\ s.index < Cameras
  <2>1. x \in {0, 1} /\ x < Cameras
    BY CapturerAssumption
  <2> HIDE DEF x
  <2>2. Changes(cap, s, {"caller", "index"}) /\ s.caller = "running" /\ s.index = x
    BY <1>0 DEF Changes, Fields
  <2> HIDE DEF s
  <2> QED
    BY <2>1, <2>2
<1> HIDE DEF s
<1>3. /\ s.tasks = <<>> /\ s.zoom = cap.zoom /\ s.wish = cap.wish /\ s.stopping = FALSE
      /\ s.glasses = cap.glasses /\ \A d \in Device : s.glasses[d] = "none"
  <2>1. cap.caller = "new" /\ cap.tasks = <<>> /\ cap.stopping = FALSE
        /\ \A d \in Device : cap.glasses[d] = "none"
    BY DEF CapInv, Called, Kept, Typed, StartCapture
  <2> QED
    BY <1>2, <2>1 DEF Changes, Fields
<1>4. Typed(s)
  BY <1>2 DEF CapInv, Kept, Typed, Changes, Fields
<1>5. Wished(s)
  <2>1. cap.tasks = <<>>
    BY DEF CapInv, Called, StartCapture
  <2> QED
    BY <1>3, <2>1 DEF CapInv, Kept, Wished
<1>6. Devices(s) /\ Idle(s)
  BY <1>3 DEF Devices, OneOpening, OneOn, Known, Idle, On, Pending
<1>7. Kept(cap') /\ cap'.caller = s.caller /\ cap'.stopping = s.stopping
  BY <1>1, <1>4, <1>5, <1>6, OpenCameraKeeps DEF Changes, Fields
<1>8. Called(cap')
  BY <1>2, <1>3, <1>7 DEF Called, Callers
<1> QED
  BY <1>7, <1>8 DEF CapInv

LEMMA SetZoomKeeps ==
    ASSUME CapInv, NEW z \in ZoomLevels, SetZoom(z)
    PROVE  CapInv'
<1> DEFINE s == [cap EXCEPT !.wish = z, !.zooms = @ + 1]
           k == Task("zoom", z)
           q == cap.tasks
           u == Append(q, k)
           l == Len(q) + 1
           t == cap'
<1>1. Changes(cap, s, {"wish", "zooms"}) /\ s.wish = z
  BY DEF Changes, Fields, CapInv, Kept, Typed
<1>2. Changes(s, t, {"tasks"}) /\ t.tasks = Append(s.tasks, k)
  <2>1. t = Posting(s, "zoom", z)
    BY DEF SetZoom
  <2> HIDE DEF s
  <2> QED
    BY <1>1, <2>1, PostingIs DEF Changes
<1> HIDE DEF s
<1>3. /\ t.tasks = u /\ t.wish = z
      /\ t.glasses = cap.glasses /\ t.lens = cap.lens /\ t.index = cap.index
      /\ t.device = cap.device /\ t.session = cap.session /\ t.overlapped = cap.overlapped
      /\ t.opening = cap.opening /\ t.stopping = cap.stopping /\ t.zoom = cap.zoom
      /\ t.request = cap.request /\ t.caller = cap.caller
      /\ Changes(cap, t, {"tasks", "wish", "zooms"})
  BY <1>1, <1>2 DEF Changes, Fields
<1>4. q \in Seq(Tasks) /\ k \in Tasks /\ k.what = "zoom" /\ k.of = z
  BY TaskFacts DEF CapInv, Kept, Typed
<1>5. /\ u \in Seq(Tasks) /\ l \in Nat /\ DOMAIN q \subseteq Nat
      /\ \A i \in DOMAIN q : i \in DOMAIN u /\ u[i] = q[i] /\ i < l
      /\ l \in DOMAIN u /\ u[l] = k
      /\ \A i \in DOMAIN u : i \in DOMAIN q \/ i = l
  BY <1>4, PutTask
<1> HIDE DEF t, u, l
<1>6. Typed(t)
  BY <1>3, <1>5 DEF CapInv, Kept, Typed, Changes, Fields
<1>7. Wished(t)
  <2>1. \A i \in DOMAIN u : (\A j \in DOMAIN u : j > i => u[j].what # "zoom") => i = l
    BY <1>4, <1>5
  <2> QED
    BY <1>3, <1>4, <1>5, <2>1 DEF Wished
<1>8. Exclusive(t) /\ Applied(t)
  BY <1>3 DEF CapInv, Kept, Exclusive, Applied, WrongCamera
<1>9. ~ t.overlapped => Pipe(t)
  <2>1. ~ Step(k)
    BY <1>4 DEF Step
  <2>2. ~ cap.overlapped => Pipe(cap)
    BY DEF CapInv, Kept
  <2> QED
    BY <1>3, <1>4, <2>1, <2>2, PutKeeps DEF Pipe, u
<1>10. Called(t)
  <2>1. cap.caller = "running"
    BY DEF SetZoom
  <2> QED
    BY <1>3, <2>1 DEF CapInv, Called
<1> QED
  BY <1>6, <1>7, <1>8, <1>9, <1>10 DEF CapInv, Kept, t

LEMMA StopCaptureKeeps ==
    ASSUME CapInv, StopCapture \/ StopCaptureWakes
    PROVE  CapInv'
<1> DEFINE names == {"stopping", "caller", "failures", "delayed", "reported", "refused",
                     "unplugged", "zooms", "faults"}
           w == [cap EXCEPT !.stopping = TRUE, !.caller = Waiting[cap.caller]]
           r == [cap EXCEPT !.caller = Returned[cap.caller]]
           e == EndCapture(r)
<1>1. /\ Kept(cap) /\ DOMAIN cap = Fields /\ cap.failures \in 0 .. MaxFailures
      /\ cap.delayed \in Nat /\ cap.stopping \in BOOLEAN
  BY DEF CapInv, Kept, Typed
<1>2. CASE StopCapture /\ cap.opening
  <2>1. cap' = w /\ cap.caller \in {"running", "stopped"}
    BY <1>2 DEF StopCapture, Waiting
  <2>2. /\ Changes(cap, w, names) /\ w.failures = cap.failures /\ w.delayed = cap.delayed
        /\ w.stopping = TRUE /\ w.caller \in {"stopping", "disposing"}
    <3>1. Waiting[cap.caller] \in {"stopping", "disposing"}
      BY <2>1 DEF Waiting
    <3>2. Changes(cap, w, {"stopping", "caller"}) /\ w.caller = Waiting[cap.caller]
          /\ w.stopping = TRUE
      BY <1>1 DEF Changes, Fields
    <3> HIDE DEF w
    <3> QED
      BY <3>1, <3>2 DEF Changes, Fields
  <2> HIDE DEF w
  <2>3. Kept(w)
    BY <1>1, <2>2, OthersKept
  <2>4. Called(w)
    BY <2>2 DEF Called, Callers
  <2> QED
    BY <2>1, <2>3, <2>4 DEF CapInv
<1>3. CASE /\ cap' = e
           /\ cap.caller \in {"running", "stopping", "stopped", "disposing"}
  <2>1. /\ Changes(cap, r, names) /\ r.failures = cap.failures /\ r.delayed = cap.delayed
        /\ r.stopping = cap.stopping /\ r.caller \in {"stopped", "disposed"}
    BY <1>1, <1>3 DEF Changes, Fields, Returned
  <2> HIDE DEF r
  <2>2. Kept(r)
    BY <1>1, <2>1, OthersKept
  <2>3. Kept(e) /\ e.stopping = FALSE /\ e.caller = r.caller
    BY <2>2, EndCaptureKeeps DEF Changes, Fields
  <2> HIDE DEF e
  <2>4. Called(e)
    BY <2>1, <2>3 DEF Called, Callers
  <2> QED
    BY <1>3, <2>3, <2>4 DEF CapInv
<1>4. (StopCapture /\ ~ cap.opening) \/ StopCaptureWakes
      => /\ cap' = e
         /\ cap.caller \in {"running", "stopping", "stopped", "disposing"}
  BY DEF StopCapture, StopCaptureWakes, Waiting
<1> QED
  BY <1>2, <1>3, <1>4

-----------------------------------------------------------------------------
(* The steps of the camera thread.                                         *)

\* The camera thread takes a task.
LEMMA TakenFacts ==
    ASSUME CapInv, NEW what, Take(what)
    PROVE  /\ Changes(cap, Taken, {"tasks"}) /\ Taken.tasks = Tail(cap.tasks)
           /\ cap.tasks \in Seq(Tasks) /\ cap.tasks # <<>>
           /\ Head(cap.tasks) \in Tasks /\ Head(cap.tasks) = Task(what, Of)
           /\ Tail(cap.tasks) \in Seq(Tasks)
           /\ cap.caller # "new"
<1>1. cap.tasks \in Seq(Tasks) /\ cap.tasks # <<>> /\ Head(cap.tasks).what = what
  BY DEF CapInv, Kept, Typed, Take
<1>2. Head(cap.tasks) \in Tasks /\ Tail(cap.tasks) \in Seq(Tasks)
  BY <1>1, TakeTask
<1>3. Changes(cap, Taken, {"tasks"}) /\ Taken.tasks = Tail(cap.tasks)
  BY DEF CapInv, Kept, Typed, Taken, Changes, Fields
<1> QED
  BY <1>1, <1>2, <1>3, TaskFacts DEF Of, CapInv, Called

\* A device is closed, if there was one.
LEMMA CloseTaskKeeps ==
    ASSUME CapInv, CloseTask
    PROVE  CapInv'
<1> DEFINE d == Of
           q == cap.tasks
           u == Tail(q)
           t == cap'
<1>1. /\ Changes(cap, Taken, {"tasks"}) /\ Taken.tasks = u /\ q \in Seq(Tasks) /\ q # <<>>
      /\ Head(q) \in Tasks /\ Head(q) = Task("close", d) /\ u \in Seq(Tasks)
      /\ cap.caller # "new" /\ Head(q).what = "close" /\ Head(q).of = d
      /\ d \in Device \cup {NoDevice}
  BY TakenFacts, TaskFacts DEF CloseTask
<1>2. /\ DOMAIN q \subseteq Nat /\ DOMAIN u \subseteq Nat
      /\ \A i \in DOMAIN u : i + 1 \in DOMAIN q /\ u[i] = q[i + 1]
      /\ \A i \in DOMAIN q : i # 1 => i - 1 \in DOMAIN u /\ u[i - 1] = q[i]
      /\ Head(q) = q[1]
  BY <1>1, TakeTask
<1>3. /\ Changes(cap, t, {"tasks", "glasses"}) /\ t.tasks = u
      /\ t.glasses = IF d = NoDevice THEN cap.glasses ELSE [cap.glasses EXCEPT ![d] = "closed"]
  <2>1. t = IF d = NoDevice THEN Taken ELSE [Taken EXCEPT !.glasses[d] = "closed"]
    BY DEF CloseTask
  <2> HIDE DEF d
  <2> QED
    BY <1>1, <2>1 DEF Changes, Fields
<1> HIDE DEF d, u, t
<1>4. cap.glasses \in [Device -> States] /\ NoDevice \notin Device
  BY DeviceFacts DEF CapInv, Kept, Typed
<1>5. /\ t.glasses \in [Device -> States]
      /\ \A e \in Device : e # d => t.glasses[e] = cap.glasses[e]
      /\ d \in Device => t.glasses[d] = "closed"
  BY <1>1, <1>3, <1>4 DEF States
<1>6. \A e \in Device : /\ On(t.glasses[e]) => e # d /\ On(cap.glasses[e])
                        /\ Pending(t.glasses[e]) => e # d /\ Pending(cap.glasses[e])
  BY <1>5 DEF On, Pending
<1>7. /\ t.lens = cap.lens /\ t.index = cap.index /\ t.device = cap.device
      /\ t.session = cap.session /\ t.overlapped = cap.overlapped /\ t.opening = cap.opening
      /\ t.stopping = cap.stopping /\ t.zoom = cap.zoom /\ t.wish = cap.wish
      /\ t.request = cap.request /\ t.caller = cap.caller
  BY <1>3 DEF Changes, Fields
<1>8. Typed(t)
  BY <1>1, <1>3, <1>5 DEF CapInv, Kept, Typed, Changes, Fields
<1>9. Wished(t)
  BY <1>1, <1>3, <1>7, TakeWished DEF CapInv, Kept, u
<1>10. Exclusive(t) /\ Applied(t)
  BY <1>7 DEF CapInv, Kept, Exclusive, Applied, WrongCamera
<1>11. Called(t)
  BY <1>1, <1>7 DEF CapInv, Called
<1>12. ~ t.overlapped => Pipe(t)
  <2> SUFFICES ASSUME ~ t.overlapped
               PROVE  Pipe(t)
    OBVIOUS
  <2>0. Pipe(cap)
    BY <1>7 DEF CapInv, Kept
  <2>1. OneOpening(t)
    <3>1. ASSUME NEW i \in DOMAIN u, NEW j \in DOMAIN u, Step(u[i]), Step(u[j])
          PROVE  i = j
      <4>1. i + 1 = j + 1
        BY <1>2, <2>0, <3>1 DEF Pipe, Devices, OneOpening
      <4> QED
        BY <1>2, <4>1
    <3>2. \A i \in DOMAIN u : Step(u[i]) =>
             /\ cap.session = NoDevice
             /\ \A e \in Device : ~ Pending(cap.glasses[e])
      BY <1>2, <2>0 DEF Pipe, Devices, OneOpening
    <3> QED
      BY <1>3, <1>6, <1>7, <2>0, <3>1, <3>2 DEF Pipe, Devices, OneOpening
  <2>2. OneOn(t)
    <3>1. ASSUME NEW i \in DOMAIN u, NEW e \in Device, u[i].what = "open",
                 On(t.glasses[e])
          PROVE  \E j \in DOMAIN u : j < i /\ u[j] = Task("close", e)
      <4>1. PICK j \in DOMAIN q : j < i + 1 /\ q[j] = Task("close", e)
        BY <1>2, <1>6, <2>0, <3>1 DEF Pipe, Devices, OneOn
      <4>2. j # 1
        <5>1. e # d /\ Head(q).of = d
          BY <1>1, <1>6, <3>1
        <5> QED
          BY <1>2, <4>1, <5>1 DEF Task
      <4>3. j - 1 \in DOMAIN u /\ j - 1 < i /\ u[j - 1] = Task("close", e)
        BY <1>2, <4>1, <4>2
      <4> QED
        BY <4>3
    <3>2. ASSUME NEW i \in DOMAIN u, u[i].what \in {"opened", "configured"},
                 NEW e \in Device, On(t.glasses[e])
          PROVE  e = u[i].of
      BY <1>2, <1>6, <2>0, <3>2 DEF Pipe, Devices, OneOn
    <3>3. \A e, f \in Device : On(t.glasses[e]) /\ On(t.glasses[f]) => e = f
      BY <1>6, <2>0 DEF Pipe, Devices, OneOn
    <3> QED
      BY <1>3, <3>1, <3>2, <3>3 DEF OneOn
  <2>3. Known(t)
    <3>1. ASSUME NEW w, NEW e, Has(cap, w, e), w # "close" \/ e # d
          PROVE  Has(t, w, e)
      <4>1. PICK i \in DOMAIN q : q[i] = Task(w, e)
        BY <3>1 DEF Has
      <4>2. i # 1
        <5>1. q[i].what = w /\ q[i].of = e
          BY <4>1 DEF Task
        <5> QED
          BY <1>1, <1>2, <3>1, <5>1
      <4>3. i - 1 \in DOMAIN u /\ u[i - 1] = Task(w, e)
        BY <1>2, <4>1, <4>2
      <4> QED
        BY <1>3, <4>3 DEF Has
    <3>2. ASSUME NEW e \in Device, On(t.glasses[e])
          PROVE  \/ t.device = e \/ t.glasses[e] = "opening"
                 \/ Has(t, "opened", e) \/ Has(t, "close", e)
      <4>1. e # d /\ On(cap.glasses[e]) /\ t.glasses[e] = cap.glasses[e]
        BY <1>5, <1>6, <3>2
      <4> QED
        BY <1>7, <2>0, <3>1, <4>1 DEF Pipe, Devices, Known
    <3>3. ASSUME NEW e \in Device, t.glasses[e] = "open"
          PROVE  Has(t, "opened", e)
      <4>1. cap.glasses[e] = "open"
        BY <1>5, <3>3
      <4> QED
        BY <2>0, <3>1, <4>1 DEF Pipe, Devices, Known
    <3> QED
      BY <3>2, <3>3 DEF Known
  <2>4. Chosen(t)
    BY <1>2, <1>3, <1>6, <1>7, <2>0 DEF Pipe, Chosen
  <2> QED
    BY <2>1, <2>2, <2>3, <2>4 DEF Pipe, Devices
<1> QED
  BY <1>8, <1>9, <1>10, <1>11, <1>12 DEF CapInv, Kept, t

\* When the opening is at the head of the queue it is nowhere else.
LEMMA LastStep ==
    ASSUME NEW s, s.tasks \in Seq(Tasks), s.tasks # <<>>, OneOpening(s), Step(Head(s.tasks))
    PROVE  /\ \A i \in DOMAIN Tail(s.tasks) : ~ Step(Tail(s.tasks)[i])
           /\ \A d \in Device : ~ Pending(s.glasses[d])
           /\ s.session = NoDevice
           /\ \A w, d : ~ Step(Task(w, d)) /\ Has(s, w, d) =>
                 \E i \in DOMAIN Tail(s.tasks) : Tail(s.tasks)[i] = Task(w, d)
<1> DEFINE q == s.tasks
           u == Tail(q)
<1>1. /\ DOMAIN q \subseteq Nat /\ DOMAIN u \subseteq Nat /\ 1 \in DOMAIN q
      /\ \A i \in DOMAIN u : i + 1 \in DOMAIN q /\ u[i] = q[i + 1] /\ i + 1 # 1
      /\ \A i \in DOMAIN q : i # 1 => i - 1 \in DOMAIN u /\ u[i - 1] = q[i]
      /\ Head(q) = q[1]
  BY TakeTask
<1> HIDE DEF u
<1>2. \A i \in DOMAIN u : ~ Step(u[i])
  BY <1>1 DEF OneOpening
<1>3. s.session = NoDevice /\ \A d \in Device : ~ Pending(s.glasses[d])
  BY <1>1 DEF OneOpening
<1>4. ASSUME NEW w, NEW d, ~ Step(Task(w, d)), Has(s, w, d)
      PROVE  \E i \in DOMAIN u : u[i] = Task(w, d)
  <2>1. PICK i \in DOMAIN q : q[i] = Task(w, d)
    BY <1>4 DEF Has
  <2>2. i # 1
    BY <1>1, <1>4, <2>1
  <2> QED
    BY <1>1, <2>1, <2>2
<1> QED
  BY <1>2, <1>3, <1>4 DEF u

\* A device is asked for: what was on is closed by now.
LEMMA OpenTaskKeeps ==
    ASSUME CapInv, OpenTask
    PROVE  CapInv'
<1> DEFINE q == cap.tasks
           u == Tail(q)
           t == cap'
<1>1. /\ Changes(cap, Taken, {"tasks"}) /\ Taken.tasks = u /\ q \in Seq(Tasks) /\ q # <<>>
      /\ Head(q).what = "open" /\ Step(Head(q)) /\ u \in Seq(Tasks) /\ cap.caller # "new"
  <2>1. Take("open")
    BY DEF OpenTask
  <2>2. Head(q).what = "open"
    BY <2>1 DEF Take
  <2> QED
    BY <2>1, <2>2, TakenFacts DEF Step
<1>2. /\ DOMAIN t = Fields
      /\ \A f \in Fields \ {"tasks", "glasses", "lens", "reported", "refused"} : t[f] = cap[f]
      /\ t.tasks = u
      /\ \/ t.glasses = cap.glasses /\ t.lens = cap.lens
         \/ \E d \in Device : /\ t.glasses = [cap.glasses EXCEPT ![d] = "opening"]
                              /\ t.lens = [cap.lens EXCEPT ![d] = cap.index]
  <2>1. CASE \E d \in Device :
                t = [Taken EXCEPT !.glasses[d] = "opening", !.lens[d] = cap.index]
    <3>1. PICK d \in Device :
                t = [Taken EXCEPT !.glasses[d] = "opening", !.lens[d] = cap.index]
      BY <2>1
    <3>2. /\ t.tasks = Taken.tasks /\ DOMAIN t = Fields
          /\ t.glasses = [Taken.glasses EXCEPT ![d] = "opening"]
          /\ t.lens = [Taken.lens EXCEPT ![d] = cap.index]
          /\ \A f \in Fields \ {"glasses", "lens"} : t[f] = Taken[f]
      BY <1>1, <3>1 DEF Changes, Fields
    <3>3. Taken.glasses = cap.glasses /\ Taken.lens = cap.lens
      BY <1>1 DEF Changes, Fields
    <3>4. \A f \in Fields \ {"tasks", "glasses", "lens", "reported", "refused"} : t[f] = cap[f]
      BY <1>1, <3>2 DEF Changes
    <3> HIDE DEF t, u
    <3> QED
      BY <1>1, <3>2, <3>3, <3>4
  <2>2. CASE t = [Taken EXCEPT !.reported = TRUE, !.refused = TRUE]
    BY <1>1, <2>2 DEF Changes, Fields
  <2> QED
    BY <2>1, <2>2 DEF OpenTask
<1> HIDE DEF u, t
<1>3. /\ t.index = cap.index /\ t.device = cap.device
      /\ t.session = cap.session /\ t.overlapped = cap.overlapped /\ t.opening = cap.opening
      /\ t.stopping = cap.stopping /\ t.zoom = cap.zoom /\ t.wish = cap.wish
      /\ t.request = cap.request /\ t.caller = cap.caller
      /\ t.failures = cap.failures /\ t.delayed = cap.delayed
  BY <1>2 DEF Fields
<1>4. cap.glasses \in [Device -> States] /\ DOMAIN cap.lens = Device
  BY DEF CapInv, Kept, Typed
<1>5. Typed(t)
  <2>1. t.glasses \in [Device -> States] /\ DOMAIN t.lens = Device
    BY <1>2, <1>4 DEF States
  <2> QED
    BY <1>1, <1>2, <1>3, <2>1 DEF CapInv, Kept, Typed
<1>6. Wished(t)
  BY <1>1, <1>2, <1>3, TakeWished DEF CapInv, Kept, u
<1>7. Exclusive(t) /\ Applied(t)
  BY <1>3 DEF CapInv, Kept, Exclusive, Applied, WrongCamera
<1>8. Called(t)
  BY <1>1, <1>3 DEF CapInv, Called
<1>9. ~ t.overlapped => Pipe(t)
  <2> SUFFICES ASSUME ~ t.overlapped
               PROVE  Pipe(t)
    OBVIOUS
  <2>0. Pipe(cap)
    BY <1>3 DEF CapInv, Kept
  <2>1. /\ \A i \in DOMAIN u : ~ Step(u[i])
        /\ \A e \in Device : ~ Pending(cap.glasses[e])
        /\ cap.session = NoDevice
    BY <1>1, <2>0, LastStep DEF Pipe, Devices, u
  <2>2. \A e \in Device : ~ On(cap.glasses[e])
    <3> SUFFICES ASSUME NEW e \in Device, On(cap.glasses[e])
                 PROVE  FALSE
      OBVIOUS
    <3>1. 1 \in DOMAIN q /\ q[1].what = "open" /\ \A i \in DOMAIN q : i >= 1
      BY <1>1, TakeTask
    <3>2. PICK j \in DOMAIN q : j < 1 /\ q[j] = Task("close", e)
      BY <2>0, <3>1 DEF Pipe, Devices, OneOn
    <3>3. DOMAIN q \subseteq Nat
      BY <1>1, TakeTask
    <3> QED
      BY <3>1, <3>2, <3>3
  <2>3. \E d \in Device : \A e \in Device :
           /\ On(t.glasses[e]) => e = d
           /\ Pending(t.glasses[e]) => e = d /\ t.lens[e] = t.index
           /\ On(t.glasses[e]) => t.glasses[e] = "opening"
           /\ t.glasses[e] # "open"
    <3>1. CASE t.glasses = cap.glasses
      <4>1. 1 \in Device
        BY CapturerAssumption DEF Device
      <4> QED
        BY <2>1, <2>2, <3>1, <4>1 DEF On
    <3>2. ASSUME NEW d \in Device, t.glasses = [cap.glasses EXCEPT ![d] = "opening"],
                 t.lens = [cap.lens EXCEPT ![d] = cap.index]
          PROVE  \A e \in Device :
                    /\ On(t.glasses[e]) => e = d
                    /\ Pending(t.glasses[e]) => e = d /\ t.lens[e] = t.index
                    /\ On(t.glasses[e]) => t.glasses[e] = "opening"
                    /\ t.glasses[e] # "open"
      <4>1. \A e \in Device : t.glasses[e] = IF e = d THEN "opening" ELSE cap.glasses[e]
        BY <1>4, <3>2
      <4>2. t.lens[d] = t.index
        BY <1>3, <1>4, <3>2
      <4>3. \A e \in Device : e # d => ~ On(t.glasses[e])
        BY <2>2, <4>1
      <4>4. \A e \in Device : Pending(t.glasses[e]) \/ t.glasses[e] = "open" => On(t.glasses[e])
        BY DEF On, Pending
      <4>5. t.glasses[d] = "opening"
        BY <4>1
      <4> QED
        BY <4>2, <4>3, <4>4, <4>5
    <3> QED
      BY <1>2, <3>1, <3>2
  <2> HIDE DEF u
  <2>4. OneOpening(t)
    BY <1>2, <1>3, <2>1, <2>3 DEF OneOpening
  <2>5. OneOn(t)
    <3>1. \A i \in DOMAIN u : u[i].what \notin {"open", "opened", "configured"}
      BY <2>1 DEF Step
    <3> QED
      BY <1>2, <2>3, <3>1 DEF OneOn
  <2>6. Known(t)
    BY <2>3 DEF Known
  <2>7. Chosen(t)
    <3>1. \A i \in DOMAIN u : u[i].what \notin {"open", "opened", "configured"}
      BY <2>1 DEF Step
    <3> QED
      BY <1>2, <1>3, <2>1, <2>3, <3>1 DEF Chosen
  <2> QED
    BY <2>4, <2>5, <2>6, <2>7 DEF Pipe, Devices
<1> QED
  BY <1>5, <1>6, <1>7, <1>8, <1>9 DEF CapInv, Kept, t

\* The device that opened becomes the current one.
LEMMA OnOpenedKeeps ==
    ASSUME CapInv, OnOpened
    PROVE  CapInv'
<1> DEFINE d == Of
           q == cap.tasks
           u == Tail(q)
           t == cap'
<1>1. /\ Changes(cap, Taken, {"tasks"}) /\ Taken.tasks = u /\ q \in Seq(Tasks) /\ q # <<>>
      /\ Head(q) = Task("opened", d) /\ Head(q).what = "opened" /\ Head(q).of = d
      /\ Step(Head(q)) /\ u \in Seq(Tasks) /\ cap.caller # "new" /\ d \in Device
  BY TakenFacts, TaskFacts DEF OnOpened, Step, Reports
<1>2. /\ Changes(cap, t, {"tasks", "glasses", "device"}) /\ t.tasks = u /\ t.device = d
      /\ t.glasses = [cap.glasses EXCEPT ![d] = IF @ = "open" THEN "configuring" ELSE @]
  <2>1. t = [Taken EXCEPT !.device = d,
                          !.glasses[d] = IF @ = "open" THEN "configuring" ELSE @]
    BY DEF OnOpened
  <2> HIDE DEF d
  <2> QED
    BY <1>1, <2>1 DEF Changes, Fields
<1> HIDE DEF u, t, d
<1>3. /\ t.index = cap.index /\ t.lens = cap.lens
      /\ t.session = cap.session /\ t.overlapped = cap.overlapped /\ t.opening = cap.opening
      /\ t.stopping = cap.stopping /\ t.zoom = cap.zoom /\ t.wish = cap.wish
      /\ t.request = cap.request /\ t.caller = cap.caller
  BY <1>2 DEF Changes, Fields
<1>4. cap.glasses \in [Device -> States]
  BY DEF CapInv, Kept, Typed
<1>5. /\ t.glasses \in [Device -> States]
      /\ \A e \in Device : e # d => t.glasses[e] = cap.glasses[e]
      /\ t.glasses[d] = IF cap.glasses[d] = "open" THEN "configuring" ELSE cap.glasses[d]
  <2>1. cap.glasses[d] \in States
    BY <1>1, <1>4
  <2> QED
    BY <1>1, <1>2, <1>4, <2>1 DEF States
<1>6. Typed(t)
  BY <1>1, <1>2, <1>5 DEF CapInv, Kept, Typed, Changes, Fields
<1>7. Wished(t)
  BY <1>1, <1>2, <1>3, TakeWished DEF CapInv, Kept, u
<1>8. Exclusive(t) /\ Applied(t)
  BY <1>3 DEF CapInv, Kept, Exclusive, Applied, WrongCamera
<1>9. Called(t)
  BY <1>1, <1>3 DEF CapInv, Called
<1>10. ~ t.overlapped => Pipe(t)
  <2> SUFFICES ASSUME ~ t.overlapped
               PROVE  Pipe(t)
    OBVIOUS
  <2>0. Pipe(cap)
    BY <1>3 DEF CapInv, Kept
  <2>1. /\ \A i \in DOMAIN u : ~ Step(u[i])
        /\ \A e \in Device : ~ Pending(cap.glasses[e])
        /\ cap.session = NoDevice
    BY <1>1, <2>0, LastStep DEF Pipe, Devices, u
  <2>2. 1 \in DOMAIN q /\ q[1].what = "opened" /\ q[1].of = d
    BY <1>1, TakeTask
  <2>3. /\ \A e \in Device : On(cap.glasses[e]) => e = d
        /\ cap.lens[d] = cap.index
    BY <2>0, <2>2 DEF Pipe, Devices, OneOn, Chosen
  <2>4. \A e \in Device : /\ On(t.glasses[e]) => e = d
                          /\ Pending(t.glasses[e]) => e = d
                          /\ t.glasses[e] # "open"
    BY <1>5, <2>1, <2>3 DEF On, Pending
  <2>5. \A i \in DOMAIN u : u[i].what \notin {"open", "opened", "configured"}
    BY <2>1 DEF Step
  <2>6. OneOpening(t)
    BY <1>2, <1>3, <2>1, <2>4 DEF OneOpening
  <2>7. OneOn(t)
    BY <1>2, <2>4, <2>5 DEF OneOn
  <2>8. Known(t)
    BY <1>2, <2>4 DEF Known
  <2>9. Chosen(t)
    BY <1>2, <1>3, <2>1, <2>3, <2>4, <2>5 DEF Chosen
  <2> QED
    BY <2>6, <2>7, <2>8, <2>9 DEF Pipe, Devices
<1> QED
  BY <1>6, <1>7, <1>8, <1>9, <1>10 DEF CapInv, Kept, t

\* The session is there; its parameters are applied.
LEMMA OnConfiguredKeeps ==
    ASSUME CapInv, OnConfigured
    PROVE  CapInv'
<1> DEFINE d == Of
           q == cap.tasks
           u == Tail(q)
           t == [Taken EXCEPT !.opening = FALSE, !.session = d]
<1>1. /\ Changes(cap, Taken, {"tasks"}) /\ Taken.tasks = u /\ q \in Seq(Tasks) /\ q # <<>>
      /\ Head(q) = Task("configured", d) /\ Head(q).what = "configured" /\ Head(q).of = d
      /\ Step(Head(q)) /\ u \in Seq(Tasks) /\ cap.caller # "new" /\ d \in Device
  BY TakenFacts, TaskFacts DEF OnConfigured, Step, Reports
<1>2. cap' = ApplyParametersInternal(t)
  BY DEF OnConfigured
<1>3. /\ Changes(cap, t, {"tasks", "opening", "session"}) /\ t.tasks = u
      /\ t.opening = FALSE /\ t.session = d
  <2> HIDE DEF d, u
  <2> QED
    BY <1>1 DEF Changes, Fields
<1> HIDE DEF u, t, d
<1>4. /\ t.index = cap.index /\ t.lens = cap.lens /\ t.glasses = cap.glasses
      /\ t.device = cap.device /\ t.overlapped = cap.overlapped
      /\ t.stopping = cap.stopping /\ t.zoom = cap.zoom /\ t.wish = cap.wish
      /\ t.caller = cap.caller
  BY <1>3 DEF Changes, Fields
<1>5. Typed(t)
  BY <1>1, <1>3 DEF CapInv, Kept, Typed, Changes, Fields
<1>6. Wished(t)
  BY <1>1, <1>3, <1>4, TakeWished DEF CapInv, Kept, u
<1>7. Exclusive(t)
  BY <1>3 DEF Exclusive
<1>8. ~ t.overlapped => Pipe(t)
  <2> SUFFICES ASSUME ~ t.overlapped
               PROVE  Pipe(t)
    OBVIOUS
  <2>0. Pipe(cap)
    BY <1>4 DEF CapInv, Kept
  <2>1. /\ \A i \in DOMAIN u : ~ Step(u[i])
        /\ \A e \in Device : ~ Pending(cap.glasses[e])
        /\ \A w, e : ~ Step(Task(w, e)) /\ Has(cap, w, e) =>
              \E i \in DOMAIN u : u[i] = Task(w, e)
    BY <1>1, <2>0, LastStep DEF Pipe, Devices, u
  <2>2. 1 \in DOMAIN q /\ q[1] = Task("configured", d) /\ q[1].what = "configured"
        /\ q[1].of = d
    BY <1>1, TakeTask
  <2>3. cap.lens[d] = cap.index
    BY <2>0, <2>2 DEF Pipe, Chosen
  <2>4. \A e : ~ Has(cap, "opened", e)
    <3> SUFFICES ASSUME NEW e, NEW i \in DOMAIN q, q[i] = Task("opened", e)
                 PROVE  FALSE
      BY DEF Has
    <3>1. q[i].what = "opened" /\ Step(q[i]) /\ Step(q[1])
      BY <1>1, <2>2 DEF Task, Step
    <3>2. i = 1
      BY <2>0, <2>2, <3>1 DEF Pipe, Devices, OneOpening
    <3> QED
      BY <2>2, <3>1, <3>2
  <2>5. \A i \in DOMAIN u : u[i].what \notin {"open", "opened", "configured"}
    BY <2>1 DEF Step
  <2>6. OneOpening(t)
    BY <1>3, <1>4, <2>1 DEF OneOpening
  <2>7. OneOn(t)
    BY <1>3, <1>4, <2>0, <2>5 DEF Pipe, Devices, OneOn
  <2>8. Known(t)
    <3>1. \A e : ~ Step(Task("close", e))
      BY DEF Step, Task
    <3>2. \A e : Has(cap, "close", e) => Has(t, "close", e)
      BY <1>3, <2>1, <3>1 DEF Has
    <3> QED
      BY <1>4, <2>0, <2>4, <3>2 DEF Pipe, Devices, Known
  <2>9. Chosen(t)
    BY <1>3, <1>4, <2>1, <2>3, <2>5 DEF Chosen
  <2> QED
    BY <2>6, <2>7, <2>8, <2>9 DEF Pipe, Devices
<1>9. Kept(cap') /\ cap'.caller = cap.caller /\ cap'.stopping = cap.stopping
  <2> DEFINE a == ApplyParametersInternal(t)
  <2>1. /\ Kept(a)
        /\ Changes(t, a, {"tasks", "session", "device", "failures", "opening", "index",
                          "request"})
    BY <1>5, <1>6, <1>7, <1>8, ApplyKeeps
  <2> HIDE DEF a
  <2>2. a.caller = cap.caller /\ a.stopping = cap.stopping
    BY <1>4, <2>1 DEF Changes, Fields
  <2> QED
    BY <1>2, <2>1, <2>2 DEF a
<1>10. Called(cap')
  BY <1>1, <1>9 DEF CapInv, Called
<1> QED
  BY <1>9, <1>10 DEF CapInv

\* A task that neither closes a device nor is part of an opening or a zoom is taken.
LEMMA TakenKeeps ==
    ASSUME CapInv, NEW what, Take(what),
           what \in {"reopen", "configureFailed", "error", "disconnected"}
    PROVE  Kept(Taken) /\ Taken.caller = cap.caller /\ Taken.stopping = cap.stopping
           /\ cap.caller # "new"
<1> DEFINE q == cap.tasks
           t == Taken
<1>1. /\ Changes(cap, t, {"tasks"}) /\ t.tasks = Tail(q) /\ q \in Seq(Tasks) /\ q # <<>>
      /\ Tail(q) \in Seq(Tasks) /\ cap.caller # "new" /\ Head(q).what = what
  BY TakenFacts, TaskFacts DEF Take
<1> HIDE DEF t
<1>2. /\ t.index = cap.index /\ t.lens = cap.lens /\ t.glasses = cap.glasses
      /\ t.device = cap.device /\ t.session = cap.session /\ t.opening = cap.opening
      /\ t.overlapped = cap.overlapped /\ t.stopping = cap.stopping /\ t.zoom = cap.zoom
      /\ t.wish = cap.wish /\ t.caller = cap.caller /\ t.request = cap.request
  BY <1>1 DEF Changes, Fields
<1>3. Typed(t)
  BY <1>1 DEF CapInv, Kept, Typed, Changes, Fields
<1>4. Wished(t)
  BY <1>1, <1>2, TakeWished DEF CapInv, Kept
<1>5. Exclusive(t) /\ Applied(t)
  BY <1>2 DEF CapInv, Kept, Exclusive, Applied, WrongCamera
<1>6. ~ t.overlapped => Pipe(t)
  <2>1. ~ Step(Head(q)) /\ Head(q).what # "close"
    BY <1>1 DEF Step
  <2> QED
    BY <1>1, <1>2, <2>1, TakeKeeps DEF CapInv, Kept
<1> QED
  BY <1>1, <1>2, <1>3, <1>4, <1>5, <1>6 DEF Kept, t

\* A retry opens the camera anew; an opening that goes on beside it is noted.
LEMMA ReopenTaskKeeps ==
    ASSUME CapInv, ReopenTask
    PROVE  CapInv'
<1> DEFINE t == [Taken EXCEPT !.overlapped = @ \/ Underway]
           o == OpenCamera(t, FALSE)
<1>1. Take("reopen") /\ cap' = o
  BY DEF ReopenTask
<1>2. Kept(Taken) /\ Taken.caller = cap.caller /\ Taken.stopping = cap.stopping
      /\ cap.caller # "new" /\ DOMAIN Taken = Fields /\ Changes(cap, Taken, {"tasks"})
      /\ Taken.tasks = Tail(cap.tasks)
  BY <1>1, TakenKeeps, TakenFacts DEF Kept, Typed
<1>3. Changes(Taken, t, {"overlapped"}) /\ t.overlapped = (Taken.overlapped \/ Underway)
  <2> HIDE DEF Underway
  <2> QED
    BY <1>2 DEF Changes, Fields
<1> HIDE DEF t
<1>4. Typed(t)
  BY <1>2, <1>3 DEF Kept, Typed, Changes, Fields
<1>5. /\ t.tasks = Taken.tasks /\ t.glasses = Taken.glasses /\ t.device = Taken.device
      /\ t.session = Taken.session /\ t.zoom = Taken.zoom /\ t.wish = Taken.wish
      /\ t.caller = Taken.caller /\ t.stopping = Taken.stopping
      /\ Taken.glasses = cap.glasses
  BY <1>2, <1>3 DEF Changes, Fields
<1>6. Wished(t)
  BY <1>2, <1>5 DEF Kept, Wished
<1>7. ~ t.overlapped => Devices(t) /\ Idle(t)
  <2> SUFFICES ASSUME ~ t.overlapped
               PROVE  Devices(t) /\ Idle(t)
    OBVIOUS
  <2>1. ~ Taken.overlapped /\ ~ Underway
    BY <1>3
  <2>2. Devices(t)
    BY <1>2, <1>5, <2>1 DEF Kept, Pipe, Devices, OneOpening, OneOn, Known, Has
  <2>3. /\ cap.tasks \in Seq(Tasks) /\ cap.tasks # <<>>
    BY <1>1, TakenFacts
  <2>4. ASSUME NEW i \in DOMAIN cap.tasks, Step(cap.tasks[i])
        PROVE  FALSE
    <3> DEFINE k == cap.tasks[i]
    <3>1. k \in Tasks /\ i \in 1 .. Len(cap.tasks)
      BY <2>3
    <3>2. k = Task(k.what, k.of)
      BY <3>1, TaskFacts
    <3>3. Queued(k.what, k.of)
      BY <3>1, <3>2 DEF Queued
    <3>4. k.what = "open" => k.of = NoDevice
      BY <3>1, TaskFacts
    <3>5. k.what \in {"opened", "configured"} => k.of \in Device
      BY <3>1, TaskFacts DEF Reports
    <3> HIDE DEF k
    <3>6. Step(k)
      BY <2>4 DEF k
    <3> QED
      BY <2>1, <3>3, <3>4, <3>5, <3>6 DEF Underway, Step
  <2>5. Idle(t)
    <3>1. \A d \in Device : ~ Pending(t.glasses[d])
      BY <1>5, <2>1 DEF Underway, Pending
    <3>2. \A i \in DOMAIN t.tasks : \E j \in DOMAIN cap.tasks : t.tasks[i] = cap.tasks[j]
      BY <1>2, <1>5, <2>3, TakeTask
    <3> QED
      BY <2>4, <3>1, <3>2 DEF Idle
  <2> QED
    BY <2>2, <2>5
<1>8. Kept(o) /\ Changes(t, o, {"tasks", "session", "device", "failures", "opening"})
  BY <1>4, <1>6, <1>7, OpenCameraKeeps
<1> HIDE DEF o
<1>9. o.caller = cap.caller /\ o.stopping = cap.stopping
  BY <1>2, <1>5, <1>8 DEF Changes, Fields
<1>10. Called(o)
  BY <1>2, <1>9 DEF CapInv, Called
<1> QED
  BY <1>1, <1>8, <1>10 DEF CapInv

\* The user's zoom is applied.
LEMMA ZoomTaskKeeps ==
    ASSUME CapInv, ZoomTask
    PROVE  CapInv'
<1> DEFINE z == Of
           q == cap.tasks
           u == Tail(q)
           t == [Taken EXCEPT !.zoom = z]
           a == ApplyParametersInternal(t)
<1>1. /\ Changes(cap, Taken, {"tasks"}) /\ Taken.tasks = u /\ q \in Seq(Tasks) /\ q # <<>>
      /\ Head(q) = Task("zoom", z) /\ Head(q).what = "zoom" /\ Head(q).of = z
      /\ u \in Seq(Tasks) /\ cap.caller # "new" /\ z \in ZoomLevels
  BY TakenFacts, TaskFacts DEF ZoomTask
<1>2. cap' = a
  BY DEF ZoomTask
<1>3. Changes(cap, t, {"tasks", "zoom"}) /\ t.tasks = u /\ t.zoom = z
  <2> HIDE DEF z, u
  <2> QED
    BY <1>1 DEF Changes, Fields
<1>4. /\ DOMAIN q \subseteq Nat /\ DOMAIN u \subseteq Nat /\ 1 \in DOMAIN q
      /\ \A i \in DOMAIN q : i >= 1
      /\ \A i \in DOMAIN u : i + 1 \in DOMAIN q /\ u[i] = q[i + 1]
      /\ \A i \in DOMAIN q : i # 1 => i - 1 \in DOMAIN u /\ u[i - 1] = q[i]
      /\ Head(q) = q[1]
  BY <1>1, TakeTask
<1> HIDE DEF z, u, t
<1>5. /\ t.index = cap.index /\ t.lens = cap.lens /\ t.glasses = cap.glasses
      /\ t.device = cap.device /\ t.session = cap.session /\ t.opening = cap.opening
      /\ t.overlapped = cap.overlapped /\ t.stopping = cap.stopping
      /\ t.wish = cap.wish /\ t.caller = cap.caller
  BY <1>3 DEF Changes, Fields
<1>6. Typed(t)
  BY <1>1, <1>3 DEF CapInv, Kept, Typed, Changes, Fields
<1>7. Wished(t)
  <2>1. ASSUME \A i \in DOMAIN u : u[i].what # "zoom"
        PROVE  t.zoom = t.wish
    <3>1. \A j \in DOMAIN q : j > 1 => q[j].what # "zoom"
      BY <1>4, <2>1
    <3>2. q[1].of = cap.wish
      BY <1>1, <1>4, <3>1 DEF CapInv, Kept, Wished
    <3> QED
      BY <1>1, <1>3, <1>4, <1>5, <3>2
  <2>2. ASSUME NEW i \in DOMAIN u, u[i].what = "zoom",
               \A j \in DOMAIN u : j > i => u[j].what # "zoom"
        PROVE  u[i].of = t.wish
    <3>1. ASSUME NEW j \in DOMAIN q, j > i + 1
          PROVE  q[j].what # "zoom"
      <4>1. j # 1 /\ j - 1 > i
        BY <1>4, <3>1
      <4> QED
        BY <1>4, <2>2, <4>1
    <3> QED
      BY <1>4, <1>5, <2>2, <3>1 DEF CapInv, Kept, Wished
  <2> QED
    BY <1>3, <2>1, <2>2 DEF Wished
<1>8. Exclusive(t)
  BY <1>5 DEF CapInv, Kept, Exclusive
<1>9. ~ t.overlapped => Pipe(t)
  <2>1. ~ Step(Head(q)) /\ Head(q).what # "close"
    BY <1>1 DEF Step
  <2> QED
    BY <1>1, <1>3, <1>5, <2>1, TakeKeeps DEF CapInv, Kept, u
<1>10. /\ Kept(a)
       /\ Changes(t, a, {"tasks", "session", "device", "failures", "opening", "index",
                         "request"})
  BY <1>6, <1>7, <1>8, <1>9, ApplyKeeps
<1> HIDE DEF a
<1>11. a.caller = cap.caller /\ a.stopping = cap.stopping
  BY <1>5, <1>10 DEF Changes, Fields
<1>12. Called(a)
  BY <1>1, <1>11 DEF CapInv, Called
<1> QED
  BY <1>2, <1>10, <1>12 DEF CapInv

\* A failure is handled, or it is of a device that nobody uses.
LEMMA OnFailureKeeps ==
    ASSUME CapInv, OnConfigureFailed \/ OnError \/ OnDisconnected
    PROVE  CapInv'
<1>1. PICK what \in {"configureFailed", "error", "disconnected"} :
          /\ Take(what)
          /\ \/ cap' = Taken
             \/ \E lost \in BOOLEAN : cap' = HandleFailure(Taken, lost)
  BY DEF OnConfigureFailed, OnError, OnDisconnected, OnFailure
<1>2. Kept(Taken) /\ Taken.caller = cap.caller /\ Taken.stopping = cap.stopping
      /\ cap.caller # "new"
  BY <1>1, TakenKeeps
<1> HIDE DEF Taken
<1>3. Called(Taken)
  BY <1>2 DEF CapInv, Called
<1>4. CASE cap' = Taken
  BY <1>2, <1>3, <1>4 DEF CapInv
<1>5. ASSUME NEW lost \in BOOLEAN, cap' = HandleFailure(Taken, lost)
      PROVE  CapInv'
  <2>1. Kept(HandleFailure(Taken, lost)) /\ Called(HandleFailure(Taken, lost))
    BY <1>2, <1>3, HandleFailureKeeps DEF Called
  <2> QED
    BY <1>5, <2>1 DEF CapInv
<1> QED
  BY <1>1, <1>4, <1>5

\* The delay of a retry is over.
LEMMA DelayOverKeeps ==
    ASSUME CapInv, DelayOver
    PROVE  CapInv'
<1> DEFINE s == [cap EXCEPT !.delayed = @ - 1]
           k == Task("reopen", NoDevice)
           t == Posting(s, "reopen", NoDevice)
<1>1. Kept(cap) /\ DOMAIN cap = Fields /\ cap.delayed \in Nat /\ cap.delayed > 0
      /\ cap.failures \in 0 .. MaxFailures /\ cap.stopping \in BOOLEAN
  BY DEF CapInv, Kept, Typed, DelayOver
<1>2. Changes(cap, s, {"delayed"}) /\ s.delayed = cap.delayed - 1
  BY <1>1 DEF Changes, Fields
<1> HIDE DEF s
<1>3. Kept(s) /\ s.caller = cap.caller /\ s.stopping = cap.stopping
  <2>1. Changes(cap, s, {"stopping", "caller", "failures", "delayed", "reported", "refused",
                         "unplugged", "zooms", "faults"})
    BY <1>2 DEF Changes
  <2>2. /\ s.caller = cap.caller /\ s.stopping = cap.stopping /\ s.failures = cap.failures
        /\ s.delayed \in Nat
    BY <1>1, <1>2 DEF Changes, Fields
  <2> QED
    BY <1>1, <2>1, <2>2, OthersKept
<1>4. Kept(t)
  <2>1. k \in Tasks /\ ~ Step(k) /\ k.what = "reopen" /\ k.of = NoDevice
    BY TaskFacts DEF Step
  <2> HIDE DEF k
  <2> QED
    BY <1>3, <2>1, PostingKeeps
<1>5. t.caller = cap.caller /\ t.stopping = cap.stopping
  BY <1>3, PostingIs DEF Kept, Typed, Changes, Fields
<1>6. cap' = t
  BY DEF DelayOver, s
<1> HIDE DEF t
<1>7. Called(t)
  BY <1>1, <1>5 DEF CapInv, Called
<1> QED
  BY <1>4, <1>6, <1>7 DEF CapInv

-----------------------------------------------------------------------------
(* The steps of the headset.                                               *)

\* A device that opened or was configured says so.
LEMMA DeviceAnswersKeeps ==
    ASSUME CapInv, NEW d \in Device, DeviceAnswers(d)
    PROVE  CapInv'
<1>1. PICK what \in {"opened", "configured"}, x \in {"open", "ready"} :
          /\ cap' = Posting([cap EXCEPT !.glasses[d] = x], what, d)
          /\ Pending(cap.glasses[d]) /\ (x = "open" <=> what = "opened")
  BY DEF DeviceAnswers, DeviceOpens, DeviceConfigures, Pending
<1> DEFINE s == [cap EXCEPT !.glasses[d] = x]
           k == Task(what, d)
           q == cap.tasks
           u == Append(q, k)
           l == Len(q) + 1
           t == Posting(s, what, d)
<1>2. cap.glasses \in [Device -> States] /\ q \in Seq(Tasks) /\ DOMAIN cap = Fields
  BY DEF CapInv, Kept, Typed
<1>3. /\ Changes(cap, s, {"glasses"})
      /\ s.glasses = [cap.glasses EXCEPT ![d] = x] /\ s.tasks = q
  BY <1>2 DEF Changes, Fields
<1> HIDE DEF s
<1>4. /\ Changes(cap, t, {"tasks", "glasses"}) /\ t.tasks = u
      /\ t.glasses = [cap.glasses EXCEPT ![d] = x]
  <2>1. Changes(s, t, {"tasks"}) /\ t.tasks = Append(s.tasks, k)
    BY <1>3, PostingIs DEF Changes
  <2> QED
    BY <1>3, <2>1 DEF Changes, Fields
<1>5. cap' = t
  BY <1>1 DEF s
<1>6. /\ k \in Tasks /\ k.what = what /\ k.of = d /\ Step(k)
      /\ \A w \in Tasks : w = Task(w.what, w.of)
  BY TaskFacts DEF Reports, Step
<1>7. /\ u \in Seq(Tasks)
      /\ \A i \in DOMAIN q : i \in DOMAIN u /\ u[i] = q[i]
      /\ l \in DOMAIN u /\ u[l] = k
      /\ \A i \in DOMAIN u : i \in DOMAIN q \/ i = l
  BY <1>2, <1>6, PutTask
<1>8. /\ t.glasses \in [Device -> States] /\ t.glasses[d] = x
      /\ \A e \in Device : e # d => t.glasses[e] = cap.glasses[e]
  BY <1>2, <1>4 DEF States
<1> HIDE DEF t, u, l, k
<1>9. /\ t.index = cap.index /\ t.lens = cap.lens /\ t.device = cap.device
      /\ t.session = cap.session /\ t.opening = cap.opening /\ t.request = cap.request
      /\ t.overlapped = cap.overlapped /\ t.stopping = cap.stopping /\ t.zoom = cap.zoom
      /\ t.wish = cap.wish /\ t.caller = cap.caller
  BY <1>4 DEF Changes, Fields
<1>10. Typed(t)
  BY <1>4, <1>7, <1>8 DEF CapInv, Kept, Typed, Changes, Fields
<1>11. Wished(t)
  BY <1>2, <1>4, <1>6, <1>9, PutWished DEF CapInv, Kept, u
<1>12. Exclusive(t) /\ Applied(t)
  BY <1>9 DEF CapInv, Kept, Exclusive, Applied, WrongCamera
<1>13. Called(t)
  <2>1. cap.caller # "new"
    BY <1>1 DEF CapInv, Called, Pending
  <2> QED
    BY <1>9, <2>1 DEF CapInv, Called
<1>14. ~ t.overlapped => Pipe(t)
  <2> SUFFICES ASSUME ~ t.overlapped
               PROVE  Pipe(t)
    OBVIOUS
  <2>0. Pipe(cap)
    BY <1>9 DEF CapInv, Kept
  <2>1. /\ \A i \in DOMAIN q : ~ Step(q[i])
        /\ cap.session = NoDevice /\ cap.lens[d] = cap.index
        /\ \A e \in Device : Pending(cap.glasses[e]) => e = d
    BY <1>1, <2>0 DEF Pipe, Devices, OneOpening, Chosen
  <2>2. /\ On(cap.glasses[d]) /\ \A e \in Device : On(cap.glasses[e]) => e = d
        /\ \A e \in Device : cap.glasses[e] = "open" => FALSE
    <3>1. On(cap.glasses[d])
      BY <1>1 DEF On, Pending
    <3>2. \A e \in Device : On(cap.glasses[e]) => e = d
      BY <2>0, <3>1 DEF Pipe, Devices, OneOn
    <3>3. \A e \in Device : cap.glasses[e] = "open" => On(cap.glasses[e])
      BY DEF On
    <3>4. cap.glasses[d] # "open"
      BY <1>1 DEF Pending
    <3> QED
      BY <3>1, <3>2, <3>3, <3>4
  <2>3. \A e \in Device : /\ On(t.glasses[e]) => e = d
                          /\ ~ Pending(t.glasses[e])
                          /\ t.glasses[e] = "open" => e = d /\ x = "open"
    BY <1>8, <2>1, <2>2 DEF Pending
  <2>4. \A i \in DOMAIN u : Step(u[i]) => i = l
    BY <1>7, <2>1
  <2>5. OneOpening(t)
    BY <1>4, <1>9, <2>1, <2>3, <2>4 DEF OneOpening
  <2>6. OneOn(t)
    <3>1. \A i \in DOMAIN u : u[i].what \in {"open", "opened", "configured"} => i = l
      BY <2>4 DEF Step
    <3>2. u[l].what # "open" /\ u[l].of = d
      BY <1>6, <1>7
    <3> QED
      BY <1>4, <2>3, <3>1, <3>2 DEF OneOn
  <2>7. Known(t)
    <3>1. what = "opened" => Has(t, "opened", d)
      BY <1>4, <1>7 DEF Has, k
    <3>2. \A w : Has(cap, w, d) => Has(t, w, d)
      BY <1>4, <1>7 DEF Has
    <3>3. what = "configured" => \/ t.device = d \/ Has(t, "opened", d) \/ Has(t, "close", d)
      <4>1. ASSUME what = "configured"
            PROVE  cap.glasses[d] # "opening"
        <5>1. DeviceConfigures(d) => cap.glasses[d] = "configuring"
          BY DEF DeviceConfigures
        <5>2. DeviceOpens(d) => t.tasks = Append(q, Task("opened", d))
          BY <1>2, <1>5 DEF DeviceOpens, Posting, Fields
        <5>3. DeviceOpens(d) => u[l].what = "opened"
          BY <1>2, <1>4, <5>2, TaskFacts, PutTask DEF l, Reports
        <5> QED
          BY <1>6, <1>7, <4>1, <5>1, <5>3 DEF DeviceAnswers
      <4> QED
        BY <1>9, <2>0, <2>2, <3>2, <4>1 DEF Pipe, Devices, Known
    <3> QED
      BY <1>1, <2>3, <3>1, <3>3 DEF Known
  <2>8. Chosen(t)
    <3>1. \A i \in DOMAIN u : u[i].what \in {"open", "opened", "configured"} => i = l
      BY <2>4 DEF Step
    <3> QED
      BY <1>4, <1>6, <1>7, <1>9, <2>1, <2>3, <3>1 DEF Chosen
  <2> QED
    BY <2>5, <2>6, <2>7, <2>8 DEF Pipe, Devices
<1> QED
  BY <1>5, <1>10, <1>11, <1>12, <1>13, <1>14 DEF CapInv, Kept

\* A device fails and says so.
LEMMA DeviceFailsKeeps ==
    ASSUME CapInv, NEW d \in Device, DeviceFails(d)
    PROVE  CapInv'
<1>1. PICK what \in {"error", "disconnected", "configureFailed"} :
          cap' = Failing(cap, d, what) /\ On(cap.glasses[d])
  BY DEF DeviceFails, On
<1> DEFINE s == [cap EXCEPT !.glasses[d] = "failed", !.faults = @ + 1]
           k == Task(what, d)
           t == Posting(s, what, d)
<1>2. cap.glasses \in [Device -> States] /\ DOMAIN cap = Fields
  BY DEF CapInv, Kept, Typed
<1>3. /\ Changes(cap, s, {"glasses", "faults"})
      /\ s.glasses = [cap.glasses EXCEPT ![d] = "failed"]
  BY <1>2 DEF Changes, Fields
<1>4. cap' = t
  BY <1>1 DEF Failing
<1> HIDE DEF s
<1>5. /\ s.index = cap.index /\ s.lens = cap.lens /\ s.device = cap.device
      /\ s.session = cap.session /\ s.opening = cap.opening /\ s.request = cap.request
      /\ s.overlapped = cap.overlapped /\ s.stopping = cap.stopping /\ s.zoom = cap.zoom
      /\ s.wish = cap.wish /\ s.caller = cap.caller /\ s.tasks = cap.tasks
  BY <1>3 DEF Changes, Fields
<1>6. Kept(s)
  <2>1. s.glasses \in [Device -> States]
    BY <1>2, <1>3 DEF States
  <2>2. Typed(s)
    BY <1>3, <2>1 DEF CapInv, Kept, Typed, Changes, Fields
  <2>3. Wished(s)
    BY <1>5 DEF CapInv, Kept, Wished
  <2>4. Exclusive(s) /\ Applied(s)
    BY <1>5 DEF CapInv, Kept, Exclusive, Applied, WrongCamera
  <2>5. ~ s.overlapped => Pipe(s)
    BY <1>2, <1>3, <1>5, OffKeeps DEF CapInv, Kept
  <2> QED
    BY <2>2, <2>3, <2>4, <2>5 DEF Kept
<1>7. Kept(t)
  <2>1. k \in Tasks /\ ~ Step(k) /\ k.what = what /\ k.of = d
    BY TaskFacts DEF Step, Reports
  <2> HIDE DEF k
  <2> QED
    BY <1>6, <2>1, PostingKeeps
<1>8. t.caller = cap.caller /\ t.stopping = cap.stopping
  BY <1>5, <1>6, PostingIs DEF Kept, Typed, Changes, Fields
<1> HIDE DEF t
<1>9. Called(t)
  <2>1. cap.caller # "new"
    BY <1>1 DEF CapInv, Called, On
  <2> QED
    BY <1>8, <2>1 DEF CapInv, Called
<1> QED
  BY <1>4, <1>7, <1>9 DEF CapInv

-----------------------------------------------------------------------------
(* The theorems.                                                           *)

\* Every step keeps the invariant.
LEMMA CapturerNext == CapInv /\ [Next]_cap => CapInv'
<1> SUFFICES ASSUME CapInv, [Next]_cap
             PROVE  CapInv'
  OBVIOUS
<1>1. CASE StartCapture \/ StopCapture \/ StopCaptureWakes
  BY <1>1, StartCaptureKeeps, StopCaptureKeeps
<1>2. ASSUME NEW z \in ZoomLevels, SetZoom(z)
      PROVE  CapInv'
  BY <1>2, SetZoomKeeps
<1>3. CASE CameraThread
  BY <1>3, CloseTaskKeeps, OpenTaskKeeps, ReopenTaskKeeps, ZoomTaskKeeps, OnOpenedKeeps,
     OnConfiguredKeeps, OnFailureKeeps DEF CameraThread
<1>4. CASE DelayOver
  BY <1>4, DelayOverKeeps
<1>5. ASSUME NEW d \in Device, DeviceAnswers(d) \/ DeviceFails(d)
      PROVE  CapInv'
  BY <1>5, DeviceAnswersKeeps, DeviceFailsKeeps
<1>6. CASE UNCHANGED cap
  BY <1>6 DEF CapInv
<1> QED
  BY <1>1, <1>2, <1>3, <1>4, <1>5, <1>6 DEF Next

\* The invariant holds, however often devices fail and the user zooms.
THEOREM CapturerInvariant == Spec => []CapInv
  BY CapturerAtFirst, CapturerNext, PTL DEF Spec

\* Every field of the capturer has its type, the failures stay within their limit, and
\* the capturer is stopping only while stopCapture waits (IristickCapturer.java).
THEOREM CapturerTypes == Spec => []CapturerTypeOK
<1>1. CapInv => CapturerTypeOK
  BY DEF CapInv, Kept, Typed, Called, CapturerTypeOK, States, Callers, Returned
<1> QED
  BY <1>1, CapturerInvariant, PTL

\* Until a retry overtakes an opening, no camera is left on that nobody will close:
\* it is the current one, about to be it, or its closing is queued.
THEOREM CapturerLeavesNoneOn == Spec => []NoOrphan
<1>1. CapInv => NoOrphan
  <2> SUFFICES ASSUME CapInv, ~ cap.overlapped, NEW d \in Device, InUse(d)
               PROVE  \/ cap.device = d \/ cap.glasses[d] = "opening"
                      \/ Queued("opened", d) \/ Queued("close", d)
    BY DEF NoOrphan
  <2>1. On(cap.glasses[d])
    BY DEF InUse, On
  <2>2. DOMAIN cap.tasks = 1 .. Len(cap.tasks)
    BY DEF CapInv, Kept, Typed
  <2> QED
    BY <2>1, <2>2 DEF CapInv, Kept, Pipe, Devices, Known, Has, Queued
<1> QED
  BY <1>1, CapturerInvariant, PTL

\* Nor are the glasses ever asked for two cameras at once: openCamera queues the
\* closing of the last device before the opening of the next.
THEOREM CapturerOpensOne == Spec => []OneCamera
<1>1. CapInv => OneCamera
  <2> SUFFICES ASSUME CapInv, ~ cap.overlapped
               PROVE  Cardinality({d \in Device : InUse(d)}) <= 1
    BY DEF OneCamera
  <2> DEFINE S == {d \in Device : InUse(d)}
  <2>1. \A d, e \in S : d = e
    <3>1. \A d \in Device : InUse(d) => On(cap.glasses[d])
      BY DEF InUse, On
    <3> QED
      BY <3>1 DEF CapInv, Kept, Pipe, Devices, OneOn
  <2> HIDE DEF S
  <2>2. ASSUME S = {} PROVE Cardinality(S) <= 1
    <3>1. Cardinality({}) = 0
      BY FS_EmptySet
    <3>2. Cardinality(S) = 0
      BY <3>1, <2>2
    <3> QED
      BY <3>2
  <2>3. ASSUME NEW d, S = {d} PROVE Cardinality(S) <= 1
    <3>1. Cardinality({d}) = 1
      BY FS_Singleton
    <3>2. Cardinality(S) = 1
      BY <3>1, <2>3
    <3> QED
      BY <3>2
  <2>4. S = {} \/ \E d : S = {d}
    BY <2>1
  <2>5. Cardinality(S) <= 1
    BY <2>2, <2>3, <2>4
  <2> QED
    BY <2>5 DEF S
<1> QED
  BY <1>1, CapturerInvariant, PTL

\* And a camera that streams with nothing left to do shows what the user chose last,
\* with the right one of two cameras.
THEOREM CapturerShowsChoice == Spec => []ZoomShown
<1>1. CapInv => ZoomShown
  <2> SUFFICES ASSUME CapInv, Live, cap.tasks = <<>>, cap.caller = "running",
                      ~ cap.overlapped
               PROVE  /\ cap.request = cap.wish
                      /\ Cameras >= 2 =>
                            cap.lens[cap.session] = (IF cap.wish > 0 THEN 1 ELSE 0)
    BY DEF ZoomShown
  <2>1. cap.zoom = cap.wish
    BY DEF CapInv, Kept, Wished
  <2>2. cap.request = cap.zoom /\ ~ WrongCamera(cap)
    BY DEF CapInv, Kept, Applied, Called, Live
  <2>3. cap.lens[cap.session] = cap.index
    BY DEF CapInv, Kept, Pipe, Chosen, Live
  <2>4. cap.zoom \in Nat
    BY CapturerAssumption DEF CapInv, Kept, Typed
  <2> QED
    BY <2>1, <2>2, <2>3, <2>4 DEF WrongCamera
<1> QED
  BY <1>1, CapturerInvariant, PTL

=============================================================================
