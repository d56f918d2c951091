------------------------ MODULE ProcessManager_proofs ------------------------
(***************************************************************************)
(* Proofs about ProcessManager: type correctness, the inductive invariant  *)
(* IInv, the safety and action properties that follow from it (those about *)
(* children where taskkill leaves no survivor, on Windows), the order of   *)
(* the awaits, and the refinement of AppLifecycle.                         *)
(***************************************************************************)
EXTENDS ProcessManager, TLAPS

-----------------------------------------------------------------------------
(* What one action of an app leaves alone.                                  *)

\* Other apps keep their steps and entries, ports are only reserved or released
\* for the app, and processes are only spawned for it or killed.
OthersAlone(a) ==
  /\ \A b \in Apps \ {a} : /\ mutations'[b] = mutations[b] /\ pc'[b] = pc[b]
                           /\ probe'[b] = probe[b] /\ runtime'[b] = runtime[b]
  /\ \A q \in Ports : portReservations'[q] \in {portReservations[q], a, None}
  /\ \A p \in Procs :
       \/ procs'[p] = procs[p] /\ origin'[p] = origin[p]
       \/ procs[p] = "alive" /\ procs'[p] = "dying" /\ origin'[p] = origin[p]
       \/ procs[p] = "unused" /\ procs'[p] = "alive" /\ origin'[p] # None /\ origin'[p].app = a

\* The invariant of another app survives such an action.
LEMMA OthersKeep ==
  ASSUME IInv, NEW a \in Apps, OthersAlone(a), NEW b \in Apps \ {a}
  PROVE  AppInv(b)'
<1>1. /\ mutations'[b] = mutations[b] /\ pc'[b] = pc[b]
      /\ probe'[b] = probe[b] /\ runtime'[b] = runtime[b]
      /\ HasPort(b)' = HasPort(b) /\ HasChild(b)' = HasChild(b)
  BY DEF OthersAlone, HasPort, HasChild
<1>2. AppInv(b) /\ b # None
  BY ProcAssumption DEF IInv
<1>3. StepInv(b)' /\ EntryInv(b)' /\ StatusInv(b)'
  BY <1>1, <1>2 DEF AppInv, StepInv, EntryInv, StatusInv
<1>4. ReservedInv(b)'
  BY <1>1, <1>2 DEF AppInv, ReservedInv, OthersAlone
<1>5. CASE ~HasChild(b)
  BY <1>1, <1>2, <1>3, <1>4, <1>5 DEF AppInv, ChildInv, WindowsInv, ChildRuns, EntryInv, CleanupSteps
<1>6. CASE HasChild(b)
  <2> DEFINE p == runtime[b].child
  <2>1. p \in Procs /\ procs[p] # "unused" /\ runtime'[b].child = p
    BY <1>1, <1>2, <1>6 DEF AppInv, ChildInv, HasChild, IInv, TypeOK, Entry
  <2>2. /\ origin'[p] = origin[p] /\ procs'[p] # "unused"
        /\ HasExitCode(p)' = HasExitCode(p)
        /\ procs[p] # "alive" => procs'[p] # "alive"
    BY <2>1 DEF OthersAlone, HasExitCode
  <2>3. ChildRuns(b)' = ChildRuns(b)
    BY <1>1, <2>1, <2>2 DEF ChildRuns, HasExitCode
  <2>4. ChildInv(b)'
    BY <1>1, <1>2, <2>1, <2>2 DEF AppInv, ChildInv
  <2>5. Windows => WindowsInv(b)'
    BY <1>1, <1>2, <2>1, <2>2, <2>3 DEF AppInv, WindowsInv
  <2>6. QED
    BY <1>3, <1>4, <2>4, <2>5 DEF AppInv
<1>7. QED
  BY <1>5, <1>6

\* What is left to show of an action of an app.
LEMMA OneAppStep ==
  ASSUME IInv, NEW a \in Apps, TypeOK', OthersAlone(a), AppInv(a)',
         \A p \in Procs : ProcInv(p)'
  PROVE  IInv'
<1>1. \A b \in Apps : AppInv(b)'
  BY OthersKeep
<1>2. QED
  BY <1>1 DEF IInv

\* No process becomes unreachable if the app keeps its child.
LEMMA ChildKept ==
  ASSUME IInv, NEW a \in Apps, OthersAlone(a),
         \A p \in Procs : procs[p] = "unused" => procs'[p] = "unused" /\ origin'[p] = origin[p],
         HasChild(a) => HasChild(a)' /\ runtime'[a].child = runtime[a].child
  PROVE  \A p \in Procs : ProcInv(p)'
<1> TAKE p \in Procs
<1>0. ProcInv(p)
  BY DEF IInv
<1>1. /\ ProcInv(p)
      /\ origin'[p] = origin[p]
      /\ procs'[p] # procs[p] => procs[p] = "alive" /\ procs'[p] = "dying"
  <2>1. CASE procs[p] = "unused"
    BY <1>0, <2>1
  <2>2. CASE procs[p] # "unused"
    BY <1>0, <2>2 DEF OthersAlone
  <2>3. QED
    BY <2>1, <2>2
<1>2. procs'[p] # "unused" => origin'[p] # None
  BY <1>1 DEF ProcInv
<1>3. Windows => procs'[p] # "signalled"
  BY <1>1 DEF ProcInv
<1>4. ASSUME Windows, procs'[p] = "alive"
      PROVE  HasChild(origin[p].app)' /\ runtime'[origin[p].app].child = p
  <2>1. procs[p] = "alive" /\ origin[p] # None
    BY <1>1, <1>4 DEF ProcInv
  <2>2. origin[p].app \in Apps
    BY <2>1 DEF IInv, TypeOK, Origin
  <2>3. HasChild(origin[p].app) /\ runtime[origin[p].app].child = p
    BY <1>1, <1>4, <2>1 DEF ProcInv
  <2>4. QED
    BY <2>2, <2>3 DEF OthersAlone, HasChild
<1>5. QED
  BY <1>1, <1>2, <1>3, <1>4 DEF ProcInv

\* Where no child of an app runs, no living process was spawned for it.
LEMMA NothingToLose ==
  ASSUME IInv, NEW a \in Apps, ~ChildRuns(a), Windows,
         NEW p \in Procs, procs[p] = "alive"
  PROVE  origin[p].app # a
  BY DEF IInv, ProcInv, ChildRuns, HasExitCode

\* So the app may drop its entry: those of the living processes stay.
LEMMA NothingLost ==
  ASSUME IInv, NEW a \in Apps, OthersAlone(a), ~ChildRuns(a), Windows,
         NEW p \in Procs, procs[p] = "alive", origin'[p] = origin[p]
  PROVE  HasChild(origin[p].app)' /\ runtime'[origin[p].app].child = p
<1>1. ProcInv(p)
  BY DEF IInv
<1>2. origin[p] # None /\ HasChild(origin[p].app) /\ runtime[origin[p].app].child = p
  BY <1>1 DEF ProcInv
<1>3. origin[p].app \in Apps \ {a}
  BY <1>2, NothingToLose DEF IInv, TypeOK, Origin
<1>4. runtime'[origin[p].app] = runtime[origin[p].app]
  BY <1>3 DEF OthersAlone
<1>5. QED
  BY <1>2, <1>4 DEF HasChild

-----------------------------------------------------------------------------
(* The pieces the steps are made of.                                        *)

LEMMA GotoEffect ==
  ASSUME TypeOK, NEW a \in Apps, NEW step \in Steps, Goto(a, step)
  PROVE  /\ pc' \in [Apps -> Steps] /\ pc'[a] = step
         /\ \A b \in Apps \ {a} : pc'[b] = pc[b]
         /\ mutations' = mutations /\ aborted' = aborted
  BY DEF Goto, TypeOK

LEMMA DoneEffect ==
  ASSUME TypeOK, NEW a \in Apps, Done(a)
  PROVE  /\ pc' \in [Apps -> Steps] /\ pc'[a] = "idle"
         /\ mutations' \in [Apps -> Actions \cup {None}] /\ mutations'[a] = None
         /\ \A b \in Apps \ {a} : pc'[b] = pc[b] /\ mutations'[b] = mutations[b]
         /\ aborted' \in [Apps -> BOOLEAN]
  BY DEF Done, TypeOK, Steps

\* The action ends, or a restart goes on with its start.
LEMMA StopDoneEffect ==
  ASSUME TypeOK, NEW a \in Apps, StopDone(a)
  PROVE  /\ pc' \in [Apps -> Steps]
         /\ mutations' \in [Apps -> Actions \cup {None}]
         /\ \/ pc'[a] = "idle" /\ mutations'[a] = None
            \/ pc'[a] = "start_lookup" /\ mutations[a] = "restart" /\ mutations'[a] = "restart"
         /\ \A b \in Apps \ {a} : pc'[b] = pc[b] /\ mutations'[b] = mutations[b]
         /\ aborted' \in [Apps -> BOOLEAN]
<1>1. CASE mutations[a] = "restart" /\ ~aborted[a]
  BY <1>1 DEF StopDone, Goto, TypeOK, Steps, StartSteps
<1>2. CASE ~(mutations[a] = "restart" /\ ~aborted[a])
  BY <1>2, DoneEffect DEF StopDone
<1>3. QED
  BY <1>1, <1>2

\* Only the status of the entry changes.
LEMMA SetStatusEffect ==
  ASSUME TypeOK, NEW a \in Apps, runtime[a] # None, NEW state \in RuntimeStatus,
         SetStatus(a, state)
  PROVE  /\ runtime' \in [Apps -> Entry \cup {None}]
         /\ runtime'[a] # None /\ runtime'[a].status = state
         /\ runtime'[a].port = runtime[a].port /\ runtime'[a].child = runtime[a].child
         /\ runtime'[a].watched = runtime[a].watched
         /\ \A b \in Apps \ {a} : runtime'[b] = runtime[b]
  BY NoneAssumption DEF SetStatus, TypeOK, Entry

\* Another status makes another entry.
LEMMA StatusOnly ==
  ASSUME NEW entry \in Entry, NEW state \in RuntimeStatus,
         NEW next, next = [entry EXCEPT !.status = state]
  PROVE  /\ next \in Entry /\ next # None
         /\ next.status = state /\ next.port = entry.port
         /\ next.child = entry.child /\ next.watched = entry.watched
  BY NoneAssumption DEF Entry

\* So does giving up the port, or the mark of a conflicting request.
LEMMA PortOnly ==
  ASSUME NEW entry \in Entry, NEW next, next = [entry EXCEPT !.port = None]
  PROVE  /\ next \in Entry /\ next # None /\ next.status = entry.status
         /\ next.port = None /\ next.child = entry.child /\ next.watched = entry.watched
  BY NoneAssumption DEF Entry

LEMMA MarkOnly ==
  ASSUME NEW entry \in Entry, NEW next, next = [entry EXCEPT !.blocked = FALSE]
  PROVE  /\ next \in Entry /\ next # None /\ next.status = entry.status
         /\ next.port = entry.port /\ next.child = entry.child /\ next.watched = entry.watched
  BY NoneAssumption DEF Entry

\* A cancelled start, or a failed one, gives up its port and keeps its child.
LEMMA CancelledEffect ==
  ASSUME TypeOK, NEW a \in Apps, runtime[a] # None, Cancelled(a)
  PROVE  /\ runtime' \in [Apps -> Entry \cup {None}] /\ runtime'[a] # None
         /\ runtime'[a].status = "errored" /\ runtime'[a].port = None
         /\ runtime'[a].child = runtime[a].child
         /\ \A b \in Apps \ {a} : runtime'[b] = runtime[b]
<1> DEFINE first  == [runtime[a] EXCEPT !.status = "errored"]
           middle == [runtime EXCEPT ![a] = first]
           second == [middle[a] EXCEPT !.port = None]
<1>1. runtime[a] \in Entry /\ "errored" \in RuntimeStatus
  BY DEF TypeOK, RuntimeStatus
<1>2. first \in Entry /\ first.status = "errored" /\ first.child = runtime[a].child
  BY <1>1, StatusOnly
<1>3. middle \in [Apps -> Entry \cup {None}] /\ middle[a] = first
      /\ \A b \in Apps \ {a} : middle[b] = runtime[b]
  BY <1>2 DEF TypeOK
<1>4. /\ second \in Entry /\ second # None /\ second.status = "errored"
      /\ second.port = None /\ second.child = runtime[a].child
  <2> HIDE DEF first, middle
  <2>1. QED
    BY <1>2, <1>3, PortOnly
<1>5. runtime' = [middle EXCEPT ![a] = second]
  BY DEF Cancelled
<1>6. QED
  <2> HIDE DEF middle, second
  <2>1. QED
    BY <1>3, <1>4, <1>5

\* Releasing gives back ports of the app only.
LEMMA ReleasedEffect ==
  ASSUME TypeOK, NEW a \in Apps
  PROVE  /\ AllReleased(a) \in [Ports -> Apps \cup {None}]
         /\ \A q \in Ports : AllReleased(a)[q] \in {portReservations[q], None}
                             /\ AllReleased(a)[q] # a
         /\ \A r : /\ Released(a, r) \in [Ports -> Apps \cup {None}]
                   /\ \A q \in Ports : /\ Released(a, r)[q] \in {portReservations[q], None}
                                       /\ q = r => Released(a, r)[q] # a
  BY ProcAssumption DEF TypeOK, AllReleased, Released

-----------------------------------------------------------------------------
LEMMA InitInv == Init => IInv
<1> SUFFICES ASSUME Init PROVE IInv
  OBVIOUS
<1>1. TypeOK
  BY DEF Init, TypeOK, Steps, ProcState
<1>2. \A a \in Apps : AppInv(a)
  <2> TAKE a \in Apps
  <2>1. mutations[a] = None /\ pc[a] = "idle" /\ runtime[a] = None
    BY DEF Init
  <2>2. ReservedInv(a)
    BY ProcAssumption DEF Init, ReservedInv
  <2>3. StepInv(a) /\ EntryInv(a)
    BY <2>1, NoneAssumption DEF StepInv, EntryInv, StopSteps, CleanupSteps, Actions
  <2>4. StatusInv(a) /\ ChildInv(a) /\ WindowsInv(a)
    BY <2>1 DEF StatusInv, ChildInv, WindowsInv, HasChild, ChildRuns, CleanupSteps
  <2>5. QED
    BY <2>2, <2>3, <2>4 DEF AppInv
<1>3. \A p \in Procs : ProcInv(p)
  BY DEF Init, ProcInv
<1>4. QED
  BY <1>1, <1>2, <1>3 DEF IInv

\* The invariant does not speak about signals and listeners.
LEMMA Frame ==
  ASSUME IInv, TypeOK',
         UNCHANGED <<mutations, pc, probe, runtime, portReservations, procs, origin>>
  PROVE  IInv'
<1>1. \A a \in Apps : AppInv(a)'
  <2> TAKE a \in Apps
  <2>1. AppInv(a)
    BY DEF IInv
  <2>2. StepInv(a)' /\ EntryInv(a)' /\ StatusInv(a)' /\ ReservedInv(a)'
    BY <2>1 DEF AppInv, StepInv, EntryInv, StatusInv, ReservedInv, HasPort, HasChild
  <2>3. ChildInv(a)' /\ (Windows => WindowsInv(a)')
    BY <2>1 DEF AppInv, ChildInv, WindowsInv, HasPort, HasChild, ChildRuns, HasExitCode
  <2>4. QED
    BY <2>2, <2>3 DEF AppInv
<1>2. \A p \in Procs : ProcInv(p)'
  BY DEF IInv, ProcInv, HasChild
<1>3. QED
  BY <1>1, <1>2 DEF IInv

LEMMA MachineInv ==
  ASSUME IInv,
         \/ \E a \in Apps : Abort(a)
         \/ \E p \in Procs : Listen(p)
         \/ \E q \in Ports : ForeignListen(q) \/ Unlisten(q)
  PROVE  IInv'
<1> USE DEF IInv
<1>1. CASE \E a \in Apps : Abort(a)
  BY <1>1, Frame DEF Abort, TypeOK, machine
<1>2. ASSUME NEW p \in Procs, Listen(p)
      PROVE  IInv'
  <2>1. TypeOK'
    BY <1>2 DEF Listen, TypeOK
  <2>2. QED
    BY <1>2, <2>1, Frame DEF Listen
<1>3. ASSUME NEW q \in Ports, ForeignListen(q) \/ Unlisten(q)
      PROVE  IInv'
  <2>1. TypeOK'
    BY <1>3 DEF ForeignListen, Unlisten, TypeOK
  <2>2. QED
    BY <1>3, <2>1, Frame DEF ForeignListen, Unlisten
<1>4. QED
  BY <1>1, <1>2, <1>3

LEMMA RequestInv ==
  ASSUME IInv, NEW a \in Apps, NEW action \in Actions, Request(a, action)
  PROVE  IInv'
<1> USE DEF IInv, Request, machine
<1>1. /\ mutations' \in [Apps -> Actions \cup {None}] /\ mutations'[a] = action
      /\ pc' \in [Apps -> Steps]
      /\ pc'[a] = IF action = "start" THEN "start_lookup" ELSE "stop_lookup"
  BY DEF TypeOK, Steps, StartSteps
<1>2. TypeOK'
  BY <1>1 DEF TypeOK
<1>3. OthersAlone(a)
  BY <1>1 DEF OthersAlone, TypeOK
<1>4. AppInv(a)'
  <2>1. AppInv(a) /\ pc[a] = "idle"
    BY DEF AppInv, StepInv
  <2>2. StepInv(a)'
    BY <1>1, NoneAssumption DEF StepInv, StopSteps, Actions
  <2>3. EntryInv(a)' /\ StatusInv(a)' /\ ReservedInv(a)' /\ ChildInv(a)'
    BY <1>1, <2>1
    DEF AppInv, EntryInv, StatusInv, ReservedInv, ChildInv, HasPort, HasChild, StopSteps, CleanupSteps
  <2>4. Windows => WindowsInv(a)'
    BY <1>1, <2>1 DEF AppInv, WindowsInv, HasPort, HasChild, ChildRuns, HasExitCode
  <2>5. QED
    BY <2>2, <2>3, <2>4 DEF AppInv
<1>5. \A p \in Procs : ProcInv(p)'
  BY <1>3, ChildKept DEF HasChild
<1>6. QED
  BY <1>2, <1>3, <1>4, <1>5, OneAppStep

LEMMA RequestBlockedInv ==
  ASSUME IInv, NEW a \in Apps, NEW action \in Actions, RequestBlocked(a, action)
  PROVE  IInv'
<1> USE DEF IInv, RequestBlocked, machine
<1>1. /\ runtime' \in [Apps -> Entry \cup {None}]
      /\ runtime'[a] # None /\ runtime[a] # None /\ runtime'[a].status = runtime[a].status
      /\ runtime'[a].port = runtime[a].port /\ runtime'[a].child = runtime[a].child
      /\ runtime'[a].watched = runtime[a].watched
      /\ \A b \in Apps \ {a} : runtime'[b] = runtime[b]
  BY NoneAssumption DEF TypeOK, Entry
<1>2. TypeOK'
  BY <1>1 DEF TypeOK
<1>3. OthersAlone(a)
  BY <1>1 DEF OthersAlone, TypeOK
<1>4. AppInv(a)'
  <2>1. AppInv(a)
    OBVIOUS
  <2>2. StepInv(a)' /\ EntryInv(a)' /\ StatusInv(a)' /\ ReservedInv(a)' /\ ChildInv(a)'
    BY <1>1, <2>1
    DEF AppInv, StepInv, EntryInv, StatusInv, ReservedInv, ChildInv, HasPort, HasChild
  <2>4. Windows => WindowsInv(a)'
    BY <1>1, <2>1 DEF AppInv, WindowsInv, HasPort, HasChild, ChildRuns, HasExitCode
  <2>5. QED
    BY <2>2, <2>4 DEF AppInv
<1>5. \A p \in Procs : ProcInv(p)'
  BY <1>1, <1>3, ChildKept DEF HasChild
<1>6. QED
  BY <1>2, <1>3, <1>4, <1>5, OneAppStep

\* A child exits: of the app's entry only the status may change, and only if the
\* handler is attached.
LEMMA ExitInv ==
  ASSUME IInv, NEW p \in Procs, NEW how \in ProcState, Exit(p, how)
  PROVE  IInv'
<1> USE DEF IInv
<1> DEFINE a == origin[p].app
<1>1. /\ a \in Apps
      /\ how \in {"exit0", "exitN", "signalled"}
      /\ Windows => how # "signalled"
      /\ procs' \in [Procs -> ProcState] /\ procs'[p] = how
      /\ \A q \in Procs \ {p} : procs'[q] = procs[q]
  BY DEF Exit, Exits, ProcInv, TypeOK, Origin
<1>2. /\ runtime' \in [Apps -> Entry \cup {None}]
      /\ \A b \in Apps : runtime'[b] # runtime[b] =>
           /\ HasChild(b) /\ runtime[b].child = p /\ runtime[b].watched
           /\ runtime'[b] = [runtime[b] EXCEPT !.status = AfterExit(runtime[b].status, how)]
      /\ \A b \in Apps : HasChild(b) /\ runtime[b].child = p /\ runtime[b].watched /\ b = a =>
           runtime'[b] = [runtime[b] EXCEPT !.status = AfterExit(runtime[b].status, how)]
  BY <1>1 DEF Exit, TypeOK, AfterExit, HasChild, Entry, RuntimeStatus
<1>3. TypeOK'
  BY <1>1, <1>2 DEF Exit, TypeOK
<1>7. ASSUME NEW b \in Apps, HasChild(b)
      PROVE  /\ runtime'[b] # None /\ runtime'[b].port = runtime[b].port
             /\ runtime'[b].child = runtime[b].child /\ runtime'[b].watched = runtime[b].watched
             /\ runtime'[b] # runtime[b] => runtime'[b].status = AfterExit(runtime[b].status, how)
  <2>1. runtime[b] \in Entry /\ runtime[b].status \in RuntimeStatus
    BY <1>7 DEF HasChild, TypeOK, Entry
  <2>2. AfterExit(runtime[b].status, how) \in RuntimeStatus
    BY <2>1 DEF AfterExit, RuntimeStatus
  <2>3. CASE runtime'[b] = runtime[b]
    BY <1>7, <2>3 DEF HasChild
  <2>4. CASE runtime'[b] # runtime[b]
    <3>1. runtime'[b] = [runtime[b] EXCEPT !.status = AfterExit(runtime[b].status, how)]
      BY <1>2, <2>4
    <3>2. QED
      BY <2>1, <2>2, <3>1, StatusOnly
  <2>5. QED
    BY <2>3, <2>4
<1>4. ASSUME NEW b \in Apps
      PROVE  AppInv(b)'
  <2>1. /\ AppInv(b)
        /\ mutations'[b] = mutations[b] /\ pc'[b] = pc[b] /\ probe'[b] = probe[b]
        /\ portReservations' = portReservations /\ origin' = origin
    BY DEF Exit
  <2>2. CASE ~(HasChild(b) /\ runtime[b].child = p)
    <3>1. runtime'[b] = runtime[b]
      BY <1>2, <2>2
    <3>2. HasChild(b) => runtime[b].child \in Procs \ {p}
      BY <2>2 DEF HasChild, TypeOK, Entry
    <3>3. StepInv(b)' /\ EntryInv(b)' /\ StatusInv(b)' /\ ReservedInv(b)' /\ ChildInv(b)'
      BY <1>1, <2>1, <3>1, <3>2
      DEF AppInv, StepInv, EntryInv, StatusInv, ReservedInv, ChildInv, HasPort, HasChild
    <3>4. ASSUME Windows
          PROVE  WindowsInv(b)'
      BY <1>1, <2>1, <3>1, <3>2, <3>4
      DEF AppInv, WindowsInv, EntryInv, HasPort, HasChild, ChildRuns, HasExitCode, CleanupSteps
    <3>5. QED
      BY <3>3, <3>4 DEF AppInv
  <2>3. CASE HasChild(b) /\ runtime[b].child = p
    <3>1. b = a /\ procs[p] # "unused" /\ b \notin External
      BY <2>1, <2>3 DEF AppInv, ChildInv
    <3>2. /\ runtime'[b] # None /\ runtime'[b].port = runtime[b].port
          /\ runtime'[b].child = p /\ runtime'[b].watched = runtime[b].watched
          /\ runtime'[b].status = IF runtime[b].watched THEN AfterExit(runtime[b].status, how)
                                                        ELSE runtime[b].status
      <4>1. CASE runtime[b].watched
        <5>1. runtime'[b] = [runtime[b] EXCEPT !.status = AfterExit(runtime[b].status, how)]
          BY <1>2, <2>3, <3>1, <4>1
        <5>2. runtime[b] \in Entry /\ AfterExit(runtime[b].status, how) \in RuntimeStatus
          BY <2>3 DEF HasChild, TypeOK, Entry, AfterExit, RuntimeStatus
        <5>3. /\ runtime'[b] # None /\ runtime'[b].status = AfterExit(runtime[b].status, how)
              /\ runtime'[b].port = runtime[b].port /\ runtime'[b].child = runtime[b].child
              /\ runtime'[b].watched = runtime[b].watched
          BY <5>1, <5>2, StatusOnly
        <5>4. QED
          BY <2>3, <4>1, <5>3
      <4>2. CASE ~runtime[b].watched
        <5>1. runtime'[b] = runtime[b]
          BY <1>2, <4>2
        <5>2. QED
          BY <2>3, <4>2, <5>1 DEF HasChild
      <4>3. QED
        BY <4>1, <4>2
    <3>3. /\ runtime[b].status \in {"stopped", "errored"} => runtime'[b].status = runtime[b].status
          /\ runtime'[b].status # runtime[b].status => runtime'[b].status \in {"stopped", "errored"}
          /\ runtime[b].watched => runtime'[b].status \in {"stopped", "errored"}
      BY <3>2 DEF AfterExit
    <3>4. StepInv(b)' /\ EntryInv(b)' /\ ReservedInv(b)' /\ ChildInv(b)'
      BY <1>1, <2>1, <2>3, <3>1, <3>2
      DEF AppInv, StepInv, EntryInv, ReservedInv, ChildInv, HasPort, HasChild
    <3>5. StatusInv(b)'
      BY <2>1, <2>3, <3>2, <3>3 DEF AppInv, StatusInv, HasChild
    <3>6. ASSUME Windows
          PROVE  WindowsInv(b)'
      BY <1>1, <2>1, <2>3, <3>1, <3>2, <3>3, <3>6
      DEF AppInv, WindowsInv, HasChild, ChildRuns, HasExitCode
    <3>7. QED
      BY <3>4, <3>5, <3>6 DEF AppInv
  <2>4. QED
    BY <2>2, <2>3
<1>5. ASSUME NEW q \in Procs
      PROVE  ProcInv(q)'
  <2>1. /\ ProcInv(q) /\ origin' = origin
        /\ \A b \in Apps : HasChild(b) => HasChild(b)' /\ runtime'[b].child = runtime[b].child
    BY <1>7 DEF Exit, HasChild
  <2>2. procs[q] # "unused" => origin[q].app \in Apps
    BY <2>1 DEF ProcInv, TypeOK, Origin
  <2>3. CASE q = p
    BY <1>1, <2>1, <2>3 DEF ProcInv, Exit
  <2>4. CASE q # p
    BY <1>1, <2>1, <2>2, <2>4 DEF ProcInv
  <2>5. QED
    BY <2>3, <2>4
<1>6. QED
  BY <1>3, <1>4, <1>5
-----------------------------------------------------------------------------
(* #startLocked                                                             *)

\* A fresh entry has a port at most.
LEMMA NewEntryEffect ==
  ASSUME NEW state \in RuntimeStatus, NEW port \in Ports \cup {None}
  PROVE  /\ NewEntry(state, port) \in Entry /\ NewEntry(state, port) # None
         /\ NewEntry(state, port).status = state
         /\ NewEntry(state, port).port = port /\ NewEntry(state, port).child = None
<1>1. NewEntry(state, port) \in Entry
  BY DEF NewEntry, Entry
<1>2. NewEntry(state, port) # None
  BY <1>1, NoneAssumption
<1>3. /\ NewEntry(state, port).status = state
      /\ NewEntry(state, port).port = port /\ NewEntry(state, port).child = None
  BY DEF NewEntry
<1>4. QED
  BY <1>1, <1>2, <1>3

\* A port is probed, or the start ends, in a conflict or with an exception.
LEMMA TryPortEffect ==
  ASSUME TypeOK, NEW a \in Apps, NEW choices, choices \subseteq Ports, TryPort(a, choices)
  PROVE  /\ pc' \in [Apps -> Steps]
         /\ mutations' \in [Apps -> Actions \cup {None}]
         /\ aborted' \in [Apps -> BOOLEAN]
         /\ probe' \in [Apps -> Ports \cup {None}]
         /\ runtime' \in [Apps -> Entry \cup {None}]
         /\ \A b \in Apps \ {a} : /\ pc'[b] = pc[b] /\ mutations'[b] = mutations[b]
                                  /\ probe'[b] = probe[b] /\ runtime'[b] = runtime[b]
         /\ \/ /\ pc'[a] = "start_probe" /\ mutations'[a] = mutations[a]
               /\ probe'[a] # None /\ runtime' = runtime
            \/ /\ pc'[a] = "idle" /\ mutations'[a] = None
               /\ \/ runtime' = runtime
                  \/ /\ runtime'[a] # None /\ runtime'[a].status = "conflict"
                     /\ runtime'[a].child = None
<1>1. CASE choices # {}
  <2>1. PICK q \in choices : probe' = [probe EXCEPT ![a] = q]
    BY <1>1 DEF TryPort
  <2>2. Goto(a, "start_probe") /\ runtime' = runtime
    BY <1>1 DEF TryPort
  <2>3. "start_probe" \in Steps
    BY DEF Steps, StartSteps
  <2>4. /\ pc' \in [Apps -> Steps] /\ pc'[a] = "start_probe"
        /\ \A b \in Apps \ {a} : pc'[b] = pc[b]
        /\ mutations' = mutations /\ aborted' = aborted
    BY <2>2, <2>3, GotoEffect
  <2>5. QED
    BY <2>1, <2>2, <2>4, PortAssumption DEF TypeOK
<1>2. CASE choices = {}
  <2>1. /\ Done(a) /\ probe' = [probe EXCEPT ![a] = None]
        /\ \/ runtime' = runtime
           \/ runtime' = [runtime EXCEPT ![a] = NewEntry("conflict", None)]
    BY <1>2 DEF TryPort
  <2>2. "conflict" \in RuntimeStatus
    BY DEF RuntimeStatus
  <2>3. /\ runtime' \in [Apps -> Entry \cup {None}]
        /\ \A b \in Apps \ {a} : runtime'[b] = runtime[b]
        /\ \/ runtime' = runtime
           \/ /\ runtime'[a] # None /\ runtime'[a].status = "conflict"
              /\ runtime'[a].child = None
    BY <2>1, <2>2, NewEntryEffect DEF TypeOK
  <2>4. probe' \in [Apps -> Ports \cup {None}] /\ \A b \in Apps \ {a} : probe'[b] = probe[b]
    BY <2>1 DEF TypeOK
  <2>5. QED
    BY <2>1, <2>3, <2>4, DoneEffect
<1>3. QED
  BY <1>1, <1>2

\* Looking for a port, of an app without a running child and without reservations.
LEMMA TryPortInv ==
  ASSUME IInv, NEW a \in Apps, pc[a] \in {"start_lookup", "start_probe"},
         Windows => ~ChildRuns(a),
         NEW choices, choices \subseteq Ports, TryPort(a, choices),
         portReservations' \in [Ports -> Apps \cup {None}],
         \A q \in Ports : portReservations'[q] \in {portReservations[q], None} \ {a},
         UNCHANGED machine
  PROVE  IInv'
<1> USE DEF IInv, machine
<1>1. TypeOK'
  BY TryPortEffect DEF TypeOK
<1>2. OthersAlone(a)
  BY TryPortEffect DEF OthersAlone, TypeOK
<1>3. \/ /\ pc'[a] = "start_probe" /\ mutations'[a] = mutations[a]
         /\ probe'[a] # None /\ runtime' = runtime
      \/ /\ pc'[a] = "idle" /\ mutations'[a] = None
         /\ \/ runtime' = runtime
            \/ /\ runtime'[a] # None /\ runtime'[a].status = "conflict"
               /\ runtime'[a].child = None
  BY TryPortEffect
<1>4. AppInv(a)
  OBVIOUS
<1>5. AppInv(a)'
  <2>1. StepInv(a)' /\ EntryInv(a)'
    BY <1>3, <1>4, NoneAssumption
    DEF AppInv, StepInv, EntryInv, StopSteps, CleanupSteps, Actions
  <2>2. ReservedInv(a)'
    BY DEF ReservedInv
  <2>3. StatusInv(a)' /\ ChildInv(a)'
    BY <1>3, <1>4 DEF AppInv, StatusInv, ChildInv, HasChild, CleanupSteps
  <2>4. ASSUME Windows
        PROVE  WindowsInv(a)'
    BY <1>3, <1>4, <2>4 DEF AppInv, WindowsInv, HasChild, ChildRuns, HasExitCode
  <2>5. QED
    BY <2>1, <2>2, <2>3, <2>4 DEF AppInv
<1>6. \A p \in Procs : ProcInv(p)'
  <2>1. CASE runtime' = runtime
    BY <1>2, <2>1, ChildKept DEF HasChild
  <2>2. CASE runtime' # runtime
    <3> TAKE p \in Procs
    <3>1. ProcInv(p) /\ procs' = procs /\ origin' = origin
      OBVIOUS
    <3>2. ASSUME Windows, procs[p] = "alive"
          PROVE  HasChild(origin[p].app)' /\ runtime'[origin[p].app].child = p
      BY <1>2, <3>1, <3>2, NothingLost
    <3>3. QED
      BY <3>1, <3>2 DEF ProcInv
  <2>3. QED
    BY <2>1, <2>2
<1>7. QED
  BY <1>1, <1>2, <1>5, <1>6, OneAppStep

LEMMA StartLookupInv ==
  ASSUME IInv, NEW a \in Apps, StartLookup(a)
  PROVE  IInv'
<1> USE DEF IInv
<1>1. AppInv(a) /\ pc[a] = "start_lookup"
  BY DEF StartLookup
<1>2. CASE ChildRuns(a) /\ runtime[a].port # None
  <2>1. /\ SetStatus(a, "running") /\ Done(a)
        /\ UNCHANGED <<probe, portReservations, procs, origin, listener>>
        /\ runtime[a] # None /\ HasChild(a) /\ "running" \in RuntimeStatus
    BY <1>2 DEF StartLookup, machine, ChildRuns, HasChild, RuntimeStatus
  <2>2. /\ runtime' \in [Apps -> Entry \cup {None}]
        /\ runtime'[a] # None /\ runtime'[a].status = "running"
        /\ runtime'[a].port = runtime[a].port /\ runtime'[a].child = runtime[a].child
        /\ runtime'[a].watched = runtime[a].watched
        /\ \A b \in Apps \ {a} : runtime'[b] = runtime[b]
    BY <2>1, SetStatusEffect
  <2>3. TypeOK'
    BY <2>1, <2>2, DoneEffect DEF TypeOK
  <2>4. OthersAlone(a)
    BY <2>1, <2>2, DoneEffect DEF OthersAlone, TypeOK
  <2>5. pc'[a] = "idle" /\ mutations'[a] = None
    BY <2>1, DoneEffect
  <2>6. AppInv(a)'
    <3>1. StepInv(a)' /\ EntryInv(a)'
      BY <2>5, NoneAssumption DEF StepInv, EntryInv, StopSteps, CleanupSteps, Actions
    <3>2. StatusInv(a)' /\ ReservedInv(a)' /\ ChildInv(a)'
      BY <1>1, <2>1, <2>2, <2>5
      DEF AppInv, StatusInv, ReservedInv, ChildInv, HasPort, HasChild, CleanupSteps
    <3>3. ASSUME Windows
          PROVE  WindowsInv(a)'
      BY <1>1, <1>2, <2>1, <2>2, <2>5, <3>3
      DEF AppInv, ChildInv, WindowsInv, HasPort, HasChild, ChildRuns, HasExitCode
    <3>4. QED
      BY <3>1, <3>2, <3>3 DEF AppInv
  <2>7. \A p \in Procs : ProcInv(p)'
    BY <2>1, <2>2, <2>4, ChildKept DEF HasChild
  <2>8. QED
    BY <2>3, <2>4, <2>6, <2>7, OneAppStep
<1>3. CASE ~(ChildRuns(a) /\ runtime[a].port # None)
  <2>1. Windows => ~ChildRuns(a)
    BY <1>1, <1>3 DEF AppInv, WindowsInv, HasPort
  <2>2. /\ portReservations' = AllReleased(a) /\ TryPort(a, PortChoices(a))
        /\ UNCHANGED machine
    BY <1>3 DEF StartLookup
  <2>3. PortChoices(a) \subseteq Ports
    BY PortAssumption DEF PortChoices
  <2>4. /\ portReservations' \in [Ports -> Apps \cup {None}]
        /\ \A q \in Ports : portReservations'[q] \in {portReservations[q], None} \ {a}
    BY <2>2, ReleasedEffect
  <2>5. QED
    BY <1>1, <2>1, <2>2, <2>3, <2>4, TryPortInv
<1>4. QED
  BY <1>2, <1>3

\* A start gets its port: the child is spawned, or there is nothing to spawn.
LEMMA LaunchInv ==
  ASSUME IInv, NEW a \in Apps, pc[a] \in {"start_probe", "start_hook"},
         Windows => ~ChildRuns(a),
         NEW entry \in Entry, entry.port \in Ports, entry.child = None, entry.status = "starting",
         Launch(a, entry), UNCHANGED listener,
         probe' \in [Apps -> Ports \cup {None}],
         \A b \in Apps \ {a} : probe'[b] = probe[b],
         portReservations' \in [Ports -> Apps \cup {None}],
         \A q \in Ports : /\ portReservations'[q] \in {portReservations[q], a, None}
                          /\ portReservations'[q] = a => q = entry.port
  PROVE  IInv'
<1> USE DEF IInv
<1>1. AppInv(a) /\ mutations[a] \notin {None, "stop"}
  BY DEF AppInv, StepInv, StopSteps
<1>2. CASE a \in External
  <2>1. /\ runtime' = [runtime EXCEPT ![a] = entry] /\ Goto(a, "start_external")
        /\ UNCHANGED <<procs, origin>> /\ "start_external" \in Steps
    BY <1>2 DEF Launch, Steps, StartSteps
  <2>2. runtime'[a] = entry /\ runtime'[a] # None
    BY <2>1, NoneAssumption DEF TypeOK
  <2>3. TypeOK'
    BY <2>1, GotoEffect DEF TypeOK
  <2>4. OthersAlone(a)
    BY <2>1, GotoEffect DEF OthersAlone, TypeOK
  <2>5. AppInv(a)'
    <3>1. pc'[a] = "start_external" /\ mutations'[a] = mutations[a]
      BY <2>1, GotoEffect
    <3>2. StepInv(a)' /\ StatusInv(a)' /\ ChildInv(a)' /\ (Windows => WindowsInv(a)')
      BY <1>1, <1>2, <2>2, <3>1
      DEF StepInv, StatusInv, ChildInv, WindowsInv, HasChild, ChildRuns, StopSteps, CleanupSteps
    <3>3. EntryInv(a)' /\ ReservedInv(a)'
      BY <1>2, <2>2, <3>1, PortAssumption
      DEF EntryInv, ReservedInv, HasPort, HasChild, StopSteps, CleanupSteps
    <3>4. QED
      BY <3>2, <3>3 DEF AppInv
  <2>6. \A p \in Procs : ProcInv(p)'
    <3> TAKE p \in Procs
    <3>1. ProcInv(p) /\ procs' = procs /\ origin' = origin
      BY <2>1
    <3>2. ASSUME Windows, procs[p] = "alive"
          PROVE  HasChild(origin[p].app)' /\ runtime'[origin[p].app].child = p
      BY <2>4, <3>1, <3>2, NothingLost
    <3>3. QED
      BY <3>1, <3>2 DEF ProcInv
  <2>7. QED
    BY <2>3, <2>4, <2>5, <2>6, OneAppStep
<1>3. CASE a \notin External
  <2>1. PICK c \in Procs :
          /\ procs[c] = "unused"
          /\ procs' = [procs EXCEPT ![c] = "alive"]
          /\ origin' = [origin EXCEPT ![c] = [app |-> a, port |-> entry.port]]
          /\ runtime' = [runtime EXCEPT ![a] = [entry EXCEPT !.child = c]]
          /\ Goto(a, "start_mcp")
    BY <1>3 DEF Launch
  <2>2. /\ runtime' \in [Apps -> Entry \cup {None}]
        /\ runtime'[a] # None /\ runtime'[a].child = c /\ runtime'[a].port = entry.port
        /\ runtime'[a].status = "starting" /\ c # None
        /\ \A b \in Apps \ {a} : runtime'[b] = runtime[b]
    BY <2>1, NoneAssumption, ProcAssumption DEF TypeOK, Entry
  <2>3. /\ origin' \in [Procs -> Origin \cup {None}]
        /\ origin'[c] # None /\ origin'[c].app = a
        /\ \A p \in Procs \ {c} : origin'[p] = origin[p]
    BY <2>1, NoneAssumption DEF TypeOK, Origin
  <2>4. /\ procs' \in [Procs -> ProcState] /\ procs'[c] = "alive"
        /\ \A p \in Procs \ {c} : procs'[p] = procs[p]
    BY <2>1 DEF TypeOK, ProcState
  <2>5. /\ pc' \in [Apps -> Steps] /\ pc'[a] = "start_mcp"
        /\ mutations' = mutations /\ aborted' = aborted
        /\ \A b \in Apps \ {a} : pc'[b] = pc[b]
    <3>1. "start_mcp" \in Steps
      BY DEF Steps, StartSteps
    <3>2. QED
      BY <2>1, <3>1, GotoEffect
  <2>6. TypeOK'
    BY <2>2, <2>3, <2>4, <2>5 DEF TypeOK
  <2>7. OthersAlone(a)
    BY <2>1, <2>2, <2>3, <2>4, <2>5 DEF OthersAlone, TypeOK
  <2>8. AppInv(a)'
    <3>1. StepInv(a)' /\ StatusInv(a)'
      BY <1>1, <2>2, <2>5 DEF StepInv, StatusInv, StopSteps, CleanupSteps
    <3>2. ChildInv(a)' /\ (Windows => WindowsInv(a)')
      BY <1>3, <2>2, <2>3, <2>4, <2>5 DEF ChildInv, WindowsInv, HasChild, ChildRuns
    <3>3. EntryInv(a)' /\ ReservedInv(a)'
      BY <2>2, <2>5, PortAssumption
      DEF EntryInv, ReservedInv, HasPort, HasChild, StopSteps, CleanupSteps
    <3>4. QED
      BY <3>1, <3>2, <3>3 DEF AppInv
  <2>9. ASSUME NEW p \in Procs
        PROVE  ProcInv(p)'
    <3>1. CASE p = c
      BY <2>2, <2>3, <2>4, <3>1 DEF ProcInv, HasChild
    <3>2. CASE p # c
      <4>1. ProcInv(p) /\ procs'[p] = procs[p] /\ origin'[p] = origin[p]
        BY <2>3, <2>4, <3>2
      <4>2. ASSUME Windows, procs[p] = "alive"
            PROVE  HasChild(origin[p].app)' /\ runtime'[origin[p].app].child = p
        BY <2>7, <4>1, <4>2, NothingLost
      <4>3. QED
        BY <4>1, <4>2 DEF ProcInv
    <3>3. QED
      BY <3>1, <3>2
  <2>10. QED
    BY <2>6, <2>7, <2>8, <2>9, OneAppStep
<1>4. QED
  BY <1>2, <1>3

LEMMA StartProbeInv ==
  ASSUME IInv, NEW a \in Apps, StartProbe(a)
  PROVE  IInv'
<1> USE DEF IInv
<1> DEFINE q == probe[a]
<1>1. /\ AppInv(a) /\ pc[a] = "start_probe" /\ UNCHANGED listener
      /\ q \in Ports /\ \A r \in Ports : portReservations[r] # a
      /\ Windows => ~ChildRuns(a)
  BY DEF StartProbe, AppInv, EntryInv, ReservedInv, WindowsInv, TypeOK
<1>2. ASSUME NEW choices, choices \subseteq Ports, TryPort(a, choices),
             UNCHANGED <<portReservations, procs, origin>>
      PROVE  IInv'
  BY <1>1, <1>2, TryPortInv DEF TypeOK, machine
<1>3. ASSUME portReservations' = [portReservations EXCEPT ![q] = a],
             probe' = [probe EXCEPT ![a] = None]
      PROVE  /\ probe' \in [Apps -> Ports \cup {None}]
             /\ \A b \in Apps \ {a} : probe'[b] = probe[b]
             /\ portReservations' \in [Ports -> Apps \cup {None}]
             /\ \A r \in Ports : /\ portReservations'[r] \in {portReservations[r], a, None}
                                /\ portReservations'[r] = a => r = q
  BY <1>1, <1>3 DEF TypeOK
<1> DEFINE entry == NewEntry("starting", q)
<1>4. /\ entry \in Entry /\ entry # None /\ entry.status = "starting"
      /\ entry.port = q /\ entry.child = None
  BY <1>1, NewEntryEffect DEF RuntimeStatus
<1>5. ASSUME portReservations' = [portReservations EXCEPT ![q] = a],
             probe' = [probe EXCEPT ![a] = None],
             Launch(a, entry)
      PROVE  IInv'
  BY <1>1, <1>3, <1>4, <1>5, LaunchInv
<1>6. ASSUME portReservations' = [portReservations EXCEPT ![q] = a],
             probe' = [probe EXCEPT ![a] = None],
             runtime' = [runtime EXCEPT ![a] = entry],
             Goto(a, "start_hook"),
             UNCHANGED <<procs, origin>>
      PROVE  IInv'
  <2>1. /\ runtime' \in [Apps -> Entry \cup {None}] /\ runtime'[a] = entry
        /\ \A b \in Apps \ {a} : runtime'[b] = runtime[b]
    BY <1>4, <1>6 DEF TypeOK
  <2>2. /\ pc' \in [Apps -> Steps] /\ pc'[a] = "start_hook"
        /\ mutations' = mutations /\ aborted' = aborted
        /\ \A b \in Apps \ {a} : pc'[b] = pc[b]
    <3>1. "start_hook" \in Steps
      BY DEF Steps, StartSteps
    <3>2. QED
      BY <1>6, <3>1, GotoEffect
  <2>3. TypeOK'
    BY <1>1, <1>3, <1>6, <2>1, <2>2 DEF TypeOK
  <2>4. OthersAlone(a)
    BY <1>3, <1>6, <2>1, <2>2 DEF OthersAlone
  <2>5. AppInv(a)'
    <3>1. StepInv(a)'
      BY <1>1, <2>2 DEF AppInv, StepInv, StopSteps
    <3>2. EntryInv(a)' /\ ReservedInv(a)'
      BY <1>1, <1>3, <1>4, <1>6, <2>1, <2>2, PortAssumption
      DEF EntryInv, ReservedInv, HasPort, HasChild, StopSteps, CleanupSteps
    <3>3. StatusInv(a)' /\ ChildInv(a)' /\ WindowsInv(a)'
      BY <1>4, <2>1, <2>2
      DEF StatusInv, ChildInv, WindowsInv, HasChild, ChildRuns, CleanupSteps
    <3>4. QED
      BY <3>1, <3>2, <3>3 DEF AppInv
  <2>6. ASSUME NEW p \in Procs
        PROVE  ProcInv(p)'
    <3>1. ProcInv(p) /\ procs'[p] = procs[p] /\ origin'[p] = origin[p]
      BY <1>6
    <3>2. ASSUME Windows, procs[p] = "alive"
          PROVE  HasChild(origin[p].app)' /\ runtime'[origin[p].app].child = p
      BY <1>1, <2>4, <3>1, <3>2, NothingLost
    <3>3. QED
      BY <3>1, <3>2 DEF ProcInv
  <2>7. QED
    BY <2>3, <2>4, <2>5, <2>6, OneAppStep
<1>7. QED
  <2>1. LaterChoices(a, q) \subseteq Ports
    BY PortAssumption DEF LaterChoices, PortChoices
  <2>2. CASE portReservations' = [portReservations EXCEPT ![q] = a]
             /\ probe' = [probe EXCEPT ![a] = None]
             /\ listener[q] = None /\ StartProbe(a) /\ IF a \in PreStart
                 THEN /\ runtime' = [runtime EXCEPT ![a] = entry]
                      /\ Goto(a, "start_hook")
                      /\ UNCHANGED <<procs, origin>>
                 ELSE Launch(a, entry)
    BY <1>5, <1>6, <2>2
  <2>3. QED
    BY <1>2, <2>1, <2>2 DEF StartProbe

\* An action that keeps the app's child and the processes.
LEMMA QuietStep ==
  ASSUME IInv, NEW a \in Apps, TypeOK', OthersAlone(a), AppInv(a)',
         UNCHANGED <<procs, origin>>,
         HasChild(a) => HasChild(a)' /\ runtime'[a].child = runtime[a].child
  PROVE  IInv'
  BY ChildKept, OneAppStep

\* preStartCommand ended: the start is cancelled, fails, or goes on.
LEMMA StartHookInv ==
  ASSUME IInv, NEW a \in Apps, StartHook(a)
  PROVE  IInv'
<1> USE DEF IInv
<1>1. /\ AppInv(a) /\ pc[a] = "start_hook" /\ UNCHANGED <<probe, listener>>
      /\ runtime[a] \in Entry /\ runtime[a] # None /\ ~HasChild(a) /\ ~ChildRuns(a)
      /\ runtime[a].port \in Ports /\ runtime[a].child = None /\ runtime[a].status = "starting"
      /\ \A q \in Ports : portReservations[q] = a => q = runtime[a].port
  BY DEF StartHook, AppInv, EntryInv, ReservedInv, HasPort, HasChild, ChildRuns, TypeOK, Entry
<1>2. ASSUME /\ runtime' \in [Apps -> Entry \cup {None}] /\ runtime'[a] # None
             /\ runtime'[a].child = None /\ runtime'[a].status = "errored"
             /\ \A b \in Apps \ {a} : runtime'[b] = runtime[b],
             Done(a), UNCHANGED <<procs, origin>>,
             portReservations' \in [Ports -> Apps \cup {None}],
             \A q \in Ports : /\ portReservations'[q] \in {portReservations[q], None}
                              /\ portReservations'[q] = a =>
                                   runtime'[a].port = runtime[a].port /\ q = runtime[a].port
      PROVE  IInv'
  <2>1. TypeOK'
    BY <1>1, <1>2, DoneEffect DEF TypeOK
  <2>2. OthersAlone(a)
    BY <1>1, <1>2, DoneEffect DEF OthersAlone
  <2>3. pc'[a] = "idle" /\ mutations'[a] = None
    BY <1>2, DoneEffect
  <2>4. AppInv(a)'
    <3>1. StepInv(a)' /\ EntryInv(a)'
      BY <2>3, NoneAssumption DEF StepInv, EntryInv, StopSteps, CleanupSteps, Actions
    <3>2. StatusInv(a)' /\ ChildInv(a)' /\ WindowsInv(a)'
      BY <1>2, <2>3 DEF StatusInv, ChildInv, WindowsInv, HasChild, ChildRuns, CleanupSteps
    <3>3. ReservedInv(a)'
      BY <1>1, <1>2, <2>3, PortAssumption DEF ReservedInv, HasPort
    <3>4. QED
      BY <3>1, <3>2, <3>3 DEF AppInv
  <2>5. QED
    BY <1>1, <1>2, <2>1, <2>2, <2>4, QuietStep
<1>3. CASE /\ Cancelled(a) /\ Done(a) /\ UNCHANGED <<procs, origin>>
           /\ portReservations' = Released(a, runtime[a].port)
  <2>1. /\ runtime' \in [Apps -> Entry \cup {None}] /\ runtime'[a] # None
        /\ runtime'[a].child = None /\ runtime'[a].status = "errored"
        /\ \A b \in Apps \ {a} : runtime'[b] = runtime[b]
    BY <1>1, <1>3, CancelledEffect
  <2>2. /\ portReservations' \in [Ports -> Apps \cup {None}]
        /\ \A q \in Ports : portReservations'[q] \in {portReservations[q], None}
                            /\ portReservations'[q] # a
    BY <1>1, <1>3, ProcAssumption DEF Released, TypeOK
  <2>3. QED
    BY <1>2, <1>3, <2>1, <2>2
<1>4. CASE /\ SetStatus(a, "errored") /\ Done(a)
           /\ UNCHANGED <<portReservations, procs, origin>>
  <2>1. /\ runtime' \in [Apps -> Entry \cup {None}] /\ runtime'[a] # None
        /\ runtime'[a].child = None /\ runtime'[a].status = "errored"
        /\ runtime'[a].port = runtime[a].port
        /\ \A b \in Apps \ {a} : runtime'[b] = runtime[b]
    BY <1>1, <1>4, SetStatusEffect DEF RuntimeStatus
  <2>2. QED
    BY <1>1, <1>2, <1>4, <2>1 DEF TypeOK
<1>5. CASE Launch(a, runtime[a]) /\ UNCHANGED portReservations
  BY <1>1, <1>5, LaunchInv DEF TypeOK
<1>6. QED
  BY <1>3, <1>4, <1>5 DEF StartHook

-----------------------------------------------------------------------------
(* Steps that keep the child of the app: on to another await, or to the end. *)

\* Processes only start to die.
OnlyKills ==
  /\ procs' \in [Procs -> ProcState] /\ origin' = origin
  /\ \A p \in Procs : procs'[p] # procs[p] => procs[p] = "alive" /\ procs'[p] = "dying"
  /\ listener' \in [Ports -> Procs \cup {Foreign, None}]

\* The entry of the app may change, but not its child; the others stay.
KeepsChild(a) ==
  /\ runtime' \in [Apps -> Entry \cup {None}] /\ runtime'[a] # None
  /\ runtime'[a].child = IF runtime[a] = None THEN None ELSE runtime[a].child
  /\ \A b \in Apps \ {a} : runtime'[b] = runtime[b]

LEMMA ChildStays ==
  ASSUME IInv, NEW a \in Apps, KeepsChild(a), OnlyKills
  PROVE  /\ HasChild(a)' <=> HasChild(a)
         /\ ChildRuns(a)' <=> ChildRuns(a)
         /\ HasChild(a) => /\ runtime'[a].child = runtime[a].child
                           /\ runtime[a].child \in Procs
<1>1. HasChild(a)' <=> HasChild(a)
  BY DEF KeepsChild, HasChild
<1>2. HasChild(a) => /\ runtime'[a].child = runtime[a].child
                     /\ runtime[a].child \in Procs
  BY DEF IInv, TypeOK, Entry, KeepsChild, HasChild
<1>3. ChildRuns(a)' <=> ChildRuns(a)
  BY <1>1, <1>2 DEF ChildRuns, HasExitCode, OnlyKills
<1>4. QED
  BY <1>1, <1>2, <1>3

\* The action goes on at another step of the same start, cleanup or stop.
LEMMA AdvanceInv ==
  ASSUME IInv, NEW a \in Apps, NEW step \in CleanupSteps \cup StopSteps \cup {"start_health"},
         Goto(a, step), UNCHANGED <<probe, portReservations>>, OnlyKills, KeepsChild(a),
         pc[a] # "idle",
         step \in StopSteps <=> pc[a] \in StopSteps \cup {"stop_lookup"},
         runtime[a] # None => runtime'[a].port = runtime[a].port,
         step \in CleanupSteps \cup {"start_health", "stop_port", "stop_port_failed", "stop_recheck"}
           => HasPort(a),
         step \in CleanupSteps \cup {"start_health", "stop_exit"} => HasChild(a),
         step \in CleanupSteps => runtime'[a].status = "errored",
         runtime'[a].status # "conflict" \/ runtime'[a] = runtime[a],
         Windows =>
           /\ ChildRuns(a) => step \in {"start_health", "cleanup_mcp", "cleanup_exit",
                                        "stop_mcp", "stop_exit"}
           /\ step \in {"cleanup_exit", "stop_exit"} => procs'[runtime[a].child] # "alive"
           /\ step = "start_health" => runtime'[a].watched
           /\ runtime'[a].status # "running" \/ runtime'[a] = runtime[a]
  PROVE  IInv'
<1> USE DEF IInv
<1>0. AppInv(a) /\ TypeOK
  OBVIOUS
<1>1. step \in Steps
  BY DEF Steps, StartSteps
<1>2. /\ pc' \in [Apps -> Steps] /\ pc'[a] = step
      /\ \A b \in Apps \ {a} : pc'[b] = pc[b]
      /\ mutations' = mutations /\ aborted' = aborted
  BY <1>0, <1>1, GotoEffect
<1>3. /\ HasChild(a)' <=> HasChild(a)
      /\ ChildRuns(a)' <=> ChildRuns(a)
      /\ HasChild(a) => /\ runtime'[a].child = runtime[a].child
                        /\ runtime[a].child \in Procs
  BY ChildStays
<1>4. TypeOK'
  BY <1>0, <1>2 DEF TypeOK, OnlyKills, KeepsChild
<1>5. OthersAlone(a)
  BY <1>2 DEF OthersAlone, OnlyKills, KeepsChild
<1>6. StepInv(a)'
  BY <1>0, <1>2 DEF AppInv, StepInv, StopSteps, CleanupSteps
<1>7. HasPort(a) => HasPort(a)'
  BY DEF HasPort, KeepsChild
<1>8. EntryInv(a)'
  BY <1>2, <1>3, <1>7 DEF EntryInv, StopSteps, CleanupSteps, KeepsChild
<1>9. StatusInv(a)'
  BY <1>0, <1>2, <1>3 DEF AppInv, StatusInv, StopSteps, CleanupSteps
<1>10. ReservedInv(a)'
  BY <1>0, <1>2, <1>7 DEF AppInv, ReservedInv, HasPort, StopSteps, CleanupSteps
<1>11. ChildInv(a)'
  BY <1>0, <1>3 DEF AppInv, ChildInv, OnlyKills
<1>12. ASSUME Windows PROVE WindowsInv(a)'
  <2>1. ChildRuns(a)' => pc'[a] \in {"start_mcp", "start_health", "cleanup_mcp", "cleanup_exit",
                                     "stop_mcp", "stop_exit"}
    BY <1>2, <1>3, <1>12
  <2>2. pc'[a] \in {"cleanup_exit", "stop_exit"} => procs'[runtime'[a].child] # "alive"
    BY <1>2, <1>3, <1>12 DEF CleanupSteps
  <2>3. pc'[a] = "start_health" => runtime'[a].watched
    BY <1>2, <1>12
  <2>4. a \notin External /\ runtime'[a].status = "running" => ChildRuns(a)' /\ runtime'[a].watched
    BY <1>0, <1>3, <1>12 DEF AppInv, WindowsInv, KeepsChild
  <2>5. QED
    BY <2>1, <2>2, <2>3, <2>4 DEF WindowsInv
<1>13. AppInv(a)'
  BY <1>6, <1>8, <1>9, <1>10, <1>11, <1>12 DEF AppInv
<1>14. \A p \in Procs : ProcInv(p)'
  BY <1>3, <1>5, ChildKept DEF OnlyKills
<1>15. QED
  BY <1>4, <1>5, <1>13, <1>14, OneAppStep

\* The action ends, or the first half of a restart does.
LEMMA EndInv ==
  ASSUME IInv, NEW a \in Apps, UNCHANGED <<probe, procs, origin, listener>>,
         StopDone(a) \/ Done(a), KeepsChild(a), runtime[a] # None,
         portReservations' \in [Ports -> Apps \cup {None}],
         \A q \in Ports : /\ portReservations'[q] \in {portReservations[q], None}
                          /\ portReservations'[q] = a => runtime'[a].port = runtime[a].port,
         runtime'[a].status \in {"running", "stopped", "errored"},
         Windows => IF runtime'[a].status = "running"
                    THEN HasPort(a)' /\ (a \notin External => ChildRuns(a) /\ runtime'[a].watched)
                    ELSE ~ChildRuns(a)
  PROVE  IInv'
<1> USE DEF IInv
<1>0. AppInv(a) /\ TypeOK
  OBVIOUS
<1>1. /\ pc' \in [Apps -> Steps]
      /\ mutations' \in [Apps -> Actions \cup {None}]
      /\ \/ pc'[a] = "idle" /\ mutations'[a] = None
         \/ pc'[a] = "start_lookup" /\ mutations'[a] = "restart"
      /\ \A b \in Apps \ {a} : pc'[b] = pc[b] /\ mutations'[b] = mutations[b]
      /\ aborted' \in [Apps -> BOOLEAN]
  BY <1>0, StopDoneEffect, DoneEffect
<1>2. OnlyKills
  BY <1>0 DEF OnlyKills, TypeOK
<1>3. /\ HasChild(a)' <=> HasChild(a)
      /\ ChildRuns(a)' <=> ChildRuns(a)
      /\ HasChild(a) => /\ runtime'[a].child = runtime[a].child
                        /\ runtime[a].child \in Procs
  BY <1>2, ChildStays
<1>4. TypeOK'
  BY <1>0, <1>1 DEF TypeOK, KeepsChild
<1>5. OthersAlone(a)
  BY <1>1 DEF OthersAlone, KeepsChild
<1>6. StepInv(a)' /\ EntryInv(a)'
  BY <1>1, NoneAssumption DEF StepInv, EntryInv, StopSteps, CleanupSteps, Actions
<1>7. StatusInv(a)'
  BY <1>1 DEF StatusInv, CleanupSteps
<1>8. ReservedInv(a)'
  BY <1>0, <1>1, ProcAssumption DEF AppInv, ReservedInv, HasPort, KeepsChild
<1>9. ChildInv(a)'
  BY <1>0, <1>3 DEF AppInv, ChildInv
<1>10. ASSUME Windows PROVE WindowsInv(a)'
  <2>1. CASE runtime'[a].status = "running"
    <3>1. a \notin External => ChildRuns(a)' /\ runtime'[a].watched
      BY <1>3, <1>10, <2>1
    <3>2. HasPort(a)'
      BY <1>10, <2>1
    <3>3. QED
      BY <1>1, <2>1, <3>1, <3>2 DEF WindowsInv
  <2>2. CASE runtime'[a].status # "running"
    <3>1. ~ChildRuns(a)'
      BY <1>3, <1>10, <2>2
    <3>2. QED
      BY <1>1, <2>2, <3>1 DEF WindowsInv
  <2>3. QED
    BY <2>1, <2>2
<1>11. AppInv(a)'
  BY <1>6, <1>7, <1>8, <1>9, <1>10 DEF AppInv
<1>12. QED
  BY <1>3, <1>4, <1>5, <1>11, QuietStep

\* An action that leaves the entry as it is keeps its child.
LEMMA SameEntry ==
  ASSUME TypeOK, NEW a \in Apps, runtime[a] # None, runtime' = runtime
  PROVE  KeepsChild(a)
  BY DEF TypeOK, KeepsChild

\* So does one that only sets the status.
LEMMA NewStatus ==
  ASSUME TypeOK, NEW a \in Apps, runtime[a] # None, NEW state \in RuntimeStatus,
         SetStatus(a, state)
  PROVE  /\ KeepsChild(a) /\ runtime'[a].status = state
         /\ runtime'[a].port = runtime[a].port /\ runtime'[a].watched = runtime[a].watched
  BY SetStatusEffect DEF KeepsChild

\* Nothing happens to the processes.
LEMMA NoKills ==
  ASSUME TypeOK, UNCHANGED machine
  PROVE  OnlyKills
  BY DEF TypeOK, OnlyKills, machine

\* taskkill leaves the child dead, its exit not yet reported.
LEMMA TerminateEffect ==
  ASSUME TypeOK, NEW p \in Procs, TerminateChild(p)
  PROVE  OnlyKills /\ (Windows => procs'[p] # "alive")
<1>1. CASE Windows /\ procs[p] = "alive"
  <2>1. /\ procs' = [procs EXCEPT ![p] = "dying"] /\ listener' = WithoutListener(p)
        /\ origin' = origin
    BY <1>1 DEF TerminateChild
  <2>2. listener' \in [Ports -> Procs \cup {Foreign, None}]
    BY <2>1 DEF WithoutListener, TypeOK
  <2>3. procs' \in [Procs -> ProcState] /\ procs'[p] = "dying"
        /\ \A r \in Procs \ {p} : procs'[r] = procs[r]
    BY <2>1 DEF TypeOK, ProcState
  <2>4. QED
    BY <1>1, <2>1, <2>2, <2>3 DEF OnlyKills
<1>2. CASE ~(Windows /\ procs[p] = "alive")
  BY <1>2 DEF TerminateChild, OnlyKills, TypeOK
<1>3. QED
  BY <1>1, <1>2

LEMMA KillPortOwnerEffect ==
  ASSUME TypeOK, NEW q \in Ports, KillPortOwner(q)
  PROVE  OnlyKills
<1>1. listener' \in [Ports -> Procs \cup {Foreign, None}] /\ origin' = origin
  BY DEF KillPortOwner, TypeOK
<1>2. CASE UNCHANGED procs
  BY <1>1, <1>2 DEF OnlyKills, TypeOK
<1>3. ASSUME listener[q] \in Procs, procs[listener[q]] = "alive",
             procs' = [procs EXCEPT ![listener[q]] = "dying"]
      PROVE  OnlyKills
  <2>1. procs' \in [Procs -> ProcState] /\ procs'[listener[q]] = "dying"
        /\ \A r \in Procs \ {listener[q]} : procs'[r] = procs[r]
    BY <1>3 DEF TypeOK, ProcState
  <2>2. QED
    BY <1>1, <1>3, <2>1 DEF OnlyKills
<1>4. QED
  BY <1>2, <1>3 DEF KillPortOwner

\* Where killing is sure, a wait for the exit that ended has seen it.
LEMMA AwaitedOnWindows ==
  ASSUME IInv, NEW a \in Apps, Windows, ExitAwaited(a), pc[a] \in {"cleanup_exit", "stop_exit"}
  PROVE  ~ChildRuns(a)
<1> SUFFICES ASSUME ChildRuns(a) PROVE FALSE
  OBVIOUS
<1> DEFINE p == runtime[a].child
<1>1. p \in Procs /\ AppInv(a) /\ ProcInv(p)
  BY DEF ChildRuns, HasChild, IInv, TypeOK, Entry
<1>2. procs[p] \notin {"unused", "alive", "dying", "signalled"}
  BY <1>1 DEF AppInv, ChildInv, WindowsInv, ChildRuns, ExitAwaited, ProcInv
<1>3. procs[p] \in {"exit0", "exitN"}
  BY <1>1, <1>2 DEF IInv, TypeOK, ProcState
<1>4. QED
  BY <1>3 DEF ChildRuns, HasExitCode

\* An app without a child runs none, and an external app has no child.
LEMMA ExternalRunsNone ==
  ASSUME IInv, NEW a \in External
  PROVE  ~ChildRuns(a)
  BY ProcAssumption DEF IInv, AppInv, ChildInv, ChildRuns, HasChild

LEMMA StartExternalInv ==
  ASSUME IInv, NEW a \in Apps, StartExternal(a)
  PROVE  IInv'
<1>1. /\ TypeOK /\ a \in External /\ HasPort(a) /\ runtime[a] # None
      /\ Done(a) /\ UNCHANGED <<probe, portReservations, procs, origin, listener>>
  BY DEF StartExternal, IInv, AppInv, EntryInv, HasPort, machine
<1>2. PICK state \in {"running", "errored"} : SetStatus(a, state)
  BY DEF StartExternal
<1>3. /\ KeepsChild(a) /\ runtime'[a].status = state /\ runtime'[a].port = runtime[a].port
  BY <1>1, <1>2, NewStatus DEF RuntimeStatus
<1>4. ~ChildRuns(a) /\ HasPort(a)'
  BY <1>1, <1>3, ExternalRunsNone DEF HasPort, KeepsChild
<1>5. portReservations' \in [Ports -> Apps \cup {None}]
  BY <1>1 DEF TypeOK
<1>6. QED
  BY <1>1, <1>3, <1>4, <1>5, EndInv

LEMMA StartMcpInv ==
  ASSUME IInv, NEW a \in Apps, StartMcp(a)
  PROVE  IInv'
<1>1. /\ TypeOK /\ pc[a] = "start_mcp" /\ HasPort(a) /\ HasChild(a) /\ runtime[a] \in Entry
      /\ runtime[a] # None /\ UNCHANGED <<probe, portReservations>> /\ UNCHANGED machine
  BY DEF StartMcp, IInv, TypeOK, AppInv, EntryInv, HasPort
<1>2. OnlyKills
  BY <1>1, NoKills
<1>3. CASE SetStatus(a, "errored") /\ Goto(a, "cleanup_mcp")
  <2>1. /\ KeepsChild(a) /\ runtime'[a].status = "errored" /\ runtime'[a].port = runtime[a].port
    BY <1>1, <1>3, NewStatus DEF RuntimeStatus
  <2>2. QED
    BY <1>1, <1>2, <1>3, <2>1, AdvanceInv DEF CleanupSteps, StopSteps
<1>4. CASE runtime' = [runtime EXCEPT ![a].watched = TRUE] /\ Goto(a, "start_health")
  <2>1. KeepsChild(a) /\ runtime'[a].watched /\ runtime'[a].port = runtime[a].port
        /\ runtime'[a].status = runtime[a].status
    BY <1>1, <1>4, NoneAssumption DEF TypeOK, Entry, KeepsChild
  <2>2. /\ runtime[a].status # "conflict"
        /\ Windows => runtime[a].status # "running" \/ runtime'[a] = runtime[a]
    <3>1. AppInv(a)
      BY DEF IInv
    <3>2. runtime[a].status # "conflict"
      BY <1>1, <3>1 DEF AppInv, StatusInv
    <3>3. ASSUME Windows, runtime[a].status = "running"
          PROVE  runtime'[a] = runtime[a]
      <4>1. runtime[a].watched
        BY <1>1, <3>1, <3>3 DEF AppInv, WindowsInv, ChildInv
      <4>2. QED
        BY <1>1, <1>4, <4>1 DEF TypeOK, Entry
    <3>4. QED
      BY <3>2, <3>3
  <2>3. QED
    BY <1>1, <1>2, <1>4, <2>1, <2>2, AdvanceInv DEF CleanupSteps, StopSteps
<1>5. QED
  BY <1>3, <1>4 DEF StartMcp

LEMMA StartHealthInv ==
  ASSUME IInv, NEW a \in Apps, StartHealth(a)
  PROVE  IInv'
<1>1. /\ TypeOK /\ AppInv(a) /\ pc[a] = "start_health" /\ HasPort(a) /\ HasChild(a)
      /\ runtime[a] # None /\ UNCHANGED <<probe, portReservations, procs, origin, listener>>
      /\ UNCHANGED machine
  BY DEF StartHealth, IInv, AppInv, EntryInv, HasPort, machine
<1>2. OnlyKills
  BY <1>1, NoKills
<1>3. CASE BecameHealthy(a) /\ SetStatus(a, "running") /\ Done(a)
  <2>1. /\ KeepsChild(a) /\ runtime'[a].status = "running"
        /\ runtime'[a].port = runtime[a].port /\ runtime'[a].watched = runtime[a].watched
    BY <1>1, <1>3, NewStatus DEF RuntimeStatus
  <2>2. ChildRuns(a) /\ HasPort(a)' /\ (Windows => runtime[a].watched)
    BY <1>1, <1>3, <2>1 DEF BecameHealthy, ChildRuns, HasPort, KeepsChild, AppInv, WindowsInv
  <2>3. portReservations' \in [Ports -> Apps \cup {None}]
    BY <1>1 DEF TypeOK
  <2>4. QED
    BY <1>1, <1>3, <2>1, <2>2, <2>3, EndInv
<1>4. CASE SetStatus(a, "errored") /\ Goto(a, "cleanup_mcp")
  <2>1. /\ KeepsChild(a) /\ runtime'[a].status = "errored" /\ runtime'[a].port = runtime[a].port
    BY <1>1, <1>4, NewStatus DEF RuntimeStatus
  <2>2. QED
    BY <1>1, <1>2, <1>4, <2>1, AdvanceInv DEF CleanupSteps, StopSteps
<1>5. QED
  BY <1>3, <1>4 DEF StartHealth

\* The steps of the cleanup find an errored entry with its child and port.
LEMMA CleanupFinds ==
  ASSUME IInv, NEW a \in Apps, pc[a] \in CleanupSteps
  PROVE  /\ TypeOK /\ HasPort(a) /\ HasChild(a) /\ runtime[a] # None
         /\ runtime[a].status = "errored" /\ runtime[a].port \in Ports
         /\ runtime[a].child \in Procs
         /\ Windows /\ pc[a] \in {"cleanup_hook", "cleanup_port"} => ~ChildRuns(a)
<1>1. /\ TypeOK /\ AppInv(a) /\ HasPort(a) /\ HasChild(a) /\ runtime[a] # None
      /\ runtime[a].status = "errored"
  BY DEF IInv, AppInv, EntryInv, StatusInv, HasPort
<1>2. Windows /\ pc[a] \in {"cleanup_hook", "cleanup_port"} => ~ChildRuns(a)
  BY <1>1 DEF AppInv, WindowsInv
<1>3. QED
  BY <1>1, <1>2 DEF TypeOK, Entry, HasPort, HasChild

LEMMA CleanupMcpInv ==
  ASSUME IInv, NEW a \in Apps, CleanupMcp(a)
  PROVE  IInv'
<1>1. /\ TypeOK /\ HasPort(a) /\ HasChild(a) /\ runtime[a] # None
      /\ runtime[a].status = "errored" /\ runtime[a].child \in Procs
      /\ pc[a] = "cleanup_mcp"
  BY CleanupFinds DEF CleanupMcp, CleanupSteps
<1>2. /\ TerminateChild(runtime[a].child) /\ Goto(a, "cleanup_exit")
      /\ UNCHANGED <<probe, portReservations>> /\ runtime' = runtime
  BY DEF CleanupMcp
<1>3. OnlyKills /\ (Windows => procs'[runtime[a].child] # "alive") /\ KeepsChild(a)
  BY <1>1, <1>2, TerminateEffect, SameEntry
<1>4. QED
  BY <1>1, <1>2, <1>3, AdvanceInv DEF CleanupSteps, StopSteps

LEMMA CleanupExitInv ==
  ASSUME IInv, NEW a \in Apps, CleanupExit(a)
  PROVE  IInv'
<1>1. /\ TypeOK /\ HasPort(a) /\ HasChild(a) /\ runtime[a] # None
      /\ runtime[a].status = "errored" /\ pc[a] = "cleanup_exit"
  BY CleanupFinds DEF CleanupExit, CleanupSteps
<1>2. /\ ExitAwaited(a) /\ UNCHANGED <<probe, portReservations>> /\ runtime' = runtime
      /\ UNCHANGED machine
  BY DEF CleanupExit
<1>3. OnlyKills /\ KeepsChild(a) /\ (Windows => ~ChildRuns(a))
  BY <1>1, <1>2, NoKills, SameEntry, AwaitedOnWindows
<1>4. PICK step \in {"cleanup_hook", "cleanup_port"} : Goto(a, step)
  BY DEF CleanupExit
<1>5. step \in CleanupSteps /\ step \notin StopSteps \cup {"cleanup_exit", "start_health"}
  BY DEF CleanupSteps, StopSteps
<1>6. QED
  BY <1>1, <1>2, <1>3, <1>4, <1>5, AdvanceInv DEF StopSteps

LEMMA CleanupHookInv ==
  ASSUME IInv, NEW a \in Apps, CleanupHook(a)
  PROVE  IInv'
<1>1. /\ TypeOK /\ HasPort(a) /\ HasChild(a) /\ runtime[a] # None
      /\ runtime[a].status = "errored" /\ pc[a] = "cleanup_hook"
      /\ Windows => ~ChildRuns(a)
  BY CleanupFinds DEF CleanupHook, CleanupSteps
<1>2. /\ UNCHANGED <<probe, portReservations, procs, origin, listener>> /\ runtime' = runtime
      /\ UNCHANGED machine
  BY DEF CleanupHook, machine
<1>3. OnlyKills /\ KeepsChild(a)
  BY <1>1, <1>2, NoKills, SameEntry
<1>4. CASE Goto(a, "cleanup_port")
  BY <1>1, <1>2, <1>3, <1>4, AdvanceInv DEF CleanupSteps, StopSteps
<1>5. CASE Done(a)
  <2>1. portReservations' \in [Ports -> Apps \cup {None}]
    BY <1>1, <1>2 DEF TypeOK
  <2>2. QED
    BY <1>1, <1>2, <1>3, <1>5, <2>1, EndInv
<1>6. QED
  BY <1>4, <1>5 DEF CleanupHook

LEMMA CleanupPortInv ==
  ASSUME IInv, NEW a \in Apps, CleanupPort(a)
  PROVE  IInv'
<1>1. /\ TypeOK /\ AppInv(a) /\ HasPort(a) /\ HasChild(a) /\ runtime[a] # None
      /\ runtime[a].status = "errored" /\ pc[a] = "cleanup_port"
      /\ Windows => ~ChildRuns(a)
  BY CleanupFinds DEF CleanupPort, CleanupSteps, IInv
<1>2. UNCHANGED <<probe, procs, origin, listener>> /\ Done(a)
  BY DEF CleanupPort, machine
<1>3. CASE UNCHANGED <<runtime, portReservations>>
  <2>1. portReservations' \in [Ports -> Apps \cup {None}] /\ KeepsChild(a)
    BY <1>1, <1>3, SameEntry DEF TypeOK
  <2>2. QED
    BY <1>1, <1>2, <1>3, <2>1, EndInv
<1>4. CASE /\ runtime' = [runtime EXCEPT ![a].port = None]
           /\ portReservations' = Released(a, runtime[a].port)
  <2>1. KeepsChild(a) /\ runtime'[a].status = "errored"
    BY <1>1, <1>4, NoneAssumption DEF TypeOK, Entry, KeepsChild
  <2>2. \A q \in Ports : portReservations[q] = a => q = runtime[a].port
    BY <1>1 DEF AppInv, ReservedInv
  <2>3. /\ portReservations' \in [Ports -> Apps \cup {None}]
        /\ \A q \in Ports : portReservations'[q] \in {portReservations[q], None}
                            /\ portReservations'[q] # a
    BY <1>1, <1>4, <2>2, ReleasedEffect, ProcAssumption
  <2>4. QED
    BY <1>1, <1>2, <2>1, <2>3, EndInv
<1>5. QED
  BY <1>3, <1>4 DEF CleanupPort

\* stop takes up the entry, or makes one.
LEMMA StopLookupInv ==
  ASSUME IInv, NEW a \in Apps, StopLookup(a)
  PROVE  IInv'
<1>1. /\ TypeOK /\ pc[a] = "stop_lookup" /\ Goto(a, "stop_mcp")
      /\ UNCHANGED <<probe, portReservations>> /\ UNCHANGED machine
  BY DEF StopLookup, IInv
<1>2. /\ KeepsChild(a) /\ runtime'[a].status = "stopping"
      /\ runtime[a] # None => runtime'[a].port = runtime[a].port
  <2> DEFINE entry == IF runtime[a] = None THEN NewEntry("stopping", None)
                      ELSE [runtime[a] EXCEPT !.status = "stopping"]
  <2>1. runtime' = [runtime EXCEPT ![a] = entry]
    BY DEF StopLookup
  <2>2. /\ entry \in Entry /\ entry # None /\ entry.status = "stopping"
        /\ entry.child = IF runtime[a] = None THEN None ELSE runtime[a].child
        /\ runtime[a] # None => entry.port = runtime[a].port
    <3>1. CASE runtime[a] = None
      BY <3>1, NewEntryEffect DEF RuntimeStatus
    <3>2. CASE runtime[a] # None
      <4>1. runtime[a] \in Entry /\ "stopping" \in RuntimeStatus
        BY <1>1, <3>2 DEF TypeOK, RuntimeStatus
      <4>2. QED
        BY <3>2, <4>1, StatusOnly
    <3>3. QED
      BY <3>1, <3>2
  <2>3. QED
    <3> HIDE DEF entry
    <3>1. QED
      BY <1>1, <2>1, <2>2 DEF TypeOK, KeepsChild
<1>3. OnlyKills
  BY <1>1, NoKills
<1>4. QED
  BY <1>1, <1>2, <1>3, AdvanceInv DEF CleanupSteps, StopSteps

\* What a verified stop leaves of the entry.
LEMMA StoppedEffect ==
  ASSUME TypeOK, NEW a \in Apps, runtime[a] # None,
         runtime' = [runtime EXCEPT ![a].status = "stopped", ![a].port = None,
                                    ![a].blocked = FALSE]
  PROVE  KeepsChild(a) /\ runtime'[a].status = "stopped" /\ runtime'[a].port = None
<1> DEFINE first  == [runtime[a] EXCEPT !.status = "stopped"]
           one    == [runtime EXCEPT ![a] = first]
           second == [one[a] EXCEPT !.port = None]
           two    == [one EXCEPT ![a] = second]
           third  == [two[a] EXCEPT !.blocked = FALSE]
<1>1. runtime[a] \in Entry /\ "stopped" \in RuntimeStatus
  BY DEF TypeOK, RuntimeStatus
<1>2. first \in Entry /\ first.status = "stopped" /\ first.child = runtime[a].child
  BY <1>1, StatusOnly
<1>3. /\ one \in [Apps -> Entry \cup {None}] /\ one[a] = first
      /\ \A b \in Apps \ {a} : one[b] = runtime[b]
  BY <1>2 DEF TypeOK
<1>4. /\ second \in Entry /\ second.status = "stopped"
      /\ second.port = None /\ second.child = runtime[a].child
  <2> HIDE DEF first, one
  <2>1. QED
    BY <1>2, <1>3, PortOnly
<1>5. /\ two \in [Apps -> Entry \cup {None}] /\ two[a] = second
      /\ \A b \in Apps \ {a} : two[b] = runtime[b]
  <2> HIDE DEF first, one, second
  <2>1. QED
    BY <1>3, <1>4
<1>6. /\ third \in Entry /\ third # None /\ third.status = "stopped"
      /\ third.port = None /\ third.child = runtime[a].child
  <2> HIDE DEF second, two
  <2>1. QED
    BY <1>4, <1>5, MarkOnly
<1>7. runtime' = [two EXCEPT ![a] = third]
  OBVIOUS
<1> HIDE DEF first, second
<1>8. QED
  <2> HIDE DEF one, two, third
  <2>1. runtime' \in [Apps -> Entry \cup {None}] /\ runtime'[a] = third
        /\ \A b \in Apps \ {a} : runtime'[b] = runtime[b]
    BY <1>5, <1>6, <1>7
  <2>2. QED
    BY <1>6, <2>1 DEF KeepsChild

\* The end of a stop, whatever its verdict.
LEMMA VerdictInv ==
  ASSUME IInv, NEW a \in Apps, pc[a] \in StopSteps, NEW failed \in BOOLEAN,
         Verdict(a, failed), UNCHANGED <<probe, procs, origin, listener>>,
         Windows => ~ChildRuns(a)
  PROVE  IInv'
<1>1. /\ TypeOK /\ AppInv(a) /\ runtime[a] # None /\ StopDone(a)
  BY DEF IInv, AppInv, EntryInv, Verdict
<1>2. CASE failed
  <2>1. SetStatus(a, "errored") /\ UNCHANGED portReservations
    BY <1>2 DEF Verdict
  <2>2. KeepsChild(a) /\ runtime'[a].status = "errored" /\ runtime'[a].port = runtime[a].port
    BY <1>1, <2>1, NewStatus DEF RuntimeStatus
  <2>3. portReservations' \in [Ports -> Apps \cup {None}]
    BY <1>1, <2>1 DEF TypeOK
  <2>4. QED
    BY <1>1, <2>1, <2>2, <2>3, EndInv
<1>3. CASE ~failed
  <2>1. KeepsChild(a) /\ runtime'[a].status = "stopped"
    BY <1>1, <1>3, StoppedEffect DEF Verdict
  <2>2. portReservations' = Released(a, runtime[a].port)
    BY <1>3 DEF Verdict
  <2>3. \A q \in Ports : portReservations[q] = a => q = runtime[a].port
    BY <1>1 DEF AppInv, ReservedInv
  <2>4. /\ portReservations' \in [Ports -> Apps \cup {None}]
        /\ \A q \in Ports : portReservations'[q] \in {portReservations[q], None}
                            /\ portReservations'[q] # a
    BY <1>1, <2>2, <2>3, ReleasedEffect, ProcAssumption
  <2>5. QED
    BY <1>1, <2>1, <2>4, EndInv
<1>4. QED
  BY <1>2, <1>3

\* The stop goes on to one of its later awaits.
LEMMA EnterInv ==
  ASSUME IInv, NEW a \in Apps, pc[a] \in StopSteps,
         NEW step \in StopSteps \ {"stop_mcp", "stop_exit"}, Enter(a, step),
         UNCHANGED probe, OnlyKills, Windows => ~ChildRuns(a),
         step \in {"stop_port", "stop_port_failed", "stop_recheck"} => HasPort(a)
  PROVE  IInv'
<1>1. /\ TypeOK /\ runtime[a] # None /\ Goto(a, step) /\ UNCHANGED <<probe, portReservations>>
      /\ runtime' = runtime
  BY DEF IInv, AppInv, EntryInv, Enter
<1>2. KeepsChild(a)
  BY <1>1, SameEntry
<1>3. step \notin CleanupSteps \cup {"start_health", "cleanup_exit", "stop_exit"} /\ pc[a] # "idle"
  BY DEF StopSteps, CleanupSteps
<1>4. QED
  BY <1>1, <1>2, <1>3, AdvanceInv

\* Every way through the end of a stop.
LEMMA FinalizeInv ==
  ASSUME IInv, NEW a \in Apps, pc[a] \in StopSteps, UNCHANGED <<probe, procs, origin, listener>>,
         Windows => ~ChildRuns(a),
         FinalizeStop(a) \/ ToVerify(a) \/ \E failed \in BOOLEAN : ToPortCheck(a, failed)
  PROVE  IInv'
<1>1. OnlyKills /\ runtime[a] # None
  BY NoKills DEF IInv, AppInv, EntryInv, machine
<1>2. ASSUME NEW failed \in BOOLEAN, ToPortCheck(a, failed)
      PROVE  IInv'
  <2>1. CASE OwnsBackendPort(a)
    <3>1. PICK step \in {"stop_port", "stop_port_failed"} : Enter(a, step)
      BY <1>2, <2>1 DEF ToPortCheck
    <3>2. step \in StopSteps \ {"stop_mcp", "stop_exit"} /\ HasPort(a)
      BY <1>1, <2>1 DEF StopSteps, OwnsBackendPort, HasPort
    <3>3. QED
      BY <1>1, <3>1, <3>2, EnterInv
  <2>2. CASE ~OwnsBackendPort(a)
    BY <1>2, <2>2, VerdictInv DEF ToPortCheck
  <2>3. QED
    BY <2>1, <2>2
<1>3. ASSUME Enter(a, "stop_hook") \/ Enter(a, "stop_verify")
      PROVE  IInv'
  BY <1>1, <1>3, EnterInv DEF StopSteps
<1>4. ASSUME ToVerify(a)
      PROVE  IInv'
  BY <1>2, <1>3, <1>4 DEF ToVerify
<1>5. QED
  BY <1>2, <1>3, <1>4 DEF FinalizeStop

LEMMA StopMcpInv ==
  ASSUME IInv, NEW a \in Apps, StopMcp(a)
  PROVE  IInv'
<1>1. /\ TypeOK /\ AppInv(a) /\ pc[a] = "stop_mcp" /\ pc[a] \in StopSteps /\ UNCHANGED probe
  BY DEF StopMcp, IInv, StopSteps
<1>2. CASE ChildRuns(a)
  <2>1. /\ TerminateChild(runtime[a].child) /\ Goto(a, "stop_exit")
        /\ UNCHANGED <<probe, portReservations>> /\ runtime' = runtime
        /\ HasChild(a) /\ runtime[a] # None /\ runtime[a].child \in Procs
    BY <1>1, <1>2 DEF StopMcp, Enter, ChildRuns, HasChild, TypeOK, Entry
  <2>2. OnlyKills /\ KeepsChild(a) /\ (Windows => procs'[runtime[a].child] # "alive")
    BY <1>1, <2>1, TerminateEffect, SameEntry
  <2>3. QED
    BY <1>1, <2>1, <2>2, AdvanceInv DEF CleanupSteps, StopSteps
<1>3. CASE ~ChildRuns(a)
  BY <1>1, <1>3, FinalizeInv DEF StopMcp, machine
<1>4. QED
  BY <1>2, <1>3

LEMMA StopExitInv ==
  ASSUME IInv, NEW a \in Apps, StopExit(a)
  PROVE  IInv'
<1>1. /\ pc[a] = "stop_exit" /\ pc[a] \in StopSteps /\ FinalizeStop(a) /\ ExitAwaited(a)
      /\ UNCHANGED <<probe, procs, origin, listener>>
  BY DEF StopExit, StopSteps, machine
<1>2. QED
  BY <1>1, AwaitedOnWindows, FinalizeInv

LEMMA StopHookEndsInv ==
  ASSUME IInv, NEW a \in Apps, StopHookEnds(a)
  PROVE  IInv'
<1>1. /\ AppInv(a) /\ pc[a] \in {"stop_hook", "stop_verify"} /\ pc[a] \in StopSteps
      /\ UNCHANGED <<probe, procs, origin, listener>>
  BY DEF StopHookEnds, StopSteps, IInv, machine
<1>2. Windows => ~ChildRuns(a)
  BY <1>1 DEF AppInv, WindowsInv
<1>3. ToVerify(a) \/ \E failed \in BOOLEAN : ToPortCheck(a, failed)
  BY DEF StopHookEnds
<1>4. QED
  BY <1>1, <1>2, <1>3, FinalizeInv

LEMMA StopPortInv ==
  ASSUME IInv, NEW a \in Apps, StopPort(a)
  PROVE  IInv'
<1>1. /\ TypeOK /\ AppInv(a) /\ pc[a] \in {"stop_port", "stop_port_failed", "stop_recheck"}
      /\ pc[a] \in StopSteps /\ UNCHANGED probe
  BY DEF StopPort, StopSteps, IInv
<1>2. HasPort(a) /\ (Windows => ~ChildRuns(a))
  BY <1>1 DEF AppInv, EntryInv, WindowsInv
<1>3. CASE KillPortOwner(runtime[a].port) /\ Enter(a, "stop_recheck")
  <2>1. runtime[a].port \in Ports /\ "stop_recheck" \in StopSteps \ {"stop_mcp", "stop_exit"}
    BY <1>1, <1>2 DEF HasPort, TypeOK, Entry, StopSteps
  <2>2. OnlyKills
    BY <1>1, <1>3, <2>1, KillPortOwnerEffect
  <2>3. QED
    BY <1>1, <1>2, <1>3, <2>1, <2>2, EnterInv
<1>4. ASSUME NEW failed \in BOOLEAN, Verdict(a, failed), UNCHANGED machine
      PROVE  IInv'
  BY <1>1, <1>2, <1>4, VerdictInv DEF machine
<1>5. QED
  <2> DEFINE open == listener[runtime[a].port] # None
             failed == open \/ pc[a] = "stop_port_failed"
  <2>1. \/ KillPortOwner(runtime[a].port) /\ Enter(a, "stop_recheck")
        \/ Verdict(a, failed) /\ UNCHANGED machine
    BY DEF StopPort
  <2>2. failed \in BOOLEAN
    OBVIOUS
  <2>3. QED
    <3> HIDE DEF failed
    <3>1. QED
      BY <1>3, <1>4, <2>1, <2>2

-----------------------------------------------------------------------------
(* The theorems.                                                            *)

\* Every step of a start, a cleanup or a stop keeps the invariant.
LEMMA MutationInv ==
  ASSUME IInv, NEW a \in Apps, Mutation(a)
  PROVE  IInv'
<1>1. CASE Start(a)
  BY <1>1, StartLookupInv, StartProbeInv, StartHookInv, StartExternalInv, StartMcpInv,
     StartHealthInv DEF Start
<1>2. CASE Cleanup(a)
  BY <1>2, CleanupMcpInv, CleanupExitInv, CleanupHookInv, CleanupPortInv DEF Cleanup
<1>3. CASE Stop(a)
  BY <1>3, StopLookupInv, StopMcpInv, StopExitInv, StopHookEndsInv, StopPortInv DEF Stop
<1>4. QED
  BY <1>1, <1>2, <1>3 DEF Mutation

\* So does every step of the system.
LEMMA StepInductive == IInv /\ [Next]_vars => IInv'
<1> SUFFICES ASSUME IInv, [Next]_vars PROVE IInv'
  OBVIOUS
<1>1. CASE UNCHANGED vars
  <2>1. TypeOK'
    BY <1>1 DEF IInv, TypeOK, vars
  <2>2. QED
    BY <1>1, <2>1, Frame DEF vars
<1>2. ASSUME NEW a \in Apps, NEW action \in Actions,
             Request(a, action) \/ RequestBlocked(a, action)
      PROVE  IInv'
  BY <1>2, RequestInv, RequestBlockedInv
<1>3. ASSUME NEW a \in Apps, Mutation(a)
      PROVE  IInv'
  BY <1>3, MutationInv
<1>4. ASSUME NEW p \in Procs, NEW how \in ProcState, Exit(p, how)
      PROVE  IInv'
  BY <1>4, ExitInv
<1>5. QED
  BY <1>1, <1>2, <1>3, <1>4, MachineInv DEF Next

\* IInv holds in every reachable state: each app's action, await, entry, child
\* and reservations fit together.
THEOREM Invariance == Spec => []IInv
<1>1. Init => IInv
  BY InitInv
<1>2. IInv /\ [Next]_vars => IInv'
  BY StepInductive
<1>3. QED
  BY <1>1, <1>2, PTL DEF Spec

\* Every variable holds a value the code can put there.
THEOREM TypeCorrect == Spec => []TypeOK
<1>1. IInv => TypeOK
  BY DEF IInv
<1>2. QED
  BY <1>1, Invariance, PTL

\* No path of a failed, cancelled or aborted start leaks a port reservation: a
\* reserved port is that of its owner's entry.
THEOREM NoReservationLeaks == Spec => []ReservationsHaveOwners
<1>1. IInv => ReservationsHaveOwners
  BY DEF IInv, TypeOK, AppInv, ReservedInv, HasPort, ReservationsHaveOwners
<1>2. QED
  BY <1>1, Invariance, PTL

\* No exception, abort or early return leaves an app starting or stopping when no
\* action is at work on it.
THEOREM IdleSettled == Spec => []IdleIsSettled
<1>1. IInv => IdleIsSettled
  BY DEF IInv, AppInv, StepInv, StatusInv, IdleIsSettled
<1>2. QED
  BY <1>1, Invariance, PTL

\* Where taskkill leaves no survivor, an app reported running has a child process
\* that runs.
THEOREM RunningIsReal == ASSUME Windows PROVE Spec => []RunningHasProcess
<1>1. IInv => RunningHasProcess
  <2> SUFFICES ASSUME IInv, NEW a \in Apps \ External, runtime[a] # None,
                      runtime[a].status = "running"
               PROVE  ChildRuns(a) /\ procs[runtime[a].child] # "signalled"
    BY DEF RunningHasProcess
  <2>1. ChildRuns(a)
    BY DEF IInv, AppInv, WindowsInv
  <2>2. runtime[a].child \in Procs
    BY <2>1 DEF IInv, TypeOK, Entry, ChildRuns, HasChild
  <2>3. ProcInv(runtime[a].child)
    BY <2>2 DEF IInv
  <2>4. QED
    BY <2>1, <2>3 DEF ProcInv
<1>2. QED
  BY <1>1, Invariance, PTL

\* There, too, every living child process is the one its app's entry names, so that
\* a stop or the shutdown of the daemon reaches it.
THEOREM NothingUnreachable == ASSUME Windows PROVE Spec => []ChildrenAreReachable
<1>1. IInv => ChildrenAreReachable
  BY DEF IInv, ProcInv, HasChild, ChildrenAreReachable
<1>2. QED
  BY <1>1, Invariance, PTL

\* An app's action leaves the entries and the actions of the other apps alone.
LEMMA OthersUndisturbed ==
  ASSUME TypeOK, NEW b \in Apps, Mutation(b), NEW a \in Apps \ {b}
  PROVE  runtime'[a] = runtime[a] /\ mutations'[a] = mutations[a]
<1> USE DEF TypeOK
<1>1. ASSUME NEW step, Goto(b, step) PROVE mutations'[a] = mutations[a]
  BY <1>1 DEF Goto
<1>2. ASSUME StopDone(b) \/ Done(b) PROVE mutations'[a] = mutations[a]
  BY <1>2 DEF StopDone, Done, Goto
<1>3. ASSUME NEW state, SetStatus(b, state) PROVE runtime'[a] = runtime[a]
  BY <1>3 DEF SetStatus
<1>4. ASSUME NEW choices, TryPort(b, choices)
      PROVE  runtime'[a] = runtime[a] /\ mutations'[a] = mutations[a]
  BY <1>1, <1>2, <1>4 DEF TryPort
<1>5. ASSUME NEW entry, Launch(b, entry)
      PROVE  runtime'[a] = runtime[a] /\ mutations'[a] = mutations[a]
  BY <1>1, <1>5 DEF Launch
<1>6. ASSUME NEW failed, Verdict(b, failed)
      PROVE  runtime'[a] = runtime[a] /\ mutations'[a] = mutations[a]
  BY <1>2, <1>3, <1>6 DEF Verdict
<1>7. ASSUME NEW step, Enter(b, step)
      PROVE  runtime'[a] = runtime[a] /\ mutations'[a] = mutations[a]
  BY <1>1, <1>7 DEF Enter
<1>8. ASSUME NEW failed, ToPortCheck(b, failed)
      PROVE  runtime'[a] = runtime[a] /\ mutations'[a] = mutations[a]
  BY <1>6, <1>7, <1>8 DEF ToPortCheck
<1>9. ASSUME FinalizeStop(b) \/ ToVerify(b)
      PROVE  runtime'[a] = runtime[a] /\ mutations'[a] = mutations[a]
  BY <1>7, <1>8, <1>9 DEF FinalizeStop, ToVerify
<1>10. CASE Start(b)
  <2>1. CASE StartLookup(b)
    BY <1>2, <1>3, <1>4, <2>1 DEF StartLookup
  <2>2. CASE StartProbe(b)
    BY <1>1, <1>4, <1>5, <2>2 DEF StartProbe
  <2>3. CASE StartHook(b)
    BY <1>2, <1>3, <1>5, <2>3 DEF StartHook, Cancelled
  <2>4. CASE StartExternal(b)
    BY <1>2, <1>3, <2>4 DEF StartExternal
  <2>5. CASE StartMcp(b)
    BY <1>1, <1>3, <2>5 DEF StartMcp
  <2>6. CASE StartHealth(b)
    BY <1>1, <1>2, <1>3, <2>6 DEF StartHealth
  <2>7. QED
    BY <1>10, <2>1, <2>2, <2>3, <2>4, <2>5, <2>6 DEF Start
<1>11. CASE Cleanup(b)
  BY <1>1, <1>2, <1>11 DEF Cleanup, CleanupMcp, CleanupExit, CleanupHook, CleanupPort
<1>12. CASE Stop(b)
  <2>1. CASE StopLookup(b)
    BY <1>1, <2>1 DEF StopLookup
  <2>2. CASE StopMcp(b) \/ StopExit(b)
    BY <1>7, <1>9, <2>2 DEF StopMcp, StopExit
  <2>3. CASE StopHookEnds(b)
    BY <1>8, <1>9, <2>3 DEF StopHookEnds
  <2>4. CASE StopPort(b)
    BY <1>6, <1>7, <2>4 DEF StopPort
  <2>5. QED
    BY <1>12, <2>1, <2>2, <2>3, <2>4 DEF Stop
<1>13. QED
  BY <1>10, <1>11, <1>12 DEF Mutation

\* Only the exit of its child changes an app that is running and at rest: a late
\* exit event never overturns the verdict of a stop or of a failed start.
LEMMA RestingStep ==
  ASSUME IInv, Next, NEW a \in Apps,
         mutations[a] = None, mutations'[a] = None, runtime'[a] # runtime[a]
  PROVE  runtime[a].status = "running" /\ runtime'[a].status \in {"stopped", "errored"}
<1> USE DEF IInv
<1>1. TypeOK /\ AppInv(a) /\ pc[a] = "idle"
  BY DEF AppInv, StepInv
<1>2. ASSUME NEW b \in Apps, NEW action \in Actions, Request(b, action) \/ RequestBlocked(b, action)
      PROVE  FALSE
  BY <1>1, <1>2 DEF Request, RequestBlocked, TypeOK
<1>3. ASSUME NEW b \in Apps, Abort(b)
      PROVE  FALSE
  BY <1>3 DEF Abort
<1>4. ASSUME NEW b \in Apps, Mutation(b)
      PROVE  FALSE
  <2>1. CASE b = a
    BY <1>1, <1>4, <2>1
    DEF Mutation, Start, StartLookup, StartProbe, StartHook, StartExternal, StartMcp,
        StartHealth, Cleanup, CleanupMcp, CleanupExit, CleanupHook, CleanupPort,
        Stop, StopLookup, StopMcp, StopExit, StopHookEnds, StopPort
  <2>2. CASE b # a
    BY <1>1, <1>4, <2>2, OthersUndisturbed
  <2>3. QED
    BY <2>1, <2>2
<1>5. ASSUME NEW p \in Procs, NEW how \in ProcState, Exit(p, how)
      PROVE  runtime[a].status = "running" /\ runtime'[a].status \in {"stopped", "errored"}
  <2> DEFINE status == AfterExit(runtime[a].status, how)
             next == [runtime[a] EXCEPT !.status = status]
  <2>1. HasChild(a) /\ runtime'[a] = next /\ runtime[a] \in Entry
    BY <1>1, <1>5 DEF Exit, TypeOK, HasChild
  <2>2. runtime[a].status \notin {"starting", "stopping", "conflict"}
    BY <1>1, <2>1 DEF AppInv, StatusInv, HasChild
  <2>3. runtime[a].status \in {"running", "stopped", "errored"} /\ status \in {"stopped", "errored"}
    BY <2>1, <2>2 DEF Entry, RuntimeStatus, AfterExit
  <2>4. runtime[a].status \in {"stopped", "errored"} => next = runtime[a]
    BY <2>1 DEF Entry, AfterExit
  <2>5. next.status = status
    <3>1. status \in RuntimeStatus
      BY <2>3 DEF RuntimeStatus
    <3>2. QED
      BY <2>1, <3>1, StatusOnly
  <2>6. QED
    BY <2>1, <2>3, <2>4, <2>5
<1>6. ASSUME \/ \E p \in Procs : Listen(p)
             \/ \E q \in Ports : ForeignListen(q) \/ Unlisten(q)
      PROVE  FALSE
  BY <1>6 DEF Listen, ForeignListen, Unlisten
<1>7. QED
  BY <1>2, <1>3, <1>4, <1>5, <1>6 DEF Next

\* A late exit event never overturns the verdict of a stop or of a failed start.
THEOREM LateExitsAreHarmless == Spec => VerdictsStand
<1>1. IInv /\ [Next]_vars =>
        [\A a \in Apps :
           mutations[a] = None /\ mutations'[a] = None /\ runtime'[a] # runtime[a] =>
             runtime[a].status = "running" /\ runtime'[a].status \in {"stopped", "errored"}]_vars
  BY RestingStep
<1>2. QED
  BY <1>1, Invariance, PTL DEF Spec, VerdictsStand

\* A verdict of stopped gives back every reservation of the app.
LEMMA VerdictReleases ==
  ASSUME IInv, NEW a \in Apps, pc[a] \in StopSteps, NEW failed \in BOOLEAN,
         Verdict(a, failed), runtime'[a].status = "stopped"
  PROVE  ~failed /\ \A q \in Ports : portReservations'[q] # a
<1>1. TypeOK /\ AppInv(a) /\ runtime[a] # None
  BY DEF IInv, AppInv, EntryInv
<1>2. ~failed
  BY <1>1, NewStatus DEF Verdict, RuntimeStatus
<1>3. portReservations' = Released(a, runtime[a].port)
  BY <1>2 DEF Verdict
<1>4. \A q \in Ports : portReservations[q] = a => q = runtime[a].port
  BY <1>1 DEF AppInv, ReservedInv
<1>5. QED
  BY <1>1, <1>2, <1>3, <1>4, ReleasedEffect, ProcAssumption

\* How a stop comes to report stopped.
LEMMA StoppedStep ==
  ASSUME IInv, Next, NEW a \in Apps,
         mutations[a] = "stop", mutations'[a] = None, runtime'[a].status = "stopped"
  PROVE  /\ \A q \in Ports : portReservations'[q] # a
         /\ OwnsBackendPort(a) => listener'[runtime[a].port] = None
<1> USE DEF IInv
<1>1. /\ TypeOK /\ AppInv(a) /\ pc[a] \in StopSteps \cup {"stop_lookup"} /\ "stop" # None
  BY NoneAssumption DEF AppInv, StepInv, Actions
<1>2. ASSUME NEW b \in Apps, NEW action \in Actions, Request(b, action) \/ RequestBlocked(b, action)
      PROVE  FALSE
  BY <1>1, <1>2, NoneAssumption DEF Request, RequestBlocked, TypeOK
<1>3. ASSUME \/ \E b \in Apps : Abort(b)
             \/ \E p \in Procs, how \in ProcState : Exit(p, how)
             \/ \E p \in Procs : Listen(p)
             \/ \E q \in Ports : ForeignListen(q) \/ Unlisten(q)
      PROVE  FALSE
  BY <1>1, <1>3 DEF Abort, Exit, Listen, ForeignListen, Unlisten
<1>4. ASSUME NEW b \in Apps \ {a}, Mutation(b)
      PROVE  FALSE
  BY <1>1, <1>4, OthersUndisturbed
<1>5. ASSUME NEW step, Goto(a, step)
      PROVE  FALSE
  BY <1>1, <1>5 DEF Goto
<1>6. ASSUME pc[a] \in StopSteps, NEW failed \in BOOLEAN, ToPortCheck(a, failed)
      PROVE  ~OwnsBackendPort(a) /\ \A q \in Ports : portReservations'[q] # a
  BY <1>5, <1>6, VerdictReleases DEF ToPortCheck, Enter
<1>7. ASSUME pc[a] \in StopSteps, FinalizeStop(a) \/ ToVerify(a)
      PROVE  ~OwnsBackendPort(a) /\ \A q \in Ports : portReservations'[q] # a
  BY <1>5, <1>6, <1>7 DEF FinalizeStop, ToVerify, Enter
<1>8. CASE Mutation(a)
  <2>1. ~Start(a) /\ ~Cleanup(a)
    BY <1>1
    DEF Start, StartLookup, StartProbe, StartHook, StartExternal, StartMcp, StartHealth,
        Cleanup, CleanupMcp, CleanupExit, CleanupHook, CleanupPort, StopSteps
  <2>2. CASE StopLookup(a)
    BY <1>5, <2>2 DEF StopLookup
  <2>3. CASE StopMcp(a) \/ StopExit(a)
    BY <1>5, <1>7, <2>3 DEF StopMcp, StopExit, Enter, StopSteps
  <2>4. CASE StopHookEnds(a)
    BY <1>6, <1>7, <2>4 DEF StopHookEnds, StopSteps
  <2>5. CASE StopPort(a)
    <3> DEFINE open == listener[runtime[a].port] # None
               failed == open \/ pc[a] = "stop_port_failed"
    <3>1. Verdict(a, failed) /\ listener' = listener /\ pc[a] \in StopSteps
      BY <1>5, <2>5 DEF StopPort, Enter, machine, StopSteps
    <3>2. ~failed /\ \A q \in Ports : portReservations'[q] # a
      <4>1. failed \in BOOLEAN
        OBVIOUS
      <4>2. QED
        <5> HIDE DEF failed
        <5>1. QED
          BY <3>1, <4>1, VerdictReleases
    <3>3. QED
      BY <3>1, <3>2
  <2>6. QED
    BY <1>8, <2>1, <2>2, <2>3, <2>4, <2>5 DEF Mutation, Stop
<1>9. QED
  BY <1>2, <1>3, <1>4, <1>8 DEF Next

\* A stop that reports stopped left no listener on the port the app owned, and none
\* of its reservations.
THEOREM StopsAreVerified == Spec => StopIsVerified
<1>1. IInv /\ [Next]_vars =>
        [\A a \in Apps :
           mutations[a] = "stop" /\ mutations'[a] = None /\ runtime'[a].status = "stopped" =>
             /\ \A q \in Ports : portReservations'[q] # a
             /\ OwnsBackendPort(a) => listener'[runtime[a].port] = None]_vars
  BY StoppedStep
<1>2. QED
  BY <1>1, Invariance, PTL DEF Spec, StopIsVerified

-----------------------------------------------------------------------------
(* The moves of an action: which await follows which, and what the app is   *)
(* reported as meanwhile.                                                   *)

\* The action goes on to another await with the entry as it is.
GoesOn(a, steps) ==
  pc'[a] \in steps /\ mutations'[a] = mutations[a] /\ runtime'[a] = runtime[a]

\* The verdict of a stop, or of the first half of a restart.
Concludes(a) ==
  /\ runtime'[a] # None /\ runtime'[a].status \in {"stopped", "errored"}
  /\ \/ pc'[a] = "idle" /\ mutations'[a] = None
     \/ pc'[a] = "start_lookup" /\ mutations[a] = "restart" /\ mutations'[a] = "restart"

Ended(a) == pc'[a] = "idle" /\ mutations'[a] = None

Launching == CleanupSteps \cup {"start_hook", "start_external", "start_mcp", "start_health"}

Below(step) == {other \in Steps : Rank(other) < Rank(step)}

\* A step of an action leaves the other actions at their awaits.
LEMMA OthersAtTheirSteps ==
  ASSUME TypeOK, NEW b \in Apps, Mutation(b), NEW a \in Apps \ {b}
  PROVE  pc'[a] = pc[a] /\ probe'[a] = probe[a]
<1> USE DEF TypeOK
<1>1. ASSUME NEW step, Goto(b, step) PROVE pc'[a] = pc[a]
  BY <1>1 DEF Goto
<1>2. ASSUME StopDone(b) \/ Done(b) PROVE pc'[a] = pc[a]
  BY <1>2 DEF StopDone, Done, Goto
<1>3. ASSUME NEW choices, TryPort(b, choices)
      PROVE  pc'[a] = pc[a] /\ probe'[a] = probe[a]
  BY <1>1, <1>2, <1>3 DEF TryPort
<1>4. ASSUME NEW entry, Launch(b, entry) PROVE pc'[a] = pc[a]
  BY <1>1, <1>4 DEF Launch
<1>5. ASSUME NEW failed, Verdict(b, failed) PROVE pc'[a] = pc[a]
  BY <1>2, <1>5 DEF Verdict
<1>6. ASSUME NEW failed, ToPortCheck(b, failed) PROVE pc'[a] = pc[a]
  BY <1>1, <1>5, <1>6 DEF ToPortCheck, Enter
<1>7. ASSUME FinalizeStop(b) \/ ToVerify(b) PROVE pc'[a] = pc[a]
  BY <1>1, <1>6, <1>7 DEF FinalizeStop, ToVerify, Enter
<1>8. CASE Start(b)
  <2>1. CASE StartLookup(b)
    BY <1>2, <1>3, <2>1 DEF StartLookup
  <2>2. CASE StartProbe(b)
    BY <1>1, <1>3, <1>4, <2>2 DEF StartProbe
  <2>3. CASE StartHook(b)
    BY <1>2, <1>4, <2>3 DEF StartHook
  <2>4. CASE StartExternal(b) \/ StartMcp(b) \/ StartHealth(b)
    BY <1>1, <1>2, <2>4 DEF StartExternal, StartMcp, StartHealth
  <2>5. QED
    BY <1>8, <2>1, <2>2, <2>3, <2>4 DEF Start
<1>9. CASE Cleanup(b)
  BY <1>1, <1>2, <1>9 DEF Cleanup, CleanupMcp, CleanupExit, CleanupHook, CleanupPort
<1>10. CASE Stop(b)
  <2>1. CASE StopLookup(b)
    BY <1>1, <2>1 DEF StopLookup
  <2>2. CASE StopMcp(b) \/ StopExit(b)
    BY <1>1, <1>7, <2>2 DEF StopMcp, StopExit, Enter
  <2>3. CASE StopHookEnds(b)
    BY <1>6, <1>7, <2>3 DEF StopHookEnds
  <2>4. CASE StopPort(b)
    BY <1>1, <1>5, <2>4 DEF StopPort, Enter
  <2>5. QED
    BY <1>10, <2>1, <2>2, <2>3, <2>4 DEF Stop
<1>11. QED
  BY <1>8, <1>9, <1>10 DEF Mutation

LEMMA VerdictMoves ==
  ASSUME TypeOK, NEW a \in Apps, runtime[a] # None, NEW failed \in BOOLEAN, Verdict(a, failed)
  PROVE  Concludes(a)
<1>1. runtime'[a] # None /\ runtime'[a].status \in {"stopped", "errored"}
  <2>1. CASE failed
    BY <2>1, SetStatusEffect DEF Verdict, RuntimeStatus
  <2>2. CASE ~failed
    <3>1. KeepsChild(a) /\ runtime'[a].status = "stopped"
      BY <2>2, StoppedEffect DEF Verdict
    <3>2. QED
      BY <3>1 DEF KeepsChild
  <2>3. QED
    BY <2>1, <2>2
<1>2. StopDone(a)
  BY DEF Verdict
<1>3. QED
  BY <1>1, <1>2, StopDoneEffect DEF Concludes

LEMMA EnterMoves ==
  ASSUME TypeOK, NEW a \in Apps, NEW step \in Steps, Enter(a, step)
  PROVE  GoesOn(a, {step})
  BY GotoEffect DEF Enter, GoesOn

LEMMA PortCheckMoves ==
  ASSUME TypeOK, NEW a \in Apps, runtime[a] # None, NEW failed \in BOOLEAN,
         ToPortCheck(a, failed)
  PROVE  GoesOn(a, {"stop_port", "stop_port_failed"}) \/ Concludes(a)
<1>1. "stop_port" \in Steps /\ "stop_port_failed" \in Steps
  BY DEF Steps, StopSteps
<1>2. QED
  BY <1>1, EnterMoves, VerdictMoves DEF ToPortCheck, GoesOn

LEMMA FinalizeMoves ==
  ASSUME TypeOK, NEW a \in Apps, runtime[a] # None
  PROVE  /\ ToVerify(a) =>
              GoesOn(a, {"stop_verify", "stop_port", "stop_port_failed"}) \/ Concludes(a)
         /\ FinalizeStop(a) =>
              \/ GoesOn(a, {"stop_hook", "stop_verify", "stop_port", "stop_port_failed"})
              \/ Concludes(a)
<1>1. "stop_hook" \in Steps /\ "stop_verify" \in Steps
  BY DEF Steps, StopSteps
<1>2. ASSUME ToVerify(a)
      PROVE  GoesOn(a, {"stop_verify", "stop_port", "stop_port_failed"}) \/ Concludes(a)
  BY <1>1, <1>2, EnterMoves, PortCheckMoves DEF ToVerify, GoesOn
<1>3. ASSUME FinalizeStop(a)
      PROVE  \/ GoesOn(a, {"stop_hook", "stop_verify", "stop_port", "stop_port_failed"})
             \/ Concludes(a)
  BY <1>1, <1>2, <1>3, EnterMoves DEF FinalizeStop, GoesOn
<1>4. QED
  BY <1>2, <1>3

\* A stop goes from one of its awaits to a later one, or ends with its verdict.
LEMMA StopMoves ==
  ASSUME IInv, NEW a \in Apps, StopMcp(a) \/ StopExit(a) \/ StopHookEnds(a) \/ StopPort(a)
  PROVE  pc[a] \in StopSteps /\ (GoesOn(a, StopSteps \cap Below(pc[a])) \/ Concludes(a))
<1>1. TypeOK /\ AppInv(a) /\ pc[a] \in StopSteps
  BY DEF IInv, StopMcp, StopExit, StopHookEnds, StopPort, StopSteps
<1>2. runtime[a] # None
  BY <1>1 DEF AppInv, EntryInv
<1>3. ASSUME NEW steps, steps \subseteq StopSteps, GoesOn(a, steps),
             \A step \in steps : Rank(step) < Rank(pc[a])
      PROVE  GoesOn(a, StopSteps \cap Below(pc[a]))
  BY <1>3 DEF GoesOn, Below, Steps
<1>4. StopSteps \subseteq Steps
  BY DEF Steps
<1>5. CASE StopMcp(a) \/ StopExit(a)
  <2>1. pc[a] = "stop_mcp" \/ pc[a] = "stop_exit"
    BY <1>5 DEF StopMcp, StopExit
  <2>2. \/ GoesOn(a, {"stop_hook", "stop_verify", "stop_port", "stop_port_failed"})
        \/ Concludes(a)
        \/ pc[a] = "stop_mcp" /\ GoesOn(a, {"stop_exit"})
    <3>1. "stop_exit" \in Steps
      BY DEF Steps, StopSteps
    <3>2. QED
      BY <1>1, <1>2, <1>5, <3>1, EnterMoves, FinalizeMoves DEF StopMcp, StopExit
  <2>3. CASE GoesOn(a, {"stop_hook", "stop_verify", "stop_port", "stop_port_failed"})
    <3>1. \A step \in {"stop_hook", "stop_verify", "stop_port", "stop_port_failed"} :
            Rank(step) < Rank(pc[a])
      BY <2>1 DEF Rank
    <3>2. QED
      BY <1>1, <1>3, <2>3, <3>1 DEF StopSteps
  <2>4. CASE pc[a] = "stop_mcp" /\ GoesOn(a, {"stop_exit"})
    <3>1. \A step \in {"stop_exit"} : Rank(step) < Rank(pc[a])
      BY <2>4 DEF Rank
    <3>2. QED
      BY <1>1, <1>3, <2>4, <3>1 DEF StopSteps
  <2>5. QED
    BY <1>1, <2>2, <2>3, <2>4
<1>6. CASE StopHookEnds(a)
  <2>1. \/ pc[a] = "stop_hook" /\ (ToVerify(a) \/ (\E failed \in BOOLEAN : ToPortCheck(a, failed)))
        \/ pc[a] = "stop_verify" /\ \E failed \in BOOLEAN : ToPortCheck(a, failed)
    BY <1>6 DEF StopHookEnds
  <2>2. CASE GoesOn(a, {"stop_port", "stop_port_failed"})
    <3>1. \A step \in {"stop_port", "stop_port_failed"} : Rank(step) < Rank(pc[a])
      BY <2>1 DEF Rank
    <3>2. QED
      BY <1>1, <1>3, <2>2, <3>1 DEF StopSteps
  <2>3. CASE pc[a] = "stop_hook" /\ GoesOn(a, {"stop_verify", "stop_port", "stop_port_failed"})
    <3>1. \A step \in {"stop_verify", "stop_port", "stop_port_failed"} : Rank(step) < Rank(pc[a])
      BY <2>3 DEF Rank
    <3>2. QED
      BY <1>1, <1>3, <2>3, <3>1 DEF StopSteps
  <2>4. QED
    BY <1>1, <1>2, <2>1, <2>2, <2>3, FinalizeMoves, PortCheckMoves
<1>7. CASE StopPort(a)
  <2> DEFINE open == listener[runtime[a].port] # None
             failed == open \/ pc[a] = "stop_port_failed"
  <2>1. \/ pc[a] = "stop_port" /\ Enter(a, "stop_recheck")
        \/ Verdict(a, failed)
    BY <1>7 DEF StopPort
  <2>2. CASE pc[a] = "stop_port" /\ Enter(a, "stop_recheck")
    <3>1. GoesOn(a, {"stop_recheck"})
      BY <1>1, <2>2, EnterMoves DEF Steps, StopSteps
    <3>2. \A step \in {"stop_recheck"} : Rank(step) < Rank(pc[a])
      BY <2>2 DEF Rank
    <3>3. QED
      BY <1>1, <1>3, <3>1, <3>2 DEF StopSteps
  <2>3. CASE Verdict(a, failed)
    <3>1. failed \in BOOLEAN
      OBVIOUS
    <3>2. Concludes(a)
      <4> HIDE DEF failed
      <4>1. QED
        BY <1>1, <1>2, <2>3, <3>1, VerdictMoves
    <3>3. QED
      BY <1>1, <3>2
  <2>4. QED
    BY <2>1, <2>2, <2>3
<1>8. QED
  BY <1>5, <1>6, <1>7

\* The next port is one of the choices, or the start is over and the app is reported
\* as before or in conflict.
LEMMA TryPortMoves ==
  ASSUME TypeOK, NEW a \in Apps, NEW choices, choices \subseteq Ports, TryPort(a, choices)
  PROVE  \/ GoesOn(a, {"start_probe"}) /\ probe'[a] \in choices
         \/ Ended(a) /\ \/ runtime'[a] = runtime[a]
                        \/ runtime'[a] # None /\ runtime'[a].status = "conflict"
<1>1. CASE choices # {}
  <2>1. GoesOn(a, {"start_probe"})
    BY <1>1, GotoEffect DEF TryPort, GoesOn, Steps, StartSteps
  <2>2. probe'[a] \in choices
    BY <1>1 DEF TryPort, TypeOK
  <2>3. QED
    BY <2>1, <2>2
<1>2. CASE choices = {}
  <2>1. Done(a)
    BY <1>2 DEF TryPort
  <2>2. Ended(a)
    BY <2>1, DoneEffect DEF Ended
  <2>3. QED
    BY <2>1, <2>2, TryPortEffect DEF Ended
<1>3. QED
  BY <1>1, <1>2

\* A launch keeps the status of the new entry.
LEMMA LaunchMoves ==
  ASSUME TypeOK, NEW a \in Apps, NEW entry \in Entry, Launch(a, entry)
  PROVE  /\ pc'[a] \in {"start_external", "start_mcp"} /\ mutations'[a] = mutations[a]
         /\ runtime'[a] # None /\ runtime'[a].status = entry.status
<1>1. pc'[a] \in {"start_external", "start_mcp"} /\ mutations' = mutations
  BY GotoEffect DEF Launch, Steps, StartSteps
<1>2. runtime'[a] = entry \/ \E p \in Procs : runtime'[a] = [entry EXCEPT !.child = p]
  BY DEF Launch, TypeOK
<1>3. runtime'[a] # None /\ runtime'[a].status = entry.status
  BY <1>2, NoneAssumption DEF Entry
<1>4. QED
  BY <1>1, <1>3

\* The search for a port: on to the next one, over, or the app is starting.
LEMMA PortMoves ==
  ASSUME IInv, NEW a \in Apps, StartLookup(a) \/ StartProbe(a)
  PROVE  \/ GoesOn(a, {"start_probe"}) /\ (pc[a] = "start_probe" => probe[a] < probe'[a])
         \/ /\ Ended(a)
            /\ \/ runtime'[a] = runtime[a]
               \/ runtime'[a] # None /\ runtime'[a].status \in {"running", "conflict"}
         \/ /\ pc[a] = "start_probe" /\ pc'[a] \in {"start_hook", "start_external", "start_mcp"}
            /\ mutations'[a] = mutations[a]
            /\ runtime'[a] # None /\ runtime'[a].status = "starting"
<1>1. TypeOK /\ AppInv(a)
  BY DEF IInv
<1>2. PortChoices(a) \subseteq Ports
  BY PortAssumption DEF PortChoices
<1>3. CASE StartLookup(a)
  <2>1. CASE ChildRuns(a) /\ runtime[a].port # None
    <3>1. SetStatus(a, "running") /\ Done(a) /\ runtime[a] # None
      BY <1>3, <2>1 DEF StartLookup, ChildRuns, HasChild
    <3>2. QED
      BY <1>1, <3>1, SetStatusEffect, DoneEffect DEF Ended, RuntimeStatus
  <2>2. CASE ~(ChildRuns(a) /\ runtime[a].port # None)
    <3>1. TryPort(a, PortChoices(a)) /\ pc[a] = "start_lookup"
      BY <1>3, <2>2 DEF StartLookup
    <3>2. QED
      BY <1>1, <1>2, <3>1, TryPortMoves
  <2>3. QED
    BY <2>1, <2>2
<1>4. CASE StartProbe(a)
  <2>1. /\ pc[a] = "start_probe" /\ probe[a] \in Ports
    BY <1>1, <1>4 DEF StartProbe, AppInv, EntryInv, TypeOK
  <2>2. \/ TryPort(a, LaterChoices(a, probe[a]))
        \/ runtime' = [runtime EXCEPT ![a] = NewEntry("starting", probe[a])] /\ Goto(a, "start_hook")
        \/ Launch(a, NewEntry("starting", probe[a]))
    BY <1>4 DEF StartProbe
  <2>3. NewEntry("starting", probe[a]) \in Entry /\ NewEntry("starting", probe[a]) # None
        /\ NewEntry("starting", probe[a]).status = "starting"
    BY <2>1, NewEntryEffect DEF RuntimeStatus
  <2>4. CASE TryPort(a, LaterChoices(a, probe[a]))
    <3> DEFINE choices == LaterChoices(a, probe[a])
    <3>1. choices \subseteq Ports /\ \A r \in choices : probe[a] < r
      BY <1>2, <2>1, PortAssumption DEF LaterChoices
    <3>2. \/ GoesOn(a, {"start_probe"}) /\ probe'[a] \in choices
          \/ Ended(a) /\ \/ runtime'[a] = runtime[a]
                         \/ runtime'[a] # None /\ runtime'[a].status = "conflict"
      <4>1. TryPort(a, choices)
        BY <2>4
      <4>2. QED
        <5> HIDE DEF choices
        <5>1. QED
          BY <1>1, <3>1, <4>1, TryPortMoves
    <3>3. QED
      <4> HIDE DEF choices
      <4>1. QED
        BY <3>1, <3>2
  <2>5. CASE runtime' = [runtime EXCEPT ![a] = NewEntry("starting", probe[a])] /\ Goto(a, "start_hook")
    <3>1. pc'[a] = "start_hook" /\ mutations' = mutations
      BY <1>1, <2>5, GotoEffect DEF Steps, StartSteps
    <3>2. runtime'[a] = NewEntry("starting", probe[a])
      BY <1>1, <2>5 DEF TypeOK
    <3>3. QED
      BY <2>1, <2>3, <3>1, <3>2
  <2>6. CASE Launch(a, NewEntry("starting", probe[a]))
    BY <1>1, <2>1, <2>3, <2>6, LaunchMoves
  <2>7. QED
    BY <2>2, <2>4, <2>5, <2>6
<1>5. QED
  BY <1>3, <1>4

\* A launch and its clean-up go on to a later await, where the app is reported as
\* before or errored, or end with a verdict.
LEMMA LaunchingMoves ==
  ASSUME IInv, NEW a \in Apps,
         StartHook(a) \/ StartExternal(a) \/ StartMcp(a) \/ StartHealth(a) \/ Cleanup(a)
  PROVE  /\ pc[a] \in Launching /\ runtime[a] # None /\ runtime'[a] # None
         /\ \/ /\ pc'[a] \in Launching \cap Below(pc[a]) /\ mutations'[a] = mutations[a]
               /\ \/ runtime'[a].status = runtime[a].status
                  \/ /\ pc[a] \in {"start_mcp", "start_health"} /\ pc'[a] = "cleanup_mcp"
                     /\ runtime'[a].status = "errored"
            \/ Ended(a) /\ runtime'[a].status \in {"running", "errored"}
<1>1. TypeOK /\ AppInv(a) /\ {"running", "errored"} \subseteq RuntimeStatus
  BY DEF IInv, RuntimeStatus
<1>2. Launching \subseteq Steps
  BY DEF Launching, Steps, StartSteps
<1>3. pc[a] \in Launching
  BY DEF StartHook, StartExternal, StartMcp, StartHealth, Cleanup, CleanupMcp, CleanupExit,
         CleanupHook, CleanupPort, Launching, CleanupSteps
<1>4. runtime[a] # None /\ runtime[a] \in Entry
  BY <1>1, <1>3 DEF AppInv, EntryInv, HasPort, Launching, TypeOK
<1>5. ASSUME Done(a) PROVE Ended(a)
  BY <1>1, <1>5, DoneEffect DEF Ended
<1>6. ASSUME NEW step \in Launching, Goto(a, step), Rank(step) < Rank(pc[a])
      PROVE  pc'[a] = step /\ pc'[a] \in Launching \cap Below(pc[a]) /\ mutations'[a] = mutations[a]
  BY <1>1, <1>2, <1>6, GotoEffect DEF Below
<1>7. ASSUME NEW state \in {"running", "errored"}, SetStatus(a, state)
      PROVE  runtime'[a] # None /\ runtime'[a].status = state
  BY <1>1, <1>4, <1>7, SetStatusEffect
<1>8. CASE StartHook(a)
  <2>1. CASE Cancelled(a) /\ Done(a)
    BY <1>1, <1>3, <1>4, <1>5, <2>1, CancelledEffect
  <2>2. CASE SetStatus(a, "errored") /\ Done(a)
    BY <1>3, <1>4, <1>5, <1>7, <2>2
  <2>3. CASE Launch(a, runtime[a]) /\ pc[a] = "start_hook"
    <3>1. /\ pc'[a] \in {"start_external", "start_mcp"} /\ mutations'[a] = mutations[a]
          /\ runtime'[a] # None /\ runtime'[a].status = runtime[a].status
      BY <1>1, <1>4, <2>3, LaunchMoves
    <3>2. pc'[a] \in Launching /\ Rank(pc'[a]) < Rank(pc[a])
      BY <2>3, <3>1 DEF Launching, Rank
    <3>3. QED
      BY <1>2, <1>3, <1>4, <3>1, <3>2 DEF Below
  <2>4. QED
    BY <1>8, <2>1, <2>2, <2>3 DEF StartHook
<1>9. CASE StartExternal(a)
  <2>1. Done(a) /\ \E state \in {"running", "errored"} : SetStatus(a, state)
    BY <1>9 DEF StartExternal
  <2>2. QED
    BY <1>3, <1>4, <1>5, <1>7, <2>1
<1>10. CASE StartMcp(a)
  <2>1. pc[a] = "start_mcp" /\ "cleanup_mcp" \in Launching /\ "start_health" \in Launching
        /\ Rank("cleanup_mcp") < Rank(pc[a]) /\ Rank("start_health") < Rank(pc[a])
    BY <1>10 DEF StartMcp, Launching, CleanupSteps, Rank
  <2>2. CASE aborted[a]
    BY <1>3, <1>4, <1>6, <1>7, <1>10, <2>1, <2>2 DEF StartMcp
  <2>3. CASE ~aborted[a]
    <3>1. Goto(a, "start_health") /\ runtime' = [runtime EXCEPT ![a].watched = TRUE]
      BY <1>10, <2>3 DEF StartMcp
    <3>2. runtime'[a] # None /\ runtime'[a].status = runtime[a].status
      BY <1>1, <1>4, <3>1, NoneAssumption DEF TypeOK, Entry
    <3>3. QED
      BY <1>3, <1>4, <1>6, <2>1, <3>1, <3>2
  <2>4. QED
    BY <2>2, <2>3
<1>11. CASE StartHealth(a)
  <2>1. pc[a] = "start_health" /\ "cleanup_mcp" \in Launching /\ Rank("cleanup_mcp") < Rank(pc[a])
    BY <1>11 DEF StartHealth, Launching, CleanupSteps, Rank
  <2>2. CASE SetStatus(a, "running") /\ Done(a)
    BY <1>3, <1>4, <1>5, <1>7, <2>2
  <2>3. CASE SetStatus(a, "errored") /\ Goto(a, "cleanup_mcp")
    BY <1>3, <1>4, <1>6, <1>7, <2>1, <2>3
  <2>4. QED
    BY <1>11, <2>2, <2>3 DEF StartHealth
<1>12. CASE Cleanup(a)
  <2>1. pc[a] \in CleanupSteps /\ runtime[a].status = "errored"
    BY <1>1, <1>12
    DEF Cleanup, CleanupMcp, CleanupExit, CleanupHook, CleanupPort, CleanupSteps, AppInv, StatusInv
  <2>2. runtime'[a] # None /\ runtime'[a].status = "errored"
    <3>1. CASE runtime' = runtime
      BY <1>4, <2>1, <3>1
    <3>2. CASE runtime' = [runtime EXCEPT ![a].port = None]
      <4>1. runtime'[a] = [runtime[a] EXCEPT !.port = None]
        BY <1>1, <3>2 DEF TypeOK
      <4>2. QED
        BY <1>4, <2>1, <4>1, PortOnly
    <3>3. QED
      BY <1>12, <3>1, <3>2 DEF Cleanup, CleanupMcp, CleanupExit, CleanupHook, CleanupPort
  <2>3. \/ Done(a)
        \/ \E step \in Launching : Goto(a, step) /\ Rank(step) < Rank(pc[a])
    BY <1>12
    DEF Cleanup, CleanupMcp, CleanupExit, CleanupHook, CleanupPort, Launching, CleanupSteps, Rank
  <2>4. QED
    BY <1>3, <1>4, <1>5, <1>6, <2>1, <2>2, <2>3
<1>13. QED
  BY <1>8, <1>9, <1>10, <1>11, <1>12

\* So every step of an action is one towards its end.
LEMMA MutationMovesOn ==
  ASSUME IInv, NEW a \in Apps, Mutation(a)
  PROVE  /\ pc'[a] # pc[a] => Rank(pc'[a]) < Rank(pc[a])
         /\ pc[a] = "start_probe" /\ pc'[a] = "start_probe" => probe[a] < probe'[a]
<1>1. TypeOK
  BY DEF IInv
<1>2. CASE StartLookup(a) \/ StartProbe(a)
  <2>1. pc[a] \in {"start_lookup", "start_probe"}
    BY <1>2 DEF StartLookup, StartProbe
  <2>2. pc[a] = "start_probe" /\ pc'[a] = "start_probe" => probe[a] < probe'[a]
    BY <1>2, PortMoves DEF Ended
  <2>3. /\ pc'[a] \in {"start_probe", "idle", "start_hook", "start_external", "start_mcp"}
        /\ pc'[a] \in {"start_hook", "start_external", "start_mcp"} => pc[a] = "start_probe"
    BY <1>2, PortMoves DEF GoesOn, Ended
  <2>4. QED
    BY <2>1, <2>2, <2>3 DEF Rank
<1>3. CASE StartHook(a) \/ StartExternal(a) \/ StartMcp(a) \/ StartHealth(a) \/ Cleanup(a)
  <2>1. pc[a] \in Launching /\ pc[a] # "start_probe"
    BY <1>3, LaunchingMoves DEF Launching, CleanupSteps
  <2>2. pc'[a] \in Below(pc[a]) \/ pc'[a] = "idle"
    BY <1>3, LaunchingMoves DEF Ended
  <2>3. Rank("idle") < Rank(pc[a])
    BY <2>1 DEF Rank, Launching, CleanupSteps
  <2>4. QED
    BY <2>1, <2>2, <2>3 DEF Below
<1>4. CASE StopLookup(a)
  <2>1. pc[a] = "stop_lookup" /\ pc'[a] = "stop_mcp"
    BY <1>1, <1>4, GotoEffect DEF StopLookup, Steps, StopSteps
  <2>2. QED
    BY <2>1 DEF Rank
<1>5. CASE StopMcp(a) \/ StopExit(a) \/ StopHookEnds(a) \/ StopPort(a)
  <2>1. pc[a] \in StopSteps /\ pc[a] # "start_probe"
    BY <1>5, StopMoves DEF StopSteps
  <2>2. pc'[a] \in Below(pc[a]) \/ pc'[a] \in {"idle", "start_lookup"}
    BY <1>5, StopMoves DEF GoesOn, Concludes
  <2>3. \A step \in {"idle", "start_lookup"} : Rank(step) < Rank(pc[a])
    BY <2>1 DEF Rank, StopSteps
  <2>4. QED
    BY <2>1, <2>2, <2>3 DEF Below
<1>6. QED
  BY <1>2, <1>3, <1>4, <1>5 DEF Mutation, Start, Stop

\* No await of an action is returned to, and a port is probed again only for a higher
\* one: the safety half of MutationsEnd, which needs fairness only for the next step.
THEOREM ActionsAdvance == Spec => ActionsMoveOn
<1> DEFINE Onward(a) ==
             /\ pc[a] # "idle" /\ pc'[a] # pc[a] => Rank(pc'[a]) < Rank(pc[a])
             /\ pc[a] = "start_probe" /\ pc'[a] = "start_probe" /\ probe'[a] # probe[a] =>
                  probe[a] < probe'[a]
<1>1. ASSUME IInv, Next, NEW a \in Apps
      PROVE  Onward(a)
  <2>1. TypeOK /\ AppInv(a)
    BY <1>1 DEF IInv
  <2>2. ASSUME NEW b \in Apps, Mutation(b)
        PROVE  Onward(a)
    BY <1>1, <2>1, <2>2, MutationMovesOn, OthersAtTheirSteps
  <2>3. ASSUME NEW b \in Apps, NEW action \in Actions, Request(b, action)
        PROVE  Onward(a)
    <3>1. mutations[b] = None /\ probe' = probe /\ (b # a => pc'[a] = pc[a])
      BY <1>1, <2>1, <2>3 DEF Request, TypeOK
    <3>2. b = a => pc[a] = "idle"
      BY <2>1, <3>1 DEF AppInv, StepInv
    <3>3. QED
      BY <3>1, <3>2
  <2>4. ASSUME UNCHANGED <<pc, probe>>
        PROVE  Onward(a)
    BY <2>4
  <2>5. QED
    BY <1>1, <2>2, <2>3, <2>4 DEF Next, RequestBlocked, Abort, Exit, Listen, ForeignListen, Unlisten
<1>2. IInv /\ [Next]_vars => [\A a \in Apps : Onward(a)]_vars
  BY <1>1
<1>3. QED
  BY <1>2, Invariance, PTL DEF Spec, ActionsMoveOn

-----------------------------------------------------------------------------
(* The actions implement AppLifecycle.                                      *)

\* What the contract sees of an app, before and after a step.
LEMMA Views ==
  /\ Phases = [a \in Apps |-> Phase(a)] /\ Phases' = [a \in Apps |-> Phase(a)']
  /\ Reported = [a \in Apps |-> IF runtime[a] = None THEN "none" ELSE runtime[a].status]
  /\ Reported' = [a \in Apps |-> IF runtime'[a] = None THEN "none" ELSE runtime'[a].status]
  BY DEF Phases, Reported, Phase

\* The part of an action that an await belongs to.
LEMMA PhaseOf ==
  ASSUME NEW a \in Apps
  PROVE  /\ pc[a] = "idle" => Phases[a] = "idle"
         /\ pc[a] = "stop_lookup" => Phases[a] = "asked"
         /\ pc[a] \in StopSteps => Phases[a] = "down"
         /\ pc[a] \in {"start_lookup", "start_probe"} => Phases[a] = "port"
         /\ pc[a] \in Launching => Phases[a] = "launch"
  BY Views DEF Phase, StopSteps, Launching, CleanupSteps

LEMMA NextPhaseOf ==
  ASSUME NEW a \in Apps
  PROVE  /\ pc'[a] = "idle" => Phases'[a] = "idle"
         /\ pc'[a] = "stop_lookup" => Phases'[a] = "asked"
         /\ pc'[a] \in StopSteps => Phases'[a] = "down"
         /\ pc'[a] \in {"start_lookup", "start_probe"} => Phases'[a] = "port"
         /\ pc'[a] \in Launching => Phases'[a] = "launch"
  BY Views DEF Phase, StopSteps, Launching, CleanupSteps

\* A step of one app changes what is seen of that app.
LEMMA OneAppSeen ==
  ASSUME TypeOK, TypeOK', NEW a \in Apps,
         \A b \in Apps \ {a} : /\ pc'[b] = pc[b] /\ mutations'[b] = mutations[b]
                               /\ runtime'[b] = runtime[b]
  PROVE  /\ mutations' = [mutations EXCEPT ![a] = mutations'[a]]
         /\ Phases' = [Phases EXCEPT ![a] = Phases'[a]]
         /\ Reported' = [Reported EXCEPT ![a] = Reported'[a]]
<1>1. mutations' = [mutations EXCEPT ![a] = mutations'[a]]
  BY DEF TypeOK
<1>2. \A b \in Apps \ {a} : Phases'[b] = Phases[b]
  BY Views DEF Phase
<1>3. \A b \in Apps \ {a} : Reported'[b] = Reported[b]
  BY Views
<1>4. QED
  BY <1>1, <1>2, <1>3, Views

\* Of an app of which the same is seen, nothing was.
LEMMA SameSeen ==
  ASSUME TypeOK, NEW a \in Apps
  PROVE  /\ [mutations EXCEPT ![a] = mutations[a]] = mutations
         /\ [Phases EXCEPT ![a] = Phases[a]] = Phases
         /\ [Reported EXCEPT ![a] = Reported[a]] = Reported
<1>1. ASSUME NEW f, f = [b \in Apps |-> f[b]]
      PROVE  [f EXCEPT ![a] = f[a]] = f
  BY <1>1
<1>2. Phases = [b \in Apps |-> Phases[b]] /\ Reported = [b \in Apps |-> Reported[b]]
  BY DEF Phases, Reported
<1>3. mutations = [b \in Apps |-> mutations[b]]
  BY DEF TypeOK
<1>4. QED
  BY <1>1, <1>2, <1>3

\* The exit of a child is a fall, or is not seen.
LEMMA ExitSeenAsFall ==
  ASSUME IInv, NEW p \in Procs, NEW how \in ProcState, Exit(p, how)
  PROVE  Lifecycle!Next \/ UNCHANGED <<mutations, Phases, Reported>>
<1>1. TypeOK /\ pc' = pc /\ mutations' = mutations
  BY DEF IInv, Exit
<1>2. Phases' = Phases
  BY <1>1, Views DEF Phase
<1>3. CASE runtime' = runtime
  BY <1>1, <1>2, <1>3, Views
<1>4. CASE runtime' # runtime
  <2>1. PICK a \in Apps :
          HasChild(a) /\ runtime' = [runtime EXCEPT ![a].status = AfterExit(@, how)]
    <3>1. procs[p] # "unused" /\ ProcInv(p)
      BY DEF Exit, IInv
    <3>2. origin[p].app \in Apps
      BY <1>1, <3>1 DEF ProcInv, TypeOK, Origin
    <3>3. QED
      BY <1>4, <3>2 DEF Exit
  <2>2. AppInv(a) /\ runtime[a] # None /\ runtime[a] \in Entry /\ runtime[a].status # "conflict"
    BY <1>1, <2>1 DEF IInv, AppInv, StatusInv, HasChild, TypeOK
  <2>3. AfterExit(runtime[a].status, how) \in RuntimeStatus
    BY <2>2 DEF Entry, AfterExit, RuntimeStatus
  <2>4. /\ runtime'[a] # None /\ runtime'[a].status = AfterExit(runtime[a].status, how)
        /\ \A b \in Apps \ {a} : runtime'[b] = runtime[b]
    BY <1>1, <2>1, <2>2, <2>3, StatusOnly DEF TypeOK
  <2>5. Reported' = [Reported EXCEPT ![a] = AfterExit(runtime[a].status, how)]
    BY <2>2, <2>4, Views
  <2>6. CASE runtime[a].status \in {"stopped", "errored"}
    BY <1>1, <1>2, <2>2, <2>5, <2>6, Views DEF AfterExit
  <2>7. CASE runtime[a].status \notin {"stopped", "errored"}
    <3>1. Reported[a] \in {"running", "starting", "stopping"}
      BY <2>2, <2>7, Views DEF Entry, RuntimeStatus
    <3>2. AfterExit(runtime[a].status, how) \in {"stopped", "errored"}
      BY <2>7 DEF AfterExit
    <3>3. Lifecycle!Fall(a, AfterExit(runtime[a].status, how))
      BY <1>1, <1>2, <2>5, <3>1 DEF Lifecycle!Fall, Lifecycle!Reports
    <3>4. QED
      BY <3>2, <3>3 DEF Lifecycle!Next
  <2>8. QED
    BY <2>6, <2>7
<1>5. QED
  BY <1>3, <1>4

LEMMA RequestSeen ==
  ASSUME IInv, IInv', NEW a \in Apps, NEW action \in Actions, Request(a, action)
  PROVE  Lifecycle!Next
<1>1. TypeOK /\ TypeOK' /\ AppInv(a) /\ mutations[a] = None
  BY DEF IInv, Request
<1>2. /\ pc[a] = "idle" /\ runtime' = runtime /\ mutations' = [mutations EXCEPT ![a] = action]
      /\ pc'[a] = IF action = "start" THEN "start_lookup" ELSE "stop_lookup"
      /\ \A b \in Apps \ {a} : pc'[b] = pc[b] /\ mutations'[b] = mutations[b]
  BY <1>1 DEF Request, TypeOK, AppInv, StepInv
<1>3. Phases' = [Phases EXCEPT ![a] = IF action = "start" THEN "port" ELSE "asked"]
  BY <1>1, <1>2, OneAppSeen, NextPhaseOf
<1>4. Reported' = Reported
  BY <1>2, Views
<1>5. Lifecycle!Begin(a, action)
  BY <1>2, <1>3, <1>4, PhaseOf DEF Lifecycle!Begin
<1>6. QED
  BY <1>5 DEF Lifecycle!Next, Lifecycle!Actions, Actions

LEMMA StopSeen ==
  ASSUME IInv, IInv', NEW a \in Apps, Stop(a),
         mutations' = [mutations EXCEPT ![a] = mutations'[a]],
         Phases' = [Phases EXCEPT ![a] = Phases'[a]],
         Reported' = [Reported EXCEPT ![a] = Reported'[a]]
  PROVE  Lifecycle!Next \/ UNCHANGED <<mutations, Phases, Reported>>
<1>1. TypeOK /\ AppInv(a)
  BY DEF IInv
<1> USE DEF Lifecycle!Moves, Lifecycle!Reports, Lifecycle!Ends
<1>2. CASE StopLookup(a)
  <2>1. pc[a] = "stop_lookup" /\ pc'[a] = "stop_mcp" /\ mutations' = mutations
    BY <1>1, <1>2, GotoEffect DEF StopLookup, Steps, StopSteps
  <2>2. runtime'[a] # None /\ runtime'[a].status = "stopping"
    <3>1. CASE runtime[a] = None
      <4>1. runtime'[a] = NewEntry("stopping", None)
        BY <1>1, <1>2, <3>1 DEF StopLookup, TypeOK
      <4>2. QED
        BY <4>1, NewEntryEffect DEF RuntimeStatus
    <3>2. CASE runtime[a] # None
      <4>1. runtime'[a] = [runtime[a] EXCEPT !.status = "stopping"] /\ runtime[a] \in Entry
        BY <1>1, <1>2, <3>2 DEF StopLookup, TypeOK
      <4>2. QED
        BY <4>1, StatusOnly DEF RuntimeStatus
    <3>3. QED
      BY <3>1, <3>2
  <2>3. Phases[a] = "asked" /\ Phases'[a] = "down"
    BY <2>1, PhaseOf, NextPhaseOf DEF StopSteps
  <2>4. Lifecycle!TakeDown(a)
    BY <2>1, <2>2, <2>3, Views DEF Lifecycle!TakeDown
  <2>5. QED
    BY <2>4 DEF Lifecycle!Next
<1>3. CASE StopMcp(a) \/ StopExit(a) \/ StopHookEnds(a) \/ StopPort(a)
  <2>1. pc[a] \in StopSteps /\ Phases[a] = "down"
    BY <1>3, StopMoves, PhaseOf
  <2>2. mutations[a] \in {"stop", "restart"}
    BY <1>1, <2>1 DEF AppInv, StepInv
  <2>3. CASE GoesOn(a, StopSteps \cap Below(pc[a]))
    <3>1. Phases'[a] = "down" /\ Reported'[a] = Reported[a] /\ mutations'[a] = mutations[a]
      BY <2>3, NextPhaseOf, Views DEF GoesOn
    <3>2. QED
      BY <1>1, <2>1, <3>1, SameSeen
  <2>4. CASE Concludes(a)
    <3>1. Reported'[a] \in {"stopped", "errored"}
      BY <2>4, Views DEF Concludes
    <3>2. CASE pc'[a] = "idle" /\ mutations'[a] = None
      <4>1. Phases'[a] = "idle"
        BY <3>2, NextPhaseOf
      <4>2. Lifecycle!EndDown(a, Reported'[a])
        BY <2>1, <2>2, <3>2, <4>1 DEF Lifecycle!EndDown
      <4>3. QED
        BY <3>1, <4>2 DEF Lifecycle!Next
    <3>3. CASE pc'[a] = "start_lookup" /\ mutations[a] = "restart" /\ mutations'[a] = "restart"
      <4>1. Phases'[a] = "port" /\ mutations' = mutations
        BY <1>1, <3>3, NextPhaseOf DEF TypeOK
      <4>2. Lifecycle!Turn(a, Reported'[a])
        BY <2>1, <3>3, <4>1 DEF Lifecycle!Turn
      <4>3. QED
        BY <3>1, <4>2 DEF Lifecycle!Next
    <3>4. QED
      BY <2>4, <3>2, <3>3 DEF Concludes
  <2>5. QED
    BY <1>3, <2>3, <2>4, StopMoves
<1>4. QED
  BY <1>2, <1>3 DEF Stop

LEMMA StartSeen ==
  ASSUME IInv, IInv', LaunchedInv, NEW a \in Apps, Start(a) \/ Cleanup(a),
         mutations' = [mutations EXCEPT ![a] = mutations'[a]],
         Phases' = [Phases EXCEPT ![a] = Phases'[a]],
         Reported' = [Reported EXCEPT ![a] = Reported'[a]]
  PROVE  Lifecycle!Next \/ UNCHANGED <<mutations, Phases, Reported>>
<1>1. TypeOK /\ AppInv(a)
  BY DEF IInv
<1> USE DEF Lifecycle!Moves, Lifecycle!Reports, Lifecycle!Ends
<1>2. ASSUME Phases'[a] = Phases[a], Reported'[a] = Reported[a], mutations'[a] = mutations[a]
      PROVE  UNCHANGED <<mutations, Phases, Reported>>
  BY <1>1, <1>2, SameSeen
<1>3. CASE StartLookup(a) \/ StartProbe(a)
  <2>1. pc[a] \in {"start_lookup", "start_probe"} /\ Phases[a] = "port"
    BY <1>3, PhaseOf DEF StartLookup, StartProbe
  <2>2. mutations[a] # "stop"
    BY <1>1, <2>1 DEF AppInv, StepInv, StopSteps
  <2>3. CASE GoesOn(a, {"start_probe"})
    BY <1>2, <2>1, <2>3, NextPhaseOf, Views DEF GoesOn
  <2>4. CASE Ended(a) /\ \/ runtime'[a] = runtime[a]
                         \/ runtime'[a] # None /\ runtime'[a].status \in {"running", "conflict"}
    <3>1. Phases'[a] = "idle" /\ mutations'[a] = None
      BY <2>4, NextPhaseOf DEF Ended
    <3>2. Reported'[a] \in {Reported[a], "running", "conflict"}
      BY <2>4, Views
    <3>3. Lifecycle!EndPort(a, Reported'[a])
      BY <2>1, <2>2, <3>1, <3>2 DEF Lifecycle!EndPort
    <3>4. QED
      BY <3>2, <3>3 DEF Lifecycle!Next
  <2>5. CASE /\ pc'[a] \in {"start_hook", "start_external", "start_mcp"}
             /\ mutations'[a] = mutations[a]
             /\ runtime'[a] # None /\ runtime'[a].status = "starting"
    <3>1. mutations' = mutations
      BY <1>1, <2>5, SameSeen
    <3>2. Phases'[a] = "launch" /\ Reported'[a] = "starting" /\ mutations' = mutations
      BY <2>5, <3>1, NextPhaseOf, Views DEF Launching
    <3>3. Lifecycle!Launch(a)
      BY <2>1, <2>2, <3>2 DEF Lifecycle!Launch
    <3>4. QED
      BY <3>3 DEF Lifecycle!Next
  <2>6. QED
    BY <1>3, <2>3, <2>4, <2>5, PortMoves
<1>4. CASE StartHook(a) \/ StartExternal(a) \/ StartMcp(a) \/ StartHealth(a) \/ Cleanup(a)
  <2>1. /\ pc[a] \in Launching /\ Phases[a] = "launch" /\ runtime[a] # None
        /\ Reported[a] = runtime[a].status /\ Reported'[a] = runtime'[a].status
    BY <1>4, LaunchingMoves, PhaseOf, Views
  <2>2. CASE /\ pc'[a] \in Launching \cap Below(pc[a]) /\ mutations'[a] = mutations[a]
             /\ runtime'[a].status = runtime[a].status
    BY <1>2, <2>1, <2>2, NextPhaseOf
  <2>3. CASE /\ pc'[a] \in Launching \cap Below(pc[a]) /\ mutations'[a] = mutations[a]
             /\ pc[a] \in {"start_mcp", "start_health"} /\ runtime'[a].status = "errored"
    <3>1. Reported[a] \in {"starting", "stopped", "errored"}
      BY <2>1, <2>3 DEF LaunchedInv
    <3>2. Phases'[a] = "launch" /\ Reported'[a] = "errored"
      BY <2>1, <2>3, NextPhaseOf
    <3>3. CASE Reported[a] = "errored"
      BY <1>2, <2>1, <2>3, <3>2, <3>3
    <3>4. CASE Reported[a] \in {"starting", "stopped"}
      <4>1. Phases' = Phases /\ mutations' = mutations
        BY <1>1, <2>1, <2>3, <3>2, SameSeen
      <4>2. Lifecycle!Fail(a)
        BY <2>1, <3>2, <3>4, <4>1 DEF Lifecycle!Fail
      <4>3. QED
        BY <4>2 DEF Lifecycle!Next
    <3>5. QED
      BY <3>1, <3>3, <3>4
  <2>4. CASE Ended(a) /\ runtime'[a].status \in {"running", "errored"}
    <3>1. Phases'[a] = "idle" /\ mutations'[a] = None
      BY <2>4, NextPhaseOf DEF Ended
    <3>2. Lifecycle!EndLaunch(a, Reported'[a])
      BY <2>1, <3>1 DEF Lifecycle!EndLaunch
    <3>3. QED
      BY <2>1, <2>4, <3>2 DEF Lifecycle!Next
  <2>5. QED
    BY <1>4, <2>2, <2>3, <2>4, LaunchingMoves
<1>5. QED
  BY <1>3, <1>4 DEF Start

LEMMA StepSeen ==
  ASSUME IInv, IInv', LaunchedInv, [Next]_vars
  PROVE  Lifecycle!Next \/ UNCHANGED <<mutations, Phases, Reported>>
<1>1. TypeOK /\ TypeOK'
  BY DEF IInv
<1>2. ASSUME NEW a \in Apps, NEW action \in Actions, RequestBlocked(a, action)
      PROVE  UNCHANGED <<mutations, Phases, Reported>>
  <2>1. /\ runtime[a] # None /\ runtime'[a] # None /\ runtime'[a].status = runtime[a].status
        /\ \A b \in Apps \ {a} : runtime'[b] = runtime[b]
    <3>1. /\ runtime[a] \in Entry /\ runtime'[a] = [runtime[a] EXCEPT !.blocked = TRUE]
          /\ \A b \in Apps \ {a} : runtime'[b] = runtime[b]
      BY <1>1, <1>2 DEF RequestBlocked, TypeOK
    <3>2. runtime'[a] \in Entry /\ runtime'[a].status = runtime[a].status
      BY <3>1 DEF Entry
    <3>3. QED
      BY <3>1, <3>2, <1>2, NoneAssumption DEF RequestBlocked
  <2>2. pc' = pc /\ mutations' = mutations
    BY <1>2 DEF RequestBlocked
  <2>3. QED
    BY <2>1, <2>2, Views DEF Phase
<1>3. ASSUME NEW a \in Apps, Mutation(a)
      PROVE  Lifecycle!Next \/ UNCHANGED <<mutations, Phases, Reported>>
  <2>1. \A b \in Apps \ {a} : /\ pc'[b] = pc[b] /\ mutations'[b] = mutations[b]
                              /\ runtime'[b] = runtime[b]
    BY <1>1, <1>3, OthersAtTheirSteps, OthersUndisturbed
  <2>2. /\ mutations' = [mutations EXCEPT ![a] = mutations'[a]]
        /\ Phases' = [Phases EXCEPT ![a] = Phases'[a]]
        /\ Reported' = [Reported EXCEPT ![a] = Reported'[a]]
    BY <1>1, <2>1, OneAppSeen
  <2>3. QED
    BY <1>3, <2>2, StopSeen, StartSeen DEF Mutation
<1>4. CASE \/ \E a \in Apps : Abort(a)
           \/ \E p \in Procs : Listen(p)
           \/ \E q \in Ports : ForeignListen(q) \/ Unlisten(q)
           \/ UNCHANGED vars
  <2>1. UNCHANGED <<mutations, pc, runtime>>
    BY <1>4 DEF Abort, Listen, ForeignListen, Unlisten, vars
  <2>2. QED
    BY <2>1, Views DEF Phase
<1>5. QED
  BY <1>2, <1>3, <1>4, RequestSeen, ExitSeenAsFall DEF Next

\* A launch that waits has not been reported running yet.
LEMMA LaunchedStep ==
  ASSUME IInv, IInv', LaunchedInv, [Next]_vars
  PROVE  LaunchedInv'
<1> SUFFICES ASSUME NEW a \in Apps, pc'[a] \in {"start_mcp", "start_health"}
             PROVE  runtime'[a].status \in {"starting", "stopped", "errored"}
  BY DEF LaunchedInv
<1>1. TypeOK /\ AppInv(a)
  BY DEF IInv
<1>2. CASE pc'[a] = pc[a] /\ runtime'[a] = runtime[a]
  BY <1>2 DEF LaunchedInv
<1>3. ASSUME NEW b \in Apps, NEW action \in Actions, Request(b, action)
      PROVE  pc'[a] = pc[a] /\ runtime'[a] = runtime[a]
  BY <1>1, <1>3 DEF Request, TypeOK
<1>4. ASSUME NEW b \in Apps, NEW action \in Actions, RequestBlocked(b, action)
      PROVE  runtime'[a].status \in {"starting", "stopped", "errored"}
  <2>1. pc' = pc /\ runtime'[a].status = runtime[a].status
    BY <1>1, <1>4 DEF RequestBlocked, TypeOK, Entry
  <2>2. QED
    BY <2>1 DEF LaunchedInv
<1>5. ASSUME NEW p \in Procs, NEW how \in ProcState, Exit(p, how)
      PROVE  runtime'[a].status \in {"starting", "stopped", "errored"}
  <2>1. pc' = pc /\ runtime[a].status \in {"starting", "stopped", "errored"}
    BY <1>5 DEF Exit, LaunchedInv
  <2>2. CASE runtime' = runtime
    BY <2>1, <2>2
  <2>3. CASE runtime' # runtime
    <3>1. \/ runtime'[a] = runtime[a]
          \/ /\ HasChild(a)
             /\ runtime'[a] = [runtime[a] EXCEPT !.status = AfterExit(runtime[a].status, how)]
      BY <1>1, <1>5 DEF Exit, TypeOK, HasChild
    <3>2. AfterExit(runtime[a].status, how) \in {"stopped", "errored"}
      BY <2>1 DEF AfterExit
    <3>3. runtime[a] \in Entry \/ runtime[a] = None
      BY <1>1 DEF TypeOK
    <3>4. QED
      BY <2>1, <3>1, <3>2, <3>3, StatusOnly DEF RuntimeStatus, HasChild
  <2>4. QED
    BY <2>2, <2>3
<1>6. ASSUME NEW b \in Apps \ {a}, Mutation(b)
      PROVE  pc'[a] = pc[a] /\ runtime'[a] = runtime[a]
  BY <1>1, <1>6, OthersAtTheirSteps, OthersUndisturbed
<1>7. CASE Start(a) \/ Cleanup(a)
  <2>1. CASE StartLookup(a) \/ StartProbe(a)
    BY <2>1, PortMoves DEF GoesOn, Ended
  <2>2. CASE StartExternal(a)
    BY <1>1, <2>2, DoneEffect DEF StartExternal
  <2>3. CASE StartHook(a) \/ StartMcp(a) \/ StartHealth(a) \/ Cleanup(a)
    <3>1. runtime[a].status \in {"starting", "stopped", "errored"}
      <4>1. pc[a] \in Launching /\ pc'[a] \in Below(pc[a]) /\ pc[a] # "start_external"
        BY <2>3, LaunchingMoves
        DEF Ended, StartHook, StartMcp, StartHealth, Cleanup, CleanupMcp, CleanupExit,
            CleanupHook, CleanupPort
      <4>2. pc[a] \in {"start_hook", "start_mcp", "start_health"}
        <5>1. pc[a] \notin CleanupSteps
          BY <4>1 DEF Below, Rank, CleanupSteps
        <5>2. QED
          BY <4>1, <5>1 DEF Launching
      <4>3. QED
        BY <1>1, <4>2 DEF LaunchedInv, AppInv, EntryInv
    <3>2. QED
      BY <2>3, <3>1, LaunchingMoves DEF Ended
  <2>4. QED
    BY <1>7, <2>1, <2>2, <2>3 DEF Start
<1>8. CASE Stop(a)
  <2>1. pc'[a] \in StopSteps \cup {"idle", "start_lookup"}
    <3>1. CASE StopLookup(a)
      BY <1>1, <3>1, GotoEffect DEF StopLookup, Steps, StopSteps
    <3>2. CASE StopMcp(a) \/ StopExit(a) \/ StopHookEnds(a) \/ StopPort(a)
      BY <3>2, StopMoves DEF GoesOn, Concludes
    <3>3. QED
      BY <1>8, <3>1, <3>2 DEF Stop
  <2>2. QED
    BY <2>1 DEF StopSteps
<1>9. CASE \/ \E b \in Apps : Abort(b)
           \/ \E p \in Procs : Listen(p)
           \/ \E q \in Ports : ForeignListen(q) \/ Unlisten(q)
           \/ UNCHANGED vars
  BY <1>2, <1>9 DEF Abort, Listen, ForeignListen, Unlisten, vars
<1>10. QED
  BY <1>2, <1>3, <1>4, <1>5, <1>6, <1>7, <1>8, <1>9 DEF Next, Mutation

\* While an app is launched nothing but the exit of its child changes what the launch
\* reported.
THEOREM LaunchesReportLast == Spec => []LaunchedInv
<1>1. Init => LaunchedInv
  BY DEF Init, LaunchedInv
<1>2. IInv /\ IInv' /\ LaunchedInv /\ [Next]_vars => LaunchedInv'
  BY LaunchedStep
<1>3. QED
  BY <1>1, <1>2, Invariance, PTL DEF Spec

\* Whatever is requested, aborted, fails or exits meanwhile, start, stop and restart take
\* their parts in order and report what AppLifecycle promises.
THEOREM LifecycleKept == Spec => ImplementsLifecycle
<1>1. Init => Lifecycle!Init
  <2> SUFFICES ASSUME Init PROVE Lifecycle!Init
    OBVIOUS
  <2>1. \A a \in Apps : pc[a] = "idle" /\ runtime[a] = None
    BY DEF Init
  <2>2. \A a \in Apps : Phases[a] = "idle"
    BY <2>1, PhaseOf
  <2>3. QED
    BY <2>1, <2>2, Views DEF Init, Lifecycle!Init
<1>2. IInv /\ IInv' /\ LaunchedInv /\ [Next]_vars =>
        [Lifecycle!Next]_<<mutations, Phases, Reported>>
  BY StepSeen
<1>3. QED
  BY <1>1, <1>2, Invariance, LaunchesReportLast, PTL
  DEF Spec, ImplementsLifecycle, Lifecycle!Spec

\* An app is reported starting or stopping only while an action of its own is at the part
\* of it that the status names.
THEOREM StatusIsTold == Spec => []Lifecycle!StatusTellsPhase
<1> USE DEF Lifecycle!StatusTellsPhase
<1>1. Lifecycle!Init => Lifecycle!StatusTellsPhase
  BY DEF Lifecycle!Init
<1>2. ASSUME IInv, Lifecycle!StatusTellsPhase,
             [Lifecycle!Next]_<<mutations, Phases, Reported>>
      PROVE  Lifecycle!StatusTellsPhase'
  <2>0. DOMAIN mutations = Apps /\ DOMAIN Phases = Apps /\ DOMAIN Reported = Apps
        /\ mutations = [a \in Apps |-> mutations[a]]
    BY <1>2, Views DEF IInv, TypeOK
  <2>1. CASE UNCHANGED <<mutations, Phases, Reported>>
    BY <1>2, <2>1
  <2>2. ASSUME NEW a \in Apps, NEW action \in Lifecycle!Actions, Lifecycle!Begin(a, action)
        PROVE  Lifecycle!StatusTellsPhase'
    BY <1>2, <2>0, <2>2, NoneAssumption DEF Lifecycle!Begin, Lifecycle!Actions, Actions
  <2>3. ASSUME NEW a \in Apps, Lifecycle!TakeDown(a) \/ Lifecycle!Launch(a) \/ Lifecycle!Fail(a)
        PROVE  Lifecycle!StatusTellsPhase'
    BY <1>2, <2>0, <2>3
    DEF Lifecycle!TakeDown, Lifecycle!Launch, Lifecycle!Fail, Lifecycle!Moves, Lifecycle!Reports
  <2>4. ASSUME NEW a \in Apps, NEW verdict \in {"stopped", "errored"},
               Lifecycle!EndDown(a, verdict) \/ Lifecycle!Turn(a, verdict)
               \/ Lifecycle!Fall(a, verdict)
        PROVE  Lifecycle!StatusTellsPhase'
    BY <1>2, <2>0, <2>4
    DEF Lifecycle!EndDown, Lifecycle!Turn, Lifecycle!Fall, Lifecycle!Ends, Lifecycle!Moves,
        Lifecycle!Reports
  <2>5. ASSUME NEW a \in Apps, NEW state \in {Reported[a], "running", "conflict"},
               Lifecycle!EndPort(a, state)
        PROVE  Lifecycle!StatusTellsPhase'
    BY <1>2, <2>0, <2>5
    DEF Lifecycle!EndPort, Lifecycle!Ends, Lifecycle!Moves, Lifecycle!Reports
  <2>6. ASSUME NEW a \in Apps, NEW verdict \in {"running", "errored"},
               Lifecycle!EndLaunch(a, verdict)
        PROVE  Lifecycle!StatusTellsPhase'
    BY <1>2, <2>0, <2>6 DEF Lifecycle!EndLaunch, Lifecycle!Ends, Lifecycle!Moves, Lifecycle!Reports
  <2>7. QED
    BY <1>2, <2>1, <2>2, <2>3, <2>4, <2>5, <2>6 DEF Lifecycle!Next
<1>3. QED
  BY <1>1, <1>2, LifecycleKept, Invariance, PTL DEF ImplementsLifecycle, Lifecycle!Spec

=====================================================================================
