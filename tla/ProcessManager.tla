--------------------------- MODULE ProcessManager ---------------------------
(***************************************************************************)
(* The daemon's process manager (processManager.ts): start, stop and       *)
(* restart of registered apps, the ports it hands out, and the processes,  *)
(* exit events and listening sockets of the machine it runs on.            *)
(*                                                                         *)
(* One step of a start or a stop is the synchronous code between two       *)
(* awaits; `pc` names the await it is at.  Between the steps of one app    *)
(* run those of the others, exit events, and the rest of the machine.      *)
(***************************************************************************)
EXTENDS Naturals, FiniteSets

CONSTANTS
  Apps,         \* registered application ids
  Ports,        \* TCP ports
  PortRange,    \* the ports portRangeStart .. portRangeEnd
  UpstreamPort, \* app -> its fixed upstreamPort, or None
  External,     \* apps whose launch plan says port ownership is external
  PreStart,     \* apps with a preStartCommand
  StopCommand,  \* apps with a stopCommand
  VerifyCommand, \* apps with a verifyStoppedCommand
  Windows,      \* process.platform === "win32"
  Procs,        \* bound: the child processes ever spawned
  ForeignPorts, \* bound: the ports some unrelated program may listen on
  Foreign,      \* such a program
  None

ASSUME PortAssumption ==
  /\ Ports \subseteq Nat /\ PortRange \subseteq Ports /\ ForeignPorts \subseteq Ports
  /\ UpstreamPort \in [Apps -> Ports \cup {None}]
  /\ None \notin Ports
ASSUME ProcAssumption ==
  /\ External \cup PreStart \cup StopCommand \cup VerifyCommand \subseteq Apps
  /\ None \notin Apps \cup Procs /\ Foreign \notin Procs \cup {None}
  /\ Windows \in BOOLEAN

VARIABLES
  mutations,        \* #mutations: the action in progress for an app
  pc,               \* the await that action is at
  probe,            \* the port #assignPort is probing
  aborted,          \* options.signal of the action was aborted
  runtime,          \* #runtime: the entry of an app
  portReservations, \* #portReservations
  procs,            \* state of each child process, as Node shows it
  origin,           \* the app and the port a child was spawned for
  listener          \* what accepts connections on a port

vars == <<mutations, pc, probe, aborted, runtime, portReservations, procs,
          origin, listener>>
machine == <<procs, origin, listener>>

Actions == {"start", "stop", "restart"}
RuntimeStatus == {"starting", "running", "stopping", "stopped", "errored", "conflict"}
StartSteps == {"start_lookup", "start_probe", "start_hook", "start_external",
               "start_mcp", "start_health"}
CleanupSteps == {"cleanup_mcp", "cleanup_exit", "cleanup_hook", "cleanup_port"}
StopSteps == {"stop_mcp", "stop_exit", "stop_hook", "stop_verify", "stop_port",
              "stop_port_failed", "stop_recheck"}
Steps == {"idle", "stop_lookup"} \cup StartSteps \cup CleanupSteps \cup StopSteps

\* "dying": killed, its exit event not delivered yet. "signalled": dead by a
\* signal, which leaves exitCode null.
ProcState == {"unused", "alive", "dying", "exit0", "exitN", "signalled"}

Entry == [status : RuntimeStatus, port : Ports \cup {None},
          child : Procs \cup {None},
          watched : BOOLEAN,                    \* exit handler attached
          blocked : BOOLEAN]                    \* blockingReason "<action>_in_progress"
Origin == [app : Apps, port : Ports]

ASSUME NoneAssumption == None \notin Actions \cup Entry \cup Origin

NewEntry(state, port) ==
  [status |-> state, port |-> port, child |-> None, watched |-> FALSE, blocked |-> FALSE]

\* child.exitCode !== null
HasExitCode(p) == procs[p] \in {"exit0", "exitN"}
HasChild(a) == runtime[a] # None /\ runtime[a].child # None
ChildRuns(a) == HasChild(a) /\ ~HasExitCode(runtime[a].child)

-----------------------------------------------------------------------------
Init ==
  /\ mutations = [a \in Apps |-> None]
  /\ pc = [a \in Apps |-> "idle"]
  /\ probe = [a \in Apps |-> None]
  /\ aborted = [a \in Apps |-> FALSE]
  /\ runtime = [a \in Apps |-> None]
  /\ portReservations = [q \in Ports |-> None]
  /\ procs = [p \in Procs |-> "unused"]
  /\ origin = [p \in Procs |-> None]
  /\ listener = [q \in Ports |-> None]

Goto(a, step) == pc' = [pc EXCEPT ![a] = step] /\ UNCHANGED <<mutations, aborted>>

\* The promise of the action settles; its .finally removes it.
Done(a) ==
  /\ pc' = [pc EXCEPT ![a] = "idle"]
  /\ mutations' = [mutations EXCEPT ![a] = None]
  /\ aborted' = [aborted EXCEPT ![a] = FALSE]

\* #stopLocked returned. A restart goes on, unless it was aborted meanwhile.
StopDone(a) ==
  IF mutations[a] = "restart" /\ ~aborted[a] THEN Goto(a, "start_lookup") ELSE Done(a)

SetStatus(a, state) == runtime' = [runtime EXCEPT ![a].status = state]

\* The bound Procs: room for one more spawn than those already under way.
WillSpawn == {a \in Apps \ External :
                /\ mutations[a] \in {"start", "restart"}
                /\ pc[a] \notin CleanupSteps \cup {"start_mcp", "start_health"}}
MaySpawn == Cardinality({p \in Procs : procs[p] = "unused"}) > Cardinality(WillSpawn)

\* start, stop or restart of an app that has no action in progress. A repeated
\* request shares the promise of the action and changes nothing.
Request(a, action) ==
  /\ mutations[a] = None
  /\ action = "stop" \/ a \in External \/ MaySpawn
  /\ mutations' = [mutations EXCEPT ![a] = action]
  /\ pc' = [pc EXCEPT ![a] = IF action = "start" THEN "start_lookup" ELSE "stop_lookup"]
  /\ UNCHANGED <<probe, aborted, runtime, portReservations, machine>>

\* A different action is in progress: the entry is marked and returned as it is.
RequestBlocked(a, action) ==
  /\ mutations[a] \notin {None, action}
  /\ runtime[a] # None
  /\ runtime' = [runtime EXCEPT ![a].blocked = TRUE]
  /\ UNCHANGED <<mutations, pc, probe, aborted, portReservations, machine>>

\* The daemon shuts down: the store of operations aborts the action's signal.
Abort(a) ==
  /\ mutations[a] # None
  /\ aborted' = [aborted EXCEPT ![a] = TRUE]
  /\ UNCHANGED <<mutations, pc, probe, runtime, portReservations, machine>>

-----------------------------------------------------------------------------
(* Ports: #assignPort and the reservations.                                 *)

NoneReleased(a) == portReservations
StillReserved(a, port) == portReservations

\* #releaseAppPortReservations, and #releasePortReservation of one port.
AllReleased(a) ==
  [q \in Ports |-> IF portReservations[q] = a THEN None ELSE portReservations[q]]
Released(a, port) ==
  [q \in Ports |-> IF q = port /\ portReservations[q] = a THEN None
                   ELSE portReservations[q]]

\* The ports an app may get, those reserved by another app left out.
PortChoices(a) ==
  {q \in IF UpstreamPort[a] = None THEN PortRange ELSE {UpstreamPort[a]} :
     portReservations[q] \in {None, a}}

RangeAgain(a, q) == IF UpstreamPort[a] = None THEN PortChoices(a) \ {q} ELSE {}

\* Those the loop over the range has not come to yet; a fixed port has no second try.
LaterChoices(a, q) ==
  IF UpstreamPort[a] = None THEN {r \in PortChoices(a) : r > q} ELSE {}

\* Probe the first choice. Without one, a fixed port is a conflict, and the end
\* of the range an exception that leaves the entry as it was.
TryPort(a, choices) ==
  IF choices # {}
    THEN /\ \E q \in choices :
              /\ \A r \in choices : q <= r
              /\ probe' = [probe EXCEPT ![a] = q]
         /\ Goto(a, "start_probe")
         /\ UNCHANGED runtime
    ELSE /\ runtime' = IF UpstreamPort[a] = None THEN runtime
                       ELSE [runtime EXCEPT ![a] = NewEntry("conflict", None)]
         /\ probe' = [probe EXCEPT ![a] = None]
         /\ Done(a)

-----------------------------------------------------------------------------
(* #startLocked                                                             *)

\* The registry answered. An app whose child has no exit code and a port is
\* reported running; any other drops its reservations and looks for a port.
StartLookup(a) ==
  /\ pc[a] = "start_lookup"
  /\ IF ChildRuns(a) /\ runtime[a].port # None
       THEN /\ SetStatus(a, "running")
            /\ Done(a)
            /\ UNCHANGED <<probe, portReservations>>
       ELSE /\ portReservations' = AllReleased(a)
            /\ TryPort(a, PortChoices(a))
  /\ UNCHANGED machine

\* spawn, or nothing to spawn for an external app. `entry` is the new entry.
Launch(a, entry) ==
  IF a \in External
    THEN /\ runtime' = [runtime EXCEPT ![a] = entry]
         /\ Goto(a, "start_external")
         /\ UNCHANGED <<procs, origin>>
    ELSE \E p \in Procs :
           /\ procs[p] = "unused"
           /\ procs' = [procs EXCEPT ![p] = "alive"]
           /\ origin' = [origin EXCEPT ![p] = [app |-> a, port |-> entry.port]]
           /\ runtime' = [runtime EXCEPT ![a] = [entry EXCEPT !.child = p]]
           /\ Goto(a, "start_mcp")

\* The probe ended. A probe of the range listens on the port for a moment, so
\* that two of them can see each other. The reservation is not looked at again.
StartProbe(a) ==
  /\ pc[a] = "start_probe"
  /\ LET q == probe[a]
         contended == \E b \in Apps \ {a} : probe[b] = q /\ UpstreamPort[b] = None
     IN  \/ /\ listener[q] # None \/ contended
            /\ TryPort(a, LaterChoices(a, q))
            /\ UNCHANGED <<portReservations, procs, origin>>
         \/ /\ listener[q] = None
            /\ portReservations' = [portReservations EXCEPT ![q] = a]
            /\ probe' = [probe EXCEPT ![a] = None]
            /\ IF a \in PreStart
                 THEN /\ runtime' = [runtime EXCEPT ![a] = NewEntry("starting", q)]
                      /\ Goto(a, "start_hook")
                      /\ UNCHANGED <<procs, origin>>
                 ELSE Launch(a, NewEntry("starting", q))
  /\ UNCHANGED listener

\* preStartCommand ended or timed out.
CancelledAsIs(a) == runtime' = [runtime EXCEPT ![a].port = None]
Cancelled(a) == runtime' = [runtime EXCEPT ![a].status = "errored", ![a].port = None]

StartHook(a) ==
  /\ pc[a] = "start_hook"
  /\ \/ /\ aborted[a]
        /\ Cancelled(a)
        /\ portReservations' = Released(a, runtime[a].port)
        /\ Done(a)
        /\ UNCHANGED <<procs, origin>>
     \/ /\ ~aborted[a]
        /\ SetStatus(a, "errored")
        /\ Done(a)
        /\ UNCHANGED <<portReservations, procs, origin>>
     \/ /\ ~aborted[a]
        /\ Launch(a, runtime[a])
        /\ UNCHANGED portReservations
  /\ UNCHANGED <<probe, listener>>

\* The single health check of an external app; a silent listener fails it.
StartExternal(a) ==
  /\ pc[a] = "start_external"
  /\ \E healthy \in {FALSE} \cup {listener[runtime[a].port] # None} :
       SetStatus(a, IF healthy THEN "running" ELSE "errored")
  /\ Done(a)
  /\ UNCHANGED <<probe, portReservations, machine>>

\* The child MCP servers are up: cancel, or attach the handlers and wait.
StartMcp(a) ==
  /\ pc[a] = "start_mcp"
  /\ IF aborted[a]
       THEN SetStatus(a, "errored") /\ Goto(a, "cleanup_mcp")
       ELSE runtime' = [runtime EXCEPT ![a].watched = TRUE] /\ Goto(a, "start_health")
  /\ UNCHANGED <<probe, portReservations, machine>>

\* Something answers on the port, and the child has not exited.
PortAnswers(a) == listener[runtime[a].port] # None
BecameHealthy(a) == ~HasExitCode(runtime[a].child) /\ PortAnswers(a)

\* The health wait ended: something answers on the port, or time is up.
StartHealth(a) ==
  /\ pc[a] = "start_health"
  /\ \/ /\ ~aborted[a]
        /\ BecameHealthy(a)
        /\ SetStatus(a, "running")
        /\ Done(a)
     \/ /\ SetStatus(a, "errored")
        /\ Goto(a, "cleanup_mcp")
  /\ UNCHANGED <<probe, portReservations, machine>>

-----------------------------------------------------------------------------
(* #terminateChild and #killPortOwner. On POSIX a SIGTERM is a request that *)
(* the process may answer by any kind of exit, or ignore: it changes        *)
(* nothing here. taskkill /t /f takes the whole tree; that it can fail, and *)
(* that child.kill, which ends the root process only, is then tried, is     *)
(* left out.                                                                *)

WithoutListener(p) == [q \in Ports |-> IF listener[q] = p THEN None ELSE listener[q]]

\* The wait for the exit ended, by the event or after five seconds; nobody looks
\* which. The exit of a process that taskkill killed is reported sooner.
ExitSeen(a) == ~ChildRuns(a)
ExitAwaited(a) == ChildRuns(a) => procs[runtime[a].child] # "dying"

AskChild(p) == UNCHANGED <<procs, origin, listener>>

TerminateChild(p) ==
  /\ IF Windows /\ procs[p] = "alive"
       THEN procs' = [procs EXCEPT ![p] = "dying"] /\ listener' = WithoutListener(p)
       ELSE UNCHANGED <<procs, listener>>
  /\ UNCHANGED origin

\* Whatever listens on the port dies; a root process may outlive a descendant of
\* its own that did the listening.
KillPortOwner(q) ==
  /\ listener' = [listener EXCEPT ![q] = None]
  /\ \/ UNCHANGED procs
     \/ /\ listener[q] \in Procs
        /\ procs[listener[q]] = "alive"
        /\ procs' = [procs EXCEPT ![listener[q]] = "dying"]
  /\ UNCHANGED origin

-----------------------------------------------------------------------------
(* #cleanupAfterFailedStart                                                 *)

CleanupMcp(a) ==
  /\ pc[a] = "cleanup_mcp"
  /\ TerminateChild(runtime[a].child)
  /\ Goto(a, "cleanup_exit")
  /\ UNCHANGED <<probe, runtime, portReservations>>

CleanupExit(a) ==
  /\ pc[a] = "cleanup_exit"
  /\ ExitAwaited(a)
  /\ Goto(a, IF a \in StopCommand THEN "cleanup_hook" ELSE "cleanup_port")
  /\ UNCHANGED <<probe, runtime, portReservations, machine>>

\* stopCommand ended; its failure ends the cleanup.
CleanupHook(a) ==
  /\ pc[a] = "cleanup_hook"
  /\ Goto(a, "cleanup_port") \/ Done(a)
  /\ UNCHANGED <<probe, runtime, portReservations, machine>>

\* The wait for the port to close ended; an open port stays reserved.
CleanupPort(a) ==
  /\ pc[a] = "cleanup_port"
  /\ LET q == runtime[a].port
     IN  IF listener[q] = None
           THEN /\ runtime' = [runtime EXCEPT ![a].port = None]
                /\ portReservations' = Released(a, q)
           ELSE UNCHANGED <<runtime, portReservations>>
  /\ Done(a)
  /\ UNCHANGED <<probe, machine>>

-----------------------------------------------------------------------------
(* #stopLocked and #finalizeStop                                            *)

StopLookup(a) ==
  /\ pc[a] = "stop_lookup"
  /\ runtime' = [runtime EXCEPT ![a] = IF @ = None THEN NewEntry("stopping", None)
                                                   ELSE [@ EXCEPT !.status = "stopping"]]
  /\ Goto(a, "stop_mcp")
  /\ UNCHANGED <<probe, portReservations, machine>>

\* The end of #finalizeStop: errored as it is, or stopped and everything released.
Verdict(a, failed) ==
  /\ IF failed
       THEN SetStatus(a, "errored") /\ UNCHANGED portReservations
       ELSE /\ runtime' = [runtime EXCEPT ![a].status = "stopped", ![a].port = None,
                                          ![a].blocked = FALSE]
            /\ portReservations' = Released(a, runtime[a].port)
  /\ StopDone(a)

Enter(a, step) == Goto(a, step) /\ UNCHANGED <<runtime, portReservations>>

\* The port is checked unless there is none or it belongs to an external app.
OwnsBackendPort(a) == runtime[a].port # None /\ (a \notin External \/ HasChild(a))

NoPortCheck(a, failed) == Verdict(a, failed)
ToPortCheck(a, failed) ==
  IF OwnsBackendPort(a)
    THEN Enter(a, IF failed THEN "stop_port_failed" ELSE "stop_port")
    ELSE Verdict(a, failed)

ToVerify(a) ==
  IF a \in VerifyCommand THEN Enter(a, "stop_verify") ELSE ToPortCheck(a, FALSE)

FinalizeStop(a) ==
  IF a \in StopCommand THEN Enter(a, "stop_hook") ELSE ToVerify(a)

\* The child MCP servers are drained: terminate the child if it still runs.
StopMcp(a) ==
  /\ pc[a] = "stop_mcp"
  /\ IF ChildRuns(a)
       THEN TerminateChild(runtime[a].child) /\ Enter(a, "stop_exit")
       ELSE FinalizeStop(a) /\ UNCHANGED machine
  /\ UNCHANGED probe

StopExit(a) ==
  /\ pc[a] = "stop_exit"
  /\ ExitAwaited(a)
  /\ FinalizeStop(a)
  /\ UNCHANGED <<probe, machine>>

\* stopCommand or verifyStoppedCommand ended, failed or timed out; once the
\* signal is aborted a hook cannot succeed any more.
StopHookEnds(a) ==
  /\ pc[a] \in {"stop_hook", "stop_verify"}
  /\ \/ ToPortCheck(a, TRUE)
     \/ ~aborted[a] /\ IF pc[a] = "stop_hook" THEN ToVerify(a) ELSE ToPortCheck(a, FALSE)
  /\ UNCHANGED <<probe, machine>>

\* The wait for the port to close ended.
StopPort(a) ==
  /\ pc[a] \in {"stop_port", "stop_port_failed", "stop_recheck"}
  /\ LET q == runtime[a].port
         open == listener[q] # None
     IN  IF open /\ pc[a] = "stop_port" /\ Windows /\ a \notin StopCommand
           THEN KillPortOwner(q) /\ Enter(a, "stop_recheck")
           ELSE Verdict(a, open \/ pc[a] = "stop_port_failed") /\ UNCHANGED machine
  /\ UNCHANGED probe

-----------------------------------------------------------------------------
(* The machine                                                              *)

Exits(p) == IF procs[p] = "dying" THEN {"exitN"}
            ELSE IF Windows THEN {"exit0", "exitN"} ELSE {"exit0", "exitN", "signalled"}

AfterExitByCode(status, how) == IF how = "exit0" THEN "stopped" ELSE "errored"

\* The exit handler keeps a verdict and judges by the exit code otherwise.
AfterExit(status, how) ==
  IF status \in {"stopped", "errored"} THEN status
  ELSE IF how = "exit0" THEN "stopped" ELSE "errored"

\* A child exits and its event is delivered; its descendants may go on listening.
\* A spawn that fails is one that exits at once.
Exit(p, how) ==
  /\ procs[p] \in {"alive", "dying"}
  /\ how \in Exits(p)
  /\ procs' = [procs EXCEPT ![p] = how]
  /\ LET a == origin[p].app
     IN  runtime' = IF HasChild(a) /\ runtime[a].child = p /\ runtime[a].watched
                      THEN [runtime EXCEPT ![a].status = AfterExit(@, how)]
                      ELSE runtime
  /\ UNCHANGED <<mutations, pc, probe, aborted, portReservations, origin,
                 listener>>

\* A child listens on the PORT it was given, if it is free.
Listen(p) ==
  /\ procs[p] = "alive"
  /\ listener[origin[p].port] = None
  /\ listener' = [listener EXCEPT ![origin[p].port] = p]
  /\ UNCHANGED <<mutations, pc, probe, aborted, runtime, portReservations, procs, origin>>

ForeignListen(q) ==
  /\ q \in ForeignPorts
  /\ listener[q] = None
  /\ listener' = [listener EXCEPT ![q] = Foreign]
  /\ UNCHANGED <<mutations, pc, probe, aborted, runtime, portReservations, procs, origin>>

\* The listener goes away by itself.
Unlisten(q) ==
  /\ listener[q] # None
  /\ listener' = [listener EXCEPT ![q] = None]
  /\ UNCHANGED <<mutations, pc, probe, aborted, runtime, portReservations, procs, origin>>

-----------------------------------------------------------------------------
Start(a) == \/ StartLookup(a) \/ StartProbe(a) \/ StartHook(a) \/ StartExternal(a)
            \/ StartMcp(a) \/ StartHealth(a)
Cleanup(a) == CleanupMcp(a) \/ CleanupExit(a) \/ CleanupHook(a) \/ CleanupPort(a)
Stop(a) == StopLookup(a) \/ StopMcp(a) \/ StopExit(a) \/ StopHookEnds(a) \/ StopPort(a)
Mutation(a) == Start(a) \/ Cleanup(a) \/ Stop(a)

Next ==
  \/ \E a \in Apps, action \in Actions : Request(a, action) \/ RequestBlocked(a, action)
  \/ \E a \in Apps : Abort(a) \/ Mutation(a)
  \/ \E p \in Procs, how \in ProcState : Exit(p, how)
  \/ \E p \in Procs : Listen(p)
  \/ \E q \in Ports : ForeignListen(q) \/ Unlisten(q)

Spec == Init /\ [][Next]_vars

\* Every await of a mutation ends: probes, health checks, drains and port waits
\* have timeouts, #terminateChild gives up after five seconds, and a hook that
\* outlives its timeout is killed (on POSIX it is assumed to obey SIGTERM). What
\* taskkill killed exits.
Fairness ==
  /\ \A a \in Apps : WF_vars(Mutation(a))
  /\ \A p \in Procs : WF_vars(procs[p] = "dying" /\ Exit(p, "exitN"))

FairSpec == Spec /\ Fairness

-----------------------------------------------------------------------------
(* Properties                                                              *)

\* Every variable holds a value the code can put there.
TypeOK ==
  /\ mutations \in [Apps -> Actions \cup {None}]
  /\ pc \in [Apps -> Steps]
  /\ probe \in [Apps -> Ports \cup {None}]
  /\ aborted \in [Apps -> BOOLEAN]
  /\ runtime \in [Apps -> Entry \cup {None}]
  /\ portReservations \in [Ports -> Apps \cup {None}]
  /\ procs \in [Procs -> ProcState]
  /\ origin \in [Procs -> Origin \cup {None}]
  /\ listener \in [Ports -> Procs \cup {Foreign, None}]

\* A reserved port is the assigned port of its owner's entry, so that the next
\* stop or start of that app can give it back: no path of a failed, cancelled or
\* aborted start leaks a reservation.
ReservationsHaveOwners ==
  \A q \in Ports : portReservations[q] # None =>
    /\ runtime[portReservations[q]] # None
    /\ runtime[portReservations[q]].port = q

\* An app that no action is working on is in a settled state: no exception, abort
\* or early return leaves it starting or stopping for good.
IdleIsSettled ==
  \A a \in Apps : mutations[a] = None /\ runtime[a] # None =>
                    runtime[a].status \notin {"starting", "stopping"}

\* An app reported running has a child that runs, unless it is external.
RunningHasProcess ==
  \A a \in Apps \ External : runtime[a] # None /\ runtime[a].status = "running" =>
                               ChildRuns(a) /\ procs[runtime[a].child] # "signalled"

\* A child process that runs is the one its app's entry names, so that stop and
\* shutdownOwnedApps still reach it.
ChildrenAreReachable ==
  \A p \in Procs : procs[p] = "alive" =>
    runtime[origin[p].app] # None /\ runtime[origin[p].app].child = p

\* Between two actions an app's status only changes from running, by the exit of
\* its child: a late exit event never overturns the verdict of a stop or of a
\* failed start.
VerdictsStand ==
  [][\A a \in Apps :
       mutations[a] = None /\ mutations'[a] = None /\ runtime'[a] # runtime[a] =>
         runtime[a].status = "running" /\ runtime'[a].status \in {"stopped", "errored"}]_vars

\* A stop that reports stopped leaves no listener on the port it owned and no
\* reservation behind (docs/app-state.md:206).
StopIsVerified ==
  [][\A a \in Apps :
       mutations[a] = "stop" /\ mutations'[a] = None /\ runtime'[a].status = "stopped" =>
         /\ \A q \in Ports : portReservations'[q] # a
         /\ OwnsBackendPort(a) => listener'[runtime[a].port] = None]_vars

\* A stop, a start or a cleanup of an app takes down no listener but those of the
\* processes spawned for that app (docs/cli.md:187).
OthersAreSpared ==
  [][\A a \in Apps, q \in Ports :
       pc'[a] # pc[a] /\ listener[q] # None /\ listener'[q] # listener[q] =>
         listener[q] \in Procs /\ origin[listener[q]].app = a]_vars

\* An app becomes running only while something answers on its port: health comes
\* first (docs/architecture.md:87).
RunningAfterHealth ==
  [][\A a \in Apps :
       runtime'[a] # None /\ runtime'[a].status = "running"
       /\ (runtime[a] = None \/ runtime[a].status # "running") =>
         listener[runtime'[a].port] # None]_vars

\* While a stop is under way the app is not reported stopped: that waits for the
\* hooks and the port (docs/architecture.md:98).
StoppedOnlyAtTheEnd ==
  \A a \in Apps : pc[a] \in StopSteps => runtime[a].status # "stopped"

\* Every start, stop or restart ends, so the app accepts the next one.
MutationsEnd == \A a \in Apps : mutations[a] # None ~> mutations[a] = None
-----------------------------------------------------------------------------
(* The contract of AppLifecycle                                             *)

Phase(a) == CASE pc[a] = "idle" -> "idle"
              [] pc[a] = "stop_lookup" -> "asked"
              [] pc[a] \in StopSteps -> "down"
              [] pc[a] \in {"start_lookup", "start_probe"} -> "port"
              [] OTHER -> "launch"
Phases == [a \in Apps |-> Phase(a)]
Reported == [a \in Apps |-> IF runtime[a] = None THEN "none" ELSE runtime[a].status]

Lifecycle == INSTANCE AppLifecycle WITH doing <- mutations, phase <- Phases, status <- Reported

\* Start, stop and restart, with their hooks, waits, aborts, failures and the exits of
\* children in between, are what AppLifecycle promises.
ImplementsLifecycle == Lifecycle!Spec

\* The order of the awaits of an action (docs/architecture.md:87-105), the last one first.
Rank(step) ==
  CASE step = "idle" -> 0
    [] step = "cleanup_port" -> 1
    [] step = "cleanup_hook" -> 2
    [] step = "cleanup_exit" -> 3
    [] step = "cleanup_mcp" -> 4
    [] step = "start_health" -> 5
    [] step \in {"start_mcp", "start_external"} -> 6
    [] step = "start_hook" -> 7
    [] step = "start_probe" -> 8
    [] step = "start_lookup" -> 9
    [] step = "stop_recheck" -> 10
    [] step \in {"stop_port", "stop_port_failed"} -> 11
    [] step = "stop_verify" -> 12
    [] step = "stop_hook" -> 13
    [] step = "stop_exit" -> 14
    [] step = "stop_mcp" -> 15
    [] step = "stop_lookup" -> 16

\* An action only moves on: no await is returned to, and a port is probed again only
\* for a higher one. So it ends after a number of awaits that the ports of the range
\* bound, if each of them ends.
ActionsMoveOn ==
  [][\A a \in Apps :
       /\ pc[a] # "idle" /\ pc'[a] # pc[a] => Rank(pc'[a]) < Rank(pc[a])
       /\ pc[a] = "start_probe" /\ pc'[a] = "start_probe" /\ probe'[a] # probe[a] =>
            probe[a] < probe'[a]]_vars

-----------------------------------------------------------------------------
(* The inductive invariant, for the proofs                                  *)

\* An app has an action in progress exactly while that is at some await, and a stop,
\* or the first half of a restart, only visits the steps of a stop.
StepInv(a) ==
  LET stopping == pc[a] \in StopSteps \cup {"stop_lookup"}
  IN  /\ mutations[a] = None <=> pc[a] = "idle"
      /\ stopping => mutations[a] \in {"stop", "restart"}
      /\ mutations[a] = "stop" => stopping

HasPort(a) == runtime[a] # None /\ runtime[a].port # None

\* What the steps find in the entry.
EntryInv(a) ==
  /\ pc[a] = "start_probe" => probe[a] # None
  /\ pc[a] \in CleanupSteps \cup {"start_hook", "start_external", "start_mcp", "start_health",
                                  "stop_port", "stop_port_failed", "stop_recheck"} => HasPort(a)
  /\ pc[a] \in CleanupSteps \cup {"start_mcp", "start_health", "stop_exit"} => HasChild(a)
  /\ pc[a] \in StopSteps => runtime[a] # None
  /\ pc[a] = "start_hook" => runtime[a].status = "starting" /\ ~HasChild(a)
  /\ pc[a] = "start_external" => a \in External

\* An entry that no action has taken up yet is settled, and a conflict has no child.
StatusInv(a) ==
  /\ pc[a] \in {"idle", "start_lookup", "start_probe", "stop_lookup"} /\ runtime[a] # None =>
       runtime[a].status \notin {"starting", "stopping"}
  /\ pc[a] \in CleanupSteps => runtime[a].status = "errored"
  /\ HasChild(a) => runtime[a].status # "conflict"

\* What an app has reserved is its port, and nothing while it looks for one.
ReservedInv(a) ==
  \A q \in Ports : portReservations[q] = a => HasPort(a) /\ runtime[a].port = q
                                              /\ pc[a] # "start_probe"

\* An app's child was spawned for it.
ChildInv(a) ==
  HasChild(a) => LET p == runtime[a].child
                 IN  /\ a \notin External
                     /\ procs[p] # "unused" /\ origin[p] # None /\ origin[p].app = a

\* Where taskkill leaves no survivor and no exit code is missing: a child that has not
\* exited belongs to a start or a stop that has not got past it yet, or to an app
\* that is running.
WindowsInv(a) ==
  /\ ChildRuns(a) => \/ pc[a] \in {"start_mcp", "start_health", "cleanup_mcp", "cleanup_exit",
                                   "stop_mcp", "stop_exit"}
                     \/ /\ pc[a] \in {"idle", "start_lookup", "stop_lookup"}
                        /\ runtime[a].status = "running" /\ HasPort(a)
  /\ pc[a] \in {"cleanup_exit", "stop_exit"} => procs[runtime[a].child] # "alive"
  /\ pc[a] = "start_health" => runtime[a].watched
  /\ a \notin External /\ runtime[a] # None /\ runtime[a].status = "running" =>
       ChildRuns(a) /\ runtime[a].watched

ProcInv(p) ==
  /\ procs[p] # "unused" => origin[p] # None
  /\ Windows => procs[p] # "signalled"
  /\ Windows /\ procs[p] = "alive" => LET a == origin[p].app
                                      IN  HasChild(a) /\ runtime[a].child = p

AppInv(a) ==
  /\ StepInv(a)
  /\ EntryInv(a)
  /\ StatusInv(a)
  /\ ReservedInv(a)
  /\ ChildInv(a)
  /\ Windows => WindowsInv(a)

IInv ==
  /\ TypeOK
  /\ \A a \in Apps : AppInv(a)
  /\ \A p \in Procs : ProcInv(p)

\* What the child of an app that is being launched may have done to its status.
LaunchedInv ==
  \A a \in Apps : pc[a] \in {"start_mcp", "start_health"} =>
                    runtime[a].status \in {"starting", "stopped", "errored"}
=============================================================================
