----------------------------- MODULE DaemonRestart -----------------------------
(***************************************************************************)
(* The restart of the daemon: the coordinator inside it                    *)
(* (daemonRestart.ts), the commands that drive it from outside             *)
(* (daemonRestartClient.ts, ensureDaemon of daemonLauncher.ts), the routes *)
(* between them (api.ts, close of server.ts), and as much of the process   *)
(* manager and the operation store as they go through.                     *)
(*                                                                         *)
(* A mutation of an app's process is "start", which stands for a restart   *)
(* too (it may begin with a child, lose it and spawn another), or "stop".  *)
(* It was asked for through the operation store, which the quiescing       *)
(* coordinator closes, or past it: the MCP server and the registration     *)
(* verification call the process manager themselves, and a package run or  *)
(* verification whose request body arrives late has passed the check.      *)
(*                                                                         *)
(* A command gives up where an answer is an error, late or missing, which  *)
(* may be at any time, or dies with its lease in place.  Left out: apps    *)
(* run by others, agent and package runs as blockers (an operation stands  *)
(* for all three), warnings of the services, reports, a daemon that is     *)
(* ended by a signal, by which nothing of a restart is left.               *)
(***************************************************************************)
EXTENDS Naturals, FiniteSets

CONSTANTS
  Apps,
  Bypass,   \* bound: the apps whose process manager is also called past the store
  Clients,  \* restart commands, each run once
  Dead,     \* the writer of a lease file that is no longer alive
  None

ASSUME BypassAssumption == Bypass \subseteq Apps

Phases == {"stopping", "recovering", "services"}
\* Preparation in progress, a finished one, and what a command goes by.
Shutdowns == [phase : Phases, waiting : SUBSET Apps, stopped : SUBSET Apps, failed : SUBSET Apps,
              restore : SUBSET Apps]
Prepareds == [request : Clients, restore : SUBSET Apps]
Previews == [expected : Nat, previewed : Nat, owned : SUBSET Apps]

ASSUME NoneAssumption ==
  /\ None \notin Clients \cup {"start", "stop", Dead} /\ Dead \notin Clients
  /\ None \notin Shutdowns \cup Prepareds \cup Previews

VARIABLES
  daemon,        \* "up", "closing", or "down": its listener is gone
  instance,      \* number of the last daemon
  quiescing,     \* #quiescing
  activeRequest, \* #activeRequestId: the command it belongs to
  shutdown,      \* how far an accepted prepare got
  prepared,      \* #prepared
  children,      \* apps with a live child of this daemon
  work,          \* the mutation of an app in progress
  tracked,       \* apps whose mutation an operation of the store waits for
  missed,        \* history: started past the coordinator since it last prepared
  lock,          \* who wrote the lease file
  at,            \* how far a command got
  seen,          \* what it discovered and was shown
  todo, pending, \* apps it has to restore, and waits for
  failed,        \* a restore failed
  owed,          \* history: the apps its prepare found running, not yet started by a later daemon
  abandoned      \* history: the command of the active request gave up or died

coordinator == <<quiescing, activeRequest, shutdown, prepared>>
processes == <<children, work, tracked, missed>>
knowledge == <<seen, todo, pending, failed, owed>>
vars == <<daemon, instance, coordinator, processes, lock, at, knowledge, abandoned>>

\* Where a command awaits the daemon and may give up.
Awaiting == {"discover", "preview", "prepare", "preparing", "shutdown", "waiting", "ensure",
             "verify", "restore"}
Places == Awaiting \cup {"idle", "unlink", "retry", "over", "done"}

Init ==
  /\ daemon = "up" /\ instance = 1
  /\ quiescing = FALSE /\ activeRequest = None /\ shutdown = None /\ prepared = None
  /\ children = {} /\ work = [a \in Apps |-> None] /\ tracked = {} /\ missed = {}
  /\ lock \in {None, Dead}
  /\ at = [c \in Clients |-> "idle"]
  /\ seen = [c \in Clients |-> None]
  /\ todo = [c \in Clients |-> {}] /\ pending = [c \in Clients |-> {}]
  /\ failed = [c \in Clients |-> FALSE] /\ owed = [c \in Clients |-> {}]
  /\ abandoned = FALSE

Goto(c, place) == at' = [at EXCEPT ![c] = place]

\* What a command knows goes with it.
Forget(c) ==
  /\ seen' = [seen EXCEPT ![c] = None]
  /\ todo' = [todo EXCEPT ![c] = {}] /\ pending' = [pending EXCEPT ![c] = {}]
  /\ failed' = [failed EXCEPT ![c] = FALSE] /\ owed' = [owed EXCEPT ![c] = {}]

\* restartDaemon reports and goes on to its finally block.
Finish(c) == Goto(c, "over") /\ Forget(c)

-----------------------------------------------------------------------------
(* Processes and operations of this daemon                                 *)

Reachable == daemon = "up"
\* The daemon takes mutations: the routes check it before anything else.
Admits == daemon = "up" /\ ~quiescing

\* A lifecycle request: the routes refuse it while the daemon quiesces; an
\* active operation or a mutation of the other kind refuses it as well.
Operation(a, k) ==
  /\ Admits
  /\ a \notin tracked /\ work[a] \in {None, k}
  /\ work' = [work EXCEPT ![a] = k]
  /\ tracked' = tracked \cup {a}
  /\ UNCHANGED <<daemon, instance, coordinator, children, missed, lock, at,
                 knowledge, abandoned>>

\* A mutation called past the store.
Direct(a, k) ==
  /\ daemon # "down" /\ a \in Bypass /\ work[a] = None
  /\ work' = [work EXCEPT ![a] = k]
  /\ missed' = IF k = "start" /\ quiescing THEN missed \cup {a} ELSE missed
  /\ UNCHANGED <<daemon, instance, coordinator, children, tracked, lock, at,
                 knowledge, abandoned>>

Spawn(a) ==
  /\ work[a] = "start" /\ a \notin children
  /\ children' = children \cup {a}
  /\ UNCHANGED <<daemon, instance, coordinator, work, tracked, missed, lock, at,
                 knowledge, abandoned>>

\* The child ends, by itself or by a start that fails.
ChildExits(a) ==
  /\ a \in children
  /\ children' = children \ {a}
  /\ UNCHANGED <<daemon, instance, coordinator, work, tracked, missed, lock, at,
                 knowledge, abandoned>>

\* The promise of a mutation settles for everyone who awaits it: its
\* operation, with the commands that poll it, and the coordinator.
Settle(a, ok) ==
  /\ work' = [work EXCEPT ![a] = None]
  /\ tracked' = tracked \ {a}
  /\ pending' = [c \in Clients |-> pending[c] \ {a}]
  /\ failed' = [c \in Clients |-> failed[c] \/ (a \in pending[c] /\ ~ok)]
  /\ shutdown' =
       IF shutdown # None /\ a \in shutdown.waiting
         THEN [shutdown EXCEPT !.waiting = @ \ {a},
                               !.stopped = IF shutdown.phase = "stopping" /\ ok
                                             THEN @ \cup {a} ELSE @,
                               !.failed = IF shutdown.phase = "stopping" /\ ~ok
                                            THEN @ \cup {a} ELSE @]
         ELSE shutdown
  /\ UNCHANGED <<daemon, instance, quiescing, activeRequest, prepared, missed, lock, at, seen,
                 todo, abandoned>>

EndStart(a) ==
  /\ work[a] = "start"
  /\ Settle(a, a \in children)
  /\ owed' = [c \in Clients |-> IF a \in children /\ seen[c] # None /\ instance > seen[c].expected
                                  THEN owed[c] \ {a} ELSE owed[c]]
  /\ UNCHANGED children

\* A stop that succeeds was verified; one that fails or is aborted may leave the
\* child as it was.
EndStop(a, ok) ==
  /\ work[a] = "stop"
  /\ Settle(a, ok)
  /\ children' = IF ok THEN children \ {a} ELSE children
  /\ UNCHANGED owed

EndMutation(a) == EndStart(a) \/ \E ok \in BOOLEAN : EndStop(a, ok)

-----------------------------------------------------------------------------
(* The coordinator                                                         *)

\* The operations that began since the preview are not looked at.
MayPrepareAsShown(c) ==
  /\ activeRequest = None
  /\ seen[c].expected = instance
  /\ seen[c].previewed = instance /\ seen[c].owned = children

\* #activeRequestId of another request, the instance and the preview compared
\* with what the command was shown, and the blockers.
MayPrepare(c) ==
  /\ activeRequest = None
  /\ seen[c].expected = instance
  /\ seen[c].previewed = instance /\ seen[c].owned = children
  /\ tracked = {}

PreparedFor(c) == prepared # None /\ prepared.request = c

\* prepare up to the first await: every owned app gets its stop, which joins a
\* stop in progress and is refused by a start in progress.
Prepare(c) ==
  /\ at[c] = "prepare" /\ daemon = "up" /\ MayPrepare(c)
  /\ activeRequest' = c /\ quiescing' = TRUE /\ abandoned' = FALSE
  /\ shutdown' = [phase |-> "stopping",
                  waiting |-> {a \in children : work[a] # "start"},
                  stopped |-> {},
                  failed |-> {a \in children : work[a] = "start"},
                  restore |-> children]
  /\ work' = [a \in Apps |-> IF a \in children /\ work[a] = None THEN "stop" ELSE work[a]]
  /\ missed' = {a \in Apps : work[a] = "start" /\ a \notin children}
  /\ owed' = [owed EXCEPT ![c] = children]
  /\ Goto(c, "preparing")
  /\ UNCHANGED <<daemon, instance, prepared, children, tracked, lock, seen,
                 todo, pending, failed>>

\* The request is given back, or left as it is.
KeepRequest == UNCHANGED activeRequest
FreeRequest == activeRequest' = None

\* Which apps the command is told to restore: those the preview found.
StillRunning == children
RestoreList == shutdown.restore

\* Every stop settled. If one failed the apps that were stopped are started
\* again; a stop in progress refuses that.
StopsDone ==
  /\ shutdown # None /\ shutdown.phase = "stopping" /\ shutdown.waiting = {}
  /\ IF shutdown.failed = {}
       THEN /\ shutdown' = [shutdown EXCEPT !.phase = "services"]
            /\ UNCHANGED work
       ELSE /\ shutdown' = [shutdown EXCEPT !.phase = "recovering",
                              !.waiting = {a \in shutdown.stopped : work[a] # "stop"}]
            /\ work' = [a \in Apps |-> IF a \in shutdown.stopped /\ work[a] = None
                                         THEN "start" ELSE work[a]]
  /\ UNCHANGED <<daemon, instance, quiescing, activeRequest, prepared, children, tracked, missed,
                 lock, at, knowledge, abandoned>>

\* The apps were started again: the request is given back as failed.
RecoveryDone ==
  /\ shutdown # None /\ shutdown.phase = "recovering" /\ shutdown.waiting = {}
  /\ quiescing' = FALSE /\ FreeRequest /\ shutdown' = None /\ abandoned' = FALSE
  /\ IF at[activeRequest] = "preparing" THEN Finish(activeRequest) ELSE UNCHANGED <<at, knowledge>>
  /\ UNCHANGED <<daemon, instance, prepared, processes, lock>>

\* The agent gateway, the operation store and the package service are closed.
ServicesDone ==
  /\ shutdown # None /\ shutdown.phase = "services"
  /\ prepared' = [request |-> activeRequest, restore |-> RestoreList]
  /\ shutdown' = None
  /\ IF at[activeRequest] = "preparing" THEN Goto(activeRequest, "shutdown") ELSE UNCHANGED at
  /\ UNCHANGED <<daemon, instance, quiescing, activeRequest, processes, lock, knowledge, abandoned>>

\* close of a prepared daemon, which leaves its apps alone, to the end of its
\* listener: what still runs or starts has nobody who could stop it.
Closed ==
  /\ daemon = "closing"
  /\ daemon' = "down"
  /\ quiescing' = FALSE /\ activeRequest' = None /\ prepared' = None
  /\ children' = {} /\ work' = [a \in Apps |-> None] /\ tracked' = {} /\ missed' = {}
  /\ abandoned' = FALSE
  /\ UNCHANGED <<instance, shutdown, lock, at, knowledge>>

-----------------------------------------------------------------------------
(* The commands                                                            *)

daemonState == <<daemon, instance, coordinator, processes>>

\* acquireRestartLease: the file is created, or its writer is dead and it is old
\* enough to be taken over, or the command ends as busy.
Lease(c) ==
  /\ at[c] = "idle"
  /\ \/ lock = None /\ lock' = c /\ Goto(c, "discover")
     \/ lock # None /\ Goto(c, "done") /\ UNCHANGED lock
     \/ lock = Dead /\ Goto(c, "unlink") /\ UNCHANGED lock
  /\ UNCHANGED <<daemonState, knowledge, abandoned>>

\* recoverStaleLease removes the file that is there by now.
Unlink(c) ==
  /\ at[c] = "unlink"
  /\ Goto(c, IF lock = None THEN "done" ELSE "retry")
  /\ lock' = None
  /\ UNCHANGED <<daemonState, knowledge, abandoned>>

Retry(c) ==
  /\ at[c] = "retry"
  /\ Goto(c, IF lock = None THEN "discover" ELSE "done")
  /\ lock' = IF lock = None THEN c ELSE lock
  /\ UNCHANGED <<daemonState, knowledge, abandoned>>

\* A daemon is spawned.
Boot ==
  /\ daemon = "down"
  /\ daemon' = "up" /\ instance' = instance + 1
  /\ UNCHANGED <<coordinator, processes>>

\* Nothing to restart: the command only starts a daemon.
Start(c) ==
  /\ at[c] = "discover" /\ Boot /\ Finish(c)
  /\ UNCHANGED <<lock, abandoned>>

Discover(c) ==
  /\ at[c] = "discover" /\ daemon = "up"
  /\ seen' = [seen EXCEPT ![c] = [expected |-> instance, previewed |-> 0, owned |-> {}]]
  /\ Goto(c, "preview")
  /\ UNCHANGED <<daemonState, lock, todo, pending, failed, owed, abandoned>>

\* The preview may be that of a later daemon than the one discovered.
GetPreview(c) ==
  /\ at[c] = "preview" /\ daemon = "up"
  /\ IF tracked = {}
       THEN /\ seen' = [seen EXCEPT ![c].previewed = instance, ![c].owned = children]
            /\ Goto(c, "prepare") /\ UNCHANGED <<todo, pending, failed, owed>>
       ELSE Finish(c)
  /\ UNCHANGED <<daemonState, lock, abandoned>>

\* The shutdown request repeats prepare, which answers with what it prepared.
Shutdown(c) ==
  /\ at[c] = "shutdown" /\ daemon = "up" /\ PreparedFor(c)
  /\ todo' = [todo EXCEPT ![c] = prepared.restore]
  /\ daemon' = "closing"
  /\ Goto(c, "waiting")
  /\ UNCHANGED <<instance, coordinator, processes, lock, seen, pending, failed, owed, abandoned>>

\* waitForInstanceToStop.
StopSeen(c) ==
  /\ at[c] = "waiting" /\ (daemon = "down" \/ instance # seen[c].expected)
  /\ Goto(c, "ensure")
  /\ UNCHANGED <<daemonState, lock, knowledge, abandoned>>

\* ensureDaemon: another command may have started a daemon meanwhile.
Ensure(c) ==
  /\ at[c] = "ensure"
  /\ Boot \/ (daemon = "up" /\ UNCHANGED daemonState)
  /\ Goto(c, "verify")
  /\ UNCHANGED <<lock, knowledge, abandoned>>

Verify(c) ==
  /\ at[c] = "verify" /\ daemon = "up"
  /\ IF instance = seen[c].expected THEN Finish(c) ELSE Goto(c, "restore") /\ UNCHANGED knowledge
  /\ UNCHANGED <<daemonState, lock, abandoned>>

\* restoreApps: a start operation for every app, which joins one in progress; it
\* is refused by a quiescing daemon and by a stop in progress.
RestoreApp(c, a) ==
  /\ at[c] = "restore" /\ a \in todo[c] /\ daemon = "up"
  /\ todo' = [todo EXCEPT ![c] = @ \ {a}]
  /\ IF Admits /\ work[a] # "stop"
       THEN /\ work' = [work EXCEPT ![a] = "start"]
            /\ tracked' = tracked \cup {a}
            /\ pending' = [pending EXCEPT ![c] = @ \cup {a}]
            /\ UNCHANGED failed
       ELSE /\ failed' = [failed EXCEPT ![c] = TRUE]
            /\ UNCHANGED <<work, tracked, pending>>
  /\ UNCHANGED <<daemon, instance, coordinator, children, missed, lock, at, seen,
                 owed, abandoned>>

ReportsSuccess(c) == at[c] = "restore" /\ todo[c] = {} /\ pending[c] = {} /\ ~failed[c]
Report(c) ==
  /\ at[c] = "restore" /\ todo[c] = {} /\ pending[c] = {}
  /\ Finish(c)
  /\ UNCHANGED <<daemonState, lock, abandoned>>

\* Every request has an error answer and a timeout.
GiveUp(c) ==
  /\ at[c] \in Awaiting
  /\ Finish(c)
  /\ abandoned' = (abandoned \/ activeRequest = c)
  /\ UNCHANGED <<daemonState, lock>>

\* lease.release, in the finally block: only one's own file is removed.
Release(c) ==
  /\ at[c] = "over"
  /\ lock' = IF lock = c THEN None ELSE lock
  /\ Goto(c, "done")
  /\ UNCHANGED <<daemonState, knowledge, abandoned>>

\* The command's process is killed; the lease file stays.
Die(c) ==
  /\ at[c] \notin {"idle", "done"}
  /\ Goto(c, "done") /\ Forget(c)
  /\ lock' = IF lock = c THEN Dead ELSE lock
  /\ abandoned' = (abandoned \/ activeRequest = c)
  /\ UNCHANGED daemonState

-----------------------------------------------------------------------------
Coordinate == StopsDone \/ RecoveryDone \/ ServicesDone \/ Closed

Process(a) ==
  \/ \E k \in {"start", "stop"} : Operation(a, k) \/ Direct(a, k)
  \/ Spawn(a) \/ ChildExits(a) \/ EndMutation(a)

Command(c) ==
  \/ Lease(c) \/ Unlink(c) \/ Retry(c)
  \/ Start(c) \/ Discover(c) \/ GetPreview(c) \/ Prepare(c) \/ Shutdown(c) \/ StopSeen(c)
  \/ Ensure(c) \/ Verify(c) \/ (\E a \in Apps : RestoreApp(c, a)) \/ Report(c) \/ Release(c)

Next ==
  \/ Coordinate
  \/ \E a \in Apps : Process(a)
  \/ \E c \in Clients : Command(c) \/ GiveUp(c) \/ Die(c)

Spec == Init /\ [][Next]_vars

\* Mutations end (ProcessManager's MutationsEnd), the coordinator goes on when
\* what it awaits has settled, and a command whose prepare was answered sends its
\* shutdown request.
FairSpec ==
  /\ Spec
  /\ WF_vars(Coordinate)
  /\ \A a \in Apps : WF_vars(EndMutation(a))
  /\ \A c \in Clients : WF_vars(Shutdown(c))

-----------------------------------------------------------------------------
(* Properties                                                              *)

\* The variables stay in their types.
TypeOK ==
  /\ daemon \in {"up", "closing", "down"} /\ instance \in Nat
  /\ quiescing \in BOOLEAN /\ activeRequest \in Clients \cup {None}
  /\ shutdown \in Shutdowns \cup {None} /\ prepared \in Prepareds \cup {None}
  /\ children \subseteq Apps /\ work \in [Apps -> {None, "start", "stop"}]
  /\ tracked \subseteq Apps /\ missed \subseteq Apps
  /\ lock \in Clients \cup {None, Dead}
  /\ at \in [Clients -> Places]
  /\ seen \in [Clients -> Previews \cup {None}]
  /\ todo \in [Clients -> SUBSET Apps] /\ pending \in [Clients -> SUBSET Apps]
  /\ failed \in [Clients -> BOOLEAN] /\ owed \in [Clients -> SUBSET Apps]
  /\ abandoned \in BOOLEAN

\* A prepared daemon will end without stopping anything (close, server.ts:469).
\* So from the end of the stops on it has no child and no start that may bring
\* one, whatever was requested meanwhile, except by who goes past the store.
NothingIsAbandoned ==
  prepared # None \/ (shutdown # None /\ shutdown.phase = "services") =>
    \A a \in Apps : a \in children \/ work[a] = "start" => a \in missed

\* A command that reports success without app failures has had every app that
\* its restart took down started by a later daemon, also when several commands
\* drive restarts at the same time over a broken lease (docs/cli.md:187).
RestartedIsRestored ==
  \A c \in Clients : ReportsSuccess(c) =>
    owed[c] = {}

\* The daemon does not stay closed to mutations: a prepared restart goes through
\* or is given back, unless its command gave up on it or died.
QuiescingEnds ==
  \A c \in Clients : (activeRequest = c) ~> (activeRequest # c \/ abandoned)

\* How far the daemon is with a restart, and the apps it will tell its command to
\* bring back.
Stage ==
  CASE daemon # "up" -> daemon
    [] daemon = "up" /\ prepared # None -> "prepared"
    [] daemon = "up" /\ prepared = None /\ shutdown # None -> shutdown.phase
    [] OTHER -> "open"
Restore ==
  CASE prepared # None -> prepared.restore
    [] prepared = None /\ shutdown # None -> shutdown.restore
    [] OTHER -> {}

Cycle == INSTANCE RestartCycle WITH
  stage <- Stage, request <- activeRequest, restore <- Restore, operations <- tracked

\* The coordinator, its routes and the commands, however many there are and wherever
\* one of them gives up or dies, implement RestartCycle (prepare, the refusals of api.ts, close).
ImplementsCycle == Cycle!Spec

-----------------------------------------------------------------------------
(* The inductive invariant                                                 *)

\* A command past its discovery knows a daemon that is not newer than this one.
SeenInv ==
  \A c \in Clients : at[c] \in Awaiting \ {"discover"} =>
    seen[c] # None /\ seen[c].expected <= instance

\* The coordinator quiesces while it works on a request or has prepared it.
CoordinatorInv ==
  /\ quiescing <=> activeRequest # None
  /\ quiescing <=> shutdown # None \/ prepared # None
  /\ shutdown = None \/ prepared = None
  /\ daemon = "closing" => prepared # None
  /\ daemon = "down" => ~quiescing

\* Operations wait for mutations, commands for start operations, and there are
\* none while the coordinator quiesces.
TrackedInv ==
  /\ \A a \in tracked : work[a] # None
  /\ quiescing => tracked = {}
  /\ \A c \in Clients : \A a \in pending[c] : a \in tracked /\ work[a] = "start"
  /\ \A c \in Clients : pending[c] # {} => at[c] = "restore"

\* While the stops last, an app that has a child or may get one is about to be
\* stopped, or went past the coordinator, or the restart is going to fail.
StopInv ==
  shutdown # None /\ shutdown.phase = "stopping" =>
    /\ \A a \in shutdown.waiting : work[a] = "stop"
    /\ shutdown.failed = {} =>
         \A a \in Apps : a \in children \/ work[a] = "start" =>
           a \in missed \/ a \in shutdown.waiting

\* Every app that is owed is on the way to its restore.
OnItsWay(c) ==
  /\ at[c] = "preparing" =>
       activeRequest = c /\ shutdown # None /\ owed[c] \subseteq shutdown.restore
  /\ at[c] = "shutdown" =>
       daemon = "up" /\ PreparedFor(c) /\ owed[c] \subseteq prepared.restore
  /\ at[c] \in {"waiting", "ensure", "verify"} => owed[c] \subseteq todo[c]
  /\ at[c] = "restore" =>
       /\ instance > seen[c].expected
       /\ failed[c] \/ owed[c] \subseteq todo[c] \cup pending[c]
OwedInv == \A c \in Clients : OnItsWay(c)

\* A daemon that is gone runs nothing.
DownInv ==
  daemon = "down" => children = {} /\ tracked = {} /\ \A a \in Apps : work[a] = None

IInv ==
  /\ TypeOK /\ SeenInv /\ CoordinatorInv /\ TrackedInv
  /\ StopInv /\ NothingIsAbandoned /\ OwedInv
================================================================================
