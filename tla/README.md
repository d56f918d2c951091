# A verification project for Relaybase

Relaybase is a local daemon that registers applications, starts and stops them, hands
out their ports, routes to them, and lets people, scripts and agents drive all that
through one HTTP API. This directory models the parts of the daemon whose correctness
depends on order: what happens between two awaits, during a shutdown, after a crash,
or when a process of the machine does not do what it was told.

Source paths are relative to the repository (`src/` is its TypeScript, `docs/` its
documentation). The daemon is one Node.js process: everything between two `await`s is
atomic. That is the granularity of every module here: one action is one synchronous
segment, and what may change during an await is whatever the other actions do.

## Inventory

| Part | State it keeps | Operations | Talks to | What is hard | Module |
|---|---|---|---|---|---|
| Lifecycle operation store, `operationStore.ts` | records in memory, one SQLite row each, active operation and gate per app, shutdown progress | enqueue, deduplicate, refuse, evidence, gate, shutdown | HTTP callers, package runs (share its promises), process manager (its `run`) | late outcomes after a shutdown deadline, retention, crash | `OperationStore`, `OperationLedger` |
| Process manager, `processManager.ts` | runtime entry per app, mutation per app, port reservations | start, stop, restart, shutdownOwnedApps | operating system, child MCP supervisor, registry | exit events, failed and aborted starts, ports probed across awaits, two platforms | `ProcessManager`, `AppLifecycle` |
| App packages, `appPackageService.ts`, `appPackageStore.ts` | definitions and runs (SQLite), executions and previews (memory) | create, change, delete, launch, retry, abort | operation store, registry | revision checks around an await, abort against workers, recovery | `AppPackages` |
| Daemon restart, `daemonRestart.ts`, `daemonRestartClient.ts` | quiescing flag, request, prepared result; a lease file | preview, prepare, shutdown, ensure, restore | process manager, operation store, launcher | mutations that slip in, failing stops, several commands at once, commands that die | `DaemonRestart`, `RestartCycle` |
| Registry, rename and unregister, `registry.ts`, `appRename.ts`, `appUnregister.ts` | registry map and file, manifests, recovery file | upsert, remove, rename, roll back, recover | operation store gates | two files that must agree, registrations from other files or from none, failing writes, a crash between two of them | `AppRename` |
| Child MCP supervisor, `childMcp.ts` | children per app, calls in flight, backoff timers | connect, list, call, reconnect, drain, close | process manager, MCP clients | close events of replaced connections, connections completed after a stop | `ChildMcp` |
| Agent gateway, `agent/gateway.ts`, `approvalStore.ts`, `runCoordinator.ts` | runs and approvals (SQLite), executions, budget reservations | submit, approve, reject, cancel, disable, close | model runtime, tools, configuration | handlers that write back copies of a run, cancellation in every await, recovery | `AgentRuns`, `ApprovalLedger` |
| MCP server, `relaybaseMcp.ts`, and registration verification | none of their own | start and stop through the process manager | process manager, past the operation store | bypassing gates and the quiescing check | `Direct` of `DaemonRestart` |
| Launcher, `daemonLauncher.ts`; close of `server.ts` | discovery file | ensure, close | restart commands | two commands starting daemons | `Ensure`, `Closed` of `DaemonRestart` |
| Agent configuration and credentials, credential repair | files, credential store, repair journal | reload, update, repair | gateway | durability of a repair | not modelled |
| Logs, events, sessions' conversation records | files, rows | append, rotate, prune | | | not modelled |
| Proxy and router, setup, tools and policies, CLI, dashboard, terminal UI | none that others depend on | | | data transformation and input/output | not modelled |

## Modules

Each module that is proved about has its invariants, and the inductive one (`IInv`), at
its end, and its proofs in `<module>_proofs`. Four components also have an abstract
specification, of what they promise to whoever calls them or reads their rows, which
the detailed module is shown to implement: `OperationLedger`, `AppLifecycle`,
`ApprovalLedger` and `RestartCycle`. What follows from a promise is stated in the
abstract module, proved from its few actions, and so holds of the code's model.

### OperationStore, and the OperationLedger it implements

`runs` follows the promise chain of an operation: `scheduled` (the microtask of
`Promise.resolve().then`), `executing` (inside `input.run`), `finished` (after
`#finish`), and `none` once `.finally` gave the target back. `status` and `ledger` are
the record in memory and its row; `calls` is what each HTTP caller waits for.
`enqueueLifecycle` is three actions, one per kind of return (`Refuse`, `Join`,
`Enqueue`). `#shutdown` is `BeginShutdown`, `AllSettled`, `DrainTimeout`
(`#failActiveForShutdown`) and `AbortTimeout`; `Crash` may come at any time, and `Reopen`
is the constructor (`#loadPersisted`, `#reconcileInterrupted`, `#prune`). Which of
several evictable records goes first is left open, so the result covers the order of
insertion and that of a reload.

`OperationLedger` is what a reader of the rows may rely on: a record is created open
only when its app has no open record, is concluded once, is never rewritten, and may
only be evicted when concluded; a new daemon leaves nothing open. `ImplementsLedger`
maps `row` to the rows on disk, a missing row of an issued id being an evicted one.
`ConcludedForGood` and `OneOpenPerApp` follow from it.

### ProcessManager, and the AppLifecycle it implements

`mutations`, `runtime` and `portReservations` are the fields of those names. `pc[a]` is
the await that the action of app `a` is at (`start_probe` inside `#assignPort`,
`stop_hook` inside `#finalizeStop`, and so on). The rest is the machine: child
processes as Node shows them (a child that a signal killed has exit code null), and what
listens on each port. `Exit` is the process and the exit handler in one step, since
the handler is what the daemon can see of it. On Windows `taskkill /t /f` kills
the tree. That it succeeds is assumed: after a failure the code tries `child.kill`
(`processManager.ts:1279-1285`) and may leave a descendant, and what is shown of children on
Windows says nothing of that case. On POSIX SIGTERM is a request a process may ignore.
Health is abstracted to "something listens on the assigned port". That is exactly what a TCP
check sees; for an HTTP check it is the weakest answer, and a health wait may also fail
with a listener there.

`AppLifecycle` is what a client that polls, or asks for an action, may rely on: the
actions of an app come one at a time and through the documented parts in their order, an
action ends in one of a few verdicts, and otherwise a status only falls when a child
exits. `Phase` maps the awaits to those parts. `Rank` numbers the awaits in the order
of the code; `ActionsMoveOn` says that no step of an action goes back. `LaterChoices` is
what is left of the loop of `#assignPort`, so the probes end too.

Two probes of the range can see each other's momentary listener (`canBindPort`); a
probe of a fixed port only connects (`isPortOpen`).

### AppPackages

`definitions` and `runs` are the rows, `executions` the point `#executeRun` has
reached, `changes` a client's preview binding and its apply. `applyDefinitionChange` is
`RequestApply` (up to the gate), `BeginApply` (the checks before the await of the registry)
and `EndApply` (the same checks after it, and the update). A member's operation is seen
as `OperationStore` promises it: enqueueing is refused or accepted, and an accepted
operation ends once. `MemberRank` and `ExecutionRank` order what a member and an execution
can get to; `RunsMoveOn` says that neither goes back and that every step of an execution
moves one of them. The registry's answer is any set of missing members, the list
of statuses any set of healthy ones, or a failure.

### DaemonRestart, and the RestartCycle it implements

This is the composition: the coordinator inside the daemon, the commands outside
that drive it, and what of the process manager and the operation store a restart goes
through. `quiescing`, `activeRequest` and `prepared` are the coordinator's fields,
`shutdown` is how far its `#prepare` got (stopping the apps, starting them again because a
stop failed, closing the services). `work` is the mutation of an app in the process
manager and `tracked` says that an operation of the store waits for it. "start" stands for
a restart too: it may begin with a child, lose it and spawn another. `Operation` is
the road through the routes, which a quiescing coordinator closes; `Direct` is the road
past them, for the apps in `Bypass`.

A command is `at` one of its awaits: the lease, discovery, preview, prepare, the shutdown
request, waiting for the old daemon, ensuring a new one, restoring the apps. It may give
up at any await (`GiveUp`: every request has a timeout and error answers) or be killed
(`Die`), with its lease file in place. A stale lease is taken over in three steps
(`Lease`, `Unlink`, `Retry`), so that two commands may both hold one.

Three variables are history, for the properties only: `missed` (apps whose start got
past the coordinator), `owed` (apps a command's restart took down that no later daemon
has started again) and `abandoned` (the command of the active request is gone).

`RestartCycle` is the promise of the daemon to a command: it accepts one restart at a time
and only while no operation is in progress, lets none begin until the restart is over,
keeps the list of apps to bring back, and goes only when it was prepared. `Stage` and
`Restore` map the coordinator's record to it. The commands, which may race, give up or
die, are not seen in it at all.

Left out: apps run by somebody else, agent and package runs as blockers (an operation
stands for all three), the warnings of services that fail to close, and a daemon
ended by a signal, which leaves nothing of a restart.

### AppRename

An app's name is in three places: `manifest` (the project's files), `disk` (registry.json)
and `mem` (the daemon's map). An entry of the registry is a name and where it came from: one
of the manifest files an app may be registered from (`Paths`), or no file at all (`Inline`).
`Register` covers both forms of `apps/register` and of the MCP tool `register_app`: a
`manifestPath`, whose file is read and says the name, or a manifest in the request, which may
say any name. `mergeAppRecord` keeps nothing of an older entry, so a registration also moves
an app to another file or to none. An entry without a file cannot be renamed
(`appRename.ts:321`). `job` is a request and the await it is at, `snap` the copy of
the map it is saving, `record` the recovery file. `applyAppRename` is the chain
`BeginRename`, `ReadManifest`, `Prepare`, `WriteManifest`, `CopyRegistry`, `SaveCopy`,
`Publish`, `Clear`, with `RollBack` after a failed save; every write may fail, any
number of times (`failed` remembers of which kinds of requests), and `Crash` may come
between any two, also during `Recover`.

Registry writers are not ordered by anything. An upsert that falls into the await of a
rename's save is overwritten by it, and saves can land in the other order. The model
contains these executions and marks them (`raced`); the properties are about the
others, so they say: an update is lost in no other way.

`Settled` is the entry an app would have if the daemon died now: what recovery makes of
its record, manifest and registry file. `RenameIsAtomic` says that of all the steps of a
request only one decides it.

### ChildMcp

One child from `startApp` to the end of `stopApp`. `attempt` is a `#connectChild` under
way, connecting or listing through a client; `link` is a connection of the MCP SDK, whose close
event may arrive long after `close()` was called and after the next connection was opened.
`#handleChildClosed` does not ask whose event it is: `late` remembers that a connection
closed when another had replaced it.

### AgentRuns, and the ApprovalLedger it implements

`runs` and `approvals` are the SQLite rows, `executions` and `reserved` the gateway's
maps. `model[r]` is how far `#executeQueuedRun` got, `tool[r]` how far
`#executeApprovedTool` got. Handlers hold copies of a run and every event they publish
writes the whole copy back (`Emit`, `PrepareApproval`, ...): a status that another
handler wrote meanwhile is lost, which is what the properties are about. `Submit`,
`ReadConfig` and `QueueRun` are `addMessage` around its awaits; `CancelRun`, `Reject`,
`Tighten` (the configuration disables the agent or the model) and `Restart` may come
anywhere. The model runtime is an execution that emits events and ends.

`ApprovalLedger` is the promise to the person who decides: an approval stays open until it
is decided, a decision is final, and a tool begins to execute exactly in the step that
approves it. `Decision`, `Owner` and `Executing` map rows and workers to it; the status of
the run, which the handlers overwrite for each other, is not part of it.

## Runs

| Run | Instance | Shows |
|---|---|---|
| `operations` | 2 apps, 2 operations, 2 callers, 2 actions, 1 gate, retention 1, 1 crash | safety, liveness and the refinement of `OperationStore` |
| `lifecycle` | Windows, 2 apps (one with a fixed port inside the range), 2 ports, 2 spawns, hooks, a foreign listener | the safety properties of `ProcessManager`, and that its actions move on |
| `lifecycle_live` | POSIX, one app of the range with all hooks, one external app with a fixed port | `MutationsEnd`, and the refinement of `AppLifecycle`, where a process may ignore SIGTERM or die by a signal |
| `packages` | 1 package, 2 apps, 2 runs, 1 editor, 1 worker, 1 restart | the properties of `AppPackages`, and that runs move on |
| `restart` | 2 apps (one called past the store), 2 restart commands | the properties of `DaemonRestart` and the refinement of `RestartCycle` |
| `rename` | 2 apps, 2 names, 2 manifest files for each and registrations without a file, 2 requests at a time, any number of failed writes and crashes, up to the first overlap of registry writers or failed registration (symmetric) | the properties of `AppRename` |
| `child_mcp` | 4 connections, 2 calls (symmetric) | the properties of `ChildMcp` |
| `agent` | 1 session, 3 runs, 2 approvals, 2 submissions at a time, 2 restarts (symmetric) | the safety properties of `AgentRuns` and the refinement of `ApprovalLedger` |
| `lifecycle_signalled`, `lifecycle_early`, `lifecycle_spared`, `agent_active` | small | four disagreements of code and documents, see below |

Why these bounds are enough for the cases they are meant for.

- `operations`: two callers of one app give deduplication, conflict and a caller that joins
  late; with retention 1 every further record evicts; one crash suffices because nothing
  remembers how often a process was replaced. The safety properties are proved for every
  instance, so the run is sized for the liveness property.
- `lifecycle`: two apps and two ports give each port a competitor and each app an
  alternative; two spawns allow a child and its successor.
- `packages`: one package with two runs lets a launch or a retry meet an active run, and two
  members with one worker leave one member waiting while the other starts; members do not
  interact otherwise.
- `restart`: each command runs once, so there are at most three daemons. Two commands are
  what the stale lease, a daemon started meanwhile, and a preview of a later daemon
  than the discovered one need. Two apps let one stop fail while the other succeeds.
- `rename`: two names give a rename its old and new one, and the second app the collision; two
  files and no file give a registration every way to replace the entry that a record is
  about; two requests give a writer and any other request between two of its steps. What the
  properties say of more requests follows from pairs of them (`OwnersInv`), and the theorems
  below cover every instance. Failures and crashes are not bounded. The run stops where
  registry writers overlapped or the save of a registration failed (`NoRace`), of which
  only `TypeOK` says something, and that is proved.
- `child_mcp`: a connection, its successor and one more while the first one's close event is
  outstanding, and the one after a stop.
- `agent`: the properties relate a run, its approvals and its session; sessions do not
  interact. Three runs leave one active while two are over or overtaken.

The type invariants are theorems of every module. TLC checks those of `OperationStore` and
`ChildMcp` as well, where a type is more than a type: a caller is never answered with a record
that was evicted, and the counter of calls in flight is their number.

`CHECK_DEADLOCK FALSE` is given where the bounds end the behaviour: all ids issued,
all processes or commands spent, no restart left. Every bound is a named constant or
variable: `MaxRestarts`, `MaxRevision`, `Procs`, `ForeignPorts`, `Clients`, `Conns`, `Calls`,
`Bypass`, and the finite sets of ids.

### Fairness

- `OperationStore`: a scheduled microtask runs, `input.run` ends, `.finally` follows. `run` ends
  because every await of a lifecycle call has a timeout of its own, which is what
  `MutationsEnd` establishes for the process manager. Shutdown timers and clients get no
  fairness.
- `ProcessManager`: every await of a mutation ends (bounded probes, health waits, drains, port
  waits, the five seconds of `#terminateChild`, hook timeouts), and a process that
  `taskkill` killed exits. That a hook obeys the SIGTERM it gets after its timeout is an
  assumption on POSIX: `#runHook` has no other way out. Children get no fairness: they may run
  for ever.
- `AppPackages`: an execution is never stuck, because it awaits the registry, bounded probes, and
  operations, which end.
- `DaemonRestart`: mutations end (`MutationsEnd` again), the coordinator goes on when what it
  awaits has settled, and a command whose prepare was answered sends its shutdown request
  unless it gives up or dies. Nothing else of a command is fair.
- `AgentRuns`, `AppRename` and `ChildMcp` state safety only. How long a model, a tool or a
  child takes is not up to this code.

## What the checks show

Everything above holds, except where the code and a document of the repository disagree:

1. `lifecycle_signalled`. `start()` answers *running, healthy* without a probe for an
   entry whose child has exit code null. A child that died by a signal has that for good.
   `docs/architecture.md:87`: "Mark the app running only after health succeeds."
2. `lifecycle_early`. In the middle of a stop the exit handler publishes *stopped*, which a
   failing hook or an open port turns into *errored* later. `docs/architecture.md:98`: "Report
   stopped only when cleanup and verification pass."
3. `lifecycle_spared`. On Windows, a stop whose port is still open kills whoever listens
   there. `docs/cli.md:187`: "stops only Relaybase-owned app processes, preserves externally
   managed processes".
4. `agent_active`. `addMessage` looks for an active run, awaits its configuration, and queues a
   run without looking again: two submissions of one session both get through. The
   preparation of an approval also writes its copy of a run back as waiting after the run
   was cancelled and the session took another one. `docs/tui-agent-tools.md:21`: "A session
   permits one queued, running, or approval-waiting run at a time."

`RunningHasProcess` and `ChildrenAreReachable` are checked, and proved, on Windows only. On
POSIX the first fails as in 1, and the second because a stop does not look at whether
`#terminateChild` succeeded: a child that ignores SIGTERM and has closed its port survives
its entry.

Some properties hold only with an exception that the model names and the property quotes.
They are worth knowing when the code is changed:

- `NothingIsAbandoned` excepts `missed`. The MCP server, a verification, and a
  package run or verification whose body arrives late start apps without
  asking the coordinator. An app they start while a restart is being prepared is left
  without a daemon (`docs/cli.md:187` has the restart quiesce new mutations).
- `QuiescingEnds` excepts `abandoned`. A command that times out or dies between the
  acceptance of its prepare and its shutdown request leaves the daemon quiescing: the next
  command has another request id and is refused.
- `RestartedIsRestored` has no exception for the lease: it holds although the take-over of a
  stale lease can give two commands one each.
- `NamesAgree`, `MemoryIsDurable` and `RecoverySucceeds` except `raced`, the overlap of
  registry writers described under AppRename, and registrations whose save failed:
  `upsertManifest` changes the map before it saves it, so memory is ahead of the file
  then, and a rename that goes wrong after that leaves a manifest which the next
  daemon's registry does not agree with.
- `RecoverySucceeds` also excepts `Replaced`. A rename one of whose writes failed can leave
  its record; when the app is then unregistered, or registered without a file or from another
  one, the registry fits no outcome of that rename, and the next daemon refuses to start.
- `NamesAgree` is about entries that came from a file. A manifest that a request brings
  (`api.ts:240`, `relaybaseMcp.ts:559`) may name the app differently from the file of its
  project, and no file is compared with it.
- `BudgetsAreReturned` excepts `Overtaken`: a run whose session entry was overwritten by an
  overlapping submission (the race of 4 above) stays queued when its turn comes, since
  `#executeQueuedRun` returns at `gateway.ts:1404-1408`. It does not release the run's share
  of the budget, which is reserved until somebody cancels the run or the daemon restarts. No
  document says otherwise of budgets, so this is not listed as a disagreement of its own.
- `OverStands` excepts runs that a handler still holds a copy of (`Busy`): a cancellation
  meanwhile is overwritten by the copy.
- `ReservationsHaveOwners` says that reservations are given back, not that they are
  exclusive: two apps with the same fixed port may overwrite each other's
  (`processManager.ts:1144`), and then the last one owns it.
- `StopIsFinal` excepts `late`: a replaced connection's close event turns the state of its
  successor over.

## What is proved

All proofs are for every value of the constants, within the assumptions the modules
name. None of the properties is inductive as it stands; each module's `IInv` is what
has to be added, and each proof shows `Init => IInv`, one lemma per action or group of
actions for `IInv /\ [Next]_vars => IInv'`, and `IInv => Inv`.

`OperationStore_proofs` (any apps, operations, callers, gates, retention, restarts):

- `Invariance`: a live promise chain owns its target (`ChainInv`) and every owner is a live
  chain without a gate (`ActiveInv`), a record follows its chain except where
  shutdown concluded it (`RecordInv`), memory and disk agree while a process is
  up (`MirrorInv`), nothing is known about ids not issued (`IssuedInv`), and
  `CallInv` says what callers may have been told.
- `TypeCorrect`, `RunsAreExclusive`, `GatesExcludeRuns`, `AnswersAreDurable`,
  `AnswersFitTheRequest`, `ClosingIsQuiet`: the safety properties of the run `operations`.
- `Refinement`: `Spec => ImplementsLedger`, by one lemma per group of actions that names the
  ledger's step each of them maps to. From it `ConclusionsStand`
  (`Ledger!ConcludedForGood`) and `OneOpenOperation` (`Ledger!OneOpenPerApp`), over
  crashes and reloads too.

`ProcessManager_proofs` (any apps, ports, hooks, both platforms):

- `Invariance`: `pc` and `mutations` belong together (`StepInv`), each await finds the entry,
  port and child it needs (`EntryInv`), the status fits the await (`StatusInv`), a
  reservation is the port of its owner's entry and nothing is reserved while one is probed
  for (`ReservedInv`), a child was spawned for the app that names it (`ChildInv`), and on
  Windows where a child that has not exited may be (`WindowsInv`, `ProcInv`).
- `TypeCorrect`, `NoReservationLeaks`, `IdleSettled`, `LateExitsAreHarmless`
  (`VerdictsStand`), `StopsAreVerified` (`StopIsVerified`); and, assuming `Windows`,
  `RunningIsReal` (`RunningHasProcess`) and `NothingUnreachable` (`ChildrenAreReachable`).
- `ActionsAdvance` (`ActionsMoveOn`): every step of an action lowers its rank or tries a later
  port, which bounds their number for any set of apps and ports. With the fairness of the
  awaits, which is what only TLC checks, this is `MutationsEnd`.
- `LifecycleKept` (`ImplementsLifecycle`), on both platforms. `IInv` does not say enough of
  the status of an app that is being launched; `LaunchedInv`, proved on top of it as
  `LaunchesReportLast`, does. `StatusIsTold` (`Lifecycle!StatusTellsPhase`) follows: an app is
  reported starting or stopping only while an action is at that part of it.

`AgentRuns_proofs` (any sessions, runs, approvals, submissions, restarts):

- `Invariance`: what the row of a run may say at each await of its worker (`WorkInv`), that a
  session's entry is about a run of that session (`EntryInv`) with a worker
  (`EntriesHaveWorkers`), that an open approval has a run that is not over and an
  executed one was approved (`ApprovalInv`), and that budgets are reserved for runs the
  model has before it or that were overtaken (`BudgetsAreReturned`).
- `TypeCorrect`, `OneWorkerAtATime`, `BudgetsComeBack`, `EntriesAreWorkedOn`, `ApprovalsAreDue`,
  `OverIsFinal`: the other properties of the run `agent`.
- `ApprovalsAreKept` (`ImplementsApprovals`), one lemma per step of the ledger. Approving needs
  that a run which waits has no tool at work, which is part of `WorkInv`, and the end of a tool
  that what is executed was approved. `ToolsExecuteOnce` (`Ledger!ExecutedOnce`)
  and `OneToolAtATime` (`Ledger!OneToolPerRun`) follow from the ledger alone.

`DaemonRestart_proofs` (any apps, commands, and any of the apps called past the store):

- `Invariance`: a command past its discovery knows a daemon that is not newer than the
  current one (`SeenInv`); quiescing, the request, the preparation and its result
  belong together (`CoordinatorInv`); operations wait for mutations and there are none
  while the coordinator quiesces (`TrackedInv`), which is what makes the set of
  children the stops began with complete; while they last every child is about to be stopped, went
  past the coordinator, or makes the restart fail (`StopInv`); and what a command owes is
  at each of its awaits in the shutdown's list, the prepared one, its own, or pending
  (`OwedInv`).
- `TypeCorrect`, `PreparedOwnsNothing` (`NothingIsAbandoned`), `SuccessIsComplete`
  (`RestartedIsRestored`).
- `RestartsFollowTheCycle` (`ImplementsCycle`), which needs `CoordinatorInv`, `TrackedInv` and
  that a daemon which is gone runs nothing (`DownIsEmpty`). From it `QuiescedMeansQuiet`
  (`Cycle!NothingMeanwhile`) and `RestartsStand` (`Cycle!RestartStands`).

`ChildMcp_proofs` (any connections and calls):

- `Invariance`: a stop closes the child for its timer, for good (`StopInv`); until then the
  current client is live and accepts calls or is being connected or listed, or the timer is
  set (`ClientInv`); and unless a close event came late, only the current client is live or
  connecting (`CurrentInv`).
- `CallsAreCounted` (`TypeOK`, which bounds the calls in flight), `ChildrenComeBack`
  (`NeverAbandoned`), `StopsAreFinal` (`StopIsFinal`).

`AppPackages_proofs` (any packages, members, runs, editors, worker and revision bounds):

- `Invariance`: active runs and executions belong together (`DrivenInv`), a package has one
  active run, and runs are of packages that were created (`PackageInv`), a change is bound to a
  revision that leaves room for the next (`ChangeInv`), what the members of a run may be at
  each point of its execution (`MembersInv`), and a daemon that shuts down has asked its runs
  to abort (`ClosingInv`).
- `TypeCorrect`, `OneRunAtATime` (`OneActiveRun`), `ActiveRunsAreDriven` (`RunsAreDriven`),
  `VerdictsFit` (`VerdictFitsMembers`), `DefinitionsAreStable` (`DefinitionsStable`),
  `HistoryIsFinal` (`HistoryStands`), `AbortsAreObeyed` (`AbortStopsEnqueueing`).
- `RunsAdvance` (`RunsMoveOn`): a member settles once and is enqueued before it is started, a
  run is executed once, and no step of an execution leaves it where it was. That bounds the
  steps of a run of any size; with fairness it is `RunsEnd`.

`AppRename_proofs` (any apps, names, manifest files, requests at a time, failed writes and
crashes), as long as no registry writers overlapped:

- `Invariance`: one writer at a time, and only registrations share an app (`OwnersInv`); a
  starting daemon has no requests and its memory is the file (`DownInv`); the copy being
  saved is memory, or memory with the new name (`SnapInv`); what each await of a request knows
  of manifest, memory and record (`StepInv`); a record is of a rename under way or of a
  failed one (`RecordInv`); memory is ahead of the file only for an app that is being saved or
  whose save failed (`DurableInv`); and an entry that came from a file has the name the file
  says, or the record says how to make it so (`NamesInv`), which is what recovery needs.
  None of them says anything of the name of an entry without a file, or of which file a
  registration names.
- `TypeCorrect` (whatever overlapped), `StartsAgain` (`RecoverySucceeds`),
  `ManifestAndRegistryAgree` (`NamesAgree`), `MemoryIsNeverAhead` (`MemoryIsDurable`).
- `RenamesAreAtomic` (`RenameIsAtomic`): by `StepInv`, and by `SnapInv` and
  `DurableInv` for the save of the registry, every write but one leaves `Settled` alone, and
  so does every step of a recovery.

Only model-checked: liveness (`EveryCallAnswered`, `MutationsEnd`, `RunsEnd`,
`QuiescingEnds`). It needs fairness and so ENABLED, which is beyond this prover; for
`MutationsEnd` and `RunsEnd` the part that needs neither is proved, see above. Every other
property of a passing run is a theorem. `IdleSettled` (`IdleIsSettled`) and
`LateExitsAreHarmless` (`VerdictsStand`) are theorems that no run checks any more: the
refinement of `AppLifecycle` says more.

## Not modelled

- Storage failures outside renames: a SQLite write that throws. `operationStore.ts` would give
  the target back with an open row; a package worker that hits one fails its run while the
  other workers go on.
- `OperationStore.close()`, which nothing in `src/` calls, and a shutdown with a timeout of
  zero, which nothing asks for.
- The probes of a verification run inside `#startLocked`, log buffers, views and events.
- Of the agent: messages, events, audit, idempotency keys, tool arguments with their digests and
  policies (they only refuse more), amounts of budgets, the configuration commands,
  the managed credential and its repair journal.
- Files that setup or a person rewrites under a running daemon.
- Everything that is one request transformed into one answer, or a file into a file: routing
  and proxying, the tunnel, project detection and manifest writing, Docker profiles, tool
  schemas and policies, the command line, the dashboard, the bridge and the Go terminal UI.
  These make up most of the lines of the repository. They keep no state that two
  actors share, so a state machine of them would say nothing a unit test does not.

## Plan

What is left, in the order of what it would add:

1. A daemon ended by a signal in `DaemonRestart` (it stops its apps and answers no command),
   and the liveness of a restart whose command neither dies nor gives up.
2. Storage failures in `OperationStore` and `AppPackages`: a write that throws between the
   change in memory and the row.
3. The repair journal of the managed credential, a second two-file protocol like that of a
   rename, and the rotation of the log store.
4. In `AgentRuns`, the digests that bind an approval to the arguments and the configuration
   it was given for; in `ChildMcp`, the composition with the process manager's stop.
