----------------------------- MODULE AppPackages -----------------------------
(***************************************************************************)
(* App packages (appPackageService.ts, appPackageStore.ts): named sets of  *)
(* apps, changed through previews bound to a revision, and the runs that   *)
(* start their members through the store of operations.                    *)
(*                                                                         *)
(* Definitions and runs are SQLite rows and survive a crash; executions    *)
(* and previews are process memory.  A member's lifecycle operation is     *)
(* seen from here as OperationStore promises it: enqueueing may be         *)
(* refused, an accepted operation ends once, in success or not.            *)
(*                                                                         *)
(* Left out: names (and the check that a name is free), the order of the   *)
(* members, and the links from a member to its operation and its errors.   *)
(***************************************************************************)
EXTENDS Naturals, FiniteSets

CONSTANTS
  Packages,     \* package ids; a randomUUID is never issued twice
  Apps,         \* registered application ids
  MemberSets,   \* the sets of members a client may ask for
  RunIds,       \* run ids, never issued twice either
  Editors,      \* clients that change definitions
  Concurrency,  \* PACKAGE_LAUNCH_CONCURRENCY, four in the code
  MaxRevision,  \* bound: revisions of one definition
  MaxRestarts,  \* bound: how often the daemon process is replaced
  None,         \* no such row
  Deleted       \* the row was deleted

ASSUME CountAssumption ==
  Concurrency \in Nat \ {0} /\ MaxRevision \in Nat \ {0} /\ MaxRestarts \in Nat

ASSUME MembersAssumption == MemberSets \subseteq SUBSET Apps \ {{}}

VARIABLES
  definitions,  \* app_packages
  runs,         \* app_package_runs and app_package_run_members
  executions,   \* #executions: how far a run's execution got
  accepting,    \* #accepting; FALSE from the start of a shutdown
  up,           \* the daemon process exists and its store is open
  changes,      \* an editor's change: its preview binding and its apply
  restarts      \* how often the process was replaced

vars == <<definitions, runs, executions, accepting, up, changes, restarts>>
memory == <<executions, accepting, up, changes, restarts>>

Active == {"queued", "running"}
Verdicts == {"succeeded", "partial", "failed", "aborted", "interrupted"}
Succeeded == {"started", "skipped_already_running"}
Retryable == {"failed", "skipped_preflight", "skipped_aborted", "skipped_interrupted",
              "interrupted"}
Unsettled == {"pending", "starting"}

Definition == [members : MemberSets, revision : 1 .. MaxRevision]
Run == [package : Packages, status : Active \cup Verdicts, abortRequested : BOOLEAN,
        member : [Apps -> {"absent"} \cup Unsettled \cup Succeeded \cup Retryable]]
Change == [package : Packages, revision : 1 .. MaxRevision, members : MemberSets,
           at : {"previewed", "waiting", "checking"}]

ASSUME NoneAssumption ==
  None \notin Definition \cup Run \cup Change /\ Deleted \notin Definition \cup {None}

Exists(k) == definitions[k] \notin {None, Deleted}
IsActive(r) == runs[r] # None /\ runs[r].status \in Active
ActiveRuns(k) == {r \in RunIds : IsActive(r) /\ runs[r].package = k}
In(r, states) == {a \in Apps : runs[r].member[a] \in states}

-----------------------------------------------------------------------------
(* Definitions                                                             *)

Init ==
  /\ definitions = [k \in Packages |-> None]
  /\ runs = [r \in RunIds |-> None]
  /\ executions = [r \in RunIds |-> "none"]
  /\ accepting = TRUE
  /\ up = TRUE
  /\ changes = [e \in Editors |-> None]
  /\ restarts = 0

CreateDefinition(k, members) ==
  /\ up /\ accepting
  /\ definitions[k] = None
  /\ definitions' = [definitions EXCEPT ![k] = [members |-> members, revision |-> 1]]
  /\ UNCHANGED <<runs, memory>>

\* deleteDefinition, and applyDeleteDefinition, whose check of the revision
\* only refuses more. Runs stay as history.
DeleteDefinition(k) ==
  /\ up /\ accepting
  /\ Exists(k) /\ ActiveRuns(k) = {}
  /\ definitions' = [definitions EXCEPT ![k] = Deleted]
  /\ UNCHANGED <<runs, memory>>

MoveChange(e, change) ==
  /\ changes' = [changes EXCEPT ![e] = change]
  /\ UNCHANGED <<definitions, runs, executions, accepting, up, restarts>>

\* previewDefinitionChange: without an active run, a binding to the revision.
PreviewChange(e, k, members) ==
  /\ up /\ accepting
  /\ changes[e] = None
  /\ Exists(k) /\ ActiveRuns(k) = {}
  /\ definitions[k].revision < MaxRevision
  /\ members # definitions[k].members
  /\ MoveChange(e, [package |-> k, revision |-> definitions[k].revision,
                    members |-> members, at |-> "previewed"])

\* The binding expires, or pruning drops it.
DropPreview(e) ==
  /\ changes[e] # None /\ changes[e].at = "previewed"
  /\ MoveChange(e, None)

\* applyDefinitionChange, as far as the gate of the definition.
RequestApply(e) ==
  /\ up /\ accepting
  /\ changes[e] # None /\ changes[e].at = "previewed"
  /\ MoveChange(e, [changes[e] EXCEPT !.at = "waiting"])

MayChange(e) ==
  LET k == changes[e].package
  IN  /\ Exists(k)
      /\ definitions[k].revision = changes[e].revision
      /\ ActiveRuns(k) = {}

GateFree(k) == \A e \in Editors : changes[e] = None \/ changes[e].package # k
                                  \/ changes[e].at # "checking"

\* Inside the gate, up to the await of the registry. A refused apply leaves
\* its binding behind.
BeginApply(e) ==
  /\ up
  /\ changes[e] # None /\ changes[e].at = "waiting"
  /\ GateFree(changes[e].package)
  /\ MoveChange(e, [changes[e] EXCEPT !.at = IF MayChange(e) THEN "checking" ELSE "previewed"])

CommitFirstLook(e) == Exists(changes[e].package)
MayCommit(e) == MayChange(e)

\* After the await everything is checked again; a member that is not registered
\* any more refuses the change too.
EndApply(e) ==
  /\ up
  /\ changes[e] # None /\ changes[e].at = "checking"
  /\ \/ /\ MayCommit(e)
        /\ definitions' = [definitions EXCEPT ![changes[e].package] =
             [members |-> changes[e].members, revision |-> changes[e].revision + 1]]
        /\ changes' = [changes EXCEPT ![e] = None]
        /\ UNCHANGED <<runs, executions, accepting, up, restarts>>
     \/ MoveChange(e, [changes[e] EXCEPT !.at = "previewed"])

-----------------------------------------------------------------------------
(* Launch, retry and abort                                                 *)

LaunchAnyway(k) == Exists(k)
MayLaunch(k) == Exists(k) /\ ActiveRuns(k) = {}

\* createRun and #startExecution.
CreateRun(r, k, members) ==
  /\ up /\ accepting
  /\ MayLaunch(k)
  /\ runs[r] = None
  /\ runs' = [runs EXCEPT ![r] =
                [package |-> k, status |-> "queued", abortRequested |-> FALSE,
                 member |-> [a \in Apps |-> IF a \in members THEN "pending" ELSE "absent"]]]
  /\ executions' = [executions EXCEPT ![r] = "scheduled"]
  /\ UNCHANGED <<definitions, accepting, up, changes, restarts>>

Launch(k, r) == Exists(k) /\ CreateRun(r, k, definitions[k].members)

\* retryRun: the members that did not make it, as the old run remembers them,
\* whatever became of the definition since.
Retry(old, r) ==
  /\ runs[old] # None /\ runs[old].status \in Verdicts \ {"succeeded"}
  /\ In(old, Retryable) # {}
  /\ CreateRun(r, runs[old].package, In(old, Retryable))

AbortRun(r) ==
  /\ up
  /\ IsActive(r)
  /\ runs' = [runs EXCEPT ![r].abortRequested = TRUE]
  /\ UNCHANGED <<definitions, memory>>

-----------------------------------------------------------------------------
(* #executeRun                                                             *)

\* The execution of a run reaches `step`, its members and status being what is
\* given; "none" once #executions has forgotten it.
Proceed(r, member, status, step) ==
  /\ runs' = [runs EXCEPT ![r].member = member, ![r].status = status]
  /\ executions' = [executions EXCEPT ![r] = step]
  /\ UNCHANGED <<definitions, accepting, up, changes, restarts>>

\* The members in one of the states `from` move to `to`.
MovedAll(r, from, to) ==
  [a \in Apps |-> IF runs[r].member[a] # "absent" THEN to ELSE "absent"]
Moved(r, from, to) ==
  [a \in Apps |-> IF runs[r].member[a] \in from THEN to ELSE runs[r].member[a]]
MovedThese(r, these, to) == [a \in Apps |-> IF a \in these THEN to ELSE runs[r].member[a]]

\* The preflight: one member that is not registered fails the run before
\* anything is enqueued.
Preflight(r) ==
  /\ executions[r] = "scheduled"
  /\ \/ Proceed(r, runs[r].member, "running", "listing")
     \/ \E missing \in SUBSET In(r, {"pending"}) \ {{}} :
          Proceed(r, [a \in Apps |-> IF a \in missing THEN "failed"
                                     ELSE IF a \in In(r, {"pending"}) THEN "skipped_preflight"
                                     ELSE "absent"], "failed", "none")

\* #failUnexpectedRun.
FailedRun(r) == Proceed(r, Moved(r, Unsettled, "failed"), "failed", "none")

\* The statuses of the apps arrive: the healthy ones are left alone. Or the
\* list fails, which fails the run.
Listed(r) ==
  /\ executions[r] = "listing"
  /\ \/ \E healthy \in SUBSET In(r, {"pending"}) :
          Proceed(r, MovedThese(r, healthy, "skipped_already_running"), "running", "working")
     \/ FailedRun(r)

EnqueueAnyway(r) == Cardinality(In(r, {"starting"})) < Concurrency
MayEnqueue(r) == ~runs[r].abortRequested /\ Cardinality(In(r, {"starting"})) < Concurrency

\* #startMember by an idle worker: the store of operations accepts the start of
\* the app, or refuses it.
StartMember(r, a) ==
  /\ executions[r] = "working"
  /\ MayEnqueue(r)
  /\ runs[r].member[a] = "pending"
  /\ \E state \in {"starting", "failed"} : Proceed(r, MovedThese(r, {a}, state), "running", "working")

\* The member's operation ended.
EndMember(r, a) ==
  /\ executions[r] = "working"
  /\ runs[r].member[a] = "starting"
  /\ \E state \in {"started", "failed"} : Proceed(r, MovedThese(r, {a}, state), "running", "working")

AllSettled(r) == executions[r] = "working" /\ In(r, Unsettled) = {}
WorkersDone(r) ==
  /\ executions[r] = "working"
  /\ In(r, {"starting"}) = {}
  /\ runs[r].abortRequested \/ In(r, {"pending"}) = {}

CompletedAnyway(r) == IF In(r, Succeeded) = {} THEN "failed" ELSE "succeeded"
Completed(r) == IF In(r, {"failed"}) = {} THEN "succeeded"
                ELSE IF In(r, Succeeded) = {} THEN "failed" ELSE "partial"

FinishRun(r) ==
  /\ WorkersDone(r)
  /\ IF runs[r].abortRequested
       THEN Proceed(r, Moved(r, {"pending"}, "skipped_aborted"), "aborted", "none")
       ELSE Proceed(r, runs[r].member, Completed(r), "none")

-----------------------------------------------------------------------------
(* Shutdown, crash and restart                                             *)

AbortNone(r) == FALSE
AbortsAtShutdown(r) == executions[r] # "none"

\* requestAbortAll.
Shutdown ==
  /\ up /\ accepting
  /\ accepting' = FALSE
  /\ runs' = [r \in RunIds |-> IF AbortsAtShutdown(r) THEN [runs[r] EXCEPT !.abortRequested = TRUE]
                               ELSE runs[r]]
  /\ UNCHANGED <<definitions, executions, up, changes, restarts>>

LoseMemory ==
  /\ up' = FALSE
  /\ accepting' = FALSE
  /\ executions' = [r \in RunIds |-> "none"]
  /\ changes' = [e \in Editors |-> None]
  /\ UNCHANGED <<definitions, runs, restarts>>

\* The end of shutdown: every execution was waited for. An apply that is still
\* in its gate finds the store closed.
Close == up /\ ~accepting /\ (\A r \in RunIds : executions[r] = "none") /\ LoseMemory

Crash == up /\ restarts < MaxRestarts /\ LoseMemory

ReconciledAll(r) == runs[r] # None
ReconciledRunning(r) == runs[r] # None /\ runs[r].status = "running"
Reconciled(r) == IsActive(r)

\* The store opens: #reconcileInterruptedRuns.
Reopen ==
  /\ ~up /\ restarts < MaxRestarts
  /\ up' = TRUE /\ accepting' = TRUE
  /\ restarts' = restarts + 1
  /\ runs' = [r \in RunIds |->
       IF Reconciled(r)
         THEN [runs[r] EXCEPT !.status = "interrupted",
                              !.member = [a \in Apps |->
                                 CASE @[a] = "starting" -> "interrupted"
                                   [] @[a] = "pending" -> "skipped_interrupted"
                                   [] OTHER -> @[a]]]
         ELSE runs[r]]
  /\ UNCHANGED <<definitions, executions, changes>>

-----------------------------------------------------------------------------
Execute(r) ==
  \/ Preflight(r) \/ Listed(r) \/ FinishRun(r)
  \/ \E a \in Apps : StartMember(r, a) \/ EndMember(r, a)

Next ==
  \/ \E k \in Packages : DeleteDefinition(k)
  \/ \E k \in Packages, members \in MemberSets : CreateDefinition(k, members)
  \/ \E e \in Editors, k \in Packages, members \in MemberSets : PreviewChange(e, k, members)
  \/ \E e \in Editors : DropPreview(e) \/ RequestApply(e) \/ BeginApply(e) \/ EndApply(e)
  \/ \E k \in Packages, r \in RunIds : Launch(k, r)
  \/ \E old, r \in RunIds : Retry(old, r)
  \/ \E r \in RunIds : AbortRun(r) \/ Execute(r)
  \/ Shutdown \/ Close \/ Crash \/ Reopen

Spec == Init /\ [][Next]_vars

\* An execution never stops by itself: what it awaits is the registry, the list
\* of statuses (bounded probes) and operations, which end.
FairSpec == Spec /\ \A r \in RunIds : WF_vars(Execute(r))

-----------------------------------------------------------------------------
(* Properties                                                              *)

\* The rows, the executions and the bindings are what their types say.
TypeOK ==
  /\ definitions \in [Packages -> Definition \cup {None, Deleted}]
  /\ runs \in [RunIds -> Run \cup {None}]
  /\ executions \in [RunIds -> {"none", "scheduled", "listing", "working"}]
  /\ accepting \in BOOLEAN /\ up \in BOOLEAN
  /\ changes \in [Editors -> Change \cup {None}]
  /\ restarts \in 0 .. MaxRestarts

\* A package has one active run at a time, whether launched or retried, across
\* restarts too (PACKAGE_RUN_ACTIVE in launch and retryRun).
OneActiveRun == \A k \in Packages : Cardinality(ActiveRuns(k)) <= 1

\* While the daemon is up every active run is being executed; a run without an
\* execution would block its package for good (#startExecution, reconciliation).
RunsAreDriven ==
  up => \A r \in RunIds : IsActive(r) <=> executions[r] # "none"

\* A run's verdict accounts for every member: nothing is left pending or
\* starting, success means that every member runs, partial that some do and
\* some do not, failed that none was started, aborted that it was asked for.
VerdictFitsMembers ==
  \A r \in RunIds : runs[r] # None /\ runs[r].status \in Verdicts =>
    /\ In(r, Unsettled) = {}
    /\ runs[r].status = "succeeded" => In(r, Retryable) = {}
    /\ runs[r].status = "partial" => In(r, Succeeded) # {} /\ In(r, {"failed"}) # {}
    /\ runs[r].status = "failed" => In(r, {"started"}) = {}
    /\ runs[r].status = "aborted" => runs[r].abortRequested

\* A package's definition does not change or go away while a run of it is
\* active, even when the run was launched between an apply's two checks.
DefinitionsStable ==
  [][\A k \in Packages : ActiveRuns(k) # {} => definitions'[k] = definitions[k]]_vars

\* Once an abort is requested by a client, or a shutdown begins, no further
\* member of the run is enqueued (docs/operator-console.md; requestAbortAll).
AbortStopsEnqueueing ==
  [][\A r \in RunIds : runs[r] # None /\ (runs[r].abortRequested \/ ~accepting) =>
       \A a \in Apps : runs[r].member[a] = "pending" => runs'[r].member[a] # "starting"]_vars

\* What a finished run says is never rewritten: not by a late abort, a late
\* member, a retry of it or the reconciliation of a restart.
HistoryStands ==
  [][\A r \in RunIds : runs[r] # None /\ runs[r].status \in Verdicts => runs'[r] = runs[r]]_vars

\* How far a member and an execution got; what a member settled as is for good.
MemberRank(state) == CASE state = "pending" -> 0 [] state = "starting" -> 1 [] OTHER -> 2
ExecutionRank(step) ==
  CASE step = "scheduled" -> 0 [] step = "listing" -> 1 [] step = "working" -> 2 [] OTHER -> 3

\* A member is started before it is reported as started, and keeps what it settled
\* as, whatever becomes of the rest: a failed list, an abort, a shutdown or a crash
\* conclude only those that were not settled. A run is executed once, and every step
\* of its execution takes it further (#executeRun), so the steps are bounded.
RunsMoveOn ==
  [][\A r \in RunIds : runs[r] # None =>
       LET before == runs[r].member
           after == runs'[r].member
       IN  /\ \A a \in Apps : \/ after[a] = before[a]
                              \/ MemberRank(before[a]) < MemberRank(after[a])
           /\ \A a \in Apps : after[a] = "started" => before[a] \in {"starting", "started"}
           /\ \/ executions'[r] = executions[r]
              \/ ExecutionRank(executions[r]) < ExecutionRank(executions'[r])
           /\ Execute(r) => after # before \/ executions'[r] # executions[r]]_vars

\* Every run ends, unless the daemon stays down.
RunsEnd == \A r \in RunIds : IsActive(r) ~> ~up \/ ~IsActive(r)

-----------------------------------------------------------------------------
(* The inductive invariant, for the proofs                                 *)

\* Who serves is up, and an execution belongs to an active run of a process that is.
DrivenInv ==
  /\ accepting => up
  /\ \A r \in RunIds : executions[r] # "none" => up
  /\ RunsAreDriven

\* Runs are of packages that were created, one at a time.
PackageInv ==
  /\ \A k \in Packages : \A q, r \in ActiveRuns(k) : q = r
  /\ \A r \in RunIds : runs[r] # None => definitions[runs[r].package] # None

\* A binding leaves room for the revision it would make.
ChangeInv == \A e \in Editors : changes[e] # None => changes[e].revision < MaxRevision

\* What the members of a run may be at each step of its execution.
MembersInv ==
  \A r \in RunIds :
    /\ executions[r] \in {"scheduled", "listing"} =>
         \A a \in Apps : runs[r].member[a] \in {"absent", "pending"}
    /\ executions[r] = "working" =>
         \A a \in Apps : runs[r].member[a] \in {"absent", "failed"} \cup Unsettled \cup Succeeded

\* A shutdown has asked every run to abort.
ClosingInv == up /\ ~accepting => \A r \in RunIds : IsActive(r) => runs[r].abortRequested

IInv ==
  /\ TypeOK /\ DrivenInv /\ PackageInv /\ ChangeInv /\ MembersInv /\ ClosingInv
  /\ VerdictFitsMembers
=============================================================================
