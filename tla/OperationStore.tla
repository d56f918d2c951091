--------------------------- MODULE OperationStore ---------------------------
(***************************************************************************)
(* The daemon's store of lifecycle operations (operationStore.ts) and the  *)
(* HTTP callers that wait on it (enqueueLifecycleOperation in api.ts).     *)
(*                                                                         *)
(* One step is one synchronous segment of the JavaScript: what the code    *)
(* does between two awaits is atomic, what it does across an await is two  *)
(* actions.  An operation's promise chain is followed in `runs`:           *)
(*   scheduled -> executing -> finished -> none                            *)
(* that is Promise.resolve().then, input.run, #finish, and the .finally    *)
(* that gives the target back and prunes.                                  *)
(***************************************************************************)
EXTENDS Naturals, FiniteSets

CONSTANTS
  Apps,            \* lifecycle targets: registered application ids
  OpIds,           \* operation ids; a randomUUID is never issued twice
  Clients,         \* callers, each of which makes one request
  Lifecycle,       \* LifecycleOperationType: start, stop, restart
  Gates,           \* gate names: those of appRename.ts and appUnregister.ts
  RetentionLimit,  \* retentionLimit: records kept before #prune evicts
  MaxRestarts,     \* bound: how often the daemon process is replaced
  None

ASSUME NoneAssumption == None \notin Apps \cup OpIds \cup Gates
ASSUME BoundAssumption == RetentionLimit \in Nat /\ MaxRestarts \in Nat

VARIABLES
  target,           \* the app an issued operation is about
  kind,             \* its operationType
  status,           \* #operations: status of the record in memory
  ledger,           \* lifecycle_operations: status of the row on disk
  runs,             \* the position of the operation's promise chain
  activeByTarget,   \* #activeByTarget
  targetGates,      \* #targetGates
  shutdownFinalized, \* #shutdownFinalized
  phase,            \* #accepting, #closed and the progress of #shutdown
  calls,            \* what each client waits for, or was answered
  restarts          \* how many times the process was replaced

vars == <<target, kind, status, ledger, runs, activeByTarget, targetGates,
          shutdownFinalized, phase, calls, restarts>>

Kinds == Lifecycle \cup {"registration_verification"}
Open == {"queued", "running"}
Outcomes == {"succeeded", "failed", "timed_out"}
Status == Open \cup Outcomes \cup {"absent"}
RunPhase == {"none", "scheduled", "executing", "finished"}

\* "stuck": #shutdown threw OperationStoreShutdownTimeoutError, the store stays
\* unclosed and refuses work. "down": the process is gone.
StorePhase == {"open", "draining", "aborting", "stuck", "closed", "down"}

Refusals == {"conflict", "locked", "closed"}
Answers == Outcomes \cup Refusals \cup {"lost"}

Idle == [asked |-> None, op |-> None, answer |-> "none"]
Call == [asked : {None} \cup (Apps \X Lifecycle),
         op : OpIds \cup {None},
         answer : Answers \cup {"none"}]

Issued == {o \in OpIds : target[o] # None}
ActiveUnfinished ==
  {activeByTarget[a] : a \in {b \in Apps : /\ activeByTarget[b] # None
                                          /\ status[activeByTarget[b]] \in Open}}
Active == {activeByTarget[a] : a \in Apps} \ {None}
Waiting(c) == calls[c].op # None /\ calls[c].answer = "none"

\* What an app's next request or gate depends on.
FreeUnlessGated(a) == targetGates[a] = None
FreeUnlessActive(a) == activeByTarget[a] = None
Free(a) == targetGates[a] = None /\ activeByTarget[a] = None

NeverConflicts(a, action) == FALSE
Conflicts(a, action) ==
  activeByTarget[a] # None /\ kind[activeByTarget[a]] # action

-----------------------------------------------------------------------------
(* Retention.  #prune evicts finished records, oldest first, until the      *)
(* limit holds again or nothing is left to evict.  Age (insertion order, or *)
(* updated_at order after a reload) is abstracted: any choice of the right  *)
(* number of evictable records.                                             *)

EvictableOnceConcluded(records, active) == {o \in OpIds : records[o] \in Outcomes}
Evictable(records, active) ==
  {o \in OpIds : records[o] \in Outcomes /\ \A a \in Apps : active[a] # o}

Evictions(records, active) ==
  LET kept == Cardinality({o \in OpIds : records[o] # "absent"})
      excess == IF kept > RetentionLimit THEN kept - RetentionLimit ELSE 0
      old == Evictable(records, active)
      enough == IF excess < Cardinality(old) THEN excess ELSE Cardinality(old)
  IN  {E \in SUBSET old : Cardinality(E) = enough}

Without(E, records) == [o \in OpIds |-> IF o \in E THEN "absent" ELSE records[o]]

\* #persist writes nothing once the store is closed.
PersistWhileAccepting(rows) == ledger' = IF phase = "open" THEN rows ELSE ledger
Persist(rows) == ledger' = IF phase = "closed" THEN ledger ELSE rows

-----------------------------------------------------------------------------
Init ==
  /\ target = [o \in OpIds |-> None]
  /\ kind = [o \in OpIds |-> None]
  /\ status = [o \in OpIds |-> "absent"]
  /\ ledger = [o \in OpIds |-> "absent"]
  /\ runs = [o \in OpIds |-> "none"]
  /\ activeByTarget = [a \in Apps |-> None]
  /\ targetGates = [a \in Apps |-> None]
  /\ shutdownFinalized = {}
  /\ phase = "open"
  /\ calls = [c \in Clients |-> Idle]
  /\ restarts = 0

\* enqueueLifecycle, the paths that throw: closed store, gated target, another
\* action active on the target, in that order.
Refuse(c, a, action) ==
  /\ calls[c] = Idle
  /\ phase # "down"
  /\ \/ /\ phase # "open"
        /\ calls' = [calls EXCEPT ![c].answer = "closed"]
     \/ /\ phase = "open"
        /\ targetGates[a] # None
        /\ calls' = [calls EXCEPT ![c].answer = "locked"]
     \/ /\ phase = "open"
        /\ targetGates[a] = None
        /\ Conflicts(a, action)
        /\ calls' = [calls EXCEPT ![c].answer = "conflict"]
  /\ UNCHANGED <<target, kind, status, ledger, runs, activeByTarget,
                 targetGates, shutdownFinalized, phase, restarts>>

\* enqueueLifecycle, the deduplicated path: the caller shares the promise of the
\* active operation (its progress note is not part of the state).
Join(c, a, action) ==
  /\ calls[c] = Idle
  /\ phase = "open"
  /\ targetGates[a] = None
  /\ activeByTarget[a] # None
  /\ ~Conflicts(a, action)
  /\ calls' = [calls EXCEPT ![c] = [asked |-> <<a, action>>,
                                    op |-> activeByTarget[a],
                                    answer |-> "none"]]
  /\ UNCHANGED <<target, kind, status, ledger, runs, activeByTarget,
                 targetGates, shutdownFinalized, phase, restarts>>

\* enqueueLifecycle, the path that creates an operation and schedules its run.
Enqueue(c, a, action, o) ==
  /\ calls[c] = Idle
  /\ phase = "open"
  /\ Free(a)
  /\ o \notin Issued
  /\ target' = [target EXCEPT ![o] = a]
  /\ kind' = [kind EXCEPT ![o] = action]
  /\ status' = [status EXCEPT ![o] = "queued"]
  /\ Persist([ledger EXCEPT ![o] = "queued"])
  /\ runs' = [runs EXCEPT ![o] = "scheduled"]
  /\ activeByTarget' = [activeByTarget EXCEPT ![a] = o]
  /\ calls' = [calls EXCEPT ![c] =
                 [asked |-> <<a, action>>, op |-> o, answer |-> "none"]]
  /\ UNCHANGED <<targetGates, shutdownFinalized, phase, restarts>>

\* #runLifecycleOperation up to the await of input.run: #start marks the record
\* running whatever it was; #addProgress persists it unless it was finalized.
Start(o) ==
  /\ runs[o] = "scheduled"
  /\ runs' = [runs EXCEPT ![o] = "executing"]
  /\ status' = [status EXCEPT ![o] = "running"]
  /\ Persist(IF o \in shutdownFinalized
               THEN ledger ELSE [ledger EXCEPT ![o] = "running"])
  /\ UNCHANGED <<target, kind, activeByTarget, targetGates, shutdownFinalized,
                 phase, calls, restarts>>

\* input.run returned or threw. A record that shutdown has already concluded is
\* left alone; otherwise #finish records the outcome evaluateLifecycleOutcome
\* gives (an exception is "failed").
Finish(o, outcome) ==
  /\ runs[o] = "executing"
  /\ runs' = [runs EXCEPT ![o] = "finished"]
  /\ IF o \in shutdownFinalized
       THEN UNCHANGED <<status, ledger>>
       ELSE /\ status' = [status EXCEPT ![o] = outcome]
            /\ Persist([ledger EXCEPT ![o] = outcome])
  /\ UNCHANGED <<target, kind, activeByTarget, targetGates, shutdownFinalized,
                 phase, calls, restarts>>

\* `done` resolves with the record for every caller that shares it.
AnsweredUnlessFinalized(o) ==
  [c \in Clients |-> IF Waiting(c) /\ calls[c].op = o /\ o \notin shutdownFinalized
                       THEN [calls[c] EXCEPT !.answer = status[o]] ELSE calls[c]]
Answered(o) ==
  [c \in Clients |-> IF Waiting(c) /\ calls[c].op = o
                       THEN [calls[c] EXCEPT !.answer = status[o]] ELSE calls[c]]

\* The .finally of the chain: the target is given back if it is still this
\* operation's, old records are pruned, and whoever awaited `done` is answered.
Settle(o) ==
  /\ runs[o] = "finished"
  /\ runs' = [runs EXCEPT ![o] = "none"]
  /\ activeByTarget' =
       [activeByTarget EXCEPT ![target[o]] = IF @ = o THEN None ELSE @]
  /\ \E E \in Evictions(status, activeByTarget') :
       /\ status' = Without(E, status)
       /\ ledger' = Without(E, ledger)
  /\ calls' = Answered(o)
  /\ UNCHANGED <<target, kind, targetGates, shutdownFinalized, phase, restarts>>

\* recordEvidence: a concluded registration_verification record, then #prune.
RecordEvidence(a, outcome, o) ==
  /\ phase = "open"
  /\ o \notin Issued
  /\ target' = [target EXCEPT ![o] = a]
  /\ kind' = [kind EXCEPT ![o] = "registration_verification"]
  /\ \E E \in Evictions([status EXCEPT ![o] = outcome], activeByTarget) :
       /\ status' = Without(E, [status EXCEPT ![o] = outcome])
       /\ ledger' = Without(E, [ledger EXCEPT ![o] = outcome])
  /\ UNCHANGED <<runs, activeByTarget, targetGates, shutdownFinalized, phase,
                 calls, restarts>>

\* withTargetGate around the critical section of a rename or an unregister.
AcquireGate(a, gate) ==
  /\ phase # "down"
  /\ Free(a)
  /\ targetGates' = [targetGates EXCEPT ![a] = gate]
  /\ UNCHANGED <<target, kind, status, ledger, runs, activeByTarget,
                 shutdownFinalized, phase, calls, restarts>>

ReleaseGate(a) ==
  /\ targetGates[a] # None
  /\ targetGates' = [targetGates EXCEPT ![a] = None]
  /\ UNCHANGED <<target, kind, status, ledger, runs, activeByTarget,
                 shutdownFinalized, phase, calls, restarts>>

-----------------------------------------------------------------------------
(* shutdown: refuse new work, wait for the active operations, then conclude *)
(* the rest as failed and wait once more.                                   *)

BeginShutdown ==
  /\ phase \in {"open", "stuck"}
  /\ phase' = IF Active = {} THEN "closed" ELSE "draining"
  /\ UNCHANGED <<target, kind, status, ledger, runs, activeByTarget,
                 targetGates, shutdownFinalized, calls, restarts>>

\* Promise.allSettled over the active operations won one of the two waits.
AllSettled ==
  /\ phase \in {"draining", "aborting"}
  /\ Active = {}
  /\ phase' = "closed"
  /\ UNCHANGED <<target, kind, status, ledger, runs, activeByTarget,
                 targetGates, shutdownFinalized, calls, restarts>>

\* The drain timer fired: #failActiveForShutdown. A timer never fires before the
\* microtask that starts a scheduled run, hence the third conjunct.
DrainTimeout ==
  /\ phase = "draining"
  /\ Active # {}
  /\ \A o \in OpIds : runs[o] # "scheduled"
  /\ LET unfinished == {o \in Active : status[o] \in Open}
         failed(rows) == [o \in OpIds |-> IF o \in unfinished
                                            THEN "failed" ELSE rows[o]]
     IN  /\ status' = failed(status)
         /\ Persist(failed(ledger))
         /\ shutdownFinalized' = shutdownFinalized \cup unfinished
  /\ phase' = "aborting"
  /\ UNCHANGED <<target, kind, runs, activeByTarget, targetGates, calls, restarts>>

\* The second wait timed out as well: the store throws and stays unclosed.
AbortTimeout ==
  /\ phase = "aborting"
  /\ Active # {}
  /\ phase' = "stuck"
  /\ UNCHANGED <<target, kind, status, ledger, runs, activeByTarget,
                 targetGates, shutdownFinalized, calls, restarts>>

-----------------------------------------------------------------------------
(* The process ends, at any moment or after an orderly shutdown, and a new  *)
(* one opens the same ledger.                                               *)

Crash ==
  /\ phase # "down"
  /\ restarts < MaxRestarts
  /\ phase' = "down"
  /\ status' = [o \in OpIds |-> "absent"]
  /\ runs' = [o \in OpIds |-> "none"]
  /\ activeByTarget' = [a \in Apps |-> None]
  /\ targetGates' = [a \in Apps |-> None]
  /\ shutdownFinalized' = {}
  /\ calls' = [c \in Clients |-> IF Waiting(c)
                                   THEN [calls[c] EXCEPT !.answer = "lost"]
                                   ELSE calls[c]]
  /\ restarts' = restarts + 1
  /\ UNCHANGED <<target, kind, ledger>>

\* The constructor: #loadPersisted, #reconcileInterrupted, #prune.
ReconciledRunning(rows) ==
  [o \in OpIds |-> IF rows[o] = "running" THEN "failed" ELSE rows[o]]
Reconciled(rows) == [o \in OpIds |-> IF rows[o] \in Open THEN "failed" ELSE rows[o]]

Reopen ==
  /\ phase = "down"
  /\ \E E \in Evictions(Reconciled(ledger), activeByTarget) :
       /\ status' = Without(E, Reconciled(ledger))
       /\ ledger' = Without(E, Reconciled(ledger))
  /\ phase' = "open"
  /\ UNCHANGED <<target, kind, runs, activeByTarget, targetGates,
                 shutdownFinalized, calls, restarts>>

-----------------------------------------------------------------------------
Request(c, a, action) ==
  \/ Refuse(c, a, action)
  \/ Join(c, a, action)
  \/ \E o \in OpIds : Enqueue(c, a, action, o)

Run(o) ==
  \/ Start(o)
  \/ \E outcome \in Outcomes : Finish(o, outcome)
  \/ Settle(o)

Next ==
  \/ \E c \in Clients, a \in Apps, action \in Lifecycle : Request(c, a, action)
  \/ \E o \in OpIds : Run(o)
  \/ \E a \in Apps, o \in OpIds, outcome \in {"succeeded", "failed"} :
       RecordEvidence(a, outcome, o)
  \/ \E a \in Apps, gate \in Gates : AcquireGate(a, gate)
  \/ \E a \in Apps : ReleaseGate(a)
  \/ BeginShutdown
  \/ AllSettled
  \/ DrainTimeout
  \/ AbortTimeout
  \/ Crash
  \/ Reopen

Spec == Init /\ [][Next]_vars

\* A scheduled microtask runs, input.run ends because every step of a lifecycle
\* call has a timeout of its own (processManager.ts), and .finally follows.
Fairness == \A o \in OpIds : WF_vars(Run(o))

FairSpec == Spec /\ Fairness

-----------------------------------------------------------------------------
(* Properties                                                              *)

\* Every variable holds a value the code can put there.
TypeOK ==
  /\ target \in [OpIds -> Apps \cup {None}]
  /\ kind \in [OpIds -> Kinds \cup {None}]
  /\ status \in [OpIds -> Status]
  /\ ledger \in [OpIds -> Status]
  /\ runs \in [OpIds -> RunPhase]
  /\ activeByTarget \in [Apps -> OpIds \cup {None}]
  /\ targetGates \in [Apps -> Gates \cup {None}]
  /\ shutdownFinalized \in SUBSET OpIds
  /\ phase \in StorePhase
  /\ calls \in [Clients -> Call]
  /\ restarts \in 0 .. MaxRestarts

\* Two operations never drive the process manager for one app at the same time,
\* not even when shutdown has already concluded one of them as failed and its
\* run is still on its way out.
RunsExclusive ==
  \A o, p \in OpIds :
    runs[o] # "none" /\ runs[p] # "none" /\ target[o] = target[p] => o = p

\* While a rename or an unregister holds an app's gate, no lifecycle operation
\* of that app is scheduled or running.
GateExcludesRuns ==
  \A o \in OpIds : runs[o] # "none" => targetGates[target[o]] = None

\* The outcome a caller was told is the one the ledger keeps, through shutdown,
\* crash and reload, for as long as the record is retained.
ToldIsDurable ==
  \A c \in Clients :
    calls[c].answer \in Outcomes =>
      ledger[calls[c].op] \in {calls[c].answer, "absent"}

\* A caller only ever waits for, or is answered by, an operation that does what
\* it asked for to the app it asked about, deduplicated or not.
AskedIsServed ==
  \A c \in Clients :
    calls[c].op # None => calls[c].asked = <<target[calls[c].op], kind[calls[c].op]>>

\* The ledger is closed only when no run can still report to it and no row is
\* left open: a clean shutdown leaves nothing for the next start to reconcile.
ClosedIsQuiet ==
  phase = "closed" => \A o \in OpIds : runs[o] = "none" /\ ledger[o] \notin Open

-----------------------------------------------------------------------------
(* The rows on disk, seen as a life of their own, are an OperationLedger.   *)

Row == [o \in OpIds |-> IF o \in Issued /\ ledger[o] = "absent"
                           THEN "evicted" ELSE ledger[o]]

Ledger == INSTANCE OperationLedger WITH row <- Row, subject <- target

\* The ledger only moves records forward, keeps at most one open record per
\* app, never rewrites an outcome, and reopens with nothing left open.
ImplementsLedger == Ledger!Spec

\* A caller that was accepted is answered, or learns that the daemon went away:
\* neither a shutdown nor a joined operation leaves it waiting for ever.
EveryCallAnswered == \A c \in Clients : Waiting(c) ~> ~Waiting(c)

-----------------------------------------------------------------------------
(* The inductive strengthening of the safety properties above.             *)

\* Nothing is recorded, scheduled or awaited about an id that was not issued.
IssuedInv ==
  \A o \in OpIds : target[o] = None =>
    /\ status[o] = "absent" /\ ledger[o] = "absent"
    /\ runs[o] = "none" /\ o \notin shutdownFinalized

\* A live promise chain owns its target, and the store is not closed over it.
ChainInv ==
  \A o \in OpIds : runs[o] # "none" =>
    /\ target[o] \in Apps
    /\ activeByTarget[target[o]] = o
    /\ phase \notin {"closed", "down"}

\* Every owner of a target is a live promise chain, and excludes a gate.
ActiveInv ==
  \A a \in Apps : activeByTarget[a] # None =>
    /\ runs[activeByTarget[a]] # "none"
    /\ target[activeByTarget[a]] = a
    /\ targetGates[a] = None

\* The record of an operation follows its promise chain, except that shutdown
\* may have concluded a run that is still executing.
RecordInv ==
  \A o \in OpIds :
    CASE runs[o] = "none"      -> status[o] \notin Open
      [] runs[o] = "scheduled" -> status[o] = "queued" /\ o \notin shutdownFinalized
      [] runs[o] = "executing" -> status[o] = IF o \in shutdownFinalized
                                                THEN "failed" ELSE "running"
      [] runs[o] = "finished"  -> status[o] \in Outcomes

\* Memory and ledger agree while a process is up.
MirrorInv == phase # "down" => status = ledger

\* What a caller waits for is live; what it was told is settled and on disk.
CallInv ==
  \A c \in Clients :
    /\ calls[c].op # None =>
         /\ target[calls[c].op] # None
         /\ calls[c].asked = <<target[calls[c].op], kind[calls[c].op]>>
    /\ Waiting(c) => runs[calls[c].op] # "none"
    /\ calls[c].answer \in Outcomes =>
         /\ calls[c].op # None
         /\ runs[calls[c].op] = "none"
         /\ ledger[calls[c].op] \in {calls[c].answer, "absent"}

IInv == TypeOK /\ IssuedInv /\ ChainInv /\ ActiveInv /\ RecordInv /\ MirrorInv
          /\ CallInv
=============================================================================
