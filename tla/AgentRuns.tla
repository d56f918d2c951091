------------------------------ MODULE AgentRuns ------------------------------
(***************************************************************************)
(* Runs of the Operator Agent (agent/gateway.ts, with approvalStore.ts,    *)
(* runCoordinator.ts and the rows of threadStore.ts): a submission becomes *)
(* a queued run, the model works on it, it may wait for the approval of    *)
(* tool calls, an approved tool is executed, and a client may cancel,      *)
(* reject, tighten the configuration or replace the daemon at any time.    *)
(*                                                                         *)
(* Runs and approvals are SQLite rows.  Every handler works on copies of   *)
(* them, and each event it publishes writes its whole copy of the run      *)
(* back.  The awaits that matter are a submission reading its              *)
(* configuration, the model, the preparation of an approval, and a tool.   *)
(* The awaits of the registry inside resolveApproval are microtasks of a   *)
(* loaded map, during which nothing else runs: approving is one step.      *)
(*                                                                         *)
(* Left out: messages, events, audit and idempotency keys; clearSession;   *)
(* tool arguments, whose hash, policy and target checks only refuse more;  *)
(* the limit of five runs per session that reconciliation looks at.        *)
(***************************************************************************)
EXTENDS Naturals

CONSTANTS
  Sessions,     \* agent sessions
  RunIds,       \* run ids, never issued twice
  ApprovalIds,  \* approval ids, never issued twice either
  Clients,      \* bound: submissions under way at the same time
  MaxRestarts,  \* bound: how often the daemon process is replaced
  None

ASSUME RestartAssumption == MaxRestarts \in Nat

VARIABLES
  runs,         \* table runs: session and status
  approvals,    \* table approvals: run and status
  submissions,  \* addMessage past its check for an active run: session and await
  executions,   \* #executions: what a session is executing, as the gateway sees it
  model,        \* how far #executeQueuedRun of a run got
  tool,         \* the approved tool of a run and how far #executeApprovedTool got
  aborted,      \* the signal of a run's model execution is aborted
  reserved,     \* #budgetReservations
  enabled,      \* config.enabled, persisted
  restarts      \* how often the process was replaced

vars == <<runs, approvals, submissions, executions, model, tool, aborted,
          reserved, enabled, restarts>>

Active == {"queued", "running", "waiting_for_approval"}
Over == {"completed", "failed", "cancelled"}
Open == {"pending", "recovered_pending"}

Run == [session : Sessions, status : Active \cup Over]
Approval == [run : RunIds, status : Open \cup {"approved", "rejected"}]
Submission == [session : Sessions, at : {"reading", "acquiring"}]
Execution == [run : RunIds, kind : {"queued_model", "model", "approved_tool"}]
Tool == [approval : ApprovalIds, at : {"executing", "continuing"}]

ASSUME NoneAssumption == None \notin Run \cup Approval \cup Submission \cup Execution \cup Tool

Status(r) == IF runs[r] = None THEN "none" ELSE runs[r].status
IsActive(r) == Status(r) \in Active
ActiveRuns(s) == {r \in RunIds : IsActive(r) /\ runs[r].session = s}
IsOpen(p) == approvals[p] # None /\ approvals[p].status \in Open
OpenApprovals(r) == {p \in ApprovalIds : IsOpen(p) /\ approvals[p].run = r}
HasEntry(r) == LET e == executions[runs[r].session] IN e # None /\ e.run = r

\* Somebody holds a copy of the run and may still write it.
Busy(r) == model[r] # "none" \/ tool[r] # None

-----------------------------------------------------------------------------
(* The pieces the handlers are made of                                     *)

Init ==
  /\ runs = [r \in RunIds |-> None]
  /\ approvals = [p \in ApprovalIds |-> None]
  /\ submissions = [c \in Clients |-> None]
  /\ executions = [s \in Sessions |-> None]
  /\ model = [r \in RunIds |-> "none"]
  /\ tool = [r \in RunIds |-> None]
  /\ aborted = [r \in RunIds |-> FALSE]
  /\ reserved = {}
  /\ enabled = TRUE
  /\ restarts = 0

SetStatus(r, status) == runs' = [runs EXCEPT ![r].status = status]
SetModel(r, step) == model' = [model EXCEPT ![r] = step]

KeptEntry(r) == executions

\* The executions without the session's entry, if it is that of the run.
Forgotten(r) == [s \in Sessions |-> IF executions[s] # None /\ executions[s].run = r
                                      THEN None ELSE executions[s]]

NotRejected(these) == approvals

\* #rejectPendingApprovalsForRun, for several runs.
Rejected(these) == [p \in ApprovalIds |-> IF IsOpen(p) /\ approvals[p].run \in these
                                            THEN [approvals[p] EXCEPT !.status = "rejected"]
                                            ELSE approvals[p]]

StillReserved(these) == reserved
Unspent(these) == reserved \ these

-----------------------------------------------------------------------------
(* Submissions: addMessage, and retryRun, which only refuses more          *)

\* No active run in the session, as far as the rows say now.
Submit(c, s) ==
  /\ submissions[c] = None
  /\ ActiveRuns(s) = {}
  /\ submissions' = [submissions EXCEPT ![c] = [session |-> s, at |-> "reading"]]
  /\ UNCHANGED <<runs, approvals, executions, model, tool, aborted, reserved, enabled, restarts>>

\* resolveForNewRun: the source is reloaded, the configuration says that the agent
\* is ready, and the credential is being fetched.
ReadConfig(c) ==
  /\ submissions[c] # None /\ submissions[c].at = "reading"
  /\ enabled
  /\ submissions' = [submissions EXCEPT ![c].at = "acquiring"]
  /\ UNCHANGED <<runs, approvals, executions, model, tool, aborted, reserved, enabled, restarts>>

\* A guardrail, the configuration, the credential or the budget blocks the run.
BlockRun(c, r) ==
  /\ submissions[c] # None
  /\ runs[r] = None
  /\ runs' = [runs EXCEPT ![r] = [session |-> submissions[c].session, status |-> "failed"]]
  /\ submissions' = [submissions EXCEPT ![c] = None]
  /\ UNCHANGED <<approvals, executions, model, tool, aborted, reserved, enabled, restarts>>

\* The run is queued. Nothing is checked again: the entry of another run that
\* passed the check meanwhile is overwritten.
QueueRun(c, r) ==
  /\ submissions[c] # None /\ submissions[c].at = "acquiring"
  /\ runs[r] = None
  /\ LET s == submissions[c].session
     IN  /\ runs' = [runs EXCEPT ![r] = [session |-> s, status |-> "queued"]]
         /\ executions' = [executions EXCEPT ![s] = [run |-> r, kind |-> "queued_model"]]
  /\ reserved' = reserved \cup {r}
  /\ SetModel(r, "scheduled")
  /\ submissions' = [submissions EXCEPT ![c] = None]
  /\ UNCHANGED <<approvals, tool, aborted, enabled, restarts>>

-----------------------------------------------------------------------------
(* #executeQueuedRun                                                       *)

\* The setImmediate fires. A run whose entry was overwritten is left queued.
StartModel(r) ==
  /\ model[r] = "scheduled"
  /\ \/ /\ ~HasEntry(r)
        /\ SetModel(r, "none")
        /\ UNCHANGED <<runs, executions, reserved>>
     \/ /\ HasEntry(r)
        /\ Status(r) # "queued" \/ aborted[r]
        /\ SetModel(r, "none")
        /\ executions' = Forgotten(r)
        /\ reserved' = Unspent({r})
        /\ UNCHANGED runs
     \/ /\ HasEntry(r)
        /\ Status(r) = "queued" /\ ~aborted[r]
        /\ SetModel(r, "executing")
        /\ SetStatus(r, "running")
        /\ executions' = [executions EXCEPT ![runs[r].session].kind = "model"]
        /\ UNCHANGED reserved
  /\ UNCHANGED <<approvals, submissions, tool, aborted, enabled, restarts>>

\* The model, or a tool, publishes an event: its copy of the run is written back.
Emit(r) ==
  /\ \/ model[r] = "executing" /\ ~aborted[r]
     \/ tool[r] # None /\ tool[r].at = "executing"
  /\ SetStatus(r, "running")
  /\ UNCHANGED <<approvals, submissions, executions, model, tool, aborted, reserved, enabled,
                 restarts>>

GoesOn(r) == Status(r) # "cancelled" /\ ~aborted[r]

\* agentRuntime.execute ended. Completed, failed (so is a pause without a pending
\* approval), or paused for approvals that are now prepared one by one.
EndModel(r) ==
  /\ model[r] = "executing"
  /\ executions' = Forgotten(r)
  /\ reserved' = Unspent({r})
  /\ \/ GoesOn(r) /\ SetModel(r, "preparing") /\ UNCHANGED runs
     \/ /\ SetModel(r, "none")
        /\ IF GoesOn(r) THEN \E status \in {"completed", "failed"} : SetStatus(r, status)
                        ELSE UNCHANGED runs
  /\ UNCHANGED <<approvals, submissions, tool, aborted, enabled, restarts>>

\* What the preparation's copy of the run says: running, unless it marked the run
\* failed because the configuration or the policy forbids a tool.
CopySays(r) == IF Status(r) = "failed" THEN "failed" ELSE "running"

\* #createPendingApproval ended with an approval, of a forbidden tool too, and
\* it was the last one or not.
PrepareApproval(r, p) ==
  /\ model[r] = "preparing"
  /\ approvals[p] = None
  /\ approvals' = [approvals EXCEPT ![p] = [run |-> r, status |-> "pending"]]
  /\ \/ SetModel(r, "preparing") /\ \E status \in {CopySays(r), "failed"} : SetStatus(r, status)
     \/ SetModel(r, "none") /\ SetStatus(r, "waiting_for_approval")
  /\ UNCHANGED <<submissions, executions, tool, aborted, reserved, enabled, restarts>>

\* It threw. If a project root was not granted, the approvals so far are rejected;
\* after any other error they stay as they are.
FailPreparation(r) ==
  /\ model[r] = "preparing"
  /\ approvals' \in {approvals, Rejected({r})}
  /\ SetModel(r, "none")
  /\ SetStatus(r, "failed")
  /\ UNCHANGED <<submissions, executions, tool, aborted, reserved, enabled, restarts>>

-----------------------------------------------------------------------------
(* resolveApproval and #executeApprovedTool                                *)

DecidableAnyway(p) == IsOpen(p)
Decidable(p) == IsOpen(p) /\ Status(approvals[p].run) = "waiting_for_approval"

ResolvedLater(p) == approvals
Resolved(p) == [approvals EXCEPT ![p].status = "approved"]

\* A recovered approval also needs the client's reconfirmation and its arguments.
Approve(p) ==
  /\ Decidable(p)
  /\ enabled
  /\ LET r == approvals[p].run
         s == runs[r].session
     IN  /\ executions[s] = None
         /\ executions' = [executions EXCEPT ![s] = [run |-> r, kind |-> "approved_tool"]]
         /\ approvals' = Resolved(p)
         /\ SetStatus(r, "running")
         /\ tool' = [tool EXCEPT ![r] = [approval |-> p, at |-> "executing"]]
  /\ UNCHANGED <<submissions, model, aborted, reserved, enabled, restarts>>

Reject(p) ==
  /\ Decidable(p)
  /\ approvals' = Rejected({approvals[p].run})
  /\ SetStatus(approvals[p].run, "cancelled")
  /\ UNCHANGED <<submissions, executions, model, tool, aborted, reserved, enabled, restarts>>

Continues(r) ==
  /\ tool' = [tool EXCEPT ![r].at = "continuing"]
  /\ UNCHANGED <<approvals, executions>>

Returns(r) ==
  /\ tool' = [tool EXCEPT ![r] = None]
  /\ executions' = Forgotten(r)

\* The tool ended. It failed, or its workflow may not go on; or it waits for the
\* run's other approvals; or the run is completed; or the workflow prepares the
\* approval of its next step.
EndTool(r) ==
  /\ tool[r] # None /\ tool[r].at = "executing"
  /\ \/ Returns(r) /\ SetStatus(r, "failed") /\ UNCHANGED approvals
     \/ /\ Returns(r)
        /\ SetStatus(r, IF OpenApprovals(r) # {} THEN "waiting_for_approval" ELSE "completed")
        /\ UNCHANGED approvals
     \/ Continues(r) /\ SetStatus(r, "running")
  /\ UNCHANGED <<submissions, model, aborted, reserved, enabled, restarts>>

\* The next step has its approval.
ContinueWith(r, p) ==
  /\ tool[r] # None /\ tool[r].at = "continuing"
  /\ approvals[p] = None
  /\ approvals' = [approvals EXCEPT ![p] = [run |-> r, status |-> "pending"]]
  /\ Returns(r)
  /\ SetStatus(r, "waiting_for_approval")
  /\ UNCHANGED <<submissions, model, aborted, reserved, enabled, restarts>>

\* It could not be prepared. Only a missing grant is handled; another error leaves
\* the run as it is.
FailContinuation(r) ==
  /\ tool[r] # None /\ tool[r].at = "continuing"
  /\ Returns(r)
  /\ \/ approvals' = Rejected({r}) /\ SetStatus(r, "failed")
     \/ UNCHANGED <<approvals, runs>>
  /\ UNCHANGED <<submissions, model, aborted, reserved, enabled, restarts>>

-----------------------------------------------------------------------------
(* Cancellation, configuration, close and restart                          *)

ModelEntries == {s \in Sessions : executions[s] # None /\ executions[s].kind # "approved_tool"}
ModelRuns == {executions[s].run : s \in ModelEntries}

AbortedOf(these) == [r \in RunIds |-> aborted[r] \/ r \in these]

ToolIsExecuting(r) == HasEntry(r) /\ executions[runs[r].session].kind = "approved_tool"

\* cancelRun. The signal it aborts is that of the session's entry, whichever run
\* that belongs to.
CancelRun(r) ==
  /\ IsActive(r)
  /\ ~ToolIsExecuting(r)
  /\ aborted' = AbortedOf({executions[s].run : s \in {runs[r].session} \cap ModelEntries})
  /\ approvals' = Rejected({r})
  /\ SetStatus(r, "cancelled")
  /\ reserved' = Unspent({r})
  /\ executions' = Forgotten(r)
  /\ UNCHANGED <<submissions, model, tool, enabled, restarts>>

\* updateConfig disables the agent, or the remote model only, and
\* #stopModelExecutionsForLiveSafety cancels what the model is working on.
Tighten ==
  /\ enabled
  /\ enabled' \in BOOLEAN
  /\ LET stopped == {r \in ModelRuns : Status(r) \in {"queued", "running"}}
     IN  /\ aborted' = AbortedOf(stopped)
         /\ approvals' = Rejected(stopped)
         /\ runs' = [r \in RunIds |-> IF r \in stopped THEN [runs[r] EXCEPT !.status = "cancelled"]
                                      ELSE runs[r]]
         /\ reserved' = Unspent(stopped)
         /\ executions' = [s \in Sessions |-> IF executions[s] # None /\ executions[s].run \in stopped
                                                   /\ s \in ModelEntries
                                                THEN None ELSE executions[s]]
  /\ UNCHANGED <<submissions, model, tool, restarts>>

Enable ==
  /\ ~enabled
  /\ enabled' = TRUE
  /\ UNCHANGED <<runs, approvals, submissions, executions, model, tool, aborted, reserved, restarts>>

\* close: the model is told to stop; then executions are waited for, or not.
Close ==
  /\ \E r \in ModelRuns : ~aborted[r]
  /\ aborted' = AbortedOf(ModelRuns)
  /\ UNCHANGED <<runs, approvals, submissions, executions, model, tool, reserved, enabled, restarts>>

RecoveredIds == {p \in ApprovalIds : approvals[p] # None /\ approvals[p].status = "pending"}
RecoveredRuns == {approvals[p].run : p \in RecoveredIds}

Interrupted(r) ==
  \/ Status(r) \in {"queued", "running"}
  \/ Status(r) = "waiting_for_approval" /\ r \notin RecoveredRuns

\* The process is gone, whatever it was doing, and the next one recovers the
\* approvals and reconciles the runs: a run whose approvals were recovered
\* by an earlier process already counts as one without any.
Restart ==
  /\ restarts < MaxRestarts
  /\ restarts' = restarts + 1
  /\ approvals' = [p \in ApprovalIds |-> IF p \in RecoveredIds
                                           THEN [approvals[p] EXCEPT !.status = "recovered_pending"]
                                           ELSE approvals[p]]
  /\ runs' = [r \in RunIds |-> IF Interrupted(r) THEN [runs[r] EXCEPT !.status = "failed"]
                               ELSE runs[r]]
  /\ submissions' = [c \in Clients |-> None]
  /\ executions' = [s \in Sessions |-> None]
  /\ model' = [r \in RunIds |-> "none"]
  /\ tool' = [r \in RunIds |-> None]
  /\ aborted' = [r \in RunIds |-> FALSE]
  /\ reserved' = {}
  /\ UNCHANGED enabled

-----------------------------------------------------------------------------
Next ==
  \/ \E c \in Clients, s \in Sessions : Submit(c, s)
  \/ \E c \in Clients : ReadConfig(c)
  \/ \E c \in Clients, r \in RunIds : BlockRun(c, r) \/ QueueRun(c, r)
  \/ \E r \in RunIds : StartModel(r) \/ Emit(r) \/ EndModel(r) \/ FailPreparation(r)
  \/ \E r \in RunIds, p \in ApprovalIds : PrepareApproval(r, p) \/ ContinueWith(r, p)
  \/ \E p \in ApprovalIds : Approve(p) \/ Reject(p)
  \/ \E r \in RunIds : EndTool(r) \/ FailContinuation(r) \/ CancelRun(r)
  \/ Tighten \/ Enable \/ Close \/ Restart

Spec == Init /\ [][Next]_vars

-----------------------------------------------------------------------------
(* Properties                                                              *)

\* The rows and the gateway's memory are what their types say.
TypeOK ==
  /\ runs \in [RunIds -> Run \cup {None}]
  /\ approvals \in [ApprovalIds -> Approval \cup {None}]
  /\ submissions \in [Clients -> Submission \cup {None}]
  /\ executions \in [Sessions -> Execution \cup {None}]
  /\ model \in [RunIds -> {"none", "scheduled", "executing", "preparing"}]
  /\ tool \in [RunIds -> Tool \cup {None}]
  /\ aborted \in [RunIds -> BOOLEAN]
  /\ reserved \subseteq RunIds
  /\ enabled \in BOOLEAN
  /\ restarts \in 0 .. MaxRestarts

\* A run has one worker at a time, and none while it waits for a decision: the
\* handlers write whole copies of a run back, so a second worker would undo
\* what the first one, or the client, decided (#executeQueuedRun, resolveApproval).
OneWorker ==
  \A r \in RunIds :
    /\ model[r] # "none" => tool[r] = None
    /\ Status(r) = "waiting_for_approval" => ~Busy(r)

\* A submission that came later took the run's entry before its turn: when the turn
\* comes #executeQueuedRun only returns, and nobody works on the run any more.
Overtaken(r) ==
  /\ Status(r) = "queued"
  /\ ~HasEntry(r)
  /\ \E q \in RunIds \ {r} : runs[q] # None /\ runs[q].session = runs[r].session

\* The model has the run before it: its turn is still to come, or has come.
IsDue(r) ==
  \/ Status(r) = "queued" /\ model[r] = "scheduled" /\ HasEntry(r)
  \/ Status(r) = "running" /\ model[r] = "executing"

\* The budget is only reserved for a run whose turn at the model is still to come or
\* that the model works on: no way out of a run that was cancelled, stopped, aborted,
\* completed or failed, or that waits for approvals, keeps its share. The code makes
\* one exception: an overtaken run keeps its share until it is cancelled or the daemon
\* restarts (gateway.ts:1404-1408 returns without #releaseBudget).
BudgetsAreReturned == \A r \in reserved : IsDue(r) \/ Overtaken(r)

Worked(e) == CASE e.kind = "queued_model" -> model[e.run] = "scheduled"
               [] e.kind = "model" -> model[e.run] = "executing"
               [] e.kind = "approved_tool" -> tool[e.run] # None

\* Whatever #executions holds is being worked on and will be taken out: an entry left
\* behind would refuse every approval of its session and make close() fail.
EntriesHaveWorkers == \A s \in Sessions : executions[s] # None => Worked(executions[s])

\* An approval that a client may still decide belongs to a run that is neither
\* completed nor cancelled, however far the preparation of others was when it
\* ended, and its tool is not being executed already: a restart in the middle
\* of a tool never offers for approval what may have been done.
OpenApprovalsAreDue ==
  \A p \in ApprovalIds : IsOpen(p) =>
    LET r == approvals[p].run
    IN  /\ Status(r) \notin {"completed", "cancelled"}
        /\ tool[r] # None => tool[r].approval # p

\* A run that is over and that nobody works on stays as it is, whatever approvals,
\* submissions and signals of it are left over.
OverStands ==
  [][\A r \in RunIds : Status(r) \in Over /\ ~Busy(r) => runs'[r] = runs[r]]_vars

-----------------------------------------------------------------------------
(* The contract of ApprovalLedger                                          *)

Decision == [p \in ApprovalIds |-> IF approvals[p] = None THEN "absent" ELSE approvals[p].status]
Owner == [p \in ApprovalIds |-> IF approvals[p] = None THEN None ELSE approvals[p].run]
Executes(r) == tool[r] # None /\ tool[r].at = "executing"
Executing == {tool[r].approval : r \in {q \in RunIds : Executes(q)}}

Ledger == INSTANCE ApprovalLedger WITH decision <- Decision, owner <- Owner,
                                       executing <- Executing

\* Every handler that writes approvals or executes tools does what ApprovalLedger
\* promises: a decision is final and durable before its tool begins, and no
\* cancellation, configuration change or restart executes a tool twice.
ImplementsApprovals == Ledger!Spec

-----------------------------------------------------------------------------
(* The inductive invariant, for the proofs                                 *)

Untouched(r) == \A p \in ApprovalIds : approvals[p] # None => approvals[p].run # r

\* What the rows of a run may say while somebody works on it.
WorkOk(r) ==
  /\ model[r] = "scheduled" => Status(r) \in {"queued", "cancelled"} /\ Untouched(r)
  /\ model[r] = "executing" => Status(r) \in {"running", "cancelled"} /\ Untouched(r)
  /\ model[r] = "preparing" => Status(r) \in {"running", "failed", "cancelled"}
  /\ model[r] # "none" => tool[r] = None
  /\ tool[r] # None => Status(r) \in {"running", "cancelled"}
  /\ model[r] = "preparing" \/ tool[r] # None => r \notin reserved

WorkInv == \A r \in RunIds : WorkOk(r)

\* A session's entry is about a run of that session.
EntryInv ==
  \A s \in Sessions : executions[s] # None =>
    LET r == executions[s].run IN runs[r] # None /\ runs[r].session = s

\* The approval that is executed was approved.
ToolOk(r) ==
  tool[r] # None => LET p == tool[r].approval
                    IN  approvals[p] # None /\ approvals[p].run = r /\ approvals[p].status = "approved"

\* An approval has its run.
ApprovalInv ==
  /\ \A p \in ApprovalIds : approvals[p] # None => runs[approvals[p].run] # None
  /\ \A p \in ApprovalIds : IsOpen(p) => Status(approvals[p].run) \notin {"completed", "cancelled"}
  /\ \A r \in RunIds : ToolOk(r)

IInv ==
  /\ TypeOK
  /\ WorkInv
  /\ EntryInv
  /\ EntriesHaveWorkers
  /\ ApprovalInv
  /\ BudgetsAreReturned

-----------------------------------------------------------------------------
\* A session has one active run at a time (docs/tui-agent-tools.md:21).
OneActiveRun == \A s \in Sessions : \A q, r \in ActiveRuns(s) : q = r
=============================================================================
