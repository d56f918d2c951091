--------------------------- MODULE AgentRuns_proofs ---------------------------
(***************************************************************************)
(* Proofs about AgentRuns: type correctness, the inductive invariant IInv, *)
(* the safety properties that follow from it, that a run which is over     *)
(* stays as it is, and the refinement of ApprovalLedger, with what that    *)
(* specification says of the approvals and of the tools.                   *)
(***************************************************************************)
EXTENDS AgentRuns, TLAPS

-----------------------------------------------------------------------------
(* The pieces the handlers are made of.                                     *)

\* Setting the status of a run changes nothing else.
LEMMA SetStatusEffect ==
  ASSUME TypeOK, NEW r \in RunIds, runs[r] # None, NEW status \in Active \cup Over,
         SetStatus(r, status)
  PROVE  /\ runs' \in [RunIds -> Run \cup {None}]
         /\ runs'[r] # None /\ runs'[r].session = runs[r].session
         /\ Status(r)' = status
         /\ \A q \in RunIds \ {r} : runs'[q] = runs[q]
  BY NoneAssumption DEF TypeOK, SetStatus, Status, Run

\* Rejecting the open approvals of some runs keeps the others, and whose they are.
LEMMA RejectedEffect ==
  ASSUME TypeOK, NEW these
  PROVE  /\ Rejected(these) \in [ApprovalIds -> Approval \cup {None}]
         /\ \A p \in ApprovalIds :
              /\ Rejected(these)[p] = None <=> approvals[p] = None
              /\ approvals[p] # None => Rejected(these)[p].run = approvals[p].run
              /\ ~(IsOpen(p) /\ approvals[p].run \in these) => Rejected(these)[p] = approvals[p]
              /\ IsOpen(p) /\ approvals[p].run \in these => Rejected(these)[p].status = "rejected"
  BY NoneAssumption DEF TypeOK, Rejected, IsOpen, Open, Approval

\* Forgetting a run takes out its entries only.
LEMMA ForgottenEffect ==
  ASSUME TypeOK, NEW r \in RunIds
  PROVE  /\ Forgotten(r) \in [Sessions -> Execution \cup {None}]
         /\ \A s \in Sessions :
              /\ Forgotten(r)[s] # None => Forgotten(r)[s] = executions[s] /\ executions[s].run # r
              /\ executions[s] # None /\ executions[s].run # r => Forgotten(r)[s] = executions[s]
  BY NoneAssumption DEF TypeOK, Forgotten, Execution

-----------------------------------------------------------------------------
LEMMA InitInv == Init => IInv
<1> SUFFICES ASSUME Init PROVE IInv
  OBVIOUS
<1> USE DEF Init
<1>1. TypeOK
  BY RestartAssumption DEF TypeOK
<1>2. WorkInv /\ EntryInv /\ EntriesHaveWorkers /\ ApprovalInv /\ BudgetsAreReturned
  BY DEF WorkInv, EntryInv, EntriesHaveWorkers, ApprovalInv, BudgetsAreReturned, IsOpen, WorkOk, ToolOk
<1>3. QED
  BY <1>1, <1>2 DEF IInv

\* The invariant speaks about these variables only.
LEMMA Frame ==
  ASSUME IInv, TypeOK', UNCHANGED <<runs, approvals, executions, model, tool, reserved>>
  PROVE  IInv'
<1>1. WorkInv' /\ BudgetsAreReturned'
  BY DEF IInv, WorkInv, BudgetsAreReturned, IsDue, Overtaken, HasEntry, Status, Untouched, WorkOk
<1>2. EntryInv' /\ EntriesHaveWorkers' /\ ApprovalInv'
  BY DEF IInv, EntryInv, EntriesHaveWorkers, ApprovalInv, Status, IsOpen, ToolOk, Worked
<1>3. QED
  BY <1>1, <1>2 DEF IInv

LEMMA SubmissionInv ==
  ASSUME IInv, NEW c \in Clients,
         \/ \E s \in Sessions : Submit(c, s)
         \/ ReadConfig(c)
         \/ \E r \in RunIds : BlockRun(c, r)
  PROVE  IInv'
<1> USE DEF IInv
<1>1. ASSUME NEW s \in Sessions, Submit(c, s)
      PROVE  IInv'
  <2>1. TypeOK'
    BY <1>1 DEF Submit, Submission, TypeOK
  <2>2. QED
    BY <1>1, <2>1, Frame DEF Submit
<1>2. CASE ReadConfig(c)
  <2>1. TypeOK'
    BY <1>2, NoneAssumption DEF ReadConfig, Submission, TypeOK
  <2>2. QED
    BY <1>2, <2>1, Frame DEF ReadConfig
<1>3. ASSUME NEW r \in RunIds, BlockRun(c, r)
      PROVE  IInv'
  <2>1. /\ runs' \in [RunIds -> Run \cup {None}]
        /\ runs[r] = None /\ Status(r) = "none"
        /\ runs'[r] # None /\ Status(r)' = "failed"
        /\ \A q \in RunIds \ {r} : runs'[q] = runs[q] /\ Status(q)' = Status(q)
    BY <1>3, NoneAssumption DEF BlockRun, TypeOK, Run, Submission, Over, Status
  <2>2. TypeOK'
    BY <1>3, <2>1 DEF BlockRun, TypeOK
  <2>3. WorkInv'
    BY <1>3, <2>1 DEF BlockRun, WorkInv, Untouched, WorkOk, TypeOK
  <2>4. EntryInv'
    BY <1>3, <2>1 DEF BlockRun, EntryInv, TypeOK, Execution
  <2>5. EntriesHaveWorkers'
    BY <1>3 DEF BlockRun, EntriesHaveWorkers, Worked
  <2>6. ApprovalInv'
    BY <1>3, <2>1 DEF BlockRun, ApprovalInv, TypeOK, Approval, IsOpen, Tool, ToolOk
  <2>7. BudgetsAreReturned'
    <3>1. ASSUME NEW q \in reserved
          PROVE  IsDue(q)' \/ Overtaken(q)'
      <4>1. q \in RunIds \ {r} /\ (IsDue(q) \/ Overtaken(q))
        BY <2>1 DEF BudgetsAreReturned, TypeOK, IsDue, Overtaken
      <4>2. QED
        BY <1>3, <2>1, <4>1 DEF BlockRun, IsDue, Overtaken, HasEntry
    <3>2. QED
      BY <1>3, <3>1 DEF BlockRun, BudgetsAreReturned
  <2>8. QED
    BY <2>2, <2>3, <2>4, <2>5, <2>6, <2>7
<1>4. QED
  BY <1>1, <1>2, <1>3

LEMMA QueueInv ==
  ASSUME IInv, NEW c \in Clients, NEW r \in RunIds, QueueRun(c, r)
  PROVE  IInv'
<1> USE DEF IInv
<1> DEFINE s == submissions[c].session
<1>1. /\ s \in Sessions
      /\ runs' \in [RunIds -> Run \cup {None}]
      /\ runs[r] = None /\ Status(r) = "none"
      /\ runs'[r] # None /\ runs'[r].session = s
      /\ Status(r)' = "queued"
      /\ \A q \in RunIds \ {r} : runs'[q] = runs[q] /\ Status(q)' = Status(q)
  BY NoneAssumption DEF QueueRun, TypeOK, Run, Submission, Active, Status
<1>2. model[r] = "none" /\ tool[r] = None /\ Untouched(r)
  BY <1>1 DEF WorkInv, WorkOk, ApprovalInv, Untouched, TypeOK, QueueRun
<1>3. /\ executions' \in [Sessions -> Execution \cup {None}]
      /\ executions'[s] # None /\ executions'[s].run = r /\ executions'[s].kind = "queued_model"
      /\ \A t \in Sessions \ {s} : executions'[t] = executions[t]
  BY <1>1, NoneAssumption DEF QueueRun, TypeOK, Execution
<1>4. model' = [model EXCEPT ![r] = "scheduled"]
  BY DEF QueueRun, SetModel
<1>5. TypeOK'
  BY <1>1, <1>3, <1>4 DEF QueueRun, TypeOK
<1>6. WorkInv'
  BY <1>1, <1>2, <1>4 DEF QueueRun, WorkInv, Untouched, WorkOk, TypeOK
<1>7. EntryInv'
  BY <1>1, <1>3 DEF EntryInv, TypeOK, Execution
<1>8. EntriesHaveWorkers'
  <2> SUFFICES ASSUME NEW t \in Sessions, executions'[t] # None
               PROVE  Worked(executions[t])'
    BY DEF EntriesHaveWorkers
  <2>1. CASE t = s
    BY <2>1, <1>3, <1>4 DEF TypeOK, Worked
  <2>2. CASE t # s
    <3>1. executions'[t] = executions[t] /\ executions[t].run \in RunIds \ {r}
      BY <2>2, <1>1, <1>3 DEF EntryInv, TypeOK, Execution
    <3>2. model'[executions[t].run] = model[executions[t].run] /\ tool' = tool
      BY <3>1, <1>4 DEF TypeOK, QueueRun
    <3>3. QED
      BY <3>1, <3>2 DEF EntriesHaveWorkers, Worked
  <2>3. QED
    BY <2>1, <2>2
<1>9. ApprovalInv'
  BY <1>1, <1>2 DEF QueueRun, ApprovalInv, TypeOK, Approval, IsOpen, Tool, ToolOk, Untouched
<1>10. BudgetsAreReturned'
  <2> SUFFICES ASSUME NEW q \in reserved'
               PROVE  IsDue(q)' \/ Overtaken(q)'
    BY DEF BudgetsAreReturned
  <2>1. CASE q = r
    BY <2>1, <1>1, <1>3, <1>4 DEF IsDue, HasEntry, TypeOK
  <2>2. CASE q # r
    <3>1. q \in RunIds \ {r} /\ (IsDue(q) \/ Overtaken(q))
      BY <2>2 DEF QueueRun, BudgetsAreReturned, TypeOK
    <3>2. runs[q] # None
      BY <3>1 DEF IsDue, Overtaken, Status
    <3>3. CASE runs[q].session = s
      BY <1>1, <1>3, <1>4, <3>1, <3>2, <3>3 DEF IsDue, Overtaken, HasEntry, TypeOK
    <3>4. CASE runs[q].session # s
      <4>1. runs[q].session \in Sessions \ {s}
        BY <3>1, <3>2, <3>4 DEF TypeOK, Run
      <4>2. HasEntry(q)' <=> HasEntry(q)
        BY <1>1, <1>3, <3>1, <4>1 DEF HasEntry
      <4>3. QED
        BY <1>1, <1>4, <3>1, <4>2 DEF IsDue, Overtaken, TypeOK
    <3>5. QED
      BY <3>3, <3>4
  <2>3. QED
    BY <2>1, <2>2
<1>11. QED
  BY <1>5, <1>6, <1>7, <1>8, <1>9, <1>10

-----------------------------------------------------------------------------
(* Steps about one run that exists.                                         *)

LEMMA OneRunStep ==
  ASSUME IInv, TypeOK', NEW r \in RunIds,
         runs[r] # None, runs'[r] # None, runs'[r].session = runs[r].session,
         \A q \in RunIds \ {r} : /\ runs'[q] = runs[q]
                                 /\ model'[q] = model[q]
                                 /\ tool'[q] = tool[q],
         \A p \in ApprovalIds : \/ approvals'[p] = approvals[p]
                               \/ /\ approvals[p] = None \/ approvals[p].run = r
                                  /\ approvals'[p] # None /\ approvals'[p].run = r,
         \A q \in RunIds \ {r} : q \in reserved' => q \in reserved,
         \A s \in Sessions : executions'[s] # None =>
            \/ executions'[s] = executions[s] /\ executions[s].run # r
            \/ executions'[s].run = r /\ s = runs[r].session /\ Worked(executions[s])',
         \A s \in Sessions : executions[s] # None /\ executions[s].run # r =>
            executions'[s] = executions[s],
         WorkOk(r)', ToolOk(r)',
         Status(r)' \in {"completed", "cancelled"} =>
            \A p \in ApprovalIds : IsOpen(p)' => approvals'[p].run # r,
         r \in reserved' => IsDue(r)' \/ Overtaken(r)'
  PROVE  IInv'
<1> USE DEF IInv
<1>1. \A q \in RunIds \ {r} : Status(q)' = Status(q)
  BY DEF Status
<1>2. WorkInv'
  <2> SUFFICES ASSUME NEW q \in RunIds \ {r} PROVE WorkOk(q)'
    BY DEF WorkInv
  <2>1. Untouched(q) => Untouched(q)'
    BY DEF Untouched
  <2>2. QED
    BY <1>1, <2>1 DEF WorkInv, WorkOk
<1>3. EntryInv'
  BY DEF EntryInv, TypeOK, Execution
<1>4. EntriesHaveWorkers'
  <2> SUFFICES ASSUME NEW s \in Sessions, executions'[s] # None,
                      executions'[s] = executions[s], executions[s].run # r
               PROVE  Worked(executions[s])'
    BY DEF EntriesHaveWorkers
  <2>1. executions[s].run \in RunIds \ {r}
    BY DEF TypeOK, Execution
  <2>2. /\ model'[executions[s].run] = model[executions[s].run]
        /\ tool'[executions[s].run] = tool[executions[s].run]
    BY <2>1
  <2>3. Worked(executions[s])
    BY DEF EntriesHaveWorkers
  <2>4. QED
    BY <2>2, <2>3 DEF Worked
<1>5. ApprovalInv'
  <2>1. ASSUME NEW p \in ApprovalIds, approvals'[p] # None
        PROVE  runs'[approvals'[p].run] # None
    BY <2>1 DEF ApprovalInv, TypeOK, Approval
  <2>2. ASSUME NEW p \in ApprovalIds, IsOpen(p)'
        PROVE  Status(approvals[p].run)' \notin {"completed", "cancelled"}
    <3>1. CASE approvals'[p].run = r
      BY <2>2, <3>1
    <3>2. CASE approvals'[p].run # r
      <4>1. approvals'[p] = approvals[p] /\ approvals[p].run \in RunIds \ {r} /\ IsOpen(p)
        BY <2>2, <3>2 DEF IsOpen, TypeOK, Approval
      <4>2. QED
        BY <4>1, <1>1 DEF ApprovalInv
    <3>3. QED
      BY <3>1, <3>2
  <2>3. ASSUME NEW q \in RunIds \ {r}
        PROVE  ToolOk(q)'
    BY <2>3 DEF ApprovalInv, ToolOk, TypeOK, Tool
  <2>4. QED
    BY <2>1, <2>2, <2>3 DEF ApprovalInv
<1>6. BudgetsAreReturned'
  <2> SUFFICES ASSUME NEW q \in reserved', q # r
               PROVE  IsDue(q)' \/ Overtaken(q)'
    BY DEF BudgetsAreReturned
  <2>1. q \in RunIds \ {r} /\ (IsDue(q) \/ Overtaken(q))
    BY DEF BudgetsAreReturned, TypeOK
  <2>2. runs[q] # None /\ runs[q].session \in Sessions
    BY <2>1 DEF IsDue, Overtaken, Status, TypeOK, Run
  <2>3. HasEntry(q)' <=> HasEntry(q)
    BY <2>1, <2>2 DEF HasEntry
  <2>4. \A o \in RunIds : runs[o] # None => runs'[o] # None /\ runs'[o].session = runs[o].session
    OBVIOUS
  <2>5. QED
    BY <1>1, <2>1, <2>3, <2>4 DEF IsDue, Overtaken
<1>7. QED
  BY <1>2, <1>3, <1>4, <1>5, <1>6

\* Who has an entry works.
LEMMA NoWorkNoEntry ==
  ASSUME IInv, NEW r \in RunIds, model[r] \in {"none", "preparing"}, tool[r] = None,
         NEW s \in Sessions, executions[s] # None
  PROVE  executions[s].run # r
  BY DEF IInv, EntriesHaveWorkers, Worked, TypeOK, Execution

LEMMA EmitInv ==
  ASSUME IInv, NEW r \in RunIds, Emit(r)
  PROVE  IInv'
<1> USE DEF IInv
<1>1. Status(r) \in {"running", "cancelled"} /\ runs[r] # None
  BY DEF Emit, WorkInv, WorkOk, TypeOK, Status
<1>2. /\ runs' \in [RunIds -> Run \cup {None}]
      /\ runs'[r] # None /\ runs'[r].session = runs[r].session
      /\ Status(r)' = "running"
      /\ \A q \in RunIds \ {r} : runs'[q] = runs[q]
  BY <1>1, SetStatusEffect DEF Emit, Active
<1>3. TypeOK'
  BY <1>2 DEF Emit, TypeOK
<1>4. WorkOk(r)'
  BY <1>2 DEF Emit, WorkInv, WorkOk, Untouched, TypeOK
<1>5. ToolOk(r)'
  BY DEF Emit, ApprovalInv, ToolOk
<1>6. ASSUME NEW s \in Sessions, executions'[s] # None
      PROVE  \/ executions'[s] = executions[s] /\ executions[s].run # r
             \/ executions'[s].run = r /\ s = runs[r].session /\ Worked(executions[s])'
  <2>1. executions' = executions /\ model' = model /\ tool' = tool
    BY DEF Emit
  <2>2. QED
    BY <1>6, <2>1 DEF EntryInv, EntriesHaveWorkers, Worked
<1>7. r \in reserved' => IsDue(r)' \/ Overtaken(r)'
  BY <1>2 DEF Emit, WorkInv, WorkOk, IsDue
<1>8. QED
  BY <1>1, <1>2, <1>3, <1>4, <1>5, <1>6, <1>7, OneRunStep DEF Emit

LEMMA StartModelInv ==
  ASSUME IInv, NEW r \in RunIds, StartModel(r)
  PROVE  IInv'
<1> USE DEF IInv
<1>1. /\ model[r] = "scheduled" /\ tool[r] = None
      /\ Status(r) \in {"queued", "cancelled"} /\ runs[r] # None /\ Untouched(r)
  BY DEF StartModel, WorkInv, WorkOk, TypeOK, Status
<1>2. \A s \in Sessions : executions[s] # None /\ executions[s].run = r => s = runs[r].session
  BY DEF EntryInv
<1>3. runs[r].session \in Sessions
  BY <1>1 DEF TypeOK, Run
<1>4. CASE /\ ~HasEntry(r) /\ SetModel(r, "none")
           /\ UNCHANGED <<runs, executions, reserved>>
  <2>1. TypeOK'
    BY <1>4 DEF StartModel, TypeOK, SetModel
  <2>2. WorkOk(r)' /\ ToolOk(r)'
    BY <1>1, <1>4 DEF StartModel, SetModel, TypeOK, WorkOk, ToolOk
  <2>3. r \in reserved' => IsDue(r)' \/ Overtaken(r)'
    <3>1. r \in reserved => Overtaken(r)
      BY <1>1, <1>4 DEF BudgetsAreReturned, IsDue
    <3>2. QED
      BY <1>4, <3>1 DEF Overtaken, HasEntry, Status
  <2>4. \A p \in ApprovalIds : IsOpen(p)' => approvals'[p].run # r
    BY <1>1 DEF StartModel, Untouched, IsOpen
  <2>5. \A s \in Sessions : executions'[s] # None =>
            executions'[s] = executions[s] /\ executions[s].run # r
    BY <1>2, <1>4 DEF HasEntry
  <2>6. QED
    BY <1>1, <1>4, <2>1, <2>2, <2>3, <2>4, <2>5, OneRunStep DEF StartModel, SetModel, TypeOK
<1>5. CASE /\ SetModel(r, "none") /\ executions' = Forgotten(r)
           /\ reserved' = Unspent({r}) /\ UNCHANGED runs
  <2>1. TypeOK'
    BY <1>5, ForgottenEffect DEF StartModel, TypeOK, SetModel, Unspent
  <2>2. WorkOk(r)' /\ ToolOk(r)'
    BY <1>1, <1>5 DEF StartModel, SetModel, TypeOK, WorkOk, ToolOk
  <2>3. \A p \in ApprovalIds : IsOpen(p)' => approvals'[p].run # r
    BY <1>1 DEF StartModel, Untouched, IsOpen
  <2>4. \A s \in Sessions : executions'[s] # None =>
            executions'[s] = executions[s] /\ executions[s].run # r
    BY <1>5, ForgottenEffect
  <2>5. \A s \in Sessions : executions[s] # None /\ executions[s].run # r =>
            executions'[s] = executions[s]
    BY <1>5, ForgottenEffect
  <2>6. QED
    BY <1>1, <1>5, <2>1, <2>2, <2>3, <2>4, <2>5, OneRunStep DEF StartModel, SetModel, TypeOK, Unspent
<1>6. CASE /\ HasEntry(r) /\ Status(r) = "queued"
           /\ SetModel(r, "executing") /\ SetStatus(r, "running")
           /\ executions' = [executions EXCEPT ![runs[r].session].kind = "model"]
           /\ UNCHANGED reserved
  <2>1. /\ runs' \in [RunIds -> Run \cup {None}]
        /\ runs'[r] # None /\ runs'[r].session = runs[r].session
        /\ Status(r)' = "running"
        /\ \A q \in RunIds \ {r} : runs'[q] = runs[q]
    BY <1>1, <1>6, SetStatusEffect DEF Active
  <2>2. /\ executions' \in [Sessions -> Execution \cup {None}]
        /\ executions'[runs[r].session].run = r
        /\ executions'[runs[r].session].kind = "model"
        /\ \A s \in Sessions \ {runs[r].session} : executions'[s] = executions[s]
    BY <1>3, <1>6, NoneAssumption DEF HasEntry, TypeOK, Execution
  <2>3. TypeOK'
    BY <1>6, <2>1, <2>2 DEF StartModel, TypeOK, SetModel
  <2>4. WorkOk(r)' /\ ToolOk(r)'
    BY <1>1, <1>6, <2>1 DEF StartModel, SetModel, TypeOK, WorkOk, ToolOk, Untouched
  <2>5. ASSUME NEW s \in Sessions, executions'[s] # None
        PROVE  \/ executions'[s] = executions[s] /\ executions[s].run # r
               \/ executions'[s].run = r /\ s = runs[r].session /\ Worked(executions[s])'
    <3>1. CASE s = runs[r].session
      <4>1. model'[r] = "executing"
        BY <1>6 DEF SetModel, TypeOK
      <4>2. QED
        BY <3>1, <4>1, <2>2 DEF Worked
    <3>2. CASE s # runs[r].session
      BY <3>2, <2>5, <2>2, <1>2
    <3>3. QED
      BY <3>1, <3>2
  <2>6. \A s \in Sessions : executions[s] # None /\ executions[s].run # r =>
            executions'[s] = executions[s]
    BY <1>6, <2>2 DEF HasEntry
  <2>7. IsDue(r)'
    BY <1>6, <2>1 DEF IsDue, SetModel, TypeOK
  <2>8. QED
    BY <1>1, <1>6, <2>1, <2>3, <2>4, <2>5, <2>6, <2>7, OneRunStep DEF StartModel, SetModel, TypeOK
<1>7. QED
  BY <1>4, <1>5, <1>6 DEF StartModel

LEMMA EndModelInv ==
  ASSUME IInv, NEW r \in RunIds, EndModel(r)
  PROVE  IInv'
<1> USE DEF IInv
<1>1. /\ model[r] = "executing" /\ tool[r] = None
      /\ Status(r) \in {"running", "cancelled"} /\ runs[r] # None /\ Untouched(r)
  BY DEF EndModel, WorkInv, WorkOk, TypeOK, Status
<1>2. /\ runs' \in [RunIds -> Run \cup {None}]
      /\ runs'[r] # None /\ runs'[r].session = runs[r].session
      /\ \/ model'[r] = "preparing" /\ Status(r)' = "running"
         \/ model'[r] = "none" /\ Status(r)' \in {"completed", "failed", "running", "cancelled"}
      /\ \A q \in RunIds \ {r} : runs'[q] = runs[q]
  <2>1. CASE GoesOn(r) /\ SetModel(r, "preparing") /\ UNCHANGED runs
    BY <1>1, <2>1 DEF TypeOK, SetModel, GoesOn, Status
  <2>2. CASE /\ SetModel(r, "none")
             /\ \E status \in {"completed", "failed"} : SetStatus(r, status)
    BY <1>1, <2>2, SetStatusEffect DEF SetModel, TypeOK, Over
  <2>3. CASE SetModel(r, "none") /\ UNCHANGED runs
    BY <1>1, <2>3 DEF SetModel, TypeOK, Status
  <2>4. QED
    BY <2>1, <2>2, <2>3 DEF EndModel
<1>3. \E step \in {"preparing", "none"} : SetModel(r, step)
  BY DEF EndModel
<1>4. TypeOK'
  BY <1>2, <1>3, ForgottenEffect DEF EndModel, TypeOK, SetModel, Unspent
<1>5. WorkOk(r)' /\ ToolOk(r)' /\ r \notin reserved'
  BY <1>1, <1>2 DEF EndModel, WorkOk, ToolOk, Unspent
<1>6. \A p \in ApprovalIds : IsOpen(p)' => approvals'[p].run # r
  BY <1>1 DEF EndModel, Untouched, IsOpen
<1>7. \A s \in Sessions : executions'[s] # None =>
          executions'[s] = executions[s] /\ executions[s].run # r
  BY ForgottenEffect DEF EndModel
<1>8. \A s \in Sessions : executions[s] # None /\ executions[s].run # r =>
          executions'[s] = executions[s]
  BY ForgottenEffect DEF EndModel
<1>9. QED
  BY <1>1, <1>2, <1>3, <1>4, <1>5, <1>6, <1>7, <1>8, OneRunStep
  DEF EndModel, SetModel, TypeOK, Unspent

\* A new pending approval of a run.
LEMMA NewApproval ==
  ASSUME TypeOK, NEW r \in RunIds, NEW p \in ApprovalIds, approvals[p] = None,
         approvals' = [approvals EXCEPT ![p] = [run |-> r, status |-> "pending"]]
  PROVE  /\ approvals' \in [ApprovalIds -> Approval \cup {None}]
         /\ approvals'[p] # None /\ approvals'[p].run = r
         /\ \A o \in ApprovalIds \ {p} : approvals'[o] = approvals[o]
  BY NoneAssumption DEF TypeOK, Approval, Open

LEMMA PrepareInv ==
  ASSUME IInv, NEW r \in RunIds,
         \/ \E p \in ApprovalIds : PrepareApproval(r, p)
         \/ FailPreparation(r)
  PROVE  IInv'
<1> USE DEF IInv
<1>1. /\ model[r] = "preparing" /\ tool[r] = None /\ r \notin reserved
      /\ Status(r) \in {"running", "failed", "cancelled"} /\ runs[r] # None
  BY DEF PrepareApproval, FailPreparation, WorkInv, WorkOk, TypeOK, Status
<1>2. PICK status \in {"running", "failed", "waiting_for_approval"}, step \in {"preparing", "none"} :
        /\ SetStatus(r, status) /\ SetModel(r, step)
        /\ step = "preparing" => status # "waiting_for_approval"
  BY DEF PrepareApproval, FailPreparation, CopySays
<1>3. /\ runs' \in [RunIds -> Run \cup {None}]
      /\ runs'[r] # None /\ runs'[r].session = runs[r].session
      /\ Status(r)' = status
      /\ \A q \in RunIds \ {r} : runs'[q] = runs[q]
  BY <1>1, <1>2, SetStatusEffect DEF Active, Over
<1>4. /\ approvals' \in [ApprovalIds -> Approval \cup {None}]
      /\ \A p \in ApprovalIds : \/ approvals'[p] = approvals[p]
                               \/ /\ approvals[p] = None \/ approvals[p].run = r
                                  /\ approvals'[p] # None /\ approvals'[p].run = r
  <2>1. ASSUME NEW p \in ApprovalIds, PrepareApproval(r, p)
        PROVE  <1>4!:
    BY <2>1, NewApproval DEF PrepareApproval
  <2>2. CASE FailPreparation(r)
    BY <2>2, RejectedEffect DEF FailPreparation, TypeOK, IsOpen
  <2>3. QED
    BY <2>1, <2>2
<1>5. UNCHANGED <<submissions, executions, tool, aborted, reserved, enabled, restarts>>
  BY DEF PrepareApproval, FailPreparation
<1>6. TypeOK'
  BY <1>2, <1>3, <1>4, <1>5 DEF TypeOK, SetModel
<1>7. WorkOk(r)' /\ ToolOk(r)'
  BY <1>1, <1>2, <1>3, <1>5 DEF WorkOk, ToolOk, SetModel, TypeOK
<1>8. \A s \in Sessions : executions'[s] # None =>
          executions'[s] = executions[s] /\ executions[s].run # r
  BY <1>1, <1>5, NoWorkNoEntry
<1>9. QED
  BY <1>1, <1>2, <1>3, <1>4, <1>5, <1>6, <1>7, <1>8, OneRunStep DEF SetModel, TypeOK

LEMMA RejectInv ==
  ASSUME IInv, NEW p \in ApprovalIds, Reject(p)
  PROVE  IInv'
<1> USE DEF IInv
<1> PICK r \in RunIds : r = approvals[p].run
  BY DEF Reject, Decidable, IsOpen, TypeOK, Approval
<1>1. Status(r) = "waiting_for_approval" /\ runs[r] # None
  BY DEF Reject, Decidable, Status
<1>2. model[r] = "none" /\ tool[r] = None /\ r \notin reserved
  BY <1>1 DEF WorkInv, WorkOk, BudgetsAreReturned, IsDue, Overtaken, TypeOK
<1>3. /\ runs' \in [RunIds -> Run \cup {None}]
      /\ runs'[r] # None /\ runs'[r].session = runs[r].session
      /\ Status(r)' = "cancelled"
      /\ \A q \in RunIds \ {r} : runs'[q] = runs[q]
  BY <1>1, SetStatusEffect DEF Reject, Over
<1>4. approvals' = Rejected({r})
  BY DEF Reject
<1>5. TypeOK'
  BY <1>3, <1>4, RejectedEffect DEF Reject, TypeOK
<1>6. WorkOk(r)' /\ ToolOk(r)'
  BY <1>2, <1>3 DEF Reject, WorkOk, ToolOk
<1>7. \A o \in ApprovalIds : \/ approvals'[o] = approvals[o]
                           \/ /\ approvals[o] = None \/ approvals[o].run = r
                              /\ approvals'[o] # None /\ approvals'[o].run = r
  BY <1>4, RejectedEffect DEF IsOpen
<1>8. \A o \in ApprovalIds : IsOpen(o)' => approvals'[o].run # r
  BY <1>4, RejectedEffect DEF IsOpen, Open
<1>9. \A s \in Sessions : executions'[s] # None =>
          executions'[s] = executions[s] /\ executions[s].run # r
  BY <1>1, <1>2, NoWorkNoEntry DEF Reject
<1>10. QED
  BY <1>1, <1>2, <1>3, <1>5, <1>6, <1>7, <1>8, <1>9, OneRunStep DEF Reject

LEMMA ApproveInv ==
  ASSUME IInv, NEW p \in ApprovalIds, Approve(p)
  PROVE  IInv'
<1> USE DEF IInv
<1> PICK r \in RunIds : r = approvals[p].run
  BY DEF Approve, Decidable, IsOpen, TypeOK, Approval
<1> DEFINE s == runs[r].session
<1>1. /\ Status(r) = "waiting_for_approval" /\ runs[r] # None
      /\ approvals[p] # None
  BY DEF Approve, Decidable, IsOpen, Status
<1>2. model[r] = "none" /\ tool[r] = None /\ r \notin reserved /\ s \in Sessions
  BY <1>1 DEF WorkInv, WorkOk, BudgetsAreReturned, IsDue, Overtaken, TypeOK, Run
<1>3. /\ runs' \in [RunIds -> Run \cup {None}]
      /\ runs'[r] # None /\ runs'[r].session = s
      /\ Status(r)' = "running"
      /\ \A q \in RunIds \ {r} : runs'[q] = runs[q]
  BY <1>1, SetStatusEffect DEF Approve, Active
<1>4. /\ approvals' \in [ApprovalIds -> Approval \cup {None}]
      /\ approvals'[p] # None /\ approvals'[p].run = r /\ approvals'[p].status = "approved"
      /\ \A o \in ApprovalIds \ {p} : approvals'[o] = approvals[o]
  BY <1>1, NoneAssumption DEF Approve, Resolved, TypeOK, Approval
<1>5. /\ executions' \in [Sessions -> Execution \cup {None}]
      /\ executions'[s].run = r /\ executions'[s].kind = "approved_tool"
      /\ \A t \in Sessions \ {s} : executions'[t] = executions[t]
  BY <1>1, <1>2 DEF Approve, TypeOK, Execution
<1>6. /\ tool' \in [RunIds -> Tool \cup {None}]
      /\ tool'[r] # None /\ tool'[r].approval = p
      /\ \A q \in RunIds \ {r} : tool'[q] = tool[q]
  BY <1>1, NoneAssumption DEF Approve, TypeOK, Tool
<1>7. TypeOK'
  BY <1>3, <1>4, <1>5, <1>6 DEF Approve, TypeOK
<1>8. WorkOk(r)' /\ ToolOk(r)'
  BY <1>2, <1>3, <1>4, <1>6 DEF Approve, WorkOk, ToolOk
<1>9. ASSUME NEW t \in Sessions, executions'[t] # None
      PROVE  \/ executions'[t] = executions[t] /\ executions[t].run # r
             \/ executions'[t].run = r /\ t = s /\ Worked(executions[t])'
  <2>1. CASE t = s
    BY <2>1, <1>5, <1>6 DEF Worked
  <2>2. CASE t # s
    BY <2>2, <1>1, <1>2, <1>5, <1>9, NoWorkNoEntry
  <2>3. QED
    BY <2>1, <2>2
<1>10. QED
  BY <1>1, <1>2, <1>3, <1>4, <1>6, <1>7, <1>8, <1>9, OneRunStep DEF Approve

\* A tool returned: its run has no worker and no entry any more.
LEMMA ReturnsEffect ==
  ASSUME IInv, NEW r \in RunIds, tool[r] # None, Returns(r)
  PROVE  /\ tool' \in [RunIds -> Tool \cup {None}]
         /\ tool'[r] = None
         /\ \A q \in RunIds \ {r} : tool'[q] = tool[q]
         /\ executions' \in [Sessions -> Execution \cup {None}]
         /\ \A s \in Sessions :
              /\ executions'[s] # None => executions'[s] = executions[s] /\ executions[s].run # r
              /\ executions[s] # None /\ executions[s].run # r => executions'[s] = executions[s]
         /\ model[r] = "none" /\ r \notin reserved /\ runs[r] # None
         /\ Status(r) \in {"running", "cancelled"}
  BY ForgottenEffect DEF IInv, Returns, TypeOK, WorkInv, WorkOk, Status

LEMMA EndToolInv ==
  ASSUME IInv, NEW r \in RunIds, EndTool(r)
  PROVE  IInv'
<1> USE DEF IInv
<1>1. /\ tool[r] # None /\ model[r] = "none" /\ r \notin reserved
      /\ Status(r) \in {"running", "cancelled"} /\ runs[r] # None
  BY DEF EndTool, WorkInv, WorkOk, Status, TypeOK
<1>2. PICK status \in {"failed", "waiting_for_approval", "completed", "running"} :
        /\ SetStatus(r, status)
        /\ \/ Returns(r) /\ status # "running"
           \/ Continues(r) /\ status = "running"
        /\ status = "completed" => OpenApprovals(r) = {}
  BY DEF EndTool
<1>3. /\ runs' \in [RunIds -> Run \cup {None}]
      /\ runs'[r] # None /\ runs'[r].session = runs[r].session
      /\ Status(r)' = status
      /\ \A q \in RunIds \ {r} : runs'[q] = runs[q]
  BY <1>1, <1>2, SetStatusEffect DEF Active, Over
<1>4. approvals' = approvals
  BY DEF EndTool, Continues
<1>5. status = "completed" => \A p \in ApprovalIds : IsOpen(p)' => approvals'[p].run # r
  BY <1>2, <1>4 DEF OpenApprovals, IsOpen
<1>6. CASE Returns(r) /\ status # "running"
  <2>1. TypeOK'
    BY <1>1, <1>3, <1>4, <1>6, ReturnsEffect DEF EndTool, TypeOK
  <2>2. WorkOk(r)' /\ ToolOk(r)'
    BY <1>1, <1>3, <1>6, ReturnsEffect DEF EndTool, WorkOk, ToolOk
  <2>3. QED
    BY <1>1, <1>2, <1>3, <1>4, <1>5, <1>6, <2>1, <2>2, ReturnsEffect, OneRunStep DEF EndTool
<1>7. CASE Continues(r) /\ status = "running"
  <2>1. /\ tool' \in [RunIds -> Tool \cup {None}]
        /\ tool'[r] # None /\ tool'[r].approval = tool[r].approval
        /\ \A q \in RunIds \ {r} : tool'[q] = tool[q]
        /\ executions' = executions
    BY <1>1, <1>7, NoneAssumption DEF Continues, TypeOK, Tool
  <2>2. TypeOK'
    BY <1>3, <1>4, <2>1 DEF EndTool, TypeOK
  <2>3. WorkOk(r)' /\ ToolOk(r)'
    BY <1>1, <1>3, <1>4, <1>7, <2>1 DEF EndTool, WorkOk, ToolOk, ApprovalInv
  <2>4. ASSUME NEW s \in Sessions, executions'[s] # None
        PROVE  \/ executions'[s] = executions[s] /\ executions[s].run # r
               \/ executions'[s].run = r /\ s = runs[r].session /\ Worked(executions[s])'
    <3>1. executions[s].run = r => executions[s].kind = "approved_tool"
      BY <1>1, <2>1, <2>4 DEF EntriesHaveWorkers, Worked, TypeOK, Execution
    <3>2. QED
      BY <3>1, <2>1, <2>4 DEF EntryInv, Worked
  <2>5. QED
    BY <1>1, <1>3, <1>4, <1>7, <2>1, <2>2, <2>3, <2>4, OneRunStep DEF EndTool
<1>8. QED
  BY <1>2, <1>6, <1>7

LEMMA ContinuationInv ==
  ASSUME IInv, NEW r \in RunIds,
         \/ \E p \in ApprovalIds : ContinueWith(r, p)
         \/ FailContinuation(r)
  PROVE  IInv'
<1> USE DEF IInv
<1>1. tool[r] # None /\ Returns(r)
  BY DEF ContinueWith, FailContinuation
<1>2. UNCHANGED <<submissions, model, aborted, reserved, enabled, restarts>>
  BY DEF ContinueWith, FailContinuation
<1>3. /\ approvals' \in [ApprovalIds -> Approval \cup {None}]
      /\ \A p \in ApprovalIds : \/ approvals'[p] = approvals[p]
                               \/ /\ approvals[p] = None \/ approvals[p].run = r
                                  /\ approvals'[p] # None /\ approvals'[p].run = r
  <2>1. ASSUME NEW p \in ApprovalIds, ContinueWith(r, p)
        PROVE  <1>3!:
    BY <2>1, NewApproval DEF ContinueWith
  <2>2. CASE FailContinuation(r)
    BY <2>2, RejectedEffect DEF FailContinuation, TypeOK, IsOpen
  <2>3. QED
    BY <2>1, <2>2
<1>4. \/ \E status \in {"waiting_for_approval", "failed"} : SetStatus(r, status)
      \/ UNCHANGED <<approvals, runs>>
  BY DEF ContinueWith, FailContinuation
<1>5. /\ runs' \in [RunIds -> Run \cup {None}]
      /\ runs'[r] # None /\ runs'[r].session = runs[r].session
      /\ \A q \in RunIds \ {r} : runs'[q] = runs[q]
      /\ \/ Status(r)' \in {"waiting_for_approval", "failed"}
         \/ Status(r)' = Status(r) /\ approvals' = approvals
  <2>1. ASSUME NEW status \in {"waiting_for_approval", "failed"}, SetStatus(r, status)
        PROVE  <1>5!:
    BY <1>1, <2>1, ReturnsEffect, SetStatusEffect DEF Active, Over
  <2>2. CASE UNCHANGED <<approvals, runs>>
    BY <1>1, <2>2, ReturnsEffect DEF TypeOK, Status
  <2>3. QED
    BY <1>4, <2>1, <2>2
<1>6. TypeOK'
  BY <1>1, <1>2, <1>3, <1>5, ReturnsEffect DEF TypeOK
<1>7. WorkOk(r)' /\ ToolOk(r)'
  BY <1>1, <1>2, <1>5, ReturnsEffect DEF WorkOk, ToolOk
<1>8. Status(r)' \in {"completed", "cancelled"} =>
        \A p \in ApprovalIds : IsOpen(p)' => approvals'[p].run # r
  BY <1>5 DEF ApprovalInv, IsOpen
<1>9. QED
  BY <1>1, <1>2, <1>3, <1>5, <1>6, <1>7, <1>8, ReturnsEffect, OneRunStep

LEMMA CancelInv ==
  ASSUME IInv, NEW r \in RunIds, CancelRun(r)
  PROVE  IInv'
<1> USE DEF IInv
<1>1. runs[r] # None
  BY DEF CancelRun, IsActive, Status, Active
<1>2. /\ runs' \in [RunIds -> Run \cup {None}]
      /\ runs'[r] # None /\ runs'[r].session = runs[r].session
      /\ Status(r)' = "cancelled"
      /\ \A q \in RunIds \ {r} : runs'[q] = runs[q]
  BY <1>1, SetStatusEffect DEF CancelRun, Over
<1>3. approvals' = Rejected({r}) /\ executions' = Forgotten(r)
  BY DEF CancelRun
<1>4. TypeOK'
  BY <1>2, <1>3, RejectedEffect, ForgottenEffect DEF CancelRun, TypeOK, AbortedOf, Unspent
<1>5. \A p \in ApprovalIds : \/ approvals'[p] = approvals[p]
                           \/ /\ approvals[p] = None \/ approvals[p].run = r
                              /\ approvals'[p] # None /\ approvals'[p].run = r
  BY <1>3, RejectedEffect DEF IsOpen
<1>6. \A p \in ApprovalIds : IsOpen(p)' => approvals'[p].run # r
  BY <1>3, RejectedEffect DEF IsOpen, Open
<1>7. Untouched(r) => Untouched(r)'
  BY <1>3, RejectedEffect DEF Untouched
<1>8. WorkOk(r)'
  BY <1>2, <1>7 DEF CancelRun, WorkInv, WorkOk, Unspent, IsActive
<1>9. ToolOk(r)'
  BY <1>3, RejectedEffect DEF CancelRun, ApprovalInv, ToolOk, IsOpen, Open, TypeOK, Tool
<1>10. \A s \in Sessions : executions'[s] # None =>
          executions'[s] = executions[s] /\ executions[s].run # r
  BY <1>3, ForgottenEffect
<1>11. \A s \in Sessions : executions[s] # None /\ executions[s].run # r =>
          executions'[s] = executions[s]
  BY <1>3, ForgottenEffect
<1>12. QED
  BY <1>1, <1>2, <1>4, <1>5, <1>6, <1>8, <1>9, <1>10, <1>11, OneRunStep DEF CancelRun, Unspent

-----------------------------------------------------------------------------
(* Steps about several runs.                                                *)

LEMMA TightenInv ==
  ASSUME IInv, Tighten
  PROVE  IInv'
<1> USE DEF IInv
<1>a. \A s \in ModelEntries : executions[s].run \in RunIds
  BY DEF ModelEntries, TypeOK, Execution
<1>b. ModelRuns \subseteq RunIds
  BY <1>a DEF ModelRuns
<1> PICK stopped \in SUBSET RunIds :
      stopped = {r \in ModelRuns : Status(r) \in {"queued", "running"}}
  BY <1>b
<1>1. /\ approvals' = Rejected(stopped)
      /\ reserved' = reserved \ stopped
      /\ runs' = [r \in RunIds |-> IF r \in stopped THEN [runs[r] EXCEPT !.status = "cancelled"]
                                   ELSE runs[r]]
      /\ UNCHANGED <<submissions, model, tool, restarts>>
  BY DEF Tighten, Unspent
<1>2. /\ executions' \in [Sessions -> Execution \cup {None}]
      /\ \A s \in Sessions : executions'[s] # None => executions'[s] = executions[s]
      /\ \A s \in Sessions : executions[s] # None /\ executions[s].run \notin stopped =>
           executions'[s] = executions[s]
  BY DEF Tighten, TypeOK
<1>3. /\ runs' \in [RunIds -> Run \cup {None}]
      /\ \A r \in RunIds \ stopped : runs'[r] = runs[r] /\ Status(r)' = Status(r)
      /\ \A r \in RunIds : runs[r] # None =>
           runs'[r] # None /\ runs'[r].session = runs[r].session
      /\ \A r \in stopped : /\ Status(r)' = "cancelled"
                            /\ Status(r) \in {"queued", "running"}
  BY <1>1, NoneAssumption DEF TypeOK, Run, Over, Status
<1>4. TypeOK'
  BY <1>1, <1>2, <1>3, RejectedEffect DEF Tighten, TypeOK, AbortedOf
<1>5. WorkInv'
  <2> SUFFICES ASSUME NEW r \in RunIds PROVE WorkOk(r)'
    BY DEF WorkInv
  <2>1. Untouched(r) => Untouched(r)'
    BY <1>1, RejectedEffect DEF Untouched
  <2>2. QED
    BY <1>1, <1>3, <2>1 DEF WorkInv, WorkOk
<1>6. EntryInv'
  BY <1>2, <1>3 DEF EntryInv, TypeOK, Execution
<1>7. EntriesHaveWorkers'
  BY <1>1, <1>2 DEF EntriesHaveWorkers, Worked
<1>8. ApprovalInv'
  <2>1. ASSUME NEW p \in ApprovalIds, approvals'[p] # None
        PROVE  approvals'[p].run \in RunIds /\ runs'[approvals'[p].run] # None
    BY <1>1, <1>3, <2>1, RejectedEffect DEF ApprovalInv, TypeOK, Approval
  <2>2. ASSUME NEW p \in ApprovalIds, IsOpen(p)'
        PROVE  Status(approvals[p].run)' \notin {"completed", "cancelled"}
    <3>1. IsOpen(p) /\ approvals'[p] = approvals[p] /\ approvals[p].run \in RunIds \ stopped
      BY <1>1, <2>2, RejectedEffect DEF IsOpen, Open, TypeOK, Approval
    <3>2. Status(approvals[p].run) \notin {"completed", "cancelled"}
      BY <3>1 DEF ApprovalInv
    <3>3. \A r \in RunIds : r = approvals[p].run => r = approvals'[p].run
      BY <3>1
    <3>4. QED
      BY <1>3, <3>1, <3>2, <3>3 DEF Status
  <2>3. ASSUME NEW r \in RunIds
        PROVE  ToolOk(r)'
    BY <1>1, RejectedEffect DEF ApprovalInv, ToolOk, IsOpen, Open, TypeOK, Tool
  <2>4. QED
    BY <2>1, <2>2, <2>3 DEF ApprovalInv
<1>9. BudgetsAreReturned'
  <2> SUFFICES ASSUME NEW r \in reserved'
               PROVE  IsDue(r)' \/ Overtaken(r)'
    BY DEF BudgetsAreReturned
  <2>1. r \in RunIds \ stopped /\ (IsDue(r) \/ Overtaken(r))
    BY <1>1 DEF BudgetsAreReturned, TypeOK
  <2>2. HasEntry(r)' <=> HasEntry(r)
    <3>1. runs[r] # None /\ runs[r].session \in Sessions /\ runs'[r] = runs[r]
      BY <1>3, <2>1 DEF IsDue, Overtaken, Status, TypeOK, Run
    <3>2. QED
      BY <1>2, <2>1, <3>1 DEF HasEntry
  <2>3. QED
    BY <1>1, <1>3, <2>1, <2>2 DEF IsDue, Overtaken
<1>10. QED
  BY <1>4, <1>5, <1>6, <1>7, <1>8, <1>9

LEMMA RestartInv ==
  ASSUME IInv, Restart
  PROVE  IInv'
<1> USE DEF IInv
<1>1. /\ runs' \in [RunIds -> Run \cup {None}]
      /\ \A r \in RunIds : /\ runs'[r] = None <=> runs[r] = None
                           /\ Status(r)' \in {Status(r), "failed"}
  BY NoneAssumption DEF Restart, TypeOK, Run, Over, Status, Interrupted
<1>2. /\ approvals' \in [ApprovalIds -> Approval \cup {None}]
      /\ \A p \in ApprovalIds : /\ approvals'[p] = None <=> approvals[p] = None
                                /\ approvals[p] # None => approvals'[p].run = approvals[p].run
                                /\ IsOpen(p)' => IsOpen(p)
  BY NoneAssumption DEF Restart, RecoveredIds, TypeOK, Approval, Open, IsOpen
<1>3. TypeOK'
  BY <1>1, <1>2, RestartAssumption DEF Restart, TypeOK
<1>4. WorkInv' /\ EntryInv' /\ EntriesHaveWorkers' /\ BudgetsAreReturned'
  BY DEF Restart, WorkInv, WorkOk, EntryInv, EntriesHaveWorkers, BudgetsAreReturned
<1>5. ApprovalInv'
  <2>1. ASSUME NEW p \in ApprovalIds, approvals'[p] # None
        PROVE  runs'[approvals'[p].run] # None
    BY <1>1, <1>2, <2>1 DEF ApprovalInv, TypeOK, Approval
  <2>2. ASSUME NEW p \in ApprovalIds, IsOpen(p)'
        PROVE  Status(approvals[p].run)' \notin {"completed", "cancelled"}
    <3> PICK r \in RunIds : r = approvals[p].run /\ r = approvals'[p].run
      BY <1>2, <2>2 DEF IsOpen, TypeOK, Approval
    <3>1. Status(r)' \notin {"completed", "cancelled"}
      BY <1>1, <1>2, <2>2 DEF ApprovalInv
    <3>2. QED
      BY <3>1 DEF Status
  <2>3. \A r \in RunIds : ToolOk(r)'
    BY DEF Restart, ToolOk
  <2>4. QED
    BY <2>1, <2>2, <2>3 DEF ApprovalInv
<1>6. QED
  BY <1>3, <1>4, <1>5

LEMMA StepInv == IInv /\ [Next]_vars => IInv'
<1> SUFFICES ASSUME IInv, [Next]_vars PROVE IInv'
  OBVIOUS
<1>1. CASE Enable \/ Close
  <2>1. TypeOK'
    BY <1>1 DEF IInv, Enable, Close, TypeOK, AbortedOf
  <2>2. QED
    BY <1>1, <2>1, Frame DEF Enable, Close
<1>2. CASE UNCHANGED vars
  <2>1. TypeOK'
    BY <1>2 DEF vars, IInv, TypeOK
  <2>2. QED
    BY <1>2, <2>1, Frame DEF vars
<1>3. QED
  BY <1>1, <1>2, SubmissionInv, QueueInv, EmitInv, StartModelInv, EndModelInv, PrepareInv,
     RejectInv, ApproveInv, EndToolInv, ContinuationInv, CancelInv, TightenInv, RestartInv
  DEF Next

-----------------------------------------------------------------------------
\* Every reachable state satisfies the inductive invariant: what a run's row may say
\* while somebody holds a copy of it, for any number of sessions, runs and approvals.
THEOREM Invariance == Spec => []IInv
<1>1. QED
  BY InitInv, StepInv, PTL DEF Spec

\* The rows and the gateway's memory have their types (threadStore.ts, gateway.ts).
THEOREM TypeCorrect == Spec => []TypeOK
<1>1. IInv => TypeOK
  BY DEF IInv
<1>2. QED
  BY <1>1, Invariance, PTL

\* Nobody else works on a run that is executed or waits for a decision: the whole
\* copies that the handlers write back never undo each other's decisions.
THEOREM OneWorkerAtATime == Spec => []OneWorker
<1>1. IInv => OneWorker
  BY DEF IInv, OneWorker, WorkInv, WorkOk, Busy, TypeOK
<1>2. QED
  BY <1>1, Invariance, PTL

\* Only a run that the model has before it keeps a share of the budget, or one that a
\* later submission overtook and that stays queued (#releaseBudget).
THEOREM BudgetsComeBack == Spec => []BudgetsAreReturned
<1>1. IInv => BudgetsAreReturned
  BY DEF IInv
<1>2. QED
  BY <1>1, Invariance, PTL

\* What #executions holds is being worked on.
THEOREM EntriesAreWorkedOn == Spec => []EntriesHaveWorkers
<1>1. IInv => EntriesHaveWorkers
  BY DEF IInv
<1>2. QED
  BY <1>1, Invariance, PTL

\* An approval a client may decide is due: its run is neither completed nor cancelled
\* and its tool is not being executed (resolveApproval, recoverPendingApprovals).
THEOREM ApprovalsAreDue == Spec => []OpenApprovalsAreDue
<1>1. ASSUME IInv, NEW p \in ApprovalIds, IsOpen(p)
      PROVE  LET r == approvals[p].run
             IN  /\ Status(r) \notin {"completed", "cancelled"}
                 /\ tool[r] # None => tool[r].approval # p
  <2>1. approvals[p].run \in RunIds
    BY <1>1 DEF IInv, TypeOK, Approval, IsOpen
  <2>2. QED
    BY <1>1, <2>1 DEF IInv, ApprovalInv, ToolOk, IsOpen, Open
<1>2. IInv => OpenApprovalsAreDue
  BY <1>1 DEF OpenApprovalsAreDue
<1>3. QED
  BY <1>2, Invariance, PTL

\* A run that is over and that nobody works on is never changed again.
THEOREM OverIsFinal == Spec => OverStands
<1>1. ASSUME IInv, [Next]_vars, NEW r \in RunIds, Status(r) \in Over, ~Busy(r)
      PROVE  runs'[r] = runs[r]
  <2> USE DEF IInv
  <2>1. runs[r] # None /\ Status(r) \notin Active
    BY <1>1 DEF Over, Active, Status
  <2>2. ASSUME NEW q \in RunIds, NEW status, SetStatus(q, status), q # r
        PROVE  runs'[r] = runs[r]
    BY <2>2 DEF SetStatus, TypeOK
  <2>3. ASSUME NEW c \in Clients, NEW q \in RunIds, BlockRun(c, q) \/ QueueRun(c, q)
        PROVE  runs'[r] = runs[r]
    <3>1. q # r
      BY <2>1, <2>3 DEF BlockRun, QueueRun
    <3>2. PICK entry : runs' = [runs EXCEPT ![q] = entry]
      BY <2>3 DEF BlockRun, QueueRun
    <3>3. QED
      BY <3>1, <3>2 DEF TypeOK
  <2>4. ASSUME NEW q \in RunIds, StartModel(q) \/ Emit(q) \/ EndModel(q) \/ FailPreparation(q)
        PROVE  runs'[r] = runs[r]
    BY <1>1, <2>1, <2>2, <2>4
    DEF StartModel, Emit, EndModel, FailPreparation, Busy
  <2>5. ASSUME NEW q \in RunIds, NEW p \in ApprovalIds, PrepareApproval(q, p) \/ ContinueWith(q, p)
        PROVE  runs'[r] = runs[r]
    BY <1>1, <2>1, <2>2, <2>5 DEF PrepareApproval, ContinueWith, Busy
  <2>6. ASSUME NEW p \in ApprovalIds, Approve(p) \/ Reject(p)
        PROVE  runs'[r] = runs[r]
    <3>1. approvals[p].run \in RunIds \ {r}
      BY <1>1, <2>6 DEF Approve, Reject, Decidable, IsOpen, Over, TypeOK, Approval
    <3>2. QED
      BY <2>2, <2>6, <3>1 DEF Approve, Reject
  <2>7. ASSUME NEW q \in RunIds, EndTool(q) \/ FailContinuation(q) \/ CancelRun(q)
        PROVE  runs'[r] = runs[r]
    BY <1>1, <2>1, <2>2, <2>7
    DEF EndTool, FailContinuation, CancelRun, Busy, IsActive
  <2>8. CASE Tighten
    BY <1>1, <2>8 DEF Tighten, TypeOK, Over
  <2>9. CASE Restart
    BY <1>1, <2>9 DEF Restart, Interrupted, TypeOK, Over
  <2>10. QED
    BY <1>1, <2>3, <2>4, <2>5, <2>6, <2>7, <2>8, <2>9
    DEF Next, vars, Submit, ReadConfig, Enable, Close
<1>2. IInv /\ [Next]_vars =>
        \A r \in RunIds : Status(r) \in Over /\ ~Busy(r) => runs'[r] = runs[r]
  BY <1>1
<1>3. QED
  BY <1>2, Invariance, PTL DEF Spec, OverStands

-----------------------------------------------------------------------------
(* The handlers implement ApprovalLedger.                                   *)

\* What the ledger sees of the rows and the tools, before and after a step.
LEMMA Views ==
  /\ Decision = [p \in ApprovalIds |-> IF approvals[p] = None THEN "absent"
                                       ELSE approvals[p].status]
  /\ Decision' = [p \in ApprovalIds |-> IF approvals'[p] = None THEN "absent"
                                        ELSE approvals'[p].status]
  /\ Owner = [p \in ApprovalIds |-> IF approvals[p] = None THEN None ELSE approvals[p].run]
  /\ Owner' = [p \in ApprovalIds |-> IF approvals'[p] = None THEN None ELSE approvals'[p].run]
  /\ \A p : p \in Executing <=> \E r \in RunIds : Executes(r) /\ tool[r].approval = p
  /\ \A p : p \in Executing' <=> \E r \in RunIds : Executes(r)' /\ tool'[r].approval = p
  BY DEF Decision, Owner, Executing

\* Handlers that touch neither table nor tools are not seen.
LEMMA Unseen ==
  ASSUME UNCHANGED <<approvals, tool>>
  PROVE  UNCHANGED <<Decision, Owner, Executing>>
  BY DEF Decision, Owner, Executing, Executes

\* Nor is a worker that was not executing a tool before or after.
LEMMA SameTools ==
  ASSUME NEW r \in RunIds, ~Executes(r), ~Executes(r)',
         \A q \in RunIds \ {r} : tool'[q] = tool[q]
  PROVE  Executing' = Executing
<1>1. \A q \in RunIds : /\ Executes(q)' <=> Executes(q)
                        /\ Executes(q) => tool'[q].approval = tool[q].approval
  BY DEF Executes
<1>2. \A p : p \in Executing' <=> p \in Executing
  BY <1>1, Views
<1>3. QED
  BY <1>2

\* Decisions and owners are those of the approval rows.
LEMMA SameApprovals ==
  ASSUME UNCHANGED approvals
  PROVE  UNCHANGED <<Decision, Owner>>
  BY DEF Decision, Owner

LEMMA RejectRefines ==
  ASSUME TypeOK, NEW these \in SUBSET RunIds, approvals' = Rejected(these),
         Executing' = Executing
  PROVE  Ledger!Reject(these)
<1>1. Decision' = [p \in ApprovalIds |->
                     IF Decision[p] \in Open /\ Owner[p] \in these THEN "rejected"
                     ELSE Decision[p]]
  <2> SUFFICES ASSUME NEW p \in ApprovalIds
               PROVE  Decision'[p] = IF Decision[p] \in Open /\ Owner[p] \in these
                                       THEN "rejected" ELSE Decision[p]
    BY Views
  <2>1. approvals'[p] = None <=> approvals[p] = None
    BY RejectedEffect
  <2>2. CASE approvals[p] = None
    BY <2>1, <2>2, Views DEF Open
  <2>3. CASE approvals[p] # None
    <3>1. /\ Decision[p] = approvals[p].status /\ Owner[p] = approvals[p].run
          /\ Decision'[p] = approvals'[p].status
      BY <2>1, <2>3, Views
    <3>2. QED
      BY <2>3, <3>1, RejectedEffect DEF IsOpen
  <2>4. QED
    BY <2>2, <2>3
<1>2. Owner' = Owner
  <2>1. \A p \in ApprovalIds : /\ approvals'[p] = None <=> approvals[p] = None
                               /\ approvals[p] # None => approvals'[p].run = approvals[p].run
    BY RejectedEffect
  <2>2. QED
    BY <2>1, Views
<1>3. QED
  BY <1>1, <1>2 DEF Ledger!Reject, Ledger!Open, Open

LEMMA AskRefines ==
  ASSUME TypeOK, NEW p \in ApprovalIds, NEW r \in RunIds, approvals[p] = None,
         approvals' = [approvals EXCEPT ![p] = [run |-> r, status |-> "pending"]],
         Executing' = Executing
  PROVE  Ledger!Ask(p, r)
<1>1. [run |-> r, status |-> "pending"] # None
  BY NoneAssumption DEF Approval, Open
<1>2. /\ approvals'[p] = [run |-> r, status |-> "pending"]
      /\ \A o \in ApprovalIds \ {p} : approvals'[o] = approvals[o]
  BY DEF TypeOK
<1>3. Decision[p] = "absent" /\ Decision' = [Decision EXCEPT ![p] = "pending"]
  BY <1>1, <1>2, Views
<1>4. Owner' = [Owner EXCEPT ![p] = r]
  BY <1>1, <1>2, Views
<1>5. QED
  BY <1>3, <1>4 DEF Ledger!Ask

LEMMA ApproveRefines ==
  ASSUME IInv, NEW p \in ApprovalIds, Approve(p)
  PROVE  Ledger!Approve(p)
<1> USE DEF IInv
<1> PICK r \in RunIds : r = approvals[p].run
  BY DEF Approve, Decidable, IsOpen, TypeOK, Approval
<1>1. Status(r) = "waiting_for_approval" /\ approvals[p] # None /\ approvals[p].status \in Open
  BY DEF Approve, Decidable, IsOpen
<1>2. tool[r] = None
  BY <1>1 DEF WorkInv, WorkOk
<1>3. /\ approvals'[p] # None /\ approvals'[p].run = r /\ approvals'[p].status = "approved"
      /\ \A o \in ApprovalIds \ {p} : approvals'[o] = approvals[o]
  BY <1>1, NoneAssumption DEF Approve, Resolved, TypeOK, Approval
<1>4. /\ tool'[r] # None /\ tool'[r].approval = p /\ tool'[r].at = "executing"
      /\ \A q \in RunIds \ {r} : tool'[q] = tool[q]
  BY <1>1, NoneAssumption DEF Approve, TypeOK, Tool
<1>5. Decision[p] \in Open /\ Decision' = [Decision EXCEPT ![p] = "approved"]
  BY <1>1, <1>3, Views
<1>6. Owner[p] = r /\ Owner' = Owner
  BY <1>1, <1>3, Views
<1>7. \A q \in Executing : Owner[q] # Owner[p]
  <2> SUFFICES ASSUME NEW q \in Executing PROVE Owner[q] # r
    BY <1>6
  <2>1. PICK o \in RunIds : Executes(o) /\ tool[o].approval = q
    BY Views
  <2>2. q \in ApprovalIds /\ approvals[q] # None /\ approvals[q].run = o /\ o # r
    BY <1>2, <2>1 DEF Executes, TypeOK, Tool, ApprovalInv, ToolOk
  <2>3. QED
    BY <2>2, Views
<1>8. Executing' = Executing \cup {p}
  <2>1. \A q \in RunIds : Executes(q)' <=> q = r \/ Executes(q)
    BY <1>2, <1>4 DEF Executes
  <2>2. \A q \in RunIds \ {r} : tool'[q].approval = tool[q].approval
    BY <1>4
  <2>3. \A o : o \in Executing' <=> o = p \/ o \in Executing
    BY <1>2, <1>4, <2>1, <2>2, Views DEF Executes
  <2>4. QED
    BY <2>3
<1>9. QED
  BY <1>5, <1>6, <1>7, <1>8 DEF Ledger!Approve, Ledger!Open, Open

LEMMA EndToolRefines ==
  ASSUME IInv, NEW r \in RunIds, EndTool(r)
  PROVE  Ledger!Finish(tool[r].approval) /\ tool[r].approval \in ApprovalIds
<1> USE DEF IInv
<1>1. Executes(r) /\ tool[r].approval \in ApprovalIds
  BY DEF EndTool, Executes, TypeOK, Tool
<1>2. approvals' = approvals
  BY DEF EndTool, Continues
<1>3. ~Executes(r)' /\ \A q \in RunIds \ {r} : tool'[q] = tool[q]
  <2>1. CASE Returns(r)
    BY <2>1 DEF Returns, TypeOK, Executes
  <2>2. CASE Continues(r)
    <3>1. tool'[r].at = "continuing" /\ \A q \in RunIds \ {r} : tool'[q] = tool[q]
      BY <1>1, <2>2 DEF Continues, TypeOK, Tool, Executes
    <3>2. QED
      BY <3>1 DEF Executes
  <2>3. QED
    BY <2>1, <2>2 DEF EndTool
<1>4. \A q \in RunIds \ {r} : Executes(q) => tool[q].approval # tool[r].approval
  BY <1>1 DEF Executes, ApprovalInv, ToolOk
<1>5. \A p : p \in Executing' <=> p \in Executing /\ p # tool[r].approval
  <2>1. \A q \in RunIds \ {r} : /\ Executes(q)' <=> Executes(q)
                                /\ tool'[q].approval = tool[q].approval
    BY <1>3 DEF Executes
  <2>2. QED
    BY <1>3, <1>4, <2>1, Views
<1>6. tool[r].approval \in Executing /\ Executing' = Executing \ {tool[r].approval}
  BY <1>1, <1>5, Views
<1>7. QED
  BY <1>1, <1>2, <1>6, SameApprovals DEF Ledger!Finish

LEMMA RestartRefines ==
  ASSUME IInv, Restart
  PROVE  Ledger!Recover
<1> USE DEF IInv
<1>1. \A p \in ApprovalIds :
        /\ approvals'[p] = None <=> approvals[p] = None
        /\ approvals[p] # None =>
             /\ approvals'[p].run = approvals[p].run
             /\ approvals'[p].status = IF approvals[p].status = "pending"
                                         THEN "recovered_pending" ELSE approvals[p].status
  BY NoneAssumption DEF Restart, RecoveredIds, TypeOK, Approval, Open
<1>2. Decision' = [p \in ApprovalIds |-> IF Decision[p] = "pending" THEN "recovered_pending"
                                         ELSE Decision[p]]
  BY <1>1, Views
<1>3. Owner' = Owner
  BY <1>1, Views
<1>4. Executing' = {}
  <2>1. \A r \in RunIds : ~Executes(r)'
    BY DEF Restart, Executes
  <2>2. QED
    BY <2>1, Views
<1>5. QED
  BY <1>2, <1>3, <1>4 DEF Ledger!Recover

LEMMA ContinueRefines ==
  ASSUME IInv, NEW r \in RunIds, tool[r] # None, tool[r].at = "continuing", Returns(r)
  PROVE  Executing' = Executing
<1>1. ~Executes(r) /\ ~Executes(r)' /\ \A q \in RunIds \ {r} : tool'[q] = tool[q]
  BY DEF IInv, TypeOK, Returns, Executes
<1>2. QED
  BY <1>1, SameTools

LEMMA StepRefines ==
  IInv /\ [Next]_vars => [Ledger!Next]_<<Decision, Owner, Executing>>
<1> SUFFICES ASSUME IInv, [Next]_vars
             PROVE  Ledger!Next \/ UNCHANGED <<Decision, Owner, Executing>>
  BY DEF Ledger!vars
<1>0. TypeOK
  BY DEF IInv
<1>1. UNCHANGED tool => Executing' = Executing
  BY DEF Executing, Executes
<1>2. ASSUME NEW r \in RunIds, NEW p \in ApprovalIds, PrepareApproval(r, p) \/ ContinueWith(r, p)
      PROVE  Ledger!Next
  <2>1. Ledger!Ask(p, r)
    BY <1>0, <1>1, <1>2, AskRefines, ContinueRefines DEF PrepareApproval, ContinueWith
  <2>2. QED
    BY <2>1 DEF Ledger!Next
<1>3. ASSUME NEW p \in ApprovalIds, Approve(p)
      PROVE  Ledger!Next
  BY <1>3, ApproveRefines DEF Ledger!Next
<1>4. ASSUME NEW p \in ApprovalIds, Reject(p)
      PROVE  Ledger!Next
  <2>1. approvals[p].run \in RunIds
    BY <1>0, <1>4 DEF Reject, Decidable, IsOpen, TypeOK, Approval
  <2>2. Ledger!Reject({approvals[p].run})
    BY <1>0, <1>1, <1>4, <2>1, RejectRefines DEF Reject
  <2>3. QED
    BY <2>1, <2>2 DEF Ledger!Next
<1>5. ASSUME NEW r \in RunIds, FailPreparation(r) \/ CancelRun(r) \/ FailContinuation(r)
      PROVE  Ledger!Next \/ UNCHANGED <<Decision, Owner, Executing>>
  <2>1. Executing' = Executing
    BY <1>1, <1>5, ContinueRefines DEF FailPreparation, CancelRun, FailContinuation
  <2>2. CASE approvals' = approvals
    BY <2>1, <2>2, SameApprovals
  <2>3. CASE approvals' = Rejected({r})
    <3>1. Ledger!Reject({r})
      BY <1>0, <2>1, <2>3, RejectRefines
    <3>2. QED
      BY <3>1 DEF Ledger!Next
  <2>4. QED
    BY <1>5, <2>2, <2>3 DEF FailPreparation, CancelRun, FailContinuation
<1>6. CASE Tighten
  <2> DEFINE these == {r \in ModelRuns : Status(r) \in {"queued", "running"}}
  <2>0. these \in SUBSET RunIds
    BY <1>0 DEF ModelRuns, ModelEntries, TypeOK, Execution
  <2>1. PICK stopped \in SUBSET RunIds : approvals' = Rejected(stopped)
    BY <1>6, <2>0 DEF Tighten
  <2>2. Ledger!Reject(stopped)
    BY <1>0, <1>1, <1>6, <2>1, RejectRefines DEF Tighten
  <2>3. QED
    BY <2>2 DEF Ledger!Next
<1>7. ASSUME NEW r \in RunIds, EndTool(r)
      PROVE  Ledger!Next
  BY <1>7, EndToolRefines DEF Ledger!Next
<1>8. CASE Restart
  BY <1>8, RestartRefines DEF Ledger!Next
<1>9. CASE \/ \E c \in Clients, s \in Sessions : Submit(c, s)
           \/ \E c \in Clients : ReadConfig(c)
           \/ \E c \in Clients, r \in RunIds : BlockRun(c, r) \/ QueueRun(c, r)
           \/ \E r \in RunIds : StartModel(r) \/ Emit(r) \/ EndModel(r)
           \/ Enable \/ Close \/ UNCHANGED vars
  <2>1. UNCHANGED <<approvals, tool>>
    BY <1>9 DEF Submit, ReadConfig, BlockRun, QueueRun, StartModel, Emit, EndModel, Enable,
                Close, vars
  <2>2. QED
    BY <2>1, Unseen
<1>10. QED
  BY <1>2, <1>3, <1>4, <1>5, <1>6, <1>7, <1>8, <1>9 DEF Next

\* Whatever is cancelled, tightened, overtaken or restarted, approvals are decided once
\* and for good, and a tool begins to execute only as its approval is decided
\* (resolveApproval, #executeApprovedTool, recoverPendingApprovals).
THEOREM ApprovalsAreKept == Spec => ImplementsApprovals
<1>1. Init => Ledger!Init
  BY Views DEF Init, Ledger!Init, Executes
<1>2. IInv /\ [Next]_vars => [Ledger!Next]_<<Decision, Owner, Executing>>
  BY StepRefines
<1>3. QED
  BY <1>1, <1>2, Invariance, PTL DEF Spec, ImplementsApprovals, Ledger!Spec, Ledger!vars

\* What the ledger's specification means: no approved tool is executed twice, and no
\* decision is taken back.
LEMMA LedgerMeansOnce == Ledger!Spec => Ledger!ExecutedOnce
<1>1. Ledger!Next =>
        \A p \in ApprovalIds :
          /\ Decision[p] \in {"approved", "rejected"} => Decision'[p] = Decision[p]
          /\ p \in Executing' \ Executing => Decision[p] \in Open /\ Decision'[p] = "approved"
  BY DEF Ledger!Next, Ledger!Ask, Ledger!Approve, Ledger!Reject, Ledger!Finish,
         Ledger!Recover, Ledger!Open, Open, Decision
<1>2. QED
  BY <1>1, PTL DEF Ledger!Spec, Ledger!ExecutedOnce, Ledger!vars, Ledger!Open, Open

\* The tool of an approval begins to execute at most once over the life of the ledger,
\* restarts included, and only as it is approved (resolveApproval, #executeApprovedTool).
THEOREM ToolsExecuteOnce == Spec => Ledger!ExecutedOnce
  BY ApprovalsAreKept, LedgerMeansOnce, PTL DEF ImplementsApprovals

\* What is executed was approved, and has a run of its own.
ExecutedInv ==
  /\ \A p \in Executing : p \in ApprovalIds /\ Decision[p] = "approved"
  /\ Ledger!OneToolPerRun

\* A run executes one approved tool at a time: only a run that waits can be decided about
\* (resolveApproval).
THEOREM OneToolAtATime == Spec => []Ledger!OneToolPerRun
<1>1. Ledger!Init => ExecutedInv
  BY DEF Ledger!Init, Ledger!OneToolPerRun, ExecutedInv
<1>2. ASSUME ExecutedInv, [Ledger!Next]_(Ledger!vars)
      PROVE  ExecutedInv'
  <2>0. Decision = [p \in ApprovalIds |-> Decision[p]] /\ Owner = [p \in ApprovalIds |-> Owner[p]]
    BY DEF Decision, Owner
  <2> USE DEF ExecutedInv, Ledger!OneToolPerRun
  <2>1. ASSUME NEW p \in ApprovalIds, NEW r \in RunIds, Ledger!Ask(p, r)
        PROVE  ExecutedInv'
    BY <1>2, <2>0, <2>1 DEF Ledger!Ask
  <2>2. ASSUME NEW p \in ApprovalIds, Ledger!Approve(p) \/ Ledger!Finish(p)
        PROVE  ExecutedInv'
    BY <1>2, <2>0, <2>2 DEF Ledger!Approve, Ledger!Finish, Ledger!Open
  <2>3. ASSUME NEW these \in SUBSET RunIds, Ledger!Reject(these)
        PROVE  ExecutedInv'
    BY <1>2, <2>3 DEF Ledger!Reject, Ledger!Open
  <2>4. CASE Ledger!Recover
    BY <2>4 DEF Ledger!Recover
  <2>5. CASE UNCHANGED Ledger!vars
    BY <1>2, <2>5 DEF Ledger!vars
  <2>6. QED
    BY <1>2, <2>1, <2>2, <2>3, <2>4, <2>5 DEF Ledger!Next
<1>3. ExecutedInv => Ledger!OneToolPerRun
  BY DEF ExecutedInv
<1>4. QED
  BY <1>1, <1>2, <1>3, ApprovalsAreKept, PTL DEF ImplementsApprovals, Ledger!Spec
=============================================================================
