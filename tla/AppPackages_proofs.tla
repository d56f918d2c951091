-------------------------- MODULE AppPackages_proofs --------------------------
(***************************************************************************)
(* Proofs about AppPackages: the inductive invariant IInv, and from it     *)
(* that a package has one active run, that active runs are driven, that    *)
(* verdicts fit and stand, that runs and their members only move on, and   *)
(* what neither a change of a definition nor an abort may do.              *)
(***************************************************************************)
EXTENDS AppPackages, FiniteSetTheorems, TLAPS

USE DEF memory

MemberStates == {"absent"} \cup Unsettled \cup Succeeded \cup Retryable
Steps == {"none", "scheduled", "listing", "working"}

\* What VerdictFitsMembers says of one run.
Fits(r) ==
  /\ In(r, Unsettled) = {}
  /\ runs[r].status = "succeeded" => In(r, Retryable) = {}
  /\ runs[r].status = "partial" => In(r, Succeeded) # {} /\ In(r, {"failed"}) # {}
  /\ runs[r].status = "failed" => In(r, {"started"}) = {}
  /\ runs[r].status = "aborted" => runs[r].abortRequested

\* A run that is executed is active, in a process that is up, and not None.
LEMMA Executed ==
  ASSUME IInv, NEW r \in RunIds, executions[r] # "none"
  PROVE  up /\ IsActive(r) /\ runs[r] # None /\ runs[r] \in Run
  BY DEF IInv, DrivenInv, RunsAreDriven, IsActive, TypeOK

\* A run that is not changed stays active or not, and its verdict fits as before.
LEMMA SameRun ==
  ASSUME NEW r \in RunIds, runs'[r] = runs[r]
  PROVE  /\ IsActive(r)' <=> IsActive(r)
         /\ Fits(r)' <=> Fits(r)
  BY DEF IsActive, Fits, In

-----------------------------------------------------------------------------
\* An empty database, and a process that serves.
LEMMA InitInv == Init => IInv
<1> SUFFICES ASSUME Init PROVE IInv
  OBVIOUS
<1>1. TypeOK
  BY CountAssumption DEF Init, TypeOK
<1>2. \A r \in RunIds : runs[r] = None /\ executions[r] = "none"
  BY DEF Init
<1>3. up /\ accepting /\ \A e \in Editors : changes[e] = None
  BY DEF Init
<1>4. QED
  BY <1>1, <1>2, <1>3 DEF IInv, DrivenInv, RunsAreDriven, PackageInv, ChangeInv, MembersInv,
     ClosingInv, VerdictFitsMembers, IsActive, ActiveRuns

\* Steps that leave runs and executions alone.
LEMMA RunsKept ==
  ASSUME IInv, TypeOK', ChangeInv', UNCHANGED <<runs, executions, accepting, up>>,
         \A k \in Packages : definitions[k] # None => definitions'[k] # None
  PROVE  IInv'
<1> USE DEF IInv
<1>1. DrivenInv' /\ MembersInv' /\ ClosingInv' /\ VerdictFitsMembers'
  BY DEF DrivenInv, RunsAreDriven, MembersInv, ClosingInv, VerdictFitsMembers, IsActive, In
<1>2. PackageInv'
  <2>1. \A r \in RunIds : runs[r] # None => runs[r].package \in Packages
    BY DEF TypeOK, Run
  <2>2. QED
    BY <2>1 DEF PackageInv, ActiveRuns, IsActive
<1>3. QED
  BY <1>1, <1>2

-----------------------------------------------------------------------------
(* Definitions and their changes                                           *)

\* Creating and deleting a definition.
LEMMA DefinitionInv ==
  ASSUME IInv, NEW k \in Packages,
         DeleteDefinition(k) \/ \E members \in MemberSets : CreateDefinition(k, members)
  PROVE  IInv'
<1>1. CASE DeleteDefinition(k)
  <2>1. TypeOK' /\ ChangeInv'
    BY <1>1 DEF DeleteDefinition, IInv, TypeOK, ChangeInv
  <2>2. \A j \in Packages : definitions[j] # None => definitions'[j] # None
    BY <1>1, NoneAssumption DEF DeleteDefinition, IInv, TypeOK
  <2>3. QED
    BY <1>1, <2>1, <2>2, RunsKept DEF DeleteDefinition
<1>2. ASSUME NEW members \in MemberSets, CreateDefinition(k, members)
      PROVE  IInv'
  <2>1. PICK d : d = [members |-> members, revision |-> 1]
    OBVIOUS
  <2>2. definitions[k] = None /\ definitions' = [definitions EXCEPT ![k] = d]
    BY <1>2, <2>1 DEF CreateDefinition
  <2>3. 1 \in 1 .. MaxRevision
    BY CountAssumption
  <2>4. d \in Definition
    BY <2>1, <2>3 DEF Definition
  <2>5. TypeOK' /\ ChangeInv'
    BY <1>2, <2>2, <2>4 DEF CreateDefinition, IInv, TypeOK, ChangeInv
  <2>6. QED
    BY <1>2, <2>2, <2>4, <2>5, NoneAssumption, RunsKept DEF CreateDefinition, IInv, TypeOK
<1>3. QED
  BY <1>1, <1>2

\* Moving a change.
LEMMA MoveInv ==
  ASSUME IInv, NEW e \in Editors, NEW change, MoveChange(e, change),
         change = None \/ (change \in Change /\ change.revision < MaxRevision)
  PROVE  IInv'
<1>1. TypeOK' /\ ChangeInv'
  BY DEF MoveChange, IInv, TypeOK, ChangeInv
<1>2. QED
  BY <1>1, RunsKept DEF MoveChange

\* A binding at another point of its apply is as good.
LEMMA MovedChange ==
  ASSUME NEW change \in Change, NEW point \in {"previewed", "waiting", "checking"}
  PROVE  LET next == [change EXCEPT !.at = point]
         IN  next \in Change /\ next.revision = change.revision
  BY DEF Change

\* Previews and applies.
LEMMA ChangeStepInv ==
  ASSUME IInv, NEW e \in Editors,
         \/ \E k \in Packages, members \in MemberSets : PreviewChange(e, k, members)
         \/ DropPreview(e) \/ RequestApply(e) \/ BeginApply(e) \/ EndApply(e)
  PROVE  IInv'
<1>1. ASSUME NEW k \in Packages, NEW members \in MemberSets, PreviewChange(e, k, members)
      PROVE  IInv'
  <2>1. definitions[k] \in Definition
    BY <1>1 DEF PreviewChange, Exists, IInv, TypeOK
  <2>2. PICK change : change = [package |-> k, revision |-> definitions[k].revision,
                                members |-> members, at |-> "previewed"]
    OBVIOUS
  <2>3. change \in Change /\ change.revision < MaxRevision
    BY <1>1, <2>1, <2>2 DEF Change, Definition, PreviewChange
  <2>4. MoveChange(e, change)
    BY <1>1, <2>2 DEF PreviewChange
  <2>5. QED
    BY <2>3, <2>4, MoveInv
<1>2. ASSUME changes[e] # None
      PROVE  changes[e] \in Change /\ changes[e].revision < MaxRevision
  BY <1>2 DEF IInv, TypeOK, ChangeInv
<1>3. ASSUME NEW point \in {"previewed", "waiting", "checking"}, changes[e] # None,
             MoveChange(e, [changes[e] EXCEPT !.at = point])
      PROVE  IInv'
  BY <1>2, <1>3, MovedChange, MoveInv
<1>4. CASE DropPreview(e)
  BY <1>4, MoveInv DEF DropPreview
<1>5. CASE RequestApply(e)
  BY <1>3, <1>5 DEF RequestApply
<1>6. CASE BeginApply(e)
  BY <1>3, <1>6 DEF BeginApply
<1>7. CASE EndApply(e) /\ MoveChange(e, [changes[e] EXCEPT !.at = "previewed"])
  BY <1>3, <1>7 DEF EndApply
<1>8. ASSUME EndApply(e), ~MoveChange(e, [changes[e] EXCEPT !.at = "previewed"])
      PROVE  IInv'
  <2>1. changes[e] \in Change /\ changes[e].revision < MaxRevision
    BY <1>2, <1>8 DEF EndApply
  <2>2. PICK d : d = [members |-> changes[e].members, revision |-> changes[e].revision + 1]
    OBVIOUS
  <2>3. /\ changes' = [changes EXCEPT ![e] = None]
        /\ definitions' = [definitions EXCEPT ![changes[e].package] = d]
        /\ UNCHANGED <<runs, executions, accepting, up, restarts>>
    BY <1>8, <2>2 DEF EndApply
  <2>4. d \in Definition
    BY <2>1, <2>2, CountAssumption DEF Definition, Change
  <2>5. TypeOK' /\ ChangeInv'
    BY <2>3, <2>4 DEF IInv, TypeOK, ChangeInv
  <2>6. \A k \in Packages : definitions[k] # None => definitions'[k] # None
    BY <2>3, <2>4, NoneAssumption DEF IInv, TypeOK
  <2>7. QED
    BY <2>3, <2>5, <2>6, RunsKept
<1>9. QED
  BY <1>1, <1>4, <1>5, <1>6, <1>7, <1>8

-----------------------------------------------------------------------------
(* Runs                                                                    *)

\* createRun, by a launch or a retry.
LEMMA CreateRunInv ==
  ASSUME IInv, NEW r \in RunIds, NEW k \in Packages, NEW members, CreateRun(r, k, members)
  PROVE  IInv'
<1> USE DEF IInv
<1>1. PICK run : run = [package |-> k, status |-> "queued", abortRequested |-> FALSE,
                        member |-> [a \in Apps |-> IF a \in members THEN "pending" ELSE "absent"]]
  OBVIOUS
<1>2. run \in Run
  BY <1>1 DEF Run, Active, Unsettled
<1>3. /\ runs[r] = None /\ runs' = [runs EXCEPT ![r] = run]
      /\ executions' = [executions EXCEPT ![r] = "scheduled"]
      /\ UNCHANGED <<definitions, accepting, up, changes, restarts>>
      /\ up /\ accepting /\ Exists(k) /\ ActiveRuns(k) = {}
  BY <1>1 DEF CreateRun, MayLaunch
<1>4. TypeOK'
  BY <1>2, <1>3 DEF TypeOK
<1>5. /\ runs'[r] = run /\ run # None /\ executions'[r] = "scheduled"
      /\ \A q \in RunIds \ {r} : runs'[q] = runs[q] /\ executions'[q] = executions[q]
  BY <1>2, <1>3, NoneAssumption DEF TypeOK
<1>6. IsActive(r)' /\ \A q \in RunIds \ {r} : IsActive(q)' <=> IsActive(q)
  BY <1>1, <1>5 DEF IsActive, Active
<1>7. DrivenInv'
  BY <1>3, <1>5, <1>6 DEF DrivenInv, RunsAreDriven
<1>8. PackageInv'
  <2>1. ASSUME NEW j \in Packages, NEW p \in ActiveRuns(j)', NEW q \in ActiveRuns(j)'
        PROVE  p = q
    <3>1. \A s \in RunIds \ {r} : s \in ActiveRuns(j)' => s \in ActiveRuns(j) /\ j # k
      BY <1>3, <1>5, <1>6 DEF ActiveRuns
    <3>2. r \in ActiveRuns(j)' => j = k
      BY <1>1, <1>5 DEF ActiveRuns
    <3>3. QED
      BY <2>1, <3>1, <3>2 DEF PackageInv, ActiveRuns
  <2>2. QED
    BY <1>1, <1>3, <1>5, <2>1 DEF PackageInv, Exists
<1>9. ChangeInv' /\ ClosingInv'
  BY <1>3 DEF ChangeInv, ClosingInv
<1>10. MembersInv'
  <2>1. \A a \in Apps : run.member[a] \in {"absent", "pending"}
    BY <1>1
  <2>2. QED
    BY <1>5, <2>1 DEF MembersInv
<1>11. VerdictFitsMembers'
  <2>1. ASSUME NEW q \in RunIds, runs'[q] # None, runs'[q].status \in Verdicts
        PROVE  Fits(q)'
    <3>1. q # r
      BY <1>1, <1>5, <2>1 DEF Verdicts
    <3>2. QED
      BY <1>5, <2>1, <3>1, SameRun DEF VerdictFitsMembers, Fits
  <2>2. QED
    BY <2>1 DEF VerdictFitsMembers, Fits
<1>12. QED
  BY <1>4, <1>7, <1>8, <1>9, <1>10, <1>11

\* Launches and retries.
LEMMA LaunchInv ==
  ASSUME IInv, NEW r \in RunIds,
         (\E k \in Packages : Launch(k, r)) \/ (\E old \in RunIds : Retry(old, r))
  PROVE  IInv'
<1>1. CASE \E k \in Packages : Launch(k, r)
  BY <1>1, CreateRunInv DEF Launch
<1>2. ASSUME NEW old \in RunIds, Retry(old, r)
      PROVE  IInv'
  <2>1. runs[old].package \in Packages
    BY <1>2 DEF Retry, IInv, TypeOK, Run
  <2>2. QED
    BY <1>2, <2>1, CreateRunInv DEF Retry
<1>3. QED
  BY <1>1, <1>2

\* Steps that only set abortRequested of active runs, and may stop accepting.
LEMMA AbortsInv ==
  ASSUME IInv, TypeOK', UNCHANGED <<definitions, executions, up, changes>>, accepting' => accepting,
         \A r \in RunIds :
           \/ runs'[r] = runs[r]
           \/ IsActive(r) /\ runs'[r] = [runs[r] EXCEPT !.abortRequested = TRUE],
         up /\ ~accepting' => \A r \in RunIds : IsActive(r) => runs'[r].abortRequested
  PROVE  IInv'
<1> USE DEF IInv
<1>1. \A r \in RunIds :
        /\ runs'[r] # None <=> runs[r] # None
        /\ runs[r] # None => /\ runs'[r].status = runs[r].status
                             /\ runs'[r].package = runs[r].package
                             /\ runs'[r].member = runs[r].member
  <2> SUFFICES ASSUME NEW r \in RunIds, runs'[r] # runs[r]
               PROVE  /\ runs'[r] # None /\ runs[r] # None
                      /\ runs'[r].status = runs[r].status
                      /\ runs'[r].package = runs[r].package
                      /\ runs'[r].member = runs[r].member
    OBVIOUS
  <2>1. runs[r] \in Run /\ runs[r] # None /\ runs'[r] = [runs[r] EXCEPT !.abortRequested = TRUE]
    BY DEF IsActive, TypeOK
  <2>2. runs'[r] \in Run
    BY <2>1 DEF Run
  <2>3. QED
    BY <2>1, <2>2, NoneAssumption DEF Run
<1>2. \A r \in RunIds : IsActive(r)' <=> IsActive(r)
  BY <1>1 DEF IsActive
<1>3. DrivenInv'
  BY <1>2 DEF DrivenInv, RunsAreDriven
<1>4. PackageInv'
  <2>1. \A k \in Packages : ActiveRuns(k)' = ActiveRuns(k)
    BY <1>1, <1>2 DEF ActiveRuns, IsActive
  <2>2. QED
    BY <1>1, <2>1 DEF PackageInv
<1>5. ChangeInv' /\ ClosingInv'
  BY <1>2 DEF ChangeInv, ClosingInv
<1>6. MembersInv'
  BY <1>1, Executed DEF MembersInv
<1>7. VerdictFitsMembers'
  <2>1. ASSUME NEW r \in RunIds, runs'[r] # None, runs'[r].status \in Verdicts
        PROVE  Fits(r)'
    <3>1. runs'[r] = runs[r]
      BY <1>1, <2>1 DEF IsActive, Active, Verdicts
    <3>2. QED
      BY <2>1, <3>1, SameRun DEF VerdictFitsMembers, Fits
  <2>2. QED
    BY <2>1 DEF VerdictFitsMembers, Fits
<1>8. QED
  BY <1>3, <1>4, <1>5, <1>6, <1>7

\* Aborts, by a client or by the shutdown.
LEMMA AbortInv ==
  ASSUME IInv, (\E r \in RunIds : AbortRun(r)) \/ Shutdown
  PROVE  IInv'
<1>1. ASSUME NEW r \in RunIds, AbortRun(r)
      PROVE  IInv'
  <2>1. runs[r] \in Run /\ runs[r] # None
    BY <1>1 DEF AbortRun, IsActive, IInv, TypeOK
  <2>2. PICK run : run = [runs[r] EXCEPT !.abortRequested = TRUE]
    OBVIOUS
  <2>3. run \in Run /\ run.abortRequested
    BY <2>1, <2>2 DEF Run
  <2>4. runs' = [runs EXCEPT ![r] = run]
    BY <1>1, <2>2 DEF AbortRun
  <2>5. TypeOK'
    BY <1>1, <2>3, <2>4 DEF AbortRun, IInv, TypeOK
  <2>6. \A q \in RunIds : runs'[q] = IF q = r THEN run ELSE runs[q]
    BY <2>4 DEF IInv, TypeOK
  <2>7. up /\ ~accepting' => \A q \in RunIds : IsActive(q) => runs'[q].abortRequested
    BY <1>1, <2>3, <2>6 DEF AbortRun, IInv, ClosingInv
  <2>8. QED
    BY <1>1, <2>2, <2>5, <2>6, <2>7, AbortsInv DEF AbortRun
<1>2. CASE Shutdown
  <2>1. \A r \in RunIds : runs'[r] = IF executions[r] # "none"
                                       THEN [runs[r] EXCEPT !.abortRequested = TRUE] ELSE runs[r]
    BY <1>2 DEF Shutdown, AbortsAtShutdown
  <2>2. \A r \in RunIds : runs'[r] \in Run \cup {None} /\ (executions[r] # "none" => runs'[r].abortRequested)
    <3>1. ASSUME NEW r \in RunIds, executions[r] # "none"
          PROVE  runs'[r] \in Run /\ runs'[r].abortRequested
      <4>1. runs[r] \in Run
        BY <3>1, Executed
      <4>2. QED
        BY <2>1, <3>1, <4>1 DEF Run
    <3>2. QED
      BY <2>1, <3>1 DEF IInv, TypeOK
  <2>3. TypeOK'
    BY <1>2, <2>2 DEF Shutdown, IInv, TypeOK
  <2>4. up /\ \A r \in RunIds : IsActive(r) <=> executions[r] # "none"
    BY <1>2 DEF Shutdown, IInv, DrivenInv, RunsAreDriven
  <2>5. QED
    BY <1>2, <2>1, <2>2, <2>3, <2>4, AbortsInv DEF Shutdown
<1>3. QED
  BY <1>1, <1>2

-----------------------------------------------------------------------------
(* Executions                                                              *)

\* What Proceed writes.
LEMMA ProceedEffect ==
  ASSUME TypeOK, NEW r \in RunIds, runs[r] # None,
         NEW member \in [Apps -> MemberStates], NEW status \in Active \cup Verdicts,
         NEW step \in Steps, Proceed(r, member, status, step)
  PROVE  /\ TypeOK'
         /\ runs'[r] # None /\ runs'[r].member = member /\ runs'[r].status = status
         /\ runs'[r].package = runs[r].package
         /\ runs'[r].abortRequested = runs[r].abortRequested
         /\ executions'[r] = step
         /\ \A q \in RunIds \ {r} : runs'[q] = runs[q] /\ executions'[q] = executions[q]
         /\ UNCHANGED <<definitions, accepting, up, changes, restarts>>
<1>1. runs[r] \in Run
  BY DEF TypeOK
<1>2. PICK run : run = [runs[r] EXCEPT !.member = member, !.status = status]
  OBVIOUS
<1>3. /\ run \in Run /\ run.member = member /\ run.status = status
      /\ run.package = runs[r].package /\ run.abortRequested = runs[r].abortRequested
  BY <1>1, <1>2 DEF Run, MemberStates
<1>4. runs' = [runs EXCEPT ![r] = run]
  BY <1>1, <1>2 DEF Proceed, TypeOK
<1>5. executions' = [executions EXCEPT ![r] = step]
  BY DEF Proceed
<1>6. TypeOK'
  BY <1>3, <1>4, <1>5 DEF Proceed, TypeOK, Steps
<1>7. QED
  BY <1>3, <1>4, <1>5, <1>6, NoneAssumption DEF Proceed, TypeOK

\* What a step of an execution must see to: it goes on in an active run with the
\* members of that step, or ends with a verdict that fits.
GoesOn(member, status, step) ==
  /\ status \in Active
  /\ \/ step \in {"scheduled", "listing"} /\ \A a \in Apps : member[a] \in {"absent", "pending"}
     \/ /\ step = "working"
        /\ \A a \in Apps : member[a] \in {"absent", "failed"} \cup Unsettled \cup Succeeded

Ends(r, member, status, step) ==
  /\ status \in Verdicts /\ step = "none"
  /\ \A a \in Apps : member[a] \notin Unsettled
  /\ status = "succeeded" => \A a \in Apps : member[a] \notin Retryable
  /\ status = "partial" => /\ \E a \in Apps : member[a] \in Succeeded
                           /\ \E a \in Apps : member[a] = "failed"
  /\ status = "failed" => \A a \in Apps : member[a] # "started"
  /\ status = "aborted" => runs[r].abortRequested

LEMMA ProceedInv ==
  ASSUME IInv, NEW r \in RunIds, executions[r] # "none",
         NEW member \in [Apps -> MemberStates], NEW status \in Active \cup Verdicts,
         NEW step \in Steps, Proceed(r, member, status, step),
         GoesOn(member, status, step) \/ Ends(r, member, status, step)
  PROVE  IInv'
<1> USE DEF IInv
<1>1. up /\ IsActive(r) /\ runs[r] # None
  BY Executed
<1>2. /\ TypeOK'
      /\ runs'[r] # None /\ runs'[r].member = member /\ runs'[r].status = status
      /\ runs'[r].package = runs[r].package
      /\ runs'[r].abortRequested = runs[r].abortRequested
      /\ executions'[r] = step
      /\ \A q \in RunIds \ {r} : runs'[q] = runs[q] /\ executions'[q] = executions[q]
      /\ UNCHANGED <<definitions, accepting, up, changes, restarts>>
  BY <1>1, ProceedEffect
<1>3. \A q \in RunIds \ {r} : (IsActive(q)' <=> IsActive(q)) /\ (Fits(q)' <=> Fits(q))
  BY <1>2, SameRun
<1>4. IsActive(r)' <=> step # "none"
  BY <1>2 DEF IsActive, GoesOn, Ends, Active, Verdicts
<1>5. DrivenInv'
  BY <1>1, <1>2, <1>3, <1>4 DEF DrivenInv, RunsAreDriven
<1>6. PackageInv'
  <2>1. \A k \in Packages : ActiveRuns(k)' \subseteq ActiveRuns(k)
    BY <1>1, <1>2, <1>3 DEF ActiveRuns
  <2>2. QED
    BY <1>1, <1>2, <2>1 DEF PackageInv
<1>7. ChangeInv' /\ ClosingInv'
  BY <1>1, <1>2, <1>3 DEF ChangeInv, ClosingInv
<1>8. MembersInv'
  BY <1>2 DEF MembersInv, GoesOn, Ends
<1>9. VerdictFitsMembers'
  <2>1. Ends(r, member, status, step) => Fits(r)'
    BY <1>2 DEF Ends, Fits, In
  <2>2. \A q \in RunIds \ {r} : runs'[q] # None /\ runs'[q].status \in Verdicts => Fits(q)'
    BY <1>2, <1>3 DEF VerdictFitsMembers, Fits
  <2>3. GoesOn(member, status, step) => runs'[r].status \notin Verdicts
    BY <1>2 DEF GoesOn, Active, Verdicts
  <2>4. \A q \in RunIds : runs'[q] # None /\ runs'[q].status \in Verdicts => Fits(q)'
    BY <2>1, <2>2, <2>3
  <2>5. QED
    BY <2>4 DEF VerdictFitsMembers, Fits
<1>10. QED
  BY <1>2, <1>5, <1>6, <1>7, <1>8, <1>9

\* The members of a run that is executed.
LEMMA MemberTypes ==
  ASSUME IInv, NEW r \in RunIds, executions[r] # "none"
  PROVE  runs[r].member \in [Apps -> MemberStates]
  BY Executed DEF Run, MemberStates

\* The preflight and the list of statuses.
LEMMA PreflightInv ==
  ASSUME IInv, NEW r \in RunIds, Preflight(r) \/ Listed(r)
  PROVE  IInv'
<1> DEFINE now == runs[r].member
<1>1. executions[r] \in {"scheduled", "listing"} /\ executions[r] # "none"
  BY DEF Preflight, Listed
<1>2. now \in [Apps -> MemberStates] /\ \A a \in Apps : now[a] \in {"absent", "pending"}
  BY <1>1, MemberTypes DEF IInv, MembersInv
<1>3. CASE Proceed(r, now, "running", "listing")
  BY <1>1, <1>2, <1>3, ProceedInv DEF GoesOn, Active, Steps
<1>4. ASSUME NEW missing,
             Proceed(r, [a \in Apps |-> IF a \in missing THEN "failed"
                                        ELSE IF a \in In(r, {"pending"}) THEN "skipped_preflight"
                                        ELSE "absent"], "failed", "none")
      PROVE  IInv'
  <2>1. PICK member : member = [a \in Apps |-> IF a \in missing THEN "failed"
                                  ELSE IF a \in In(r, {"pending"}) THEN "skipped_preflight"
                                  ELSE "absent"]
    OBVIOUS
  <2>2. member \in [Apps -> MemberStates] /\ \A a \in Apps : member[a] \notin Unsettled /\ member[a] # "started"
    BY <2>1 DEF MemberStates, Retryable, Unsettled
  <2>3. Ends(r, member, "failed", "none")
    BY <2>2 DEF Ends, Verdicts
  <2>4. QED
    BY <1>1, <1>4, <2>1, <2>2, <2>3, ProceedInv DEF Verdicts, Steps
<1>5. ASSUME NEW healthy,
             Proceed(r, MovedThese(r, healthy, "skipped_already_running"), "running", "working")
      PROVE  IInv'
  <2>1. PICK member : member = MovedThese(r, healthy, "skipped_already_running")
    OBVIOUS
  <2>2. /\ member \in [Apps -> MemberStates]
        /\ \A a \in Apps : member[a] \in {"absent", "failed"} \cup Unsettled \cup Succeeded
    BY <1>2, <2>1 DEF MovedThese, MemberStates, Succeeded, Unsettled
  <2>3. GoesOn(member, "running", "working")
    BY <2>2 DEF GoesOn, Active
  <2>4. QED
    BY <1>1, <1>5, <2>1, <2>2, <2>3, ProceedInv DEF Active, Steps
<1>6. CASE FailedRun(r)
  <2>1. PICK member : member = Moved(r, Unsettled, "failed")
    OBVIOUS
  <2>2. /\ member \in [Apps -> MemberStates]
        /\ \A a \in Apps : member[a] \notin Unsettled /\ member[a] # "started"
    BY <1>2, <2>1 DEF Moved, MemberStates, Retryable, Unsettled
  <2>3. Ends(r, member, "failed", "none")
    BY <2>2 DEF Ends, Verdicts
  <2>4. QED
    BY <1>1, <1>6, <2>1, <2>2, <2>3, ProceedInv DEF FailedRun, Verdicts, Steps
<1>7. QED
  BY <1>3, <1>4, <1>5, <1>6 DEF Preflight, Listed

\* A worker's start of a member, and its end.
LEMMA WorkerInv ==
  ASSUME IInv, NEW r \in RunIds, NEW a \in Apps, StartMember(r, a) \/ EndMember(r, a)
  PROVE  IInv'
<1>1. executions[r] = "working" /\ executions[r] # "none"
  BY DEF StartMember, EndMember
<1>2. PICK state \in {"starting", "started", "failed"} :
        Proceed(r, MovedThese(r, {a}, state), "running", "working")
  BY DEF StartMember, EndMember
<1>3. PICK member : member = MovedThese(r, {a}, state)
  OBVIOUS
<1>4. /\ member \in [Apps -> MemberStates]
      /\ \A b \in Apps : member[b] \in {"absent", "failed"} \cup Unsettled \cup Succeeded
  <2>1. /\ runs[r].member \in [Apps -> MemberStates]
        /\ \A b \in Apps : runs[r].member[b] \in {"absent", "failed"} \cup Unsettled \cup Succeeded
    BY <1>1, MemberTypes DEF IInv, MembersInv
  <2>2. QED
    BY <1>3, <2>1 DEF MovedThese, MemberStates, Succeeded, Unsettled, Retryable
<1>5. GoesOn(member, "running", "working")
  BY <1>4 DEF GoesOn, Active
<1>6. QED
  BY <1>1, <1>2, <1>3, <1>4, <1>5, ProceedInv DEF Active, Steps

\* The verdict.
LEMMA FinishInv ==
  ASSUME IInv, NEW r \in RunIds, FinishRun(r)
  PROVE  IInv'
<1> DEFINE now == runs[r].member
<1>1. executions[r] = "working" /\ executions[r] # "none"
  BY DEF FinishRun, WorkersDone
<1>2. /\ now \in [Apps -> MemberStates]
      /\ \A a \in Apps : now[a] \in {"absent", "failed"} \cup Unsettled \cup Succeeded
  BY <1>1, MemberTypes DEF IInv, MembersInv
<1>3. \A a \in Apps : now[a] # "starting"
  BY DEF FinishRun, WorkersDone, In
<1>4. CASE runs[r].abortRequested
  <2>1. PICK member : member = Moved(r, {"pending"}, "skipped_aborted")
    OBVIOUS
  <2>2. /\ member \in [Apps -> MemberStates]
        /\ \A a \in Apps : member[a] \notin Unsettled
    BY <1>2, <1>3, <2>1 DEF Moved, MemberStates, Retryable, Unsettled
  <2>3. Ends(r, member, "aborted", "none")
    BY <1>4, <2>2 DEF Ends, Verdicts
  <2>4. QED
    BY <1>1, <1>4, <2>1, <2>2, <2>3, ProceedInv DEF FinishRun, Verdicts, Steps
<1>5. CASE ~runs[r].abortRequested
  <2>1. \A a \in Apps : now[a] # "pending"
    BY <1>5 DEF FinishRun, WorkersDone, In
  <2>2. Completed(r) \in Verdicts
    BY DEF Completed, Verdicts
  <2>3. Ends(r, now, Completed(r), "none")
    BY <1>2, <1>3, <2>1 DEF Ends, Completed, In, Verdicts, Unsettled, Succeeded, Retryable
  <2>4. Proceed(r, now, Completed(r), "none")
    BY <1>5 DEF FinishRun
  <2>5. QED
    BY <1>1, <1>2, <2>2, <2>3, <2>4, ProceedInv DEF Steps
<1>6. QED
  BY <1>4, <1>5

-----------------------------------------------------------------------------
(* Close, crash and restart                                                *)

\* The process is gone.
LEMMA DownInv ==
  ASSUME IInv, Close \/ Crash
  PROVE  IInv'
<1> USE DEF IInv
<1>1. /\ up' = FALSE /\ accepting' = FALSE
      /\ executions' = [r \in RunIds |-> "none"]
      /\ changes' = [e \in Editors |-> None]
      /\ UNCHANGED <<definitions, runs, restarts>>
  BY DEF Close, Crash, LoseMemory
<1>2. TypeOK' /\ DrivenInv' /\ ChangeInv' /\ MembersInv' /\ ClosingInv'
  BY <1>1 DEF TypeOK, DrivenInv, RunsAreDriven, ChangeInv, MembersInv, ClosingInv
<1>3. PackageInv' /\ VerdictFitsMembers'
  BY <1>1 DEF PackageInv, VerdictFitsMembers, ActiveRuns, IsActive, In
<1>4. QED
  BY <1>2, <1>3

\* What the reconciliation makes of an active run.
Conclusion(r) ==
  [runs[r] EXCEPT !.status = "interrupted",
                  !.member = [a \in Apps |-> CASE @[a] = "starting" -> "interrupted"
                                               [] @[a] = "pending" -> "skipped_interrupted"
                                               [] OTHER -> @[a]]]

LEMMA ConclusionEffect ==
  ASSUME TypeOK, NEW r \in RunIds, IsActive(r)
  PROVE  /\ Conclusion(r) \in Run /\ Conclusion(r).status = "interrupted"
         /\ Conclusion(r).package = runs[r].package
         /\ \A a \in Apps : Conclusion(r).member[a] \notin Unsettled
<1>1. runs[r] \in Run
  BY DEF IsActive, TypeOK
<1>2. PICK member : member = [a \in Apps |-> CASE runs[r].member[a] = "starting" -> "interrupted"
                                               [] runs[r].member[a] = "pending" -> "skipped_interrupted"
                                               [] OTHER -> runs[r].member[a]]
  OBVIOUS
<1>3. member \in [Apps -> MemberStates] /\ \A a \in Apps : member[a] \notin Unsettled
  <2> SUFFICES ASSUME NEW a \in Apps
               PROVE  member[a] \in MemberStates /\ member[a] \notin Unsettled
    BY <1>2
  <2>1. runs[r].member[a] \in MemberStates
    BY <1>1 DEF Run, MemberStates
  <2>2. CASE runs[r].member[a] = "starting"
    BY <1>2, <2>2 DEF MemberStates, Unsettled, Retryable
  <2>3. CASE runs[r].member[a] = "pending"
    BY <1>2, <2>3 DEF MemberStates, Unsettled, Retryable
  <2>4. CASE runs[r].member[a] \notin Unsettled
    BY <1>2, <2>1, <2>4 DEF Unsettled
  <2>5. QED
    BY <2>2, <2>3, <2>4 DEF Unsettled
<1>4. Conclusion(r) = [runs[r] EXCEPT !.status = "interrupted", !.member = member]
  BY <1>1, <1>2 DEF Conclusion, Run
<1>5. QED
  BY <1>1, <1>3, <1>4 DEF Run, MemberStates, Verdicts

\* The store opens.
LEMMA ReopenInv ==
  ASSUME IInv, Reopen
  PROVE  IInv'
<1> USE DEF IInv
<1>1. /\ ~up /\ up' = TRUE /\ accepting' = TRUE /\ restarts' = restarts + 1 /\ restarts < MaxRestarts
      /\ runs' = [r \in RunIds |-> IF IsActive(r) THEN Conclusion(r) ELSE runs[r]]
      /\ UNCHANGED <<definitions, executions, changes>>
  BY DEF Reopen, Reconciled, Conclusion
<1>2. \A r \in RunIds : runs'[r] = IF IsActive(r) THEN Conclusion(r) ELSE runs[r]
  BY <1>1
<1>3. TypeOK'
  BY <1>1, <1>2, ConclusionEffect, CountAssumption DEF TypeOK
<1>4. \A r \in RunIds : executions'[r] = "none" /\ ~IsActive(r)'
  BY <1>1, <1>2, ConclusionEffect DEF DrivenInv, IsActive, Active
<1>5. DrivenInv' /\ MembersInv' /\ ClosingInv' /\ ChangeInv'
  BY <1>1, <1>4 DEF DrivenInv, RunsAreDriven, MembersInv, ClosingInv, ChangeInv
<1>6. PackageInv'
  <2>1. \A k \in Packages : ActiveRuns(k)' = {}
    BY <1>4 DEF ActiveRuns
  <2>2. \A r \in RunIds : runs'[r] # None => runs[r] # None /\ runs'[r].package = runs[r].package
    BY <1>2, ConclusionEffect DEF IsActive
  <2>3. QED
    BY <1>1, <2>1, <2>2 DEF PackageInv
<1>7. VerdictFitsMembers'
  <2>1. ASSUME NEW r \in RunIds, runs'[r] # None, runs'[r].status \in Verdicts
        PROVE  Fits(r)'
    <3>1. CASE IsActive(r)
      BY <1>2, <3>1, ConclusionEffect DEF Fits, In
    <3>2. CASE ~IsActive(r)
      BY <1>2, <2>1, <3>2, SameRun DEF VerdictFitsMembers, Fits
    <3>3. QED
      BY <3>1, <3>2
  <2>2. QED
    BY <2>1 DEF VerdictFitsMembers, Fits
<1>8. QED
  BY <1>3, <1>5, <1>6, <1>7

-----------------------------------------------------------------------------
(* The steps together, and the properties                                  *)

LEMMA StepInv == IInv /\ [Next]_vars => IInv'
<1> SUFFICES ASSUME IInv, [Next]_vars PROVE IInv'
  OBVIOUS
<1>1. CASE UNCHANGED vars
  BY <1>1, RunsKept DEF vars, IInv, TypeOK, ChangeInv
<1>2. CASE Next
  <2>1. ASSUME NEW r \in RunIds, Execute(r) PROVE IInv'
    BY <2>1, PreflightInv, WorkerInv, FinishInv DEF Execute
  <2>2. QED
    BY <1>2, <2>1, DefinitionInv, ChangeStepInv, LaunchInv, AbortInv, DownInv, ReopenInv DEF Next
<1>3. QED
  BY <1>1, <1>2

\* The invariant of packages and their runs, from which the rest follows.
THEOREM Invariance == Spec => []IInv
  BY InitInv, StepInv, PTL DEF Spec

\* The rows, executions and bindings have their types.
THEOREM TypeCorrect == Spec => []TypeOK
<1>1. IInv => TypeOK
  BY DEF IInv
<1>2. QED
  BY <1>1, Invariance, PTL

\* launch and retryRun never make a second active run of a package.
THEOREM OneRunAtATime == Spec => []OneActiveRun
<1>1. IInv => OneActiveRun
  <2> SUFFICES ASSUME IInv, NEW k \in Packages PROVE Cardinality(ActiveRuns(k)) <= 1
    BY DEF OneActiveRun
  <2>1. CASE ActiveRuns(k) = {}
    BY <2>1, FS_EmptySet
  <2>2. ASSUME NEW r \in ActiveRuns(k) PROVE Cardinality(ActiveRuns(k)) <= 1
    <3>1. ActiveRuns(k) = {r}
      BY <2>2 DEF IInv, PackageInv
    <3>2. QED
      BY <3>1, FS_Singleton
  <2>3. QED
    BY <2>1, <2>2
<1>2. QED
  BY <1>1, Invariance, PTL

\* An active run of a daemon that is up has its execution, and only such a run.
THEOREM ActiveRunsAreDriven == Spec => []RunsAreDriven
<1>1. IInv => RunsAreDriven
  BY DEF IInv, DrivenInv
<1>2. QED
  BY <1>1, Invariance, PTL

\* The verdict of a run (#executeRun, the reconciliation) is that of its members.
THEOREM VerdictsFit == Spec => []VerdictFitsMembers
<1>1. IInv => VerdictFitsMembers
  BY DEF IInv
<1>2. QED
  BY <1>1, Invariance, PTL

\* A step of an execution is a Proceed of an active run.
LEMMA ExecuteEffect ==
  ASSUME IInv, NEW r \in RunIds, Execute(r)
  PROVE  /\ IsActive(r) /\ up
         /\ \A q \in RunIds \ {r} : runs'[q] = runs[q]
         /\ definitions' = definitions
<1>1. executions[r] # "none"
  BY DEF Execute, Preflight, Listed, FinishRun, WorkersDone, StartMember, EndMember
<1>2. \E member, status, step : Proceed(r, member, status, step)
  BY DEF Execute, Preflight, Listed, FailedRun, FinishRun, StartMember, EndMember
<1>3. QED
  BY <1>1, <1>2, Executed DEF Proceed, IInv, TypeOK

\* #apply and deleteDefinition leave a package with an active run alone.
THEOREM DefinitionsAreStable == Spec => DefinitionsStable
<1>1. ASSUME IInv, [Next]_vars, NEW k \in Packages, ActiveRuns(k) # {}
      PROVE  definitions'[k] = definitions[k]
  <2>1. definitions[k] # None
    BY <1>1 DEF IInv, PackageInv, ActiveRuns, IsActive
  <2>2. ASSUME NEW e \in Editors, EndApply(e) PROVE definitions'[k] = definitions[k]
    <3>1. CASE MayCommit(e) /\ \E d : definitions' = [definitions EXCEPT ![changes[e].package] = d]
      BY <1>1, <3>1 DEF MayCommit, MayChange, IInv, TypeOK
    <3>2. QED
      BY <2>2, <3>1 DEF EndApply, MoveChange
  <2>3. ASSUME NEW j \in Packages, DeleteDefinition(j) \/ \E members \in MemberSets : CreateDefinition(j, members)
        PROVE  definitions'[k] = definitions[k]
    BY <1>1, <2>1, <2>3 DEF DeleteDefinition, CreateDefinition, IInv, TypeOK
  <2>4. ASSUME \/ \E e \in Editors, j \in Packages, members \in MemberSets : PreviewChange(e, j, members)
               \/ \E e \in Editors : DropPreview(e) \/ RequestApply(e) \/ BeginApply(e)
        PROVE  definitions' = definitions
    BY <2>4 DEF PreviewChange, DropPreview, RequestApply, BeginApply, MoveChange
  <2>5. ASSUME \/ \E j \in Packages, r \in RunIds : Launch(j, r)
               \/ \E old, r \in RunIds : Retry(old, r)
               \/ \E r \in RunIds : AbortRun(r)
               \/ Shutdown \/ Close \/ Crash \/ Reopen
        PROVE  definitions' = definitions
    BY <2>5 DEF Launch, Retry, CreateRun, AbortRun, Shutdown, Close, Crash, LoseMemory, Reopen
  <2>6. CASE UNCHANGED vars
    BY <2>6 DEF vars
  <2>7. QED
    BY <1>1, <2>2, <2>3, <2>4, <2>5, <2>6, ExecuteEffect DEF Next
<1>2. IInv /\ [Next]_vars =>
        [\A k \in Packages : ActiveRuns(k) # {} => definitions'[k] = definitions[k]]_vars
  BY <1>1
<1>3. QED
  BY <1>2, Invariance, PTL DEF Spec, DefinitionsStable

\* What the other steps do to a run that exists: nothing, but for an abort or the
\* reconciliation of an active one.
LEMMA OtherStepsEffect ==
  ASSUME IInv, [Next]_vars, NEW r \in RunIds, runs[r] # None, ~Execute(r)
  PROVE  \/ runs'[r] = runs[r]
         \/ IsActive(r) /\ runs'[r] = [runs[r] EXCEPT !.abortRequested = TRUE]
         \/ IsActive(r) /\ Reopen /\ runs'[r] = Conclusion(r)
<1>1. CASE UNCHANGED runs
  BY <1>1
<1>2. ASSUME NEW q \in RunIds, Execute(q) PROVE runs'[r] = runs[r]
  BY <1>2, ExecuteEffect
<1>3. ASSUME NEW q \in RunIds, AbortRun(q)
      PROVE  runs'[r] = runs[r] \/ (IsActive(r) /\ runs'[r] = [runs[r] EXCEPT !.abortRequested = TRUE])
  BY <1>3 DEF AbortRun, IInv, TypeOK
<1>4. ASSUME NEW q \in RunIds, NEW k, NEW members, CreateRun(q, k, members)
      PROVE  runs'[r] = runs[r]
  BY <1>4 DEF CreateRun, IInv, TypeOK
<1>5. CASE Shutdown
  BY <1>5, Executed DEF Shutdown, AbortsAtShutdown
<1>6. CASE Reopen
  BY <1>6 DEF Reopen, Reconciled, Conclusion
<1>7. ASSUME \/ \E k \in Packages : DeleteDefinition(k)
             \/ \E k \in Packages, members \in MemberSets : CreateDefinition(k, members)
             \/ \E e \in Editors, k \in Packages, members \in MemberSets : PreviewChange(e, k, members)
             \/ \E e \in Editors : DropPreview(e) \/ RequestApply(e) \/ BeginApply(e) \/ EndApply(e)
             \/ Close \/ Crash \/ UNCHANGED vars
      PROVE  UNCHANGED runs
  BY <1>7 DEF DeleteDefinition, CreateDefinition, PreviewChange, DropPreview, RequestApply, BeginApply,
     EndApply, MoveChange, Close, Crash, LoseMemory, vars
<1>8. QED
  BY <1>1, <1>2, <1>3, <1>4, <1>5, <1>6, <1>7 DEF Next, Launch, Retry

\* A run that is over is never rewritten.
THEOREM HistoryIsFinal == Spec => HistoryStands
<1>1. ASSUME IInv, [Next]_vars, NEW r \in RunIds, runs[r] # None, runs[r].status \in Verdicts
      PROVE  runs'[r] = runs[r]
  <2>1. ~IsActive(r)
    BY <1>1 DEF IsActive, Active, Verdicts
  <2>2. QED
    BY <1>1, <2>1, ExecuteEffect, OtherStepsEffect
<1>2. IInv /\ [Next]_vars =>
        [\A r \in RunIds : runs[r] # None /\ runs[r].status \in Verdicts => runs'[r] = runs[r]]_vars
  BY <1>1
<1>3. QED
  BY <1>2, Invariance, PTL DEF Spec, HistoryStands

\* After an abort, or when the daemon shuts down, the workers enqueue nothing.
THEOREM AbortsAreObeyed == Spec => AbortStopsEnqueueing
<1>1. ASSUME IInv, [Next]_vars, NEW r \in RunIds, runs[r] # None, runs[r].abortRequested \/ ~accepting,
             NEW a \in Apps, runs[r].member[a] = "pending"
      PROVE  runs'[r].member[a] # "starting"
  <2>1. runs[r] \in Run
    BY <1>1 DEF IInv, TypeOK
  <2>2. CASE ~Execute(r)
    <3>1. CASE runs'[r] = [runs[r] EXCEPT !.abortRequested = TRUE]
      BY <1>1, <2>1, <3>1 DEF Run
    <3>2. CASE IsActive(r) /\ runs'[r] = Conclusion(r)
      BY <1>1, <3>2, ConclusionEffect DEF IInv, Unsettled
    <3>3. QED
      BY <1>1, <2>2, <3>1, <3>2, OtherStepsEffect
  <2>3. CASE Execute(r)
    <3>1. up /\ IsActive(r) /\ runs[r].abortRequested
      BY <1>1, <2>3, ExecuteEffect DEF IInv, ClosingInv
    <3>2. ASSUME NEW member, NEW status, NEW step, Proceed(r, member, status, step)
          PROVE  runs'[r].member = member
      BY <1>1, <2>1, <3>2 DEF Proceed, IInv, TypeOK, Run
    <3>3. CASE Preflight(r)
      BY <1>1, <3>2, <3>3 DEF Preflight
    <3>4. CASE Listed(r)
      BY <1>1, <3>2, <3>4 DEF Listed, FailedRun, MovedThese, Moved
    <3>5. CASE FinishRun(r)
      BY <1>1, <3>1, <3>2, <3>5 DEF FinishRun, Moved
    <3>6. ASSUME NEW b \in Apps, EndMember(r, b) PROVE runs'[r].member[a] # "starting"
      BY <1>1, <3>2, <3>6 DEF EndMember, MovedThese
    <3>7. ~\E b \in Apps : StartMember(r, b)
      BY <3>1 DEF StartMember, MayEnqueue
    <3>8. QED
      BY <2>3, <3>3, <3>4, <3>5, <3>6, <3>7 DEF Execute
  <2>4. QED
    BY <2>2, <2>3
<1>2. IInv /\ [Next]_vars =>
        [\A r \in RunIds : runs[r] # None /\ (runs[r].abortRequested \/ ~accepting) =>
           \A a \in Apps : runs[r].member[a] = "pending" => runs'[r].member[a] # "starting"]_vars
  BY <1>1
<1>3. QED
  BY <1>2, Invariance, PTL DEF Spec, AbortStopsEnqueueing

\* What a step of an execution does to the members and to how far the run got.
Advances(r) ==
  LET before == runs[r].member
      after == runs'[r].member
  IN  /\ \A a \in Apps : \/ after[a] = before[a]
                         \/ MemberRank(before[a]) < MemberRank(after[a])
      /\ \A a \in Apps : after[a] = "started" => before[a] \in {"starting", "started"}
      /\ \/ executions'[r] = executions[r]
         \/ ExecutionRank(executions[r]) < ExecutionRank(executions'[r])

LEMMA ExecuteAdvances ==
  ASSUME IInv, NEW r \in RunIds, Execute(r)
  PROVE  /\ Advances(r) /\ (runs'[r].member # runs[r].member \/ executions'[r] # executions[r])
         /\ \A q \in RunIds \ {r} : executions'[q] = executions[q]
<1> DEFINE now == runs[r].member
<1> USE DEF MemberRank, ExecutionRank, Advances
<1>1. executions[r] \in Steps \ {"none"}
  BY DEF Execute, Preflight, Listed, FinishRun, WorkersDone, StartMember, EndMember, Steps
<1>2. now \in [Apps -> MemberStates]
  BY <1>1, MemberTypes
<1>3. ASSUME NEW member, NEW status, NEW step, Proceed(r, member, status, step)
      PROVE  /\ runs'[r].member = member /\ executions'[r] = step
             /\ \A q \in RunIds \ {r} : executions'[q] = executions[q]
  BY <1>1, <1>3, Executed DEF Proceed, IInv, TypeOK, Run
<1>4. CASE Preflight(r)
  <2>1. executions[r] = "scheduled" /\ \A a \in Apps : now[a] \in {"absent", "pending"}
    BY <1>4 DEF Preflight, IInv, MembersInv
  <2>2. CASE Proceed(r, now, "running", "listing")
    BY <1>3, <2>1, <2>2
  <2>3. ASSUME NEW missing,
               Proceed(r, [a \in Apps |-> IF a \in missing THEN "failed"
                                          ELSE IF a \in In(r, {"pending"}) THEN "skipped_preflight"
                                          ELSE "absent"], "failed", "none"),
               missing \subseteq In(r, {"pending"})
        PROVE  Advances(r) /\ executions'[r] = "none" /\ \A q \in RunIds \ {r} : executions'[q] = executions[q]
    BY <1>3, <2>1, <2>3 DEF In
  <2>4. QED
    BY <1>4, <2>1, <2>2, <2>3, <1>3 DEF Preflight
<1>5. CASE Listed(r)
  <2>1. executions[r] = "listing" /\ \A a \in Apps : now[a] \in {"absent", "pending"}
    BY <1>5 DEF Listed, IInv, MembersInv
  <2>2. ASSUME NEW healthy \in SUBSET In(r, {"pending"}),
               Proceed(r, MovedThese(r, healthy, "skipped_already_running"), "running", "working")
        PROVE  Advances(r) /\ executions'[r] = "working" /\ \A q \in RunIds \ {r} : executions'[q] = executions[q]
    BY <1>3, <2>1, <2>2 DEF In, MovedThese
  <2>3. ASSUME FailedRun(r)
        PROVE  Advances(r) /\ executions'[r] = "none" /\ \A q \in RunIds \ {r} : executions'[q] = executions[q]
    BY <1>3, <2>1, <2>3 DEF FailedRun, Moved, Unsettled
  <2>4. QED
    BY <1>5, <2>1, <2>2, <2>3 DEF Listed
<1>6. CASE FinishRun(r)
  <2>1. executions[r] = "working" /\ In(r, {"starting"}) = {}
    BY <1>6 DEF FinishRun, WorkersDone
  <2>2. CASE Proceed(r, now, Completed(r), "none")
    BY <1>3, <2>1, <2>2
  <2>3. CASE Proceed(r, Moved(r, {"pending"}, "skipped_aborted"), "aborted", "none")
    BY <1>3, <2>1, <2>3 DEF Moved
  <2>4. QED
    BY <1>6, <2>2, <2>3 DEF FinishRun
<1>7. ASSUME NEW a \in Apps, StartMember(r, a) \/ EndMember(r, a)
      PROVE  /\ Advances(r) /\ runs'[r].member # now
             /\ \A q \in RunIds \ {r} : executions'[q] = executions[q]
  <2>1. executions[r] = "working"
    BY <1>7 DEF StartMember, EndMember
  <2>2. PICK state : /\ Proceed(r, MovedThese(r, {a}, state), "running", "working")
                     /\ \/ now[a] = "pending" /\ state \in {"starting", "failed"}
                        \/ now[a] = "starting" /\ state \in {"started", "failed"}
    BY <1>7 DEF StartMember, EndMember
  <2>3. runs'[r].member = [b \in Apps |-> IF b \in {a} THEN state ELSE now[b]]
    BY <1>3, <2>2 DEF MovedThese
  <2>4. QED
    BY <1>3, <2>1, <2>2, <2>3
<1>8. QED
  BY <1>4, <1>5, <1>6, <1>7 DEF Execute

\* The other steps start an execution only for a run that is new.
LEMMA OtherExecutions ==
  ASSUME IInv, [Next]_vars, NEW r \in RunIds, runs[r] # None, ~Execute(r)
  PROVE  executions'[r] = executions[r] \/ executions'[r] = "none"
<1>1. ASSUME NEW q \in RunIds, Execute(q) PROVE executions'[r] = executions[r]
  BY <1>1, ExecuteAdvances
<1>2. ASSUME NEW q \in RunIds, NEW k, NEW members, CreateRun(q, k, members)
      PROVE  executions'[r] = executions[r]
  BY <1>2 DEF CreateRun, IInv, TypeOK
<1>3. CASE Close \/ Crash
  BY <1>3 DEF Close, Crash, LoseMemory
<1>4. ASSUME \/ \E k \in Packages : DeleteDefinition(k)
             \/ \E k \in Packages, members \in MemberSets : CreateDefinition(k, members)
             \/ \E e \in Editors, k \in Packages, members \in MemberSets : PreviewChange(e, k, members)
             \/ \E e \in Editors : DropPreview(e) \/ RequestApply(e) \/ BeginApply(e) \/ EndApply(e)
             \/ \E q \in RunIds : AbortRun(q)
             \/ Shutdown \/ Reopen \/ UNCHANGED vars
      PROVE  UNCHANGED executions
  BY <1>4 DEF DeleteDefinition, CreateDefinition, PreviewChange, DropPreview, RequestApply, BeginApply,
     EndApply, MoveChange, AbortRun, Shutdown, Reopen, vars
<1>5. QED
  BY <1>1, <1>2, <1>3, <1>4 DEF Next, Launch, Retry

\* A member keeps what it settled as and is enqueued before it is started, and a run is
\* executed once, every step taking it further: at most two steps for a member and three
\* for the run, whatever it has of them (#executeRun, #startMember, reconciliation).
THEOREM RunsAdvance == Spec => RunsMoveOn
<1> DEFINE Further ==
      \A r \in RunIds : runs[r] # None =>
        LET before == runs[r].member
            after == runs'[r].member
        IN  /\ \A a \in Apps : \/ after[a] = before[a]
                               \/ MemberRank(before[a]) < MemberRank(after[a])
            /\ \A a \in Apps : after[a] = "started" => before[a] \in {"starting", "started"}
            /\ \/ executions'[r] = executions[r]
               \/ ExecutionRank(executions[r]) < ExecutionRank(executions'[r])
            /\ Execute(r) => after # before \/ executions'[r] # executions[r]
<1>1. ASSUME IInv, [Next]_vars, NEW r \in RunIds, runs[r] # None
      PROVE  /\ Advances(r)
             /\ Execute(r) => runs'[r].member # runs[r].member \/ executions'[r] # executions[r]
  <2>1. CASE Execute(r)
    BY <1>1, <2>1, ExecuteAdvances
  <2>2. CASE ~Execute(r)
    <3>1. runs[r] \in Run /\ executions[r] \in Steps
      BY <1>1 DEF IInv, TypeOK, Steps
    <3>2. \A a \in Apps : /\ \/ runs'[r].member[a] = runs[r].member[a]
                             \/ MemberRank(runs[r].member[a]) < MemberRank(runs'[r].member[a])
                          /\ runs'[r].member[a] = "started" => runs[r].member[a] \in {"starting", "started"}
      <4>1. CASE runs'[r] = runs[r] \/ runs'[r] = [runs[r] EXCEPT !.abortRequested = TRUE]
        <5>1. runs'[r].member = runs[r].member
          BY <3>1, <4>1 DEF Run
        <5>2. QED
          BY <5>1
      <4>2. CASE IsActive(r) /\ runs'[r] = Conclusion(r)
        BY <1>1, <3>1, <4>2 DEF Conclusion, Run, MemberRank
      <4>3. QED
        BY <1>1, <2>2, <4>1, <4>2, OtherStepsEffect
    <3>3. \/ executions'[r] = executions[r]
          \/ ExecutionRank(executions[r]) < ExecutionRank(executions'[r])
      BY <1>1, <2>2, <3>1, OtherExecutions DEF ExecutionRank, Steps
    <3>4. QED
      BY <2>2, <3>2, <3>3 DEF Advances
  <2>3. QED
    BY <2>1, <2>2
<1>2. IInv /\ [Next]_vars => [Further]_vars
  BY <1>1 DEF Advances
<1>3. QED
  BY <1>2, Invariance, PTL DEF Spec, RunsMoveOn
=============================================================================
