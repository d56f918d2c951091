------------------------ MODULE OperationStore_proofs ------------------------
(***************************************************************************)
(* Proofs about OperationStore: type correctness, the inductive invariant  *)
(* IInv, the safety properties that follow from it, and the refinement of  *)
(* OperationLedger, with what that specification says of the rows.         *)
(***************************************************************************)
EXTENDS OperationStore, TLAPS

-----------------------------------------------------------------------------
(* What pruning can do to the records.                                      *)

\* #prune takes only concluded records that no target is waiting on.
LEMMA EvictionsAreConcluded ==
  ASSUME NEW records, NEW active, NEW E \in Evictions(records, active)
  PROVE  /\ E \subseteq OpIds
         /\ \A o \in E : /\ records[o] \in Outcomes
                         /\ \A a \in Apps : active[a] # o
  BY DEF Evictions, Evictable

\* Taking records away keeps the type, the rest, and removes exactly E.
LEMMA WithoutProperties ==
  ASSUME NEW records \in [OpIds -> Status], NEW E \in SUBSET OpIds
  PROVE  /\ Without(E, records) \in [OpIds -> Status]
         /\ \A o \in OpIds \ E : Without(E, records)[o] = records[o]
         /\ \A o \in E : Without(E, records)[o] = "absent"
  BY DEF Without, Status

-----------------------------------------------------------------------------
(* Type correctness.                                                        *)

LEMMA InitType == Init => TypeOK
  BY BoundAssumption
  DEF Init, TypeOK, Status, RunPhase, StorePhase, Call, Idle

LEMMA RequestType ==
  ASSUME TypeOK, NEW c \in Clients, NEW a \in Apps, NEW action \in Lifecycle,
         Request(c, a, action)
  PROVE  TypeOK'
<1> USE DEF TypeOK, Call, Answers, Refusals
<1>1. CASE Refuse(c, a, action)
  BY <1>1 DEF Refuse, Conflicts
<1>2. CASE Join(c, a, action)
  BY <1>2 DEF Join
<1>3. ASSUME NEW o \in OpIds, Enqueue(c, a, action, o)
      PROVE  TypeOK'
  BY <1>3 DEF Enqueue, Persist, Status, Open, RunPhase, Kinds
<1>4. QED
  BY <1>1, <1>2, <1>3 DEF Request

LEMMA RunType ==
  ASSUME TypeOK, IssuedInv, RecordInv, NEW o \in OpIds, Run(o)
  PROVE  TypeOK'
<1>1. CASE Start(o)
  BY <1>1 DEF TypeOK, Start, Persist, Status, Open, RunPhase
<1>2. ASSUME NEW outcome \in Outcomes, Finish(o, outcome)
      PROVE  TypeOK'
  BY <1>2 DEF TypeOK, Finish, Persist, Status, RunPhase
<1>3. CASE Settle(o)
  <2>1. PICK E \in Evictions(status, activeByTarget') :
          status' = Without(E, status) /\ ledger' = Without(E, ledger)
    BY <1>3 DEF Settle
  <2>2. status' \in [OpIds -> Status] /\ ledger' \in [OpIds -> Status]
    BY <2>1, EvictionsAreConcluded, WithoutProperties DEF TypeOK
  <2>3. status[o] \in Outcomes
    BY <1>3 DEF Settle, RecordInv, RunPhase
  <2>4. calls' \in [Clients -> Call]
    BY <1>3, <2>3 DEF Settle, Answered, TypeOK, Call, Answers, Waiting
  <2>5. QED
    BY <1>3, <2>2, <2>4 DEF Settle, TypeOK, RunPhase
<1>4. QED
  BY <1>1, <1>2, <1>3 DEF Run

LEMMA EvidenceType ==
  ASSUME TypeOK, NEW a \in Apps, NEW o \in OpIds, NEW outcome \in Outcomes,
         RecordEvidence(a, outcome, o)
  PROVE  TypeOK'
<1>1. PICK E \in Evictions([status EXCEPT ![o] = outcome], activeByTarget) :
        /\ status' = Without(E, [status EXCEPT ![o] = outcome])
        /\ ledger' = Without(E, [ledger EXCEPT ![o] = outcome])
  BY DEF RecordEvidence
<1>2. /\ [status EXCEPT ![o] = outcome] \in [OpIds -> Status]
      /\ [ledger EXCEPT ![o] = outcome] \in [OpIds -> Status]
  BY DEF TypeOK, Status
<1>3. status' \in [OpIds -> Status] /\ ledger' \in [OpIds -> Status]
  BY <1>1, <1>2, EvictionsAreConcluded, WithoutProperties
<1>4. QED
  BY <1>3 DEF RecordEvidence, TypeOK, Kinds

LEMMA ShutdownType ==
  ASSUME TypeOK, BeginShutdown \/ AllSettled \/ DrainTimeout \/ AbortTimeout
  PROVE  TypeOK'
  BY DEF TypeOK, BeginShutdown, AllSettled, DrainTimeout, AbortTimeout, Persist,
         StorePhase, Active, Status, Outcomes

LEMMA RestartType ==
  ASSUME TypeOK, Crash \/ Reopen
  PROVE  TypeOK'
<1>1. CASE Crash
  BY <1>1, BoundAssumption
  DEF TypeOK, Crash, Status, RunPhase, StorePhase, Call, Answers, Waiting
<1>2. CASE Reopen
  <2>1. PICK E \in Evictions(Reconciled(ledger), activeByTarget) :
          /\ status' = Without(E, Reconciled(ledger))
          /\ ledger' = Without(E, Reconciled(ledger))
    BY <1>2 DEF Reopen
  <2>2. Reconciled(ledger) \in [OpIds -> Status]
    BY DEF TypeOK, Reconciled, Status, Outcomes
  <2>3. status' \in [OpIds -> Status] /\ ledger' \in [OpIds -> Status]
    BY <2>1, <2>2, EvictionsAreConcluded, WithoutProperties
  <2>4. QED
    BY <1>2, <2>3 DEF Reopen, TypeOK, StorePhase
<1>3. QED
  BY <1>1, <1>2

-----------------------------------------------------------------------------
(* The inductive invariant, action by action.                               *)

LEMMA InitInv == Init => IInv
<1> SUFFICES ASSUME Init PROVE IInv
  OBVIOUS
<1>1. TypeOK
  BY InitType
<1>2. IssuedInv /\ ChainInv /\ RecordInv /\ MirrorInv
  BY DEF Init, IssuedInv, ChainInv, RecordInv, MirrorInv, Open
<1>3. ActiveInv
  BY DEF Init, ActiveInv
<1>4. CallInv
  BY DEF Init, CallInv, Idle, Waiting, Outcomes
<1>5. QED
  BY <1>1, <1>2, <1>3, <1>4 DEF IInv

LEMMA RequestInv ==
  ASSUME IInv, NEW c \in Clients, NEW a \in Apps, NEW action \in Lifecycle,
         Request(c, a, action)
  PROVE  IInv'
<1>1. TypeOK'
  BY RequestType DEF IInv
<1>2. CASE Refuse(c, a, action)
  <2> USE DEF IInv, Refuse
  <2>1. IssuedInv' /\ ChainInv' /\ ActiveInv' /\ RecordInv' /\ MirrorInv'
    BY <1>2 DEF IssuedInv, ChainInv, ActiveInv, RecordInv, MirrorInv
  <2>2. CallInv'
    BY <1>2 DEF CallInv, TypeOK, Call, Idle, Waiting, Outcomes
  <2>3. QED
    BY <1>1, <2>1, <2>2
<1>3. CASE Join(c, a, action)
  <2> USE DEF IInv, Join
  <2>1. IssuedInv' /\ ChainInv' /\ ActiveInv' /\ RecordInv' /\ MirrorInv'
    BY <1>3 DEF IssuedInv, ChainInv, ActiveInv, RecordInv, MirrorInv
  <2>2. /\ target[activeByTarget[a]] = a
        /\ runs[activeByTarget[a]] # "none"
        /\ a # None
    BY <1>3, NoneAssumption DEF ActiveInv
  <2>3. CallInv'
    BY <1>3, <2>2 DEF Conflicts, CallInv, TypeOK, Call, Waiting, Outcomes
  <2>4. QED
    BY <1>1, <2>1, <2>3
<1>4. ASSUME NEW o \in OpIds, Enqueue(c, a, action, o)
      PROVE  IInv'
  <2> USE <1>4, NoneAssumption DEF IInv, Enqueue, Free, Issued, Persist
  <2>1. target[o] = None /\ runs[o] = "none" /\ a # None
    BY DEF IssuedInv
  <2>2. \A p \in OpIds : runs[p] # "none" => target[p] # a
    BY DEF ChainInv
  <2>3. IssuedInv'
    BY <2>1 DEF IssuedInv, TypeOK
  <2>4. ChainInv'
    BY <2>1, <2>2 DEF ChainInv, TypeOK
  <2>5. ActiveInv'
    BY <2>1 DEF ActiveInv, TypeOK
  <2>6. o \notin shutdownFinalized'
    BY DEF IssuedInv
  <2>7. RecordInv'
    BY <2>1, <2>6 DEF RecordInv, TypeOK, Open
  <2>8. MirrorInv'
    BY DEF MirrorInv, TypeOK
  <2>9. CallInv'
    BY <2>1 DEF CallInv, TypeOK, Call, Waiting, Outcomes
  <2>10. QED
    BY <1>1, <2>3, <2>4, <2>5, <2>7, <2>8, <2>9
<1>5. QED
  BY <1>2, <1>3, <1>4 DEF Request

LEMMA RunInv ==
  ASSUME IInv, NEW o \in OpIds, Run(o)
  PROVE  IInv'
<1>1. TypeOK'
  BY RunType DEF IInv
<1>2. CASE Start(o)
  <2> USE <1>2 DEF IInv, Start, Persist
  <2>1. /\ phase \notin {"closed", "down"}
        /\ o \notin shutdownFinalized
        /\ target[o] # None
    BY NoneAssumption DEF ChainInv, RecordInv
  <2>2. IssuedInv' /\ ChainInv' /\ ActiveInv'
    BY <2>1 DEF IssuedInv, ChainInv, ActiveInv, TypeOK
  <2>3. RecordInv' /\ MirrorInv'
    BY <2>1 DEF RecordInv, MirrorInv, TypeOK
  <2>4. CallInv'
    BY <2>1 DEF CallInv, TypeOK, Waiting
  <2>5. QED
    BY <1>1, <2>2, <2>3, <2>4
<1>3. ASSUME NEW outcome \in Outcomes, Finish(o, outcome)
      PROVE  IInv'
  <2> USE <1>3 DEF IInv, Finish, Persist
  <2>1. phase \notin {"closed", "down"} /\ target[o] # None
    BY NoneAssumption DEF ChainInv
  <2>2. IssuedInv' /\ ChainInv' /\ ActiveInv'
    BY <2>1 DEF IssuedInv, ChainInv, ActiveInv, TypeOK
  <2>3. RecordInv' /\ MirrorInv'
    BY <2>1 DEF RecordInv, MirrorInv, TypeOK, Outcomes
  <2>4. CallInv'
    <3>1. \A p \in OpIds \ {o} : ledger'[p] = ledger[p] /\ runs'[p] = runs[p]
      BY <2>1 DEF TypeOK
    <3>2. runs[o] # "none" /\ runs'[o] # "none"
      BY DEF TypeOK
    <3>3. UNCHANGED <<target, kind, calls>>
      OBVIOUS
    <3>4. \A c \in Clients : calls[c].op \in OpIds \cup {None}
      BY DEF TypeOK, Call
    <3> HIDE <1>3 DEF Finish, Persist
    <3>5. QED
      BY <3>1, <3>2, <3>3, <3>4 DEF CallInv, Waiting
  <2>5. QED
    BY <1>1, <2>2, <2>3, <2>4
<1>4. CASE Settle(o)
  <2> USE <1>4 DEF IInv
  <2>1. PICK E \in Evictions(status, activeByTarget') :
          status' = Without(E, status) /\ ledger' = Without(E, ledger)
    BY DEF Settle
  <2>2. /\ E \subseteq OpIds
        /\ \A p \in E : status[p] \in Outcomes /\ \A a \in Apps : activeByTarget'[a] # p
    BY EvictionsAreConcluded
  <2>3. \A p \in OpIds :
          /\ status'[p] = IF p \in E THEN "absent" ELSE status[p]
          /\ ledger'[p] = IF p \in E THEN "absent" ELSE ledger[p]
    BY <2>1 DEF Without
  <2>4. /\ runs[o] = "finished"
        /\ runs' = [runs EXCEPT ![o] = "none"]
        /\ UNCHANGED <<target, kind, targetGates, shutdownFinalized, phase>>
        /\ status[o] \in Outcomes
        /\ target[o] \in Apps
        /\ activeByTarget[target[o]] = o
        /\ activeByTarget' = [activeByTarget EXCEPT ![target[o]] = None]
        /\ phase \notin {"closed", "down"}
    BY DEF Settle, RecordInv, ChainInv, TypeOK
  <2>5. IssuedInv'
    BY <2>3, <2>4 DEF IssuedInv, TypeOK
  <2>6. ChainInv'
    BY <2>4 DEF ChainInv, TypeOK
  <2>7. ActiveInv'
    BY <2>4 DEF ActiveInv, TypeOK
  <2>8. RecordInv'
    <3> SUFFICES ASSUME NEW p \in OpIds
                 PROVE  (CASE runs[p] = "none" -> status[p] \notin Open
                           [] runs[p] = "scheduled" ->
                                status[p] = "queued" /\ p \notin shutdownFinalized
                           [] runs[p] = "executing" ->
                                status[p] = IF p \in shutdownFinalized
                                              THEN "failed" ELSE "running"
                           [] runs[p] = "finished" -> status[p] \in Outcomes)'
      BY DEF RecordInv
    <3>1. CASE p = o
      BY <3>1, <2>3, <2>4 DEF TypeOK, Open, Outcomes
    <3>2. CASE p # o /\ runs[p] = "none"
      BY <3>2, <2>3, <2>4 DEF RecordInv, TypeOK, Open
    <3>3. CASE p # o /\ runs[p] # "none"
      <4>1. target[p] \in Apps /\ target[p] # target[o] /\ activeByTarget[target[p]] = p
        BY <3>3, <2>4 DEF ChainInv
      <4>2. p \notin E
        BY <4>1, <2>2, <2>4 DEF TypeOK
      <4>3. status'[p] = status[p] /\ runs'[p] = runs[p]
        BY <3>3, <4>2, <2>3, <2>4 DEF TypeOK
      <4>4. QED
        BY <4>3, <2>4 DEF RecordInv
    <3>4. QED
      BY <3>1, <3>2, <3>3
  <2>9. MirrorInv'
    BY <2>1, <2>4 DEF MirrorInv
  <2>10. CallInv'
    <3> SUFFICES ASSUME NEW c \in Clients
                 PROVE  /\ calls'[c].op # None =>
                             /\ target'[calls'[c].op] # None
                             /\ calls'[c].asked = <<target'[calls'[c].op], kind'[calls'[c].op]>>
                        /\ Waiting(c)' => runs'[calls'[c].op] # "none"
                        /\ calls'[c].answer \in Outcomes =>
                             /\ calls'[c].op # None
                             /\ runs'[calls'[c].op] = "none"
                             /\ ledger'[calls'[c].op] \in {calls'[c].answer, "absent"}
      BY DEF CallInv
    <3>1. CASE Waiting(c) /\ calls[c].op = o
      <4>1. calls'[c] = [calls[c] EXCEPT !.answer = status[o]]
        BY <3>1 DEF Settle, Answered
      <4>2. calls'[c].op = o /\ calls'[c].answer = status[o] /\ calls'[c].asked = calls[c].asked
        BY <3>1, <4>1 DEF TypeOK, Call
      <4>3. ledger[o] = status[o]
        BY <2>4 DEF MirrorInv
      <4>4. calls'[c].answer # "none"
        BY <4>2, <2>4 DEF Outcomes
      <4>5. QED
        BY <3>1, <4>2, <4>3, <4>4, <2>3, <2>4 DEF CallInv, Waiting, TypeOK
    <3>2. CASE ~(Waiting(c) /\ calls[c].op = o)
      <4>1. calls'[c] = calls[c]
        BY <3>2 DEF Settle, Answered
      <4>2. CASE calls[c].op = None
        BY <4>1, <4>2 DEF CallInv, Waiting
      <4>3. CASE calls[c].op # None
        <5>1. calls[c].op \in OpIds
          BY <4>3 DEF TypeOK, Call
        <5>2. QED
          BY <3>2, <4>1, <4>3, <5>1, <2>3, <2>4 DEF CallInv, Waiting, TypeOK
      <4>4. QED
        BY <4>2, <4>3
    <3>3. QED
      BY <3>1, <3>2
  <2>11. QED
    BY <1>1, <2>5, <2>6, <2>7, <2>8, <2>9, <2>10
<1>5. QED
  BY <1>2, <1>3, <1>4 DEF Run

LEMMA EvidenceInv ==
  ASSUME IInv, NEW a \in Apps, NEW o \in OpIds, NEW outcome \in Outcomes,
         RecordEvidence(a, outcome, o)
  PROVE  IInv'
<1> USE DEF IInv
<1>1. TypeOK'
  BY EvidenceType
<1>2. PICK E \in Evictions([status EXCEPT ![o] = outcome], activeByTarget) :
        /\ status' = Without(E, [status EXCEPT ![o] = outcome])
        /\ ledger' = Without(E, [ledger EXCEPT ![o] = outcome])
  BY DEF RecordEvidence
<1>3. /\ E \subseteq OpIds
      /\ \A p \in E : /\ [status EXCEPT ![o] = outcome][p] \in Outcomes
                      /\ \A b \in Apps : activeByTarget[b] # p
  BY EvictionsAreConcluded
<1>4. \A p \in OpIds \ {o} :
        /\ status'[p] = IF p \in E THEN "absent" ELSE status[p]
        /\ ledger'[p] = IF p \in E THEN "absent" ELSE ledger[p]
        /\ p \in E => status[p] \in Outcomes
  BY <1>2, <1>3 DEF Without, TypeOK
<1>5. status'[o] \in {"absent", outcome}
  BY <1>2 DEF Without, TypeOK
<1>6. /\ target[o] = None /\ runs[o] = "none" /\ a # None /\ phase = "open"
      /\ target' = [target EXCEPT ![o] = a]
      /\ kind' = [kind EXCEPT ![o] = "registration_verification"]
      /\ UNCHANGED <<runs, activeByTarget, targetGates, shutdownFinalized, phase,
                     calls, restarts>>
  BY NoneAssumption DEF RecordEvidence, Issued, IssuedInv
<1>7. IssuedInv'
  BY <1>4, <1>6 DEF IssuedInv, TypeOK
<1>8. ChainInv'
  BY <1>6 DEF ChainInv, TypeOK
<1>9. ActiveInv'
  BY <1>6 DEF ActiveInv, TypeOK
<1>10. RecordInv'
  <2> SUFFICES ASSUME NEW p \in OpIds
               PROVE  (CASE runs[p] = "none" -> status[p] \notin Open
                         [] runs[p] = "scheduled" ->
                              status[p] = "queued" /\ p \notin shutdownFinalized
                         [] runs[p] = "executing" ->
                              status[p] = IF p \in shutdownFinalized
                                            THEN "failed" ELSE "running"
                         [] runs[p] = "finished" -> status[p] \in Outcomes)'
    BY DEF RecordInv
  <2>1. CASE p = o
    BY <2>1, <1>5, <1>6 DEF Open, Outcomes
  <2>2. CASE p # o /\ runs[p] = "none"
    BY <2>2, <1>4, <1>6 DEF RecordInv, Open
  <2>3. CASE p # o /\ runs[p] # "none"
    <3>1. activeByTarget[target[p]] = p /\ target[p] \in Apps
      BY <2>3 DEF ChainInv
    <3>2. p \notin E
      BY <3>1, <1>3
    <3>3. status'[p] = status[p]
      BY <2>3, <3>2, <1>4
    <3>4. QED
      BY <3>3, <1>6 DEF RecordInv
  <2>4. QED
    BY <2>1, <2>2, <2>3
<1>11. MirrorInv'
  BY <1>2, <1>6 DEF MirrorInv
<1>12. CallInv'
  <2>1. \A c \in Clients : calls[c].op # None => calls[c].op \in OpIds \ {o}
    BY <1>6 DEF CallInv, TypeOK, Call
  <2>2. QED
    BY <2>1, <1>4, <1>6 DEF CallInv, TypeOK, Waiting
<1>13. QED
  BY <1>1, <1>7, <1>8, <1>9, <1>10, <1>11, <1>12

LEMMA GateInv ==
  ASSUME IInv, NEW a \in Apps,
         (\E gate \in Gates : AcquireGate(a, gate)) \/ ReleaseGate(a)
  PROVE  IInv'
<1>1. CASE \E gate \in Gates : AcquireGate(a, gate)
  <2>1. PICK gate \in Gates : AcquireGate(a, gate)
    BY <1>1
  <2>2. /\ activeByTarget[a] = None
        /\ targetGates' = [targetGates EXCEPT ![a] = gate]
        /\ UNCHANGED <<target, kind, status, ledger, runs, activeByTarget,
                       shutdownFinalized, phase, calls, restarts>>
    BY <2>1 DEF AcquireGate, Free
  <2>3. TypeOK'
    BY <2>2 DEF IInv, TypeOK
  <2>4. IssuedInv' /\ ChainInv' /\ RecordInv' /\ MirrorInv'
    BY <2>2 DEF IInv, IssuedInv, ChainInv, RecordInv, MirrorInv
  <2>5. ActiveInv'
    BY <2>2 DEF IInv, TypeOK, ActiveInv
  <2>6. CallInv'
    BY <2>2 DEF IInv, CallInv, Waiting
  <2>7. QED
    BY <2>3, <2>4, <2>5, <2>6 DEF IInv
<1>2. CASE ReleaseGate(a)
  BY <1>2 DEF IInv, ReleaseGate, TypeOK, IssuedInv, ChainInv, ActiveInv, RecordInv,
              MirrorInv, CallInv, Waiting
<1>3. QED
  BY <1>1, <1>2

LEMMA ShutdownInv ==
  ASSUME IInv, BeginShutdown \/ AllSettled \/ DrainTimeout \/ AbortTimeout
  PROVE  IInv'
<1> USE DEF IInv
<1>1. TypeOK'
  BY ShutdownType
<1>2. \A o \in OpIds : runs[o] # "none" => o \in Active
  BY NoneAssumption DEF ChainInv, Active
<1>3. CASE BeginShutdown \/ AllSettled \/ AbortTimeout
  <2>1. UNCHANGED <<target, kind, status, ledger, runs, activeByTarget,
                    targetGates, shutdownFinalized, calls, restarts>>
    BY <1>3 DEF BeginShutdown, AllSettled, AbortTimeout
  <2>2. phase' # "down" /\ phase # "down" /\ (phase' = "closed" => Active = {})
    BY <1>3 DEF BeginShutdown, AllSettled, AbortTimeout
  <2>3. ChainInv'
    BY <1>2, <2>1, <2>2 DEF ChainInv
  <2>4. IssuedInv' /\ ActiveInv' /\ RecordInv'
    BY <2>1 DEF IssuedInv, ActiveInv, RecordInv
  <2>5. MirrorInv' /\ CallInv'
    BY <2>1, <2>2 DEF MirrorInv, CallInv, Waiting
  <2>6. QED
    BY <1>1, <2>3, <2>4, <2>5
<1>4. CASE DrainTimeout
  <2> DEFINE unfinished == {o \in Active : status[o] \in Open}
  <2>1. /\ \A o \in OpIds :
             /\ status'[o] = IF o \in unfinished THEN "failed" ELSE status[o]
             /\ ledger'[o] = IF o \in unfinished THEN "failed" ELSE ledger[o]
             /\ runs[o] # "scheduled"
        /\ shutdownFinalized' = shutdownFinalized \cup unfinished
        /\ phase = "draining" /\ phase' = "aborting"
        /\ UNCHANGED <<target, kind, runs, activeByTarget, targetGates, calls>>
    BY <1>4 DEF DrainTimeout, Persist
  <2>2. \A o \in unfinished : runs[o] = "executing"
    <3> SUFFICES ASSUME NEW o \in Active, status[o] \in Open
                 PROVE  runs[o] = "executing"
      OBVIOUS
    <3>1. o \in OpIds
      BY DEF Active, TypeOK
    <3>2. runs[o] # "none" /\ runs[o] # "scheduled"
      BY <2>1, <3>1 DEF RecordInv
    <3>3. runs[o] # "finished"
      BY <3>1 DEF RecordInv, Open, Outcomes
    <3>4. QED
      BY <3>1, <3>2, <3>3 DEF TypeOK, RunPhase
  <2>3. \A o \in OpIds : runs[o] = "executing" /\ o \notin unfinished =>
                           o \in shutdownFinalized
    BY <1>2 DEF RecordInv, Open
  <2> HIDE DEF unfinished
  <2>4. IssuedInv'
    BY <2>1, <2>2 DEF IssuedInv
  <2>5. ChainInv' /\ ActiveInv'
    BY <2>1 DEF ChainInv, ActiveInv
  <2>6. RecordInv'
    BY <2>1, <2>2, <2>3 DEF RecordInv, Open, Outcomes
  <2>7. MirrorInv'
    BY <1>4, <2>1, <1>1 DEF MirrorInv, DrainTimeout, Persist
  <2>8. CallInv'
    <3>1. \A c \in Clients : calls[c].op \in OpIds \cup {None}
      BY DEF TypeOK, Call
    <3>2. QED
      BY <3>1, <2>1, <2>2 DEF CallInv, Waiting
  <2>9. QED
    BY <1>1, <2>4, <2>5, <2>6, <2>7, <2>8
<1>5. QED
  BY <1>3, <1>4

LEMMA RestartInv ==
  ASSUME IInv, Crash \/ Reopen
  PROVE  IInv'
<1> USE DEF IInv
<1>1. TypeOK'
  BY RestartType
<1>2. CASE Crash
  <2>1. IssuedInv' /\ ChainInv' /\ ActiveInv' /\ RecordInv' /\ MirrorInv'
    BY <1>2 DEF Crash, IssuedInv, ChainInv, ActiveInv, RecordInv, MirrorInv, Open
  <2>2. CallInv'
    <3>1. \A c \in Clients : calls[c].op \in OpIds \cup {None}
      BY DEF TypeOK, Call
    <3>2. \A c \in Clients :
            calls'[c] = IF Waiting(c) THEN [calls[c] EXCEPT !.answer = "lost"]
                                      ELSE calls[c]
      BY <1>2 DEF Crash
    <3>3. \A c \in Clients :
            /\ calls'[c].op = calls[c].op /\ calls'[c].asked = calls[c].asked
            /\ calls'[c].answer = IF Waiting(c) THEN "lost" ELSE calls[c].answer
      BY <3>2 DEF TypeOK, Call
    <3>4. /\ UNCHANGED <<target, kind, ledger>>
          /\ \A o \in OpIds : runs'[o] = "none"
      BY <1>2 DEF Crash
    <3>5. QED
      BY <3>1, <3>3, <3>4 DEF CallInv, Waiting, Outcomes
  <2>3. QED
    BY <1>1, <2>1, <2>2
<1>3. CASE Reopen
  <2>1. PICK E \in Evictions(Reconciled(ledger), activeByTarget) :
          /\ status' = Without(E, Reconciled(ledger))
          /\ ledger' = Without(E, Reconciled(ledger))
    BY <1>3 DEF Reopen
  <2>2. \A o \in OpIds :
          /\ ledger'[o] = status'[o]
          /\ ledger'[o] = IF o \in E THEN "absent"
                          ELSE IF ledger[o] \in Open THEN "failed" ELSE ledger[o]
    BY <2>1 DEF Without, Reconciled
  <2>3. /\ phase = "down" /\ phase' = "open"
        /\ UNCHANGED <<target, kind, runs, activeByTarget, targetGates,
                       shutdownFinalized, calls>>
    BY <1>3 DEF Reopen
  <2>4. \A o \in OpIds : runs[o] = "none"
    BY <2>3 DEF ChainInv
  <2>5. IssuedInv'
    BY <2>2, <2>3 DEF IssuedInv, Open
  <2>6. ChainInv' /\ ActiveInv'
    BY <2>3, <2>4 DEF ChainInv, ActiveInv
  <2>7. RecordInv'
    BY <2>2, <2>3, <2>4 DEF RecordInv, Open
  <2>8. MirrorInv'
    BY <2>1 DEF MirrorInv
  <2>9. CallInv'
    <3>1. \A c \in Clients : calls[c].op \in OpIds \cup {None}
      BY DEF TypeOK, Call
    <3>2. QED
      BY <3>1, <2>2, <2>3, <2>4 DEF CallInv, Waiting, Open, Outcomes
  <2>10. QED
    BY <1>1, <2>5, <2>6, <2>7, <2>8, <2>9
<1>4. QED
  BY <1>2, <1>3

-----------------------------------------------------------------------------
(* The theorems.                                                            *)

LEMMA StepInv == IInv /\ [Next]_vars => IInv'
<1> SUFFICES ASSUME IInv, [Next]_vars PROVE IInv'
  OBVIOUS
<1>1. CASE \E c \in Clients, a \in Apps, action \in Lifecycle : Request(c, a, action)
  BY <1>1, RequestInv
<1>2. CASE \E o \in OpIds : Run(o)
  BY <1>2, RunInv
<1>3. CASE \E a \in Apps, o \in OpIds, outcome \in {"succeeded", "failed"} :
             RecordEvidence(a, outcome, o)
  BY <1>3, EvidenceInv DEF Outcomes
<1>4. CASE \/ \E a \in Apps, gate \in Gates : AcquireGate(a, gate)
           \/ \E a \in Apps : ReleaseGate(a)
  BY <1>4, GateInv
<1>5. CASE BeginShutdown \/ AllSettled \/ DrainTimeout \/ AbortTimeout
  BY <1>5, ShutdownInv
<1>6. CASE Crash \/ Reopen
  BY <1>6, RestartInv
<1>7. CASE UNCHANGED vars
  BY <1>7 DEF vars, IInv, TypeOK, IssuedInv, ChainInv, ActiveInv, RecordInv,
              MirrorInv, CallInv, Waiting
<1>8. QED
  BY <1>1, <1>2, <1>3, <1>4, <1>5, <1>6, <1>7 DEF Next

\* The store (operationStore.ts) keeps the inductive invariant in every state.
THEOREM Invariance == Spec => []IInv
  BY InitInv, StepInv, PTL DEF Spec

\* Every variable of the store keeps its type.
THEOREM TypeCorrect == Spec => []TypeOK
<1>1. IInv => TypeOK
  BY DEF IInv
<1>2. QED
  BY <1>1, Invariance, PTL

\* No two operations drive the process manager for one app at the same time,
\* whatever the interleaving of requests, shutdown and restarts.
THEOREM RunsAreExclusive == Spec => []RunsExclusive
<1>1. IInv => RunsExclusive
  BY DEF IInv, ChainInv, RunsExclusive
<1>2. QED
  BY <1>1, Invariance, PTL

\* A rename or an unregister under its gate never overlaps a lifecycle operation
\* of the same app.
THEOREM GatesExcludeRuns == Spec => []GateExcludesRuns
<1>1. IInv => GateExcludesRuns
  BY NoneAssumption DEF IInv, ChainInv, ActiveInv, GateExcludesRuns
<1>2. QED
  BY <1>1, Invariance, PTL

\* What a caller was told about an operation is what the ledger says, for ever.
THEOREM AnswersAreDurable == Spec => []ToldIsDurable
<1>1. IInv => ToldIsDurable
  BY DEF IInv, CallInv, ToldIsDurable
<1>2. QED
  BY <1>1, Invariance, PTL

\* The operation that answers a caller does what the caller asked for.
THEOREM AnswersFitTheRequest == Spec => []AskedIsServed
<1>1. IInv => AskedIsServed
  BY DEF IInv, CallInv, AskedIsServed
<1>2. QED
  BY <1>1, Invariance, PTL

\* The ledger is only closed when nothing runs and nothing is left open.
THEOREM ClosingIsQuiet == Spec => []ClosedIsQuiet
<1>1. IInv => ClosedIsQuiet
  BY DEF IInv, ChainInv, RecordInv, MirrorInv, ClosedIsQuiet
<1>2. QED
  BY <1>1, Invariance, PTL

-----------------------------------------------------------------------------
(* The rows on disk implement OperationLedger.                              *)

\* A row that was issued and is gone from the disk reads as evicted.
LEMMA RowValue ==
  /\ Row = [o \in OpIds |-> IF target[o] # None /\ ledger[o] = "absent"
                              THEN "evicted" ELSE ledger[o]]
  /\ Row' = [o \in OpIds |-> IF target'[o] # None /\ ledger'[o] = "absent"
                               THEN "evicted" ELSE ledger'[o]]
  BY DEF Row, Issued

LEMMA InitRefines == Init => Ledger!Init
  BY RowValue DEF Init, Ledger!Init

\* Creating a record needs a target without an open row: the memory map
\* activeByTarget is the only thing that says so.
LEMMA EnqueueRefines ==
  ASSUME IInv, NEW c \in Clients, NEW a \in Apps, NEW action \in Lifecycle,
         NEW o \in OpIds, Enqueue(c, a, action, o)
  PROVE  Ledger!Create(o, a)
<1> USE DEF IInv
<1>1. target[o] = None /\ ledger[o] = "absent" /\ phase = "open" /\ a # None
  BY NoneAssumption DEF Enqueue, Issued, IssuedInv
<1>2. Row[o] = "absent"
  BY <1>1, RowValue
<1>3. \A p \in OpIds : target[p] = a => Row[p] \notin Open
  <2> SUFFICES ASSUME NEW p \in OpIds, target[p] = a, Row[p] \in Open PROVE FALSE
    OBVIOUS
  <2>1. ledger[p] \in Open
    BY RowValue DEF Open
  <2>2. status[p] \in Open
    BY <1>1, <2>1 DEF MirrorInv
  <2>3. runs[p] # "none"
    BY <2>2 DEF RecordInv
  <2>4. activeByTarget[a] = p
    BY <2>3 DEF ChainInv
  <2>5. QED
    BY <2>4, NoneAssumption DEF Enqueue, Free
<1>4. /\ target' = [target EXCEPT ![o] = a]
      /\ ledger' = [ledger EXCEPT ![o] = "queued"]
  BY <1>1 DEF Enqueue, Persist
<1>5. Row' = [Row EXCEPT ![o] = "queued"]
  BY <1>1, <1>4, RowValue DEF TypeOK
<1>6. QED
  BY <1>2, <1>3, <1>4, <1>5 DEF Ledger!Create, Ledger!Open, Open

LEMMA RunRefines ==
  ASSUME IInv, NEW o \in OpIds, Run(o)
  PROVE  \/ Ledger!Begin(o)
         \/ \E outcome \in Outcomes : Ledger!Conclude(o, outcome)
         \/ \E S \in SUBSET OpIds : Ledger!Evict(S)
         \/ UNCHANGED <<Row, target>>
<1> USE DEF IInv
<1>1. CASE Start(o)
  <2>1. /\ status[o] = "queued" /\ o \notin shutdownFinalized
        /\ phase \notin {"closed", "down"} /\ ledger[o] = "queued"
    BY <1>1 DEF Start, RecordInv, ChainInv, MirrorInv
  <2>2. ledger' = [ledger EXCEPT ![o] = "running"] /\ UNCHANGED target
    BY <1>1, <2>1 DEF Start, Persist
  <2>3. Row[o] = "queued" /\ Row' = [Row EXCEPT ![o] = "running"]
    BY <2>1, <2>2, RowValue DEF TypeOK
  <2>4. QED
    BY <2>2, <2>3 DEF Ledger!Begin
<1>2. ASSUME NEW outcome \in Outcomes, Finish(o, outcome)
      PROVE  Ledger!Conclude(o, outcome) \/ UNCHANGED <<Row, target>>
  <2>1. CASE o \in shutdownFinalized
    BY <1>2, <2>1, RowValue DEF Finish
  <2>2. CASE o \notin shutdownFinalized
    <3>1. phase \notin {"closed", "down"} /\ ledger[o] = "running"
      BY <1>2, <2>2 DEF Finish, RecordInv, ChainInv, MirrorInv
    <3>2. ledger' = [ledger EXCEPT ![o] = outcome] /\ UNCHANGED target
      BY <1>2, <2>2, <3>1 DEF Finish, Persist
    <3>3. Row[o] = "running" /\ Row' = [Row EXCEPT ![o] = outcome]
      BY <3>1, <3>2, RowValue DEF TypeOK, Outcomes
    <3>4. QED
      BY <3>2, <3>3 DEF Ledger!Conclude
  <2>3. QED
    BY <2>1, <2>2
<1>3. CASE Settle(o)
  <2>1. PICK E \in Evictions(status, activeByTarget') : ledger' = Without(E, ledger)
    BY <1>3 DEF Settle
  <2>2. E \in SUBSET OpIds /\ \A p \in E : status[p] \in Outcomes
    BY EvictionsAreConcluded
  <2>3. status = ledger /\ UNCHANGED target
    BY <1>3 DEF Settle, ChainInv, MirrorInv
  <2>4. \A p \in E : Row[p] \in Outcomes /\ target[p] # None
    BY <2>2, <2>3, RowValue DEF IssuedInv, Outcomes
  <2>5. Row' = [p \in OpIds |-> IF p \in E THEN "evicted" ELSE Row[p]]
    BY <2>1, <2>3, <2>4, RowValue DEF Without
  <2>6. Ledger!Evict(E)
    BY <2>3, <2>4, <2>5 DEF Ledger!Evict, Ledger!Outcomes, Outcomes
  <2>7. QED
    BY <2>2, <2>6
<1>4. QED
  BY <1>1, <1>2, <1>3 DEF Run

LEMMA EvidenceRefines ==
  ASSUME IInv, NEW a \in Apps, NEW o \in OpIds, NEW outcome \in Outcomes,
         RecordEvidence(a, outcome, o), TypeOK'
  PROVE  Ledger!Record(o, a)
<1> USE DEF IInv
<1>1. PICK E \in Evictions([status EXCEPT ![o] = outcome], activeByTarget) :
        ledger' = Without(E, [ledger EXCEPT ![o] = outcome])
  BY DEF RecordEvidence
<1>2. \A p \in E : p \in OpIds /\ [status EXCEPT ![o] = outcome][p] \in Outcomes
  BY EvictionsAreConcluded
<1>3. /\ target[o] = None /\ ledger[o] = "absent" /\ a # None /\ status = ledger
      /\ target' = [target EXCEPT ![o] = a]
  BY NoneAssumption DEF RecordEvidence, Issued, IssuedInv, MirrorInv
<1>4. Row[o] = "absent" /\ Row'[o] \in Outcomes \cup {"evicted"}
  BY <1>1, <1>3, RowValue DEF Without, TypeOK, Outcomes
<1>5. \A p \in OpIds \ {o} : Row'[p] = Row[p] \/ (Row[p] \in Outcomes /\ Row'[p] = "evicted")
  <2> SUFFICES ASSUME NEW p \in OpIds \ {o}
               PROVE  Row'[p] = Row[p] \/ (Row[p] \in Outcomes /\ Row'[p] = "evicted")
    OBVIOUS
  <2>1. target'[p] = target[p]
    BY <1>3 DEF TypeOK
  <2>2. CASE p \in E
    <3>1. ledger[p] \in Outcomes /\ target[p] # None /\ ledger'[p] = "absent"
      BY <1>1, <1>2, <1>3, <2>2 DEF TypeOK, Without, IssuedInv, Outcomes
    <3>2. QED
      BY <2>1, <3>1, RowValue DEF Outcomes
  <2>3. CASE p \notin E
    <3>1. ledger'[p] = ledger[p]
      BY <1>1, <2>3 DEF TypeOK, Without
    <3>2. QED
      BY <2>1, <3>1, RowValue
  <2>4. QED
    BY <2>2, <2>3
<1>6. Row' \in [OpIds -> Open \cup Outcomes \cup {"absent", "evicted"}]
  BY RowValue DEF TypeOK, Status
<1>7. QED
  BY <1>3, <1>4, <1>5, <1>6
  DEF Ledger!Record, Ledger!KeptOrEvicted, Ledger!Open, Ledger!Outcomes, Open, Outcomes

LEMMA TimeoutRefines ==
  ASSUME IInv, DrainTimeout
  PROVE  \E S \in SUBSET OpIds : Ledger!Interrupt(S)
<1> USE DEF IInv
<1> DEFINE unfinished == {o \in Active : status[o] \in Open}
<1>1. unfinished \in SUBSET OpIds
  BY DEF Active, TypeOK
<1>2. /\ status = ledger /\ UNCHANGED target
      /\ ledger' = [o \in OpIds |-> IF o \in unfinished THEN "failed" ELSE ledger[o]]
  BY DEF DrainTimeout, MirrorInv, Persist
<1>3. \A o \in unfinished : ledger[o] \in Open
  BY <1>2
<1> HIDE DEF unfinished
<1>4. \A o \in unfinished : Row[o] \in Open
  BY <1>1, <1>3, RowValue DEF Open
<1>5. Row' = [o \in OpIds |-> IF o \in unfinished THEN "failed" ELSE Row[o]]
  BY <1>2, RowValue
<1>6. QED
  BY <1>1, <1>2, <1>4, <1>5 DEF Ledger!Interrupt, Ledger!Open, Open

LEMMA ReopenRefines ==
  ASSUME IInv, Reopen
  PROVE  Ledger!Recover
<1> USE DEF IInv
<1>1. PICK E \in Evictions(Reconciled(ledger), activeByTarget) :
        ledger' = Without(E, Reconciled(ledger))
  BY DEF Reopen
<1>2. \A o \in E : o \in OpIds /\ Reconciled(ledger)[o] \in Outcomes
  BY EvictionsAreConcluded
<1>3. UNCHANGED target
  BY DEF Reopen
<1>4. \A o \in OpIds :
        ledger'[o] = IF o \in E THEN "absent"
                     ELSE IF ledger[o] \in Open THEN "failed" ELSE ledger[o]
  BY <1>1 DEF Without, Reconciled
<1>5. \A o \in OpIds : ledger[o] # "absent" => target[o] # None
  BY DEF IssuedInv
<1>6. \A o \in E : ledger[o] \in Open \cup Outcomes
  BY <1>2 DEF Reconciled, Open, Outcomes
<1>7. Row' \in [OpIds -> Outcomes \cup {"absent", "evicted"}]
  BY <1>4, RowValue DEF TypeOK, Status, Open, Outcomes
<1>8. \A o \in OpIds :
        IF Row[o] \in Open THEN Row'[o] \in {"failed", "evicted"}
        ELSE Row'[o] = Row[o] \/ (Row[o] \in Outcomes /\ Row'[o] = "evicted")
  BY <1>2, <1>3, <1>4, <1>5, <1>6, RowValue DEF Open, Outcomes
<1>9. QED
  BY <1>3, <1>7, <1>8
  DEF Ledger!Recover, Ledger!KeptOrEvicted, Ledger!Open, Ledger!Outcomes, Open, Outcomes

LEMMA StepRefines == IInv /\ [Next]_vars => [Ledger!Next]_<<Row, target>>
<1> SUFFICES ASSUME IInv, [Next]_vars PROVE [Ledger!Next]_<<Row, target>>
  OBVIOUS
<1>1. UNCHANGED <<ledger, target>> => UNCHANGED <<Row, target>>
  BY RowValue
<1>2. CASE \E c \in Clients, a \in Apps, action \in Lifecycle : Request(c, a, action)
  BY <1>2, <1>1, EnqueueRefines DEF Request, Refuse, Join, Ledger!Next
<1>3. CASE \E o \in OpIds : Run(o)
  <2>1. PICK o \in OpIds : Run(o)
    BY <1>3
  <2>2. CASE Ledger!Begin(o)
    BY <2>2 DEF Ledger!Next
  <2>3. CASE \E outcome \in Outcomes : Ledger!Conclude(o, outcome)
    BY <2>3 DEF Ledger!Next, Outcomes, Ledger!Outcomes
  <2>4. CASE \E S \in SUBSET OpIds : Ledger!Evict(S)
    BY <2>4 DEF Ledger!Next
  <2>5. QED
    BY <2>1, <2>2, <2>3, <2>4, RunRefines
<1>4. CASE \E a \in Apps, o \in OpIds, outcome \in {"succeeded", "failed"} :
             RecordEvidence(a, outcome, o)
  <2>1. TypeOK'
    BY StepInv DEF IInv
  <2>2. QED
    BY <1>4, <2>1, EvidenceRefines DEF Ledger!Next, Outcomes
<1>5. CASE \/ \E a \in Apps, gate \in Gates : AcquireGate(a, gate)
           \/ \E a \in Apps : ReleaseGate(a)
  BY <1>1, <1>5 DEF AcquireGate, ReleaseGate
<1>6. CASE BeginShutdown \/ AllSettled \/ AbortTimeout \/ Crash
  BY <1>1, <1>6 DEF BeginShutdown, AllSettled, AbortTimeout, Crash
<1>7. CASE DrainTimeout
  BY <1>7, TimeoutRefines DEF Ledger!Next
<1>8. CASE Reopen
  BY <1>8, ReopenRefines DEF Ledger!Next
<1>9. CASE UNCHANGED vars
  BY <1>1, <1>9 DEF vars
<1>10. QED
  BY <1>2, <1>3, <1>4, <1>5, <1>6, <1>7, <1>8, <1>9 DEF Next

\* The store implements the ledger of OperationLedger: every step of it, a crash
\* and a reload included, is a step of the life of the rows on disk.
THEOREM Refinement == Spec => ImplementsLedger
<1>1. Init => Ledger!Init
  BY InitRefines
<1>2. IInv /\ [Next]_vars => [Ledger!Next]_<<Row, target>>
  BY StepRefines
<1>3. QED
  BY <1>1, <1>2, Invariance, PTL DEF Spec, ImplementsLedger, Ledger!Spec, Ledger!vars

-----------------------------------------------------------------------------
(* What the ledger's specification means for the rows on disk.             *)

\* No step of the ledger reopens a record, or moves it to another app.
LEMMA LedgerMeansForGood == Ledger!Spec /\ []TypeOK => Ledger!ConcludedForGood
<1> DEFINE ForGood ==
      \A o \in OpIds :
        /\ Row[o] # "absent" => target'[o] = target[o] /\ Row'[o] # "absent"
        /\ Row[o] \in Ledger!Outcomes => Row'[o] \in {Row[o], "evicted"}
        /\ Row[o] = "evicted" => Row'[o] = "evicted"
<1>1. TypeOK /\ Ledger!Next => ForGood
  <2> SUFFICES ASSUME TypeOK, Ledger!Next PROVE ForGood
    OBVIOUS
  <2> USE DEF Ledger!KeptOrEvicted, Ledger!Open, Ledger!Outcomes
  <2>0. Row = [p \in OpIds |-> Row[p]] /\ target = [p \in OpIds |-> target[p]]
    BY DEF Row, TypeOK
  <2>1. CASE \E p \in OpIds, a \in Apps : Ledger!Create(p, a) \/ Ledger!Record(p, a)
    BY <2>0, <2>1 DEF Ledger!Create, Ledger!Record
  <2>2. CASE \E p \in OpIds : Ledger!Begin(p)
    BY <2>0, <2>2 DEF Ledger!Begin
  <2>3. CASE \E p \in OpIds, outcome \in Ledger!Outcomes : Ledger!Conclude(p, outcome)
    BY <2>0, <2>3 DEF Ledger!Conclude
  <2>4. CASE \E S \in SUBSET OpIds : Ledger!Interrupt(S) \/ Ledger!Evict(S)
    BY <2>4 DEF Ledger!Interrupt, Ledger!Evict
  <2>5. CASE Ledger!Recover
    BY <2>5 DEF Ledger!Recover
  <2>6. QED
    BY <2>1, <2>2, <2>3, <2>4, <2>5 DEF Ledger!Next
<1>2. QED
  BY <1>1, PTL DEF Ledger!Spec, Ledger!ConcludedForGood, Ledger!vars, Ledger!Outcomes

\* A concluded operation keeps its outcome on disk, over crashes and reloads, until it
\* is pruned, and does not come back (#transition, #prune, recoverInterrupted).
THEOREM ConclusionsStand == Spec => Ledger!ConcludedForGood
  BY Refinement, TypeCorrect, LedgerMeansForGood, PTL DEF ImplementsLedger

\* At most one operation of an app is open on disk, at any moment and so at any crash
\* (enqueueLifecycle, which reads memory, not the rows).
THEOREM OneOpenOperation == Spec => []Ledger!OneOpenPerApp
<1>1. Ledger!Init => Ledger!OneOpenPerApp
  BY DEF Ledger!Init, Ledger!OneOpenPerApp, Ledger!Open
<1>2. ASSUME TypeOK, Ledger!OneOpenPerApp, [Ledger!Next]_(Ledger!vars)
      PROVE  Ledger!OneOpenPerApp'
  <2>0. Row = [o \in OpIds |-> Row[o]] /\ target = [o \in OpIds |-> target[o]]
    BY <1>2 DEF Row, TypeOK
  <2> USE DEF Ledger!OneOpenPerApp, Ledger!KeptOrEvicted, Ledger!Open, Ledger!Outcomes
  <2>1. ASSUME NEW o \in OpIds, NEW a \in Apps, Ledger!Create(o, a)
        PROVE  Ledger!OneOpenPerApp'
    BY <1>2, <2>0, <2>1 DEF Ledger!Create
  <2>2. ASSUME NEW o \in OpIds, NEW a \in Apps, Ledger!Record(o, a)
        PROVE  Ledger!OneOpenPerApp'
    BY <1>2, <2>0, <2>2 DEF Ledger!Record
  <2>3. ASSUME NEW o \in OpIds, Ledger!Begin(o)
        PROVE  Ledger!OneOpenPerApp'
    BY <1>2, <2>0, <2>3 DEF Ledger!Begin
  <2>4. ASSUME NEW o \in OpIds, NEW outcome \in Ledger!Outcomes, Ledger!Conclude(o, outcome)
        PROVE  Ledger!OneOpenPerApp'
    BY <1>2, <2>0, <2>4 DEF Ledger!Conclude
  <2>5. ASSUME NEW S \in SUBSET OpIds, Ledger!Interrupt(S) \/ Ledger!Evict(S)
        PROVE  Ledger!OneOpenPerApp'
    BY <1>2, <2>0, <2>5 DEF Ledger!Interrupt, Ledger!Evict
  <2>6. CASE Ledger!Recover
    BY <1>2, <2>6 DEF Ledger!Recover
  <2>7. CASE UNCHANGED Ledger!vars
    BY <1>2, <2>7 DEF Ledger!vars
  <2>8. QED
    BY <1>2, <2>1, <2>2, <2>3, <2>4, <2>5, <2>6, <2>7 DEF Ledger!Next
<1>3. QED
  BY <1>1, <1>2, TypeCorrect, Refinement, PTL DEF ImplementsLedger, Ledger!Spec
=============================================================================
