------------------------- MODULE DaemonRestart_proofs -------------------------
(***************************************************************************)
(* Proofs about DaemonRestart: the inductive invariant IInv, and from it   *)
(* that a prepared daemon abandons nothing it was told of, that a command  *)
(* which reports success has restored what it took down, and the           *)
(* refinement of RestartCycle, with what that specification says.          *)
(***************************************************************************)
EXTENDS DaemonRestart, TLAPS

USE DEF coordinator, processes, knowledge, daemonState

\* What a record of the coordinator consists of.
LEMMA ShutdownFields ==
  ASSUME TypeOK, shutdown # None
  PROVE  /\ shutdown \in Shutdowns
         /\ shutdown.phase \in Phases /\ shutdown.restore \subseteq Apps
         /\ shutdown.waiting \subseteq Apps /\ shutdown.stopped \subseteq Apps
         /\ shutdown.failed \subseteq Apps
  BY DEF TypeOK, Shutdowns

\* The steps of the commands that are only about the lease, or end the command.
LeaseStep(c) == Lease(c) \/ Unlink(c) \/ Retry(c) \/ Release(c)
EndStep(c) == Report(c) \/ GiveUp(c) \/ Die(c)

\* The first conjunct of every proof below: which steps there are.
LEMMA Steps ==
  ASSUME Next
  PROVE  \/ StopsDone \/ RecoveryDone \/ ServicesDone \/ Closed
         \/ \E a \in Apps :
              \/ \E k \in {"start", "stop"} : Operation(a, k) \/ Direct(a, k)
              \/ Spawn(a) \/ ChildExits(a) \/ EndStart(a) \/ \E ok \in BOOLEAN : EndStop(a, ok)
         \/ \E c \in Clients :
              \/ LeaseStep(c) \/ EndStep(c)
              \/ Start(c) \/ Discover(c) \/ GetPreview(c) \/ Prepare(c) \/ Shutdown(c)
              \/ StopSeen(c) \/ Ensure(c) \/ Verify(c) \/ \E a \in Apps : RestoreApp(c, a)
  BY DEF Next, Coordinate, Process, Command, EndMutation, LeaseStep, EndStep

\* Ending a command resets what it knows and nothing else.
LEMMA FinishEffect ==
  ASSUME TypeOK, NEW c \in Clients, NEW place \in Places, Goto(c, place), Forget(c)
  PROVE  /\ at' \in [Clients -> Places] /\ at'[c] = place
         /\ todo' \in [Clients -> SUBSET Apps] /\ pending' \in [Clients -> SUBSET Apps]
         /\ failed' \in [Clients -> BOOLEAN] /\ owed' \in [Clients -> SUBSET Apps]
         /\ seen'[c] = None /\ todo'[c] = {} /\ pending'[c] = {} /\ owed'[c] = {}
         /\ \A d \in Clients \ {c} :
              /\ at'[d] = at[d] /\ seen'[d] = seen[d] /\ todo'[d] = todo[d]
              /\ pending'[d] = pending[d] /\ failed'[d] = failed[d] /\ owed'[d] = owed[d]
  BY DEF TypeOK, Goto, Forget

\* The stops are followed by the services, or by starts if one of them failed.
LEMMA StopsDoneEffect ==
  ASSUME TypeOK, StopsDone
  PROVE  /\ shutdown' \in Shutdowns /\ shutdown'.restore = shutdown.restore
         /\ \/ shutdown.failed = {} /\ shutdown'.phase = "services" /\ work' = work
            \/ shutdown'.phase = "recovering"
<1>1. CASE shutdown.failed = {}
  <2>1. shutdown' = [shutdown EXCEPT !.phase = "services"]
    BY <1>1 DEF StopsDone
  <2>2. QED
    BY <1>1, <2>1, ShutdownFields DEF StopsDone, Shutdowns, Phases
<1>2. CASE shutdown.failed # {}
  <2>1. shutdown' = [shutdown EXCEPT !.phase = "recovering",
                       !.waiting = {a \in shutdown.stopped : work[a] # "stop"}]
    BY <1>2 DEF StopsDone
  <2>2. {a \in shutdown.stopped : work[a] # "stop"} \in SUBSET Apps
    BY ShutdownFields DEF StopsDone
  <2>3. QED
    BY <2>1, <2>2, ShutdownFields DEF StopsDone, Shutdowns, Phases
<1>3. QED
  BY <1>1, <1>2

-----------------------------------------------------------------------------
\* The initial states satisfy the invariant.
LEMMA InitInv == Init => IInv
<1> SUFFICES ASSUME Init PROVE IInv
  OBVIOUS
<1> USE DEF Init
<1>1. TypeOK
  BY DEF TypeOK, Places
<1>2. SeenInv /\ CoordinatorInv /\ TrackedInv /\ StopInv /\ NothingIsAbandoned /\ OwedInv
  BY DEF SeenInv, CoordinatorInv, TrackedInv, StopInv, NothingIsAbandoned, OwedInv, OnItsWay, Awaiting
<1>3. QED
  BY <1>1, <1>2 DEF IInv

-----------------------------------------------------------------------------
\* Types are kept by every step.
LEMMA TypeStep ==
  ASSUME TypeOK, SeenInv, CoordinatorInv, [Next]_vars
  PROVE  TypeOK'
<1> USE NoneAssumption
<1>1. CASE UNCHANGED vars
  BY <1>1 DEF TypeOK, vars
<1>2. CASE StopsDone
  <2>1. shutdown' \in Shutdowns
    BY <1>2, StopsDoneEffect
  <2>2. work' \in [Apps -> {None, "start", "stop"}]
    BY <1>2 DEF StopsDone, TypeOK
  <2>3. QED
    BY <1>2, <2>1, <2>2 DEF StopsDone, TypeOK
<1>3. CASE RecoveryDone
  <2>1. activeRequest \in Clients
    BY <1>3 DEF RecoveryDone, TypeOK, CoordinatorInv
  <2>2. QED
    BY <1>3, <2>1 DEF RecoveryDone, FreeRequest, Finish, Goto, Forget, TypeOK, Places
<1>4. CASE ServicesDone
  <2>1. activeRequest \in Clients
    BY <1>4 DEF ServicesDone, TypeOK, CoordinatorInv
  <2>2. prepared' \in Prepareds
    BY <1>4, <2>1, ShutdownFields DEF ServicesDone, RestoreList, Prepareds
  <2>3. QED
    BY <1>4, <2>1, <2>2 DEF ServicesDone, Goto, TypeOK, Places, Awaiting
<1>5. CASE Closed
  BY <1>5 DEF Closed, TypeOK
<1>6. ASSUME NEW a \in Apps, NEW k \in {"start", "stop"}, Operation(a, k) \/ Direct(a, k)
      PROVE  TypeOK'
  BY <1>6 DEF Operation, Direct, TypeOK
<1>7. ASSUME NEW a \in Apps, Spawn(a) \/ ChildExits(a)
      PROVE  TypeOK'
  BY <1>7 DEF Spawn, ChildExits, TypeOK
<1>8. ASSUME NEW a \in Apps, NEW ok \in BOOLEAN, Settle(a, ok), children' \subseteq Apps,
             owed' \in [Clients -> SUBSET Apps]
      PROVE  TypeOK'
  <2>1. shutdown' \in Shutdowns \cup {None}
    BY <1>8, ShutdownFields DEF Settle, TypeOK, Shutdowns
  <2>2. work' \in [Apps -> {None, "start", "stop"}]
    BY <1>8 DEF Settle, TypeOK
  <2>3. pending' \in [Clients -> SUBSET Apps] /\ failed' \in [Clients -> BOOLEAN]
    BY <1>8 DEF Settle, TypeOK
  <2>4. QED
    BY <1>8, <2>1, <2>2, <2>3 DEF Settle, TypeOK
<1>9. ASSUME NEW a \in Apps, EndStart(a)
      PROVE  TypeOK'
  <2>1. owed' \in [Clients -> SUBSET Apps] /\ children' \subseteq Apps
    BY <1>9 DEF EndStart, TypeOK
  <2>2. CASE a \in children
    <3>1. Settle(a, TRUE)
      BY <1>9, <2>2 DEF EndStart, Settle
    <3>2. QED
      BY <1>8, <2>1, <3>1
  <2>3. CASE a \notin children
    <3>1. Settle(a, FALSE)
      BY <1>9, <2>3 DEF EndStart, Settle
    <3>2. QED
      BY <1>8, <2>1, <3>1
  <2>4. QED
    BY <2>2, <2>3
<1>10. ASSUME NEW a \in Apps, NEW ok \in BOOLEAN, EndStop(a, ok)
       PROVE  TypeOK'
  <2>1. owed' \in [Clients -> SUBSET Apps] /\ children' \subseteq Apps
    BY <1>10 DEF EndStop, TypeOK
  <2>2. QED
    BY <1>8, <1>10, <2>1 DEF EndStop
<1>11. ASSUME NEW c \in Clients, LeaseStep(c)
       PROVE  TypeOK'
  BY <1>11 DEF LeaseStep, Lease, Unlink, Retry, Release, Goto, TypeOK, Places, Awaiting
<1>12. ASSUME NEW c \in Clients, EndStep(c)
       PROVE  TypeOK'
  BY <1>12 DEF EndStep, Report, GiveUp, Die, Finish, Goto, Forget, TypeOK, Places
<1>13. ASSUME NEW c \in Clients, Start(c) \/ Ensure(c) \/ StopSeen(c) \/ Verify(c)
       PROVE  TypeOK'
  <2>1. CASE Start(c)
    BY <2>1 DEF Start, Boot, Finish, Goto, Forget, TypeOK, Places
  <2>2. CASE Ensure(c) \/ StopSeen(c)
    BY <2>2 DEF Ensure, StopSeen, Boot, Goto, TypeOK, Places, Awaiting
  <2>3. CASE Verify(c)
    BY <2>3 DEF Verify, Finish, Goto, Forget, TypeOK, Places, Awaiting
  <2>4. QED
    BY <1>13, <2>1, <2>2, <2>3
<1>14. ASSUME NEW c \in Clients, Discover(c)
       PROVE  TypeOK'
  BY <1>14 DEF Discover, Goto, TypeOK, Places, Awaiting, Previews
<1>15. ASSUME NEW c \in Clients, GetPreview(c)
       PROVE  TypeOK'
  <2>1. seen[c] \in Previews
    BY <1>15 DEF GetPreview, SeenInv, Awaiting, TypeOK
  <2>2. CASE tracked = {}
    BY <1>15, <2>1, <2>2 DEF GetPreview, Goto, TypeOK, Places, Awaiting, Previews
  <2>3. CASE tracked # {}
    BY <1>15, <2>3 DEF GetPreview, Finish, Goto, Forget, TypeOK, Places
  <2>4. QED
    BY <2>2, <2>3
<1>16. ASSUME NEW c \in Clients, Prepare(c)
       PROVE  TypeOK'
  <2>1. shutdown' \in Shutdowns
    BY <1>16 DEF Prepare, Shutdowns, Phases, TypeOK
  <2>2. QED
    BY <1>16, <2>1 DEF Prepare, Goto, TypeOK, Places, Awaiting
<1>17. ASSUME NEW c \in Clients, Shutdown(c)
       PROVE  TypeOK'
  <2>1. prepared.restore \subseteq Apps
    BY <1>17 DEF Shutdown, PreparedFor, TypeOK, Prepareds
  <2>2. QED
    BY <1>17, <2>1 DEF Shutdown, Goto, TypeOK, Places, Awaiting
<1>18. ASSUME NEW c \in Clients, NEW a \in Apps, RestoreApp(c, a)
       PROVE  TypeOK'
  <2>1. CASE Admits /\ work[a] # "stop"
    BY <1>18, <2>1 DEF RestoreApp, TypeOK
  <2>2. CASE ~(Admits /\ work[a] # "stop")
    BY <1>18, <2>2 DEF RestoreApp, TypeOK
  <2>3. QED
    BY <2>1, <2>2
<1>19. QED
  BY <1>1, <1>2, <1>3, <1>4, <1>5, <1>6, <1>7, <1>9, <1>10, <1>11, <1>12, <1>13, <1>14, <1>15,
     <1>16, <1>17, <1>18, Steps

\* What a settled mutation does to the coordinator: its record stays one of the
\* same phase and restore list, with the app settled.
LEMMA SettleEffect ==
  ASSUME TypeOK, NEW a \in Apps, NEW ok, Settle(a, ok)
  PROVE  /\ work' \in [Apps -> {None, "start", "stop"}] /\ work'[a] = None
         /\ \A b \in Apps \ {a} : work'[b] = work[b]
         /\ shutdown' # None <=> shutdown # None
         /\ shutdown # None =>
              /\ shutdown'.phase = shutdown.phase /\ shutdown'.restore = shutdown.restore
              /\ shutdown'.waiting = shutdown.waiting \ {a}
              /\ shutdown'.failed = {} => shutdown.failed = {}
              /\ a \in shutdown.waiting /\ shutdown.phase = "stopping" /\ shutdown'.failed = {} => ok
<1>1. work' \in [Apps -> {None, "start", "stop"}] /\ work'[a] = None
      /\ \A b \in Apps \ {a} : work'[b] = work[b]
  BY DEF Settle, TypeOK
<1>2. CASE shutdown = None
  BY <1>1, <1>2 DEF Settle
<1>3. CASE shutdown # None /\ a \notin shutdown.waiting
  BY <1>1, <1>3, ShutdownFields DEF Settle
<1>4. CASE shutdown # None /\ a \in shutdown.waiting
  <2>1. shutdown' = [shutdown EXCEPT !.waiting = @ \ {a},
                               !.stopped = IF shutdown.phase = "stopping" /\ ok
                                             THEN @ \cup {a} ELSE @,
                               !.failed = IF shutdown.phase = "stopping" /\ ~ok
                                            THEN @ \cup {a} ELSE @]
    BY <1>4 DEF Settle
  <2>2. /\ shutdown'.phase = shutdown.phase /\ shutdown'.restore = shutdown.restore
        /\ shutdown'.waiting = shutdown.waiting \ {a}
        /\ shutdown'.failed = IF shutdown.phase = "stopping" /\ ~ok
                                THEN shutdown.failed \cup {a} ELSE shutdown.failed
        /\ shutdown'.stopped \subseteq Apps /\ shutdown' \in Shutdowns
    BY <1>4, <2>1, ShutdownFields DEF Shutdowns
  <2>3. QED
    BY <1>1, <1>4, <2>2, NoneAssumption
<1>5. QED
  BY <1>2, <1>3, <1>4

\* A command past its discovery knows a daemon up to this one.
LEMMA SeenStep ==
  ASSUME TypeOK, SeenInv, CoordinatorInv, [Next]_vars
  PROVE  SeenInv'
<1> USE NoneAssumption DEF SeenInv
<1>1. CASE UNCHANGED vars
  BY <1>1 DEF vars
<1>2. CASE StopsDone \/ Closed
  BY <1>2 DEF StopsDone, Closed
<1>3. CASE RecoveryDone
  <2>1. activeRequest \in Clients
    BY <1>3 DEF RecoveryDone, TypeOK, CoordinatorInv
  <2>2. QED
    BY <1>3, <2>1 DEF RecoveryDone, Finish, Goto, Forget, TypeOK, Awaiting
<1>4. CASE ServicesDone
  <2>1. activeRequest \in Clients
    BY <1>4 DEF ServicesDone, TypeOK, CoordinatorInv
  <2>2. QED
    BY <1>4, <2>1 DEF ServicesDone, Goto, TypeOK, Awaiting
<1>5. ASSUME NEW a \in Apps,
             \/ \E k \in {"start", "stop"} : Operation(a, k) \/ Direct(a, k)
             \/ Spawn(a) \/ ChildExits(a) \/ EndStart(a) \/ \E ok \in BOOLEAN : EndStop(a, ok)
      PROVE  SeenInv'
  BY <1>5 DEF Operation, Direct, Spawn, ChildExits, EndStart, EndStop, Settle
<1>6. ASSUME NEW c \in Clients, LeaseStep(c)
      PROVE  SeenInv'
  BY <1>6 DEF LeaseStep, Lease, Unlink, Retry, Release, Goto, TypeOK, Awaiting
<1>7. ASSUME NEW c \in Clients, EndStep(c)
      PROVE  SeenInv'
  BY <1>7 DEF EndStep, Report, GiveUp, Die, Finish, Goto, Forget, TypeOK, Awaiting
<1>8. ASSUME NEW c \in Clients, Start(c)
      PROVE  SeenInv'
  <2>1. \A d \in Clients : seen[d] # None => seen[d].expected \in Nat
    BY DEF TypeOK, Previews
  <2>2. QED
    BY <1>8, <2>1 DEF Start, Boot, Finish, Goto, Forget, TypeOK, Awaiting
<1>9. ASSUME NEW c \in Clients, Ensure(c)
      PROVE  SeenInv'
  <2>1. \A d \in Clients : seen[d] # None => seen[d].expected \in Nat
    BY DEF TypeOK, Previews
  <2>2. QED
    BY <1>9, <2>1 DEF Ensure, Boot, Goto, TypeOK, Awaiting
<1>10. ASSUME NEW c \in Clients, Discover(c)
       PROVE  SeenInv'
  <2>1. [expected |-> instance, previewed |-> 0, owned |-> {}] \in Previews
    BY DEF TypeOK, Previews
  <2>2. seen'[c] \in Previews /\ seen'[c].expected = instance
        /\ \A d \in Clients \ {c} : seen'[d] = seen[d]
    BY <1>10, <2>1 DEF Discover, TypeOK
  <2>3. /\ instance \in Nat /\ instance' = instance
        /\ \A d \in Clients \ {c} : at'[d] = at[d]
    BY <1>10 DEF Discover, Goto, TypeOK
  <2>4. seen'[c] # None /\ seen'[c].expected <= instance'
    BY <2>2, <2>3
  <2>5. QED
    BY <2>2, <2>3, <2>4
<1>11. ASSUME NEW c \in Clients, GetPreview(c)
       PROVE  SeenInv'
  <2>1. seen[c] \in Previews /\ seen[c].expected <= instance
    BY <1>11 DEF GetPreview, Awaiting, TypeOK
  <2>2. CASE tracked = {}
    <3>1. seen'[c] \in Previews /\ seen'[c].expected = seen[c].expected
      BY <1>11, <2>1, <2>2 DEF GetPreview, TypeOK, Previews
    <3>2. QED
      BY <1>11, <2>1, <2>2, <3>1 DEF GetPreview, Goto, TypeOK, Awaiting
  <2>3. CASE tracked # {}
    BY <1>11, <2>3 DEF GetPreview, Finish, Goto, Forget, TypeOK, Awaiting
  <2>4. QED
    BY <2>2, <2>3
<1>12. ASSUME NEW c \in Clients, Prepare(c) \/ Shutdown(c) \/ StopSeen(c)
       PROVE  SeenInv'
  BY <1>12 DEF Prepare, Shutdown, StopSeen, Goto, TypeOK, Awaiting
<1>13. ASSUME NEW c \in Clients, Verify(c)
       PROVE  SeenInv'
  BY <1>13 DEF Verify, Finish, Goto, Forget, TypeOK, Awaiting
<1>14. ASSUME NEW c \in Clients, NEW a \in Apps, RestoreApp(c, a)
       PROVE  SeenInv'
  BY <1>14 DEF RestoreApp
<1>15. QED
  BY <1>1, <1>2, <1>3, <1>4, <1>5, <1>6, <1>7, <1>8, <1>9, <1>10, <1>11, <1>12, <1>13, <1>14, Steps

\* The coordinator quiesces as long as it works on a request or has prepared it.
LEMMA CoordinatorStep ==
  ASSUME TypeOK, CoordinatorInv, [Next]_vars
  PROVE  CoordinatorInv'
<1> USE NoneAssumption DEF CoordinatorInv
<1>1. CASE UNCHANGED vars
  BY <1>1 DEF vars
<1>2. CASE StopsDone
  <2>1. shutdown' # None
    BY <1>2, StopsDoneEffect
  <2>2. QED
    BY <1>2, <2>1 DEF StopsDone
<1>3. CASE RecoveryDone
  BY <1>3 DEF RecoveryDone, FreeRequest
<1>4. CASE ServicesDone
  <2>1. prepared' \in Prepareds
    BY <1>4, ShutdownFields DEF ServicesDone, RestoreList, Prepareds, TypeOK
  <2>2. QED
    BY <1>4, <2>1 DEF ServicesDone
<1>5. CASE Closed
  BY <1>5 DEF Closed
<1>6. ASSUME NEW a \in Apps, NEW k \in {"start", "stop"}, Operation(a, k) \/ Direct(a, k)
      PROVE  CoordinatorInv'
  BY <1>6 DEF Operation, Direct
<1>7. ASSUME NEW a \in Apps, Spawn(a) \/ ChildExits(a)
      PROVE  CoordinatorInv'
  BY <1>7 DEF Spawn, ChildExits
<1>8. ASSUME NEW a \in Apps, NEW ok, Settle(a, ok)
      PROVE  CoordinatorInv'
  <2>1. shutdown' # None <=> shutdown # None
    BY <1>8, SettleEffect
  <2>2. QED
    BY <1>8, <2>1 DEF Settle
<1>9. ASSUME NEW a \in Apps, EndStart(a) \/ \E ok \in BOOLEAN : EndStop(a, ok)
      PROVE  CoordinatorInv'
  BY <1>8, <1>9 DEF EndStart, EndStop
<1>10. ASSUME NEW c \in Clients, LeaseStep(c) \/ EndStep(c)
       PROVE  CoordinatorInv'
  BY <1>10 DEF LeaseStep, EndStep, Lease, Unlink, Retry, Release, Report, GiveUp, Die
<1>11. ASSUME NEW c \in Clients, Start(c) \/ Ensure(c)
       PROVE  CoordinatorInv'
  BY <1>11 DEF Start, Ensure, Boot
<1>12. ASSUME NEW c \in Clients, Discover(c) \/ GetPreview(c) \/ StopSeen(c) \/ Verify(c)
       PROVE  CoordinatorInv'
  BY <1>12 DEF Discover, GetPreview, StopSeen, Verify
<1>13. ASSUME NEW c \in Clients, Prepare(c)
       PROVE  CoordinatorInv'
  <2>1. shutdown' \in Shutdowns
    BY <1>13 DEF Prepare, Shutdowns, Phases, TypeOK
  <2>2. QED
    BY <1>13, <2>1 DEF Prepare, MayPrepare
<1>14. ASSUME NEW c \in Clients, Shutdown(c)
       PROVE  CoordinatorInv'
  BY <1>14 DEF Shutdown, PreparedFor
<1>15. ASSUME NEW c \in Clients, NEW a \in Apps, RestoreApp(c, a)
       PROVE  CoordinatorInv'
  BY <1>15 DEF RestoreApp
<1>16. QED
  BY <1>1, <1>2, <1>3, <1>4, <1>5, <1>6, <1>7, <1>9, <1>10, <1>11, <1>12, <1>13, <1>14, <1>15, Steps

\* Nobody's operation is in progress while the coordinator quiesces.
LEMMA TrackedStep ==
  ASSUME TypeOK, CoordinatorInv, TrackedInv, [Next]_vars
  PROVE  TrackedInv'
<1> USE NoneAssumption DEF TrackedInv
<1>1. CASE UNCHANGED vars
  BY <1>1 DEF vars
<1>2. CASE StopsDone
  <2>1. tracked = {} /\ \A c \in Clients : pending[c] = {}
    BY <1>2 DEF StopsDone, CoordinatorInv, TypeOK
  <2>2. QED
    BY <1>2, <2>1 DEF StopsDone
<1>3. CASE RecoveryDone
  <2>1. activeRequest \in Clients
    BY <1>3 DEF RecoveryDone, TypeOK, CoordinatorInv
  <2>2. tracked = {} /\ \A c \in Clients : pending[c] = {}
    BY <1>3 DEF RecoveryDone, CoordinatorInv, TypeOK
  <2>3. QED
    BY <1>3, <2>1, <2>2 DEF RecoveryDone, Finish, Goto, Forget, TypeOK
<1>4. CASE ServicesDone
  <2>1. tracked = {} /\ \A c \in Clients : pending[c] = {}
    BY <1>4 DEF ServicesDone, CoordinatorInv, TypeOK
  <2>2. QED
    BY <1>4, <2>1 DEF ServicesDone
<1>5. CASE Closed
  <2>1. tracked = {} /\ \A c \in Clients : pending[c] = {}
    BY <1>5 DEF Closed, CoordinatorInv, TypeOK
  <2>2. QED
    BY <1>5, <2>1 DEF Closed
<1>6. ASSUME NEW a \in Apps, NEW k \in {"start", "stop"}, Operation(a, k)
      PROVE  TrackedInv'
  BY <1>6 DEF Operation, Admits, TypeOK
<1>7. ASSUME NEW a \in Apps, NEW k \in {"start", "stop"}, Direct(a, k)
      PROVE  TrackedInv'
  BY <1>7 DEF Direct, TypeOK
<1>8. ASSUME NEW a \in Apps, Spawn(a) \/ ChildExits(a)
      PROVE  TrackedInv'
  BY <1>8 DEF Spawn, ChildExits
<1>9. ASSUME NEW a \in Apps, NEW ok, Settle(a, ok)
      PROVE  TrackedInv'
  <2>1. \A b \in Apps \ {a} : work'[b] = work[b]
    BY <1>9, SettleEffect
  <2>2. tracked' = tracked \ {a} /\ tracked \subseteq Apps
        /\ \A c \in Clients : pending'[c] = pending[c] \ {a}
    BY <1>9 DEF Settle, TypeOK
  <2>3. QED
    BY <1>9, <2>1, <2>2 DEF Settle
<1>10. ASSUME NEW a \in Apps, EndStart(a) \/ \E ok \in BOOLEAN : EndStop(a, ok)
       PROVE  TrackedInv'
  BY <1>9, <1>10 DEF EndStart, EndStop
<1>11. ASSUME NEW c \in Clients, LeaseStep(c)
       PROVE  TrackedInv'
  BY <1>11 DEF LeaseStep, Lease, Unlink, Retry, Release, Goto, TypeOK
<1>12. ASSUME NEW c \in Clients, EndStep(c)
       PROVE  TrackedInv'
  BY <1>12 DEF EndStep, Report, GiveUp, Die, Finish, Goto, Forget, TypeOK
<1>13. ASSUME NEW c \in Clients, Start(c) \/ Verify(c)
       PROVE  TrackedInv'
  BY <1>13 DEF Start, Verify, Boot, Finish, Goto, Forget, TypeOK
<1>14. ASSUME NEW c \in Clients, Ensure(c) \/ Discover(c) \/ StopSeen(c) \/ Shutdown(c)
       PROVE  TrackedInv'
  BY <1>14 DEF Ensure, Boot, Discover, StopSeen, Shutdown, Goto, TypeOK
<1>15. ASSUME NEW c \in Clients, GetPreview(c)
       PROVE  TrackedInv'
  BY <1>15 DEF GetPreview, Finish, Goto, Forget, TypeOK
<1>16. ASSUME NEW c \in Clients, Prepare(c)
       PROVE  TrackedInv'
  <2>1. tracked = {} /\ \A d \in Clients : pending[d] = {}
    BY <1>16 DEF Prepare, MayPrepare, TypeOK
  <2>2. QED
    BY <1>16, <2>1 DEF Prepare
<1>17. ASSUME NEW c \in Clients, NEW a \in Apps, RestoreApp(c, a)
       PROVE  TrackedInv'
  <2>1. CASE Admits /\ work[a] # "stop"
    BY <1>17, <2>1 DEF RestoreApp, Admits, TypeOK
  <2>2. CASE ~(Admits /\ work[a] # "stop")
    BY <1>17, <2>2 DEF RestoreApp
  <2>3. QED
    BY <2>1, <2>2
<1>18. QED
  BY <1>1, <1>2, <1>3, <1>4, <1>5, <1>6, <1>7, <1>8, <1>10, <1>11, <1>12, <1>13, <1>14, <1>15,
     <1>16, <1>17, Steps

\* What has a child or may get one during the stops is accounted for, and at
\* their end nothing is left but what went past the coordinator.
LEMMA StopStep ==
  ASSUME TypeOK, CoordinatorInv, StopInv, NothingIsAbandoned, [Next]_vars
  PROVE  StopInv' /\ NothingIsAbandoned'
<1> USE NoneAssumption DEF StopInv, NothingIsAbandoned
<1>1. CASE UNCHANGED vars
  BY <1>1 DEF vars
<1>2. CASE StopsDone
  <2>1. shutdown # None /\ shutdown.phase = "stopping" /\ shutdown.waiting = {}
    BY <1>2 DEF StopsDone
  <2>2. CASE shutdown.failed = {} /\ shutdown'.phase = "services" /\ work' = work
    BY <1>2, <2>1, <2>2 DEF StopsDone
  <2>3. CASE shutdown'.phase = "recovering"
    BY <1>2, <2>1, <2>3 DEF StopsDone, CoordinatorInv
  <2>4. QED
    BY <1>2, <2>2, <2>3, StopsDoneEffect
<1>3. CASE RecoveryDone
  BY <1>3 DEF RecoveryDone, CoordinatorInv
<1>4. CASE ServicesDone
  BY <1>4 DEF ServicesDone
<1>5. CASE Closed
  BY <1>5 DEF Closed, CoordinatorInv
<1>6. ASSUME NEW a \in Apps, NEW k \in {"start", "stop"}, Operation(a, k)
      PROVE  StopInv' /\ NothingIsAbandoned'
  BY <1>6 DEF Operation, Admits, CoordinatorInv
<1>7. ASSUME NEW a \in Apps, NEW k \in {"start", "stop"}, Direct(a, k)
      PROVE  StopInv' /\ NothingIsAbandoned'
  <2>1. \A b \in Apps \ {a} : work'[b] = work[b]
    BY <1>7 DEF Direct, TypeOK
  <2>2. work'[a] = k /\ missed \subseteq missed'
    BY <1>7 DEF Direct, TypeOK
  <2>3. k = "start" /\ quiescing => a \in missed'
    BY <1>7 DEF Direct
  <2>4. shutdown # None => a \notin shutdown.waiting \/ shutdown.phase # "stopping"
    BY <1>7 DEF Direct
  <2>5. QED
    BY <1>7, <2>1, <2>2, <2>3, <2>4, ShutdownFields DEF Direct, CoordinatorInv
<1>8. ASSUME NEW a \in Apps, Spawn(a) \/ ChildExits(a)
      PROVE  StopInv' /\ NothingIsAbandoned'
  BY <1>8 DEF Spawn, ChildExits, CoordinatorInv
<1>9. ASSUME NEW a \in Apps, EndStart(a)
      PROVE  StopInv' /\ NothingIsAbandoned'
  <2>1. Settle(a, a \in children) /\ children' = children /\ missed' = missed /\ prepared' = prepared
    BY <1>9 DEF EndStart, Settle
  <2>2. shutdown # None /\ shutdown.phase = "stopping" => a \notin shutdown.waiting
    BY <1>9 DEF EndStart
  <2>3. QED
    BY <1>9, <2>1, <2>2, SettleEffect, ShutdownFields DEF EndStart
<1>10. ASSUME NEW a \in Apps, NEW ok \in BOOLEAN, EndStop(a, ok)
       PROVE  StopInv' /\ NothingIsAbandoned'
  <2>1. /\ Settle(a, ok) /\ missed' = missed /\ prepared' = prepared
        /\ children' = IF ok THEN children \ {a} ELSE children
    BY <1>10 DEF EndStop, Settle
  <2>2. QED
    BY <1>10, <2>1, SettleEffect, ShutdownFields DEF EndStop
<1>11. ASSUME NEW c \in Clients, LeaseStep(c) \/ EndStep(c)
       PROVE  StopInv' /\ NothingIsAbandoned'
  BY <1>11 DEF LeaseStep, EndStep, Lease, Unlink, Retry, Release, Report, GiveUp, Die
<1>12. ASSUME NEW c \in Clients, Start(c) \/ Ensure(c)
       PROVE  StopInv' /\ NothingIsAbandoned'
  BY <1>12 DEF Start, Ensure, Boot
<1>13. ASSUME NEW c \in Clients,
              Discover(c) \/ GetPreview(c) \/ StopSeen(c) \/ Verify(c) \/ Shutdown(c)
       PROVE  StopInv' /\ NothingIsAbandoned'
  BY <1>13 DEF Discover, GetPreview, StopSeen, Verify, Shutdown
<1>14. ASSUME NEW c \in Clients, Prepare(c)
       PROVE  StopInv' /\ NothingIsAbandoned'
  <2>1. /\ prepared' = None /\ children' = children
        /\ shutdown'.phase = "stopping"
        /\ shutdown'.waiting = {a \in children : work[a] # "start"}
        /\ shutdown'.failed = {a \in children : work[a] = "start"}
    BY <1>14 DEF Prepare, MayPrepare, CoordinatorInv
  <2>2. /\ work' = [a \in Apps |-> IF a \in children /\ work[a] = None THEN "stop" ELSE work[a]]
        /\ missed' = {a \in Apps : work[a] = "start" /\ a \notin children}
    BY <1>14 DEF Prepare
  <2>3. QED
    BY <2>1, <2>2 DEF TypeOK
<1>15. ASSUME NEW c \in Clients, NEW a \in Apps, RestoreApp(c, a)
       PROVE  StopInv' /\ NothingIsAbandoned'
  BY <1>15 DEF RestoreApp, Admits, CoordinatorInv
<1>16. QED
  BY <1>1, <1>2, <1>3, <1>4, <1>5, <1>6, <1>7, <1>8, <1>9, <1>10, <1>11, <1>12, <1>13, <1>14,
     <1>15, Steps

\* What the owed apps of a command depend on, where neither the command nor the
\* coordinator moves.
LEMMA OwedFrame ==
  ASSUME OwedInv, NEW c \in Clients,
         at'[c] = at[c], seen'[c] = seen[c], instance' = instance, daemon' = daemon,
         activeRequest' = activeRequest, prepared' = prepared,
         shutdown' # None <=> shutdown # None,
         shutdown # None => shutdown'.restore = shutdown.restore,
         owed'[c] \subseteq owed[c], todo'[c] = todo[c],
         at[c] = "restore" => failed'[c] \/ owed'[c] \subseteq todo'[c] \cup pending'[c]
  PROVE  OnItsWay(c)'
  BY DEF OwedInv, OnItsWay, PreparedFor

\* Every app that is owed stays on its way.
LEMMA OwedStep ==
  ASSUME TypeOK, SeenInv, CoordinatorInv, TrackedInv, OwedInv, [Next]_vars
  PROVE  OwedInv'
<1> USE NoneAssumption
<1> SUFFICES ASSUME NEW d \in Clients PROVE OnItsWay(d)'
  BY DEF OwedInv
<1>0. OnItsWay(d)
  BY DEF OwedInv
<1>1. CASE UNCHANGED vars
  BY <1>0, <1>1 DEF vars, OnItsWay, PreparedFor
<1>2. CASE StopsDone
  <2>1. shutdown' # None /\ shutdown # None /\ shutdown'.restore = shutdown.restore
    BY <1>2, StopsDoneEffect DEF StopsDone
  <2>2. QED
    BY <1>0, <1>2, <2>1 DEF StopsDone, OnItsWay, PreparedFor
<1>3. CASE RecoveryDone
  <2>1. activeRequest \in Clients /\ prepared = None
    BY <1>3 DEF RecoveryDone, TypeOK, CoordinatorInv
  <2>2. CASE d = activeRequest /\ at[d] = "preparing"
    <3>1. at'[d] = "over"
      BY <1>3, <2>1, <2>2 DEF RecoveryDone, Finish, Goto, TypeOK
    <3>2. QED
      BY <3>1 DEF OnItsWay
  <2>3. CASE ~(d = activeRequest /\ at[d] = "preparing")
    <3>1. at[d] # "preparing" /\ at[d] # "shutdown"
      BY <1>0, <2>1, <2>3 DEF OnItsWay, PreparedFor
    <3>2. /\ at'[d] = at[d] /\ seen'[d] = seen[d] /\ owed'[d] = owed[d] /\ todo'[d] = todo[d]
          /\ failed'[d] = failed[d] /\ pending'[d] = pending[d]
      BY <1>3, <2>1, <2>3 DEF RecoveryDone, Finish, Goto, Forget, TypeOK
    <3>3. QED
      BY <1>0, <1>3, <3>1, <3>2 DEF RecoveryDone, OnItsWay
  <2>4. QED
    BY <2>2, <2>3
<1>4. CASE ServicesDone
  <2>1. activeRequest \in Clients /\ shutdown # None /\ prepared = None /\ daemon = "up"
    BY <1>4 DEF ServicesDone, TypeOK, CoordinatorInv
  <2>2. prepared' = [request |-> activeRequest, restore |-> shutdown.restore] /\ prepared' # None
    BY <1>4, <2>1, ShutdownFields DEF ServicesDone, RestoreList, Prepareds
  <2>3. CASE at[d] = "preparing"
    <3>1. d = activeRequest /\ owed[d] \subseteq shutdown.restore
      BY <1>0, <2>3 DEF OnItsWay
    <3>2. at'[d] = "shutdown" /\ daemon' = "up" /\ owed' = owed
      BY <1>4, <2>1, <2>3, <3>1 DEF ServicesDone, Goto, TypeOK
    <3>3. PreparedFor(d)' /\ owed'[d] \subseteq prepared'.restore
      BY <2>2, <3>1, <3>2 DEF PreparedFor
    <3>4. QED
      BY <3>2, <3>3 DEF OnItsWay
  <2>4. CASE at[d] # "preparing"
    <3>1. at'[d] = at[d] /\ at[d] # "shutdown"
      BY <1>0, <1>4, <2>1, <2>4 DEF ServicesDone, Goto, TypeOK, OnItsWay, PreparedFor
    <3>2. QED
      BY <1>0, <1>4, <2>4, <3>1 DEF ServicesDone, OnItsWay
  <2>5. QED
    BY <2>3, <2>4
<1>5. CASE Closed
  <2>1. at[d] # "preparing" /\ at[d] # "shutdown"
    BY <1>0, <1>5 DEF Closed, CoordinatorInv, OnItsWay
  <2>2. QED
    BY <1>0, <1>5, <2>1 DEF Closed, OnItsWay
<1>6. ASSUME NEW a \in Apps, NEW k \in {"start", "stop"}, Operation(a, k) \/ Direct(a, k)
      PROVE  OnItsWay(d)'
  BY <1>0, <1>6 DEF Operation, Direct, OnItsWay, PreparedFor
<1>7. ASSUME NEW a \in Apps, Spawn(a) \/ ChildExits(a)
      PROVE  OnItsWay(d)'
  BY <1>0, <1>7 DEF Spawn, ChildExits, OnItsWay, PreparedFor
<1>8. ASSUME NEW a \in Apps, NEW ok, Settle(a, ok), owed'[d] \subseteq owed[d],
             at[d] = "restore" => failed'[d] \/ owed'[d] \subseteq todo'[d] \cup pending'[d]
      PROVE  OnItsWay(d)'
  <2>1. /\ shutdown' # None <=> shutdown # None
        /\ shutdown # None => shutdown'.restore = shutdown.restore
    BY <1>8, SettleEffect
  <2>2. QED
    BY <1>8, <2>1, OwedFrame DEF Settle
<1>9. ASSUME NEW a \in Apps, EndStart(a)
      PROVE  OnItsWay(d)'
  <2>1. Settle(a, a \in children)
    BY <1>9 DEF EndStart
  <2>2. /\ pending'[d] = pending[d] \ {a} /\ todo' = todo
        /\ failed'[d] <=> failed[d] \/ (a \in pending[d] /\ a \notin children)
    BY <2>1 DEF Settle, TypeOK
  <2>3. owed'[d] \subseteq owed[d]
    BY <1>9 DEF EndStart, TypeOK
  <2>4. ASSUME at[d] = "restore", ~failed'[d]
        PROVE  owed'[d] \subseteq todo'[d] \cup pending'[d]
    <3>1. owed[d] \subseteq todo[d] \cup pending[d] /\ (a \in pending[d] => a \in children)
      BY <1>0, <2>2, <2>4 DEF OnItsWay
    <3>2. seen[d] # None /\ instance > seen[d].expected
      BY <1>0, <2>4 DEF OnItsWay, SeenInv, Awaiting
    <3>3. a \in children => owed'[d] = owed[d] \ {a}
      BY <1>9, <3>2 DEF EndStart
    <3>4. QED
      BY <2>2, <2>3, <3>1, <3>3
  <2>5. QED
    BY <1>8, <2>1, <2>3, <2>4
<1>10. ASSUME NEW a \in Apps, NEW ok \in BOOLEAN, EndStop(a, ok)
       PROVE  OnItsWay(d)'
  <2>1. Settle(a, ok) /\ owed' = owed
    BY <1>10 DEF EndStop
  <2>2. a \notin pending[d]
    BY <1>10 DEF EndStop, TrackedInv
  <2>3. pending'[d] = pending[d] /\ todo' = todo /\ (failed'[d] <=> failed[d])
    BY <2>1, <2>2 DEF Settle, TypeOK
  <2>4. QED
    BY <1>0, <1>8, <2>1, <2>3 DEF OnItsWay
<1>11. ASSUME NEW c \in Clients, LeaseStep(c)
       PROVE  OnItsWay(d)'
  <2>1. at'[d] = at[d] \/ at'[d] \in {"discover", "done", "unlink", "retry"}
    BY <1>11 DEF LeaseStep, Lease, Unlink, Retry, Release, Goto, TypeOK
  <2>2. UNCHANGED <<daemonState, knowledge>>
    BY <1>11 DEF LeaseStep, Lease, Unlink, Retry, Release
  <2>3. QED
    BY <1>0, <2>1, <2>2 DEF OnItsWay, PreparedFor
<1>12. ASSUME NEW c \in Clients, NEW place \in {"over", "done"}, Goto(c, place), Forget(c),
              UNCHANGED daemonState
       PROVE  OnItsWay(d)'
  <2>1. CASE d = c
    BY <1>12, <2>1, FinishEffect DEF OnItsWay, Places
  <2>2. CASE d # c
    <3>1. /\ at'[d] = at[d] /\ seen'[d] = seen[d] /\ todo'[d] = todo[d]
          /\ pending'[d] = pending[d] /\ failed'[d] = failed[d] /\ owed'[d] = owed[d]
      BY <1>12, <2>2, FinishEffect DEF Places
    <3>2. QED
      BY <1>0, <1>12, <3>1 DEF OnItsWay, PreparedFor
  <2>3. QED
    BY <2>1, <2>2
<1>13. ASSUME NEW c \in Clients, EndStep(c)
       PROVE  OnItsWay(d)'
  BY <1>12, <1>13 DEF EndStep, Report, GiveUp, Die, Finish
<1>14. ASSUME NEW c \in Clients, Start(c)
       PROVE  OnItsWay(d)'
  <2>1. Goto(c, "over") /\ Forget(c) /\ daemon = "down" /\ instance' = instance + 1
        /\ UNCHANGED coordinator
    BY <1>14 DEF Start, Boot, Finish
  <2>2. CASE d = c
    BY <2>1, <2>2, FinishEffect DEF OnItsWay, Places
  <2>3. CASE d # c
    <3>1. /\ at'[d] = at[d] /\ seen'[d] = seen[d] /\ todo'[d] = todo[d]
          /\ pending'[d] = pending[d] /\ failed'[d] = failed[d] /\ owed'[d] = owed[d]
      BY <2>1, <2>3, FinishEffect DEF Places
    <3>2. at[d] # "shutdown"
      BY <1>0, <2>1 DEF OnItsWay
    <3>3. at[d] = "restore" => instance' > seen'[d].expected
      BY <1>0, <2>1, <3>1 DEF OnItsWay, SeenInv, Awaiting, TypeOK, Previews
    <3>4. QED
      BY <1>0, <2>1, <3>1, <3>2, <3>3 DEF OnItsWay
  <2>4. QED
    BY <2>2, <2>3
<1>15. ASSUME NEW c \in Clients, Ensure(c)
       PROVE  OnItsWay(d)'
  <2>1. UNCHANGED <<coordinator, knowledge>> /\ instance' \in {instance, instance + 1}
        /\ (instance' = instance \/ daemon = "down") /\ (daemon' = daemon \/ daemon = "down")
    BY <1>15 DEF Ensure, Boot
  <2>2. at'[d] = at[d] \/ (d = c /\ at[d] = "ensure" /\ at'[d] = "verify")
    BY <1>15 DEF Ensure, Goto, TypeOK
  <2>3. at[d] = "restore" => instance' > seen[d].expected
    BY <1>0, <2>1 DEF OnItsWay, SeenInv, Awaiting, TypeOK, Previews
  <2>4. QED
    BY <1>0, <2>1, <2>2, <2>3 DEF OnItsWay, PreparedFor
<1>16. ASSUME NEW c \in Clients, Discover(c)
       PROVE  OnItsWay(d)'
  <2>1. d = c => at'[d] = "preview"
    BY <1>16 DEF Discover, Goto, TypeOK
  <2>2. d # c => at'[d] = at[d] /\ seen'[d] = seen[d]
    BY <1>16 DEF Discover, Goto, TypeOK
  <2>3. QED
    BY <1>0, <1>16, <2>1, <2>2 DEF Discover, OnItsWay, PreparedFor
<1>17. ASSUME NEW c \in Clients, GetPreview(c)
       PROVE  OnItsWay(d)'
  <2>1. CASE tracked = {}
    <3>1. d = c => at'[d] = "prepare"
      BY <1>17, <2>1 DEF GetPreview, Goto, TypeOK
    <3>2. d # c => at'[d] = at[d] /\ seen'[d] = seen[d]
      BY <1>17, <2>1 DEF GetPreview, Goto, TypeOK
    <3>3. UNCHANGED <<daemonState, todo, pending, failed, owed>>
      BY <1>17, <2>1 DEF GetPreview
    <3>4. QED
      BY <1>0, <3>1, <3>2, <3>3 DEF OnItsWay, PreparedFor
  <2>2. CASE tracked # {}
    BY <1>12, <1>17, <2>2 DEF GetPreview, Finish
  <2>3. QED
    BY <2>1, <2>2
<1>18. ASSUME NEW c \in Clients, Prepare(c)
       PROVE  OnItsWay(d)'
  <2>1. shutdown' \in Shutdowns /\ shutdown'.restore = children /\ activeRequest' = c
        /\ activeRequest = None /\ shutdown = None /\ prepared = None
    BY <1>18 DEF Prepare, MayPrepare, Shutdowns, Phases, TypeOK, CoordinatorInv
  <2>2. CASE d = c
    BY <1>18, <2>1, <2>2 DEF Prepare, Goto, TypeOK, OnItsWay
  <2>3. CASE d # c
    <3>1. at'[d] = at[d] /\ owed'[d] = owed[d]
      BY <1>18, <2>3 DEF Prepare, Goto, TypeOK
    <3>2. at[d] # "preparing" /\ at[d] # "shutdown"
      BY <1>0, <2>1 DEF OnItsWay, PreparedFor
    <3>3. QED
      BY <1>0, <1>18, <3>1, <3>2 DEF Prepare, OnItsWay
  <2>4. QED
    BY <2>2, <2>3
<1>19. ASSUME NEW c \in Clients, Shutdown(c)
       PROVE  OnItsWay(d)'
  <2>1. CASE d = c
    <3>1. at'[d] = "waiting" /\ todo'[d] = prepared.restore /\ owed' = owed
      BY <1>19, <2>1 DEF Shutdown, Goto, TypeOK
    <3>2. owed[d] \subseteq prepared.restore
      BY <1>0, <1>19, <2>1 DEF Shutdown, OnItsWay
    <3>3. QED
      BY <3>1, <3>2 DEF OnItsWay
  <2>2. CASE d # c
    <3>1. at'[d] = at[d] /\ todo'[d] = todo[d]
      BY <1>19, <2>2 DEF Shutdown, Goto, TypeOK
    <3>2. at[d] # "shutdown"
      BY <1>0, <1>19, <2>2 DEF Shutdown, OnItsWay, PreparedFor
    <3>3. QED
      BY <1>0, <1>19, <3>1, <3>2 DEF Shutdown, OnItsWay
  <2>3. QED
    BY <2>1, <2>2
<1>20. ASSUME NEW c \in Clients, StopSeen(c)
       PROVE  OnItsWay(d)'
  <2>1. at'[d] = at[d] \/ (at[d] = "waiting" /\ at'[d] = "ensure")
    BY <1>20 DEF StopSeen, Goto, TypeOK
  <2>2. QED
    BY <1>0, <1>20, <2>1 DEF StopSeen, OnItsWay, PreparedFor
<1>21. ASSUME NEW c \in Clients, Verify(c)
       PROVE  OnItsWay(d)'
  <2>1. CASE instance = seen[c].expected
    BY <1>12, <1>21, <2>1 DEF Verify, Finish
  <2>2. CASE instance # seen[c].expected
    <3>1. UNCHANGED <<daemonState, knowledge>>
      BY <1>21, <2>2 DEF Verify
    <3>2. at'[d] = at[d] \/ (d = c /\ at[d] = "verify" /\ at'[d] = "restore")
      BY <1>21, <2>2 DEF Verify, Goto, TypeOK
    <3>3. d = c => instance > seen[d].expected
      BY <1>21, <2>2 DEF Verify, SeenInv, Awaiting, TypeOK, Previews
    <3>4. QED
      BY <1>0, <3>1, <3>2, <3>3 DEF OnItsWay, PreparedFor
  <2>3. QED
    BY <2>1, <2>2
<1>22. ASSUME NEW c \in Clients, NEW a \in Apps, RestoreApp(c, a)
       PROVE  OnItsWay(d)'
  <2>1. at[c] = "restore" /\ UNCHANGED <<daemon, instance, coordinator, at, seen, owed>>
    BY <1>22 DEF RestoreApp
  <2>2. /\ d # c => todo'[d] = todo[d] /\ pending'[d] = pending[d] /\ failed'[d] = failed[d]
        /\ d = c => todo'[d] = todo[d] \ {a}
                    /\ (failed'[d] \/ (failed'[d] = failed[d] /\ pending'[d] = pending[d] \cup {a}))
    <3>1. CASE Admits /\ work[a] # "stop"
      BY <1>22, <3>1 DEF RestoreApp, TypeOK
    <3>2. CASE ~(Admits /\ work[a] # "stop")
      BY <1>22, <3>2 DEF RestoreApp, TypeOK
    <3>3. QED
      BY <3>1, <3>2
  <2>3. QED
    BY <1>0, <2>1, <2>2 DEF OnItsWay, PreparedFor
<1>23. QED
  BY <1>1, <1>2, <1>3, <1>4, <1>5, <1>6, <1>7, <1>9, <1>10, <1>11, <1>13, <1>14, <1>15, <1>16,
     <1>17, <1>18, <1>19, <1>20, <1>21, <1>22, Steps

-----------------------------------------------------------------------------
(* The theorems                                                            *)

\* The invariant holds in every reachable state.
THEOREM Invariance == Spec => []IInv
<1>1. Init => IInv
  BY InitInv
<1>2. IInv /\ [Next]_vars => IInv'
  BY TypeStep, SeenStep, CoordinatorStep, TrackedStep, StopStep, OwedStep DEF IInv
<1>3. QED
  BY <1>1, <1>2, PTL DEF Spec

\* The variables stay in their types.
THEOREM TypeCorrect == Spec => []TypeOK
<1>1. IInv => TypeOK
  BY DEF IInv
<1>2. QED
  BY <1>1, Invariance, PTL

\* Whatever is requested while a restart is prepared (prepare of
\* daemonRestart.ts), the daemon that is about to end without stopping anything
\* has no child and no start but those asked for past the operation store.
THEOREM PreparedOwnsNothing == Spec => []NothingIsAbandoned
<1>1. IInv => NothingIsAbandoned
  BY DEF IInv
<1>2. QED
  BY <1>1, Invariance, PTL

\* A command that reports a restart without app failures (restartDaemon) has had
\* every app that its prepare found running started by a later daemon.
THEOREM SuccessIsComplete == Spec => []RestartedIsRestored
<1>1. IInv => RestartedIsRestored
  BY DEF IInv, RestartedIsRestored, ReportsSuccess, OwedInv, OnItsWay
<1>2. QED
  BY <1>1, Invariance, PTL

-----------------------------------------------------------------------------
(* The daemon and its commands implement RestartCycle.                     *)

\* A daemon that is gone has no child and no mutation, and none comes back before the
\* next one is there (close in server.ts).
THEOREM DownIsEmpty == Spec => []DownInv
<1>1. Init => DownInv
  BY DEF Init, DownInv
<1>2. ASSUME IInv, DownInv, [Next]_vars
      PROVE  DownInv'
  <2> USE NoneAssumption DEF DownInv
  <2>1. CASE UNCHANGED vars
    BY <1>2, <2>1 DEF vars
  <2>2. CASE StopsDone
    <3>1. daemon = "up"
      BY <1>2, <2>2 DEF StopsDone, IInv, CoordinatorInv, TypeOK
    <3>2. QED
      BY <2>2, <3>1 DEF StopsDone
  <2>3. CASE RecoveryDone \/ ServicesDone
    BY <1>2, <2>3 DEF RecoveryDone, ServicesDone
  <2>4. CASE Closed
    BY <2>4 DEF Closed
  <2>5. ASSUME NEW a \in Apps, NEW k \in {"start", "stop"}, Operation(a, k) \/ Direct(a, k)
        PROVE  DownInv'
    BY <2>5 DEF Operation, Direct, Admits
  <2>6. ASSUME NEW a \in Apps, Spawn(a) \/ ChildExits(a) \/ EndStart(a) \/ \E ok \in BOOLEAN : EndStop(a, ok)
        PROVE  DownInv'
    <3>1. daemon # "down" /\ daemon' = daemon
      BY <1>2, <2>6 DEF Spawn, ChildExits, EndStart, EndStop, Settle
    <3>2. QED
      BY <3>1
  <2>7. ASSUME NEW c \in Clients, LeaseStep(c) \/ EndStep(c)
        PROVE  DownInv'
    BY <1>2, <2>7 DEF LeaseStep, EndStep, Lease, Unlink, Retry, Release, Report, GiveUp, Die, daemonState
  <2>8. ASSUME NEW c \in Clients, Start(c) \/ Ensure(c)
        PROVE  DownInv'
    BY <1>2, <2>8 DEF Start, Ensure, Boot, daemonState
  <2>9. ASSUME NEW c \in Clients, Discover(c) \/ GetPreview(c) \/ StopSeen(c) \/ Verify(c)
        PROVE  DownInv'
    BY <1>2, <2>9 DEF Discover, GetPreview, StopSeen, Verify, daemonState
  <2>10. ASSUME NEW c \in Clients, Prepare(c) \/ Shutdown(c) \/ \E a \in Apps : RestoreApp(c, a)
         PROVE  DownInv'
    BY <2>10 DEF Prepare, Shutdown, RestoreApp
  <2>11. QED
    BY <1>2, <2>1, <2>2, <2>3, <2>4, <2>5, <2>6, <2>7, <2>8, <2>9, <2>10, Steps
<1>3. QED
  BY <1>1, <1>2, Invariance, PTL DEF Spec

\* The stage of a daemon, by what its coordinator is at.
LEMMA StageValue ==
  ASSUME IInv
  PROVE  /\ Stage = "open" <=> daemon = "up" /\ ~quiescing
         /\ Stage = "prepared" <=> daemon = "up" /\ prepared # None
         /\ Stage = "closing" <=> daemon = "closing"
         /\ Stage = "down" <=> daemon = "down"
         /\ shutdown # None => daemon = "up" /\ Stage = shutdown.phase /\ Restore = shutdown.restore
         /\ prepared # None => Restore = prepared.restore
         /\ ~quiescing => Restore = {}
<1>1. CoordinatorInv /\ daemon \in {"up", "closing", "down"}
  BY DEF IInv, TypeOK
<1>2. shutdown # None => shutdown.phase \in {"stopping", "recovering", "services"}
  BY ShutdownFields DEF IInv, Phases
<1>3. QED
  BY <1>1, <1>2 DEF Stage, Restore, CoordinatorInv

\* The same of the next state.
LEMMA StageValuePrimed ==
  ASSUME IInv'
  PROVE  /\ daemon' = "up" /\ ~quiescing' => Stage' = "open"
         /\ daemon' = "up" /\ prepared' # None => Stage' = "prepared"
         /\ daemon' # "up" => Stage' = daemon'
         /\ shutdown' # None => Stage' = shutdown'.phase /\ Restore' = shutdown'.restore
         /\ prepared' # None => Restore' = prepared'.restore
         /\ ~quiescing' => Restore' = {}
<1>1. CoordinatorInv' /\ daemon' \in {"up", "closing", "down"}
  BY DEF IInv, TypeOK
<1>2. QED
  BY <1>1 DEF Stage, Restore, CoordinatorInv

\* The steps that leave the coordinator alone do not move the stage.
LEMMA SameStage ==
  ASSUME UNCHANGED <<daemon, prepared>>, shutdown' = None <=> shutdown = None,
         shutdown # None => shutdown'.phase = shutdown.phase /\ shutdown'.restore = shutdown.restore
  PROVE  UNCHANGED <<Stage, Restore>>
  BY DEF Stage, Restore

\* Mutations, past the store or through it.
LEMMA ProcessRefines ==
  ASSUME IInv, DownInv, NEW a \in Apps,
         \/ \E k \in {"start", "stop"} : Operation(a, k) \/ Direct(a, k)
         \/ Spawn(a) \/ ChildExits(a) \/ EndStart(a) \/ \E ok \in BOOLEAN : EndStop(a, ok)
  PROVE  [Cycle!Next]_(Cycle!vars)
<1> USE DEF Cycle!Next, Cycle!Operate, Cycle!vars
<1>1. ASSUME NEW k \in {"start", "stop"}, Operation(a, k) PROVE Cycle!Operate
  <2>1. Stage = "open" /\ tracked' \in SUBSET Apps
    BY <1>1, StageValue DEF Operation, Admits, IInv, TypeOK
  <2>2. UNCHANGED <<instance, Stage, activeRequest, Restore>>
    BY <1>1, SameStage DEF Operation
  <2>3. QED
    BY <2>1, <2>2
<1>2. CASE (\E k \in {"start", "stop"} : Direct(a, k)) \/ Spawn(a) \/ ChildExits(a)
  <2>1. UNCHANGED <<daemon, instance, coordinator, tracked>>
    BY <1>2 DEF Direct, Spawn, ChildExits
  <2>2. QED
    BY <2>1, SameStage
<1>3. ASSUME NEW ok, Settle(a, ok), work[a] # None PROVE [Cycle!Next]_(Cycle!vars)
  <2>1. UNCHANGED <<instance, Stage, activeRequest, Restore>>
    BY <1>3, SettleEffect, SameStage DEF Settle, IInv
  <2>2. tracked' = tracked \ {a} /\ tracked \in SUBSET Apps /\ daemon # "down"
    BY <1>3 DEF Settle, IInv, TypeOK, DownInv
  <2>3. CASE quiescing
    BY <2>1, <2>2, <2>3 DEF IInv, TrackedInv
  <2>4. CASE ~quiescing
    <3>1. Stage = "open"
      BY <2>2, <2>4, StageValue DEF IInv, TypeOK, CoordinatorInv
    <3>2. QED
      BY <2>1, <2>2, <3>1
  <2>5. QED
    BY <2>3, <2>4
<1>4. QED
  BY <1>1, <1>2, <1>3, NoneAssumption DEF EndStart, EndStop

\* The coordinator.
LEMMA CoordinateRefines ==
  ASSUME IInv, IInv', Coordinate
  PROVE  Cycle!Next
<1> USE DEF Cycle!Next, Cycle!GoOn, Cycle!Drop
<1>1. CASE StopsDone
  <2>1. /\ Stage = "stopping" /\ UNCHANGED <<daemon, instance, activeRequest, tracked>>
        /\ shutdown' # None /\ Restore' = Restore
        /\ Stage' \in {"services", "recovering"}
    <3>1. shutdown # None /\ shutdown.phase = "stopping"
      BY <1>1 DEF StopsDone
    <3>2. /\ shutdown' \in Shutdowns /\ shutdown'.restore = shutdown.restore
          /\ shutdown'.phase \in {"services", "recovering"}
      BY <1>1, StopsDoneEffect DEF IInv
    <3>3. shutdown' # None
      BY <3>2, NoneAssumption
    <3>4. Stage' = shutdown'.phase /\ Restore' = shutdown'.restore
      BY <3>3, StageValuePrimed
    <3>5. QED
      BY <1>1, <3>1, <3>2, <3>3, <3>4, StageValue DEF StopsDone
  <2>2. QED
    BY <2>1
<1>2. CASE RecoveryDone
  <2>1. Stage = "recovering" /\ daemon = "up"
    BY <1>2, StageValue DEF RecoveryDone
  <2>2. Stage' = "open" /\ Restore' = {} /\ activeRequest' = None
    BY <1>2, <2>1, StageValuePrimed DEF RecoveryDone, FreeRequest
  <2>3. QED
    BY <1>2, <2>1, <2>2 DEF RecoveryDone
<1>3. CASE ServicesDone
  <2>1. Stage = "services" /\ daemon = "up" /\ Restore = shutdown.restore
    BY <1>3, StageValue DEF ServicesDone
  <2>2. prepared' \in Prepareds /\ prepared'.restore = shutdown.restore
    BY <1>3, ShutdownFields DEF ServicesDone, RestoreList, Prepareds, IInv, TypeOK, CoordinatorInv
  <2>3. Stage' = "prepared" /\ Restore' = Restore
    BY <1>3, <2>1, <2>2, StageValuePrimed, NoneAssumption DEF ServicesDone
  <2>4. QED
    BY <1>3, <2>1, <2>3 DEF ServicesDone
<1>4. CASE Closed
  <2>1. Stage = "closing" /\ quiescing
    BY <1>4, StageValue DEF Closed, IInv, CoordinatorInv
  <2>2. Stage' = "down" /\ Restore' = {} /\ activeRequest' = None
    BY <1>4, StageValuePrimed DEF Closed
  <2>3. tracked' = tracked
    BY <1>4, <2>1 DEF Closed, IInv, TrackedInv
  <2>4. QED
    BY <1>4, <2>1, <2>2, <2>3 DEF Closed
<1>5. QED
  BY <1>1, <1>2, <1>3, <1>4 DEF Coordinate

\* The commands.
LEMMA CommandRefines ==
  ASSUME IInv, IInv', NEW c \in Clients, Command(c) \/ GiveUp(c) \/ Die(c)
  PROVE  [Cycle!Next]_(Cycle!vars)
<1> USE DEF Cycle!Next, Cycle!vars
<1>1. ASSUME UNCHANGED daemonState PROVE UNCHANGED Cycle!vars
  BY <1>1, SameStage DEF daemonState
<1>2. CASE \/ LeaseStep(c) \/ EndStep(c)
           \/ Discover(c) \/ GetPreview(c) \/ StopSeen(c) \/ Verify(c)
  BY <1>1, <1>2 DEF LeaseStep, EndStep, Lease, Unlink, Retry, Release, Report, GiveUp, Die,
     Discover, GetPreview, StopSeen, Verify
<1>3. CASE Start(c) \/ Ensure(c)
  <2>1. ASSUME Boot PROVE Cycle!Boot
    <3>1. Stage = "down" /\ ~quiescing /\ Restore = {}
      BY <2>1, StageValue DEF Boot, IInv, CoordinatorInv
    <3>2. Stage' = "open" /\ Restore' = {}
      BY <2>1, <3>1, StageValuePrimed DEF Boot
    <3>3. QED
      BY <2>1, <3>1, <3>2 DEF Boot, Cycle!Boot
  <2>2. QED
    BY <1>1, <1>3, <2>1 DEF Start, Ensure
<1>4. CASE Prepare(c)
  <2>1. Stage = "open" /\ tracked = {}
    BY <1>4, StageValue DEF Prepare, MayPrepare, IInv, CoordinatorInv
  <2>2. /\ shutdown' \in Shutdowns /\ shutdown'.phase = "stopping"
        /\ shutdown'.restore = children /\ children \in SUBSET Apps
    BY <1>4 DEF Prepare, Shutdowns, Phases, IInv, TypeOK
  <2>3. Stage' = "stopping" /\ Restore' = children
    BY <2>2, StageValuePrimed, NoneAssumption
  <2>4. Cycle!Accept(c, children)
    BY <1>4, <2>1, <2>3 DEF Prepare, Cycle!Accept
  <2>5. QED
    BY <2>2, <2>4
<1>5. CASE Shutdown(c)
  <2>1. Stage = "prepared" /\ Restore = prepared.restore
    BY <1>5, StageValue DEF Shutdown, PreparedFor
  <2>2. Stage' = "closing" /\ Restore' = prepared.restore
    BY <1>5, StageValuePrimed DEF Shutdown, PreparedFor
  <2>3. QED
    BY <1>5, <2>1, <2>2 DEF Shutdown, Cycle!GoOn
<1>6. ASSUME NEW a \in Apps, RestoreApp(c, a) PROVE [Cycle!Next]_(Cycle!vars)
  <2>1. UNCHANGED <<daemon, instance, coordinator>> /\ UNCHANGED <<Stage, Restore>>
    BY <1>6, SameStage DEF RestoreApp
  <2>2. CASE Admits
    <3>1. Stage = "open" /\ tracked' \in SUBSET Apps
      BY <2>2, StageValue DEF Admits, IInv, TypeOK
    <3>2. QED
      BY <2>1, <3>1 DEF Cycle!Operate
  <2>3. CASE ~Admits
    BY <1>6, <2>1, <2>3 DEF RestoreApp
  <2>4. QED
    BY <2>2, <2>3
<1>7. QED
  BY <1>2, <1>3, <1>4, <1>5, <1>6 DEF Command, LeaseStep, EndStep

\* A restart is accepted when no operation is in progress, admits none until it is over,
\* keeps the apps it has to bring back, and the daemon only goes once it was prepared
\* (prepare of daemonRestart.ts, the refusals of api.ts, close of server.ts).
THEOREM RestartsFollowTheCycle == Spec => ImplementsCycle
<1>1. Init => Cycle!Init
  BY DEF Init, Cycle!Init, Stage, Restore
<1>2. ASSUME IInv, IInv', DownInv, [Next]_vars PROVE [Cycle!Next]_(Cycle!vars)
  <2>1. CASE UNCHANGED vars
    BY <2>1, SameStage DEF vars, Cycle!vars
  <2>2. ASSUME NEW a \in Apps, Process(a) PROVE [Cycle!Next]_(Cycle!vars)
    BY <1>2, <2>2, ProcessRefines DEF Process, EndMutation
  <2>3. QED
    BY <1>2, <2>1, <2>2, CoordinateRefines, CommandRefines DEF Next
<1>3. QED
  BY <1>1, <1>2, Invariance, DownIsEmpty, PTL DEF Spec, ImplementsCycle, Cycle!Spec

\* From the moment a daemon accepts a restart until it is over, no lifecycle operation is
\* in progress (prepare, DAEMON_RESTART_QUIESCING).
THEOREM QuiescedMeansQuiet == Spec => []Cycle!NothingMeanwhile
<1>1. Cycle!Init => Cycle!NothingMeanwhile
  BY DEF Cycle!Init, Cycle!NothingMeanwhile
<1>2. Cycle!NothingMeanwhile /\ [Cycle!Next]_(Cycle!vars) => Cycle!NothingMeanwhile'
  BY DEF Cycle!Next, Cycle!vars, Cycle!NothingMeanwhile, Cycle!Operate, Cycle!Accept, Cycle!GoOn,
         Cycle!Drop, Cycle!Boot
<1>3. QED
  BY <1>1, <1>2, RestartsFollowTheCycle, PTL DEF ImplementsCycle, Cycle!Spec

\* A restart that was accepted belongs to its command, with the apps that were found
\* running, until it is given back after a failed stop or the daemon is gone: no other
\* command takes it over (prepare: #activeRequestId, restoreAppIds).
THEOREM RestartsStand == Spec => Cycle!RestartStands
<1>1. IInv /\ Cycle!Next =>
        (activeRequest # None =>
           \/ activeRequest' = activeRequest /\ Restore' = Restore
           \/ activeRequest' = None /\ Stage \in {"recovering", "closing"})
  <2>1. IInv /\ Stage = "open" => activeRequest = None
    BY StageValue DEF IInv, CoordinatorInv
  <2>2. QED
    BY <2>1 DEF Cycle!Next, Cycle!Operate, Cycle!Accept, Cycle!GoOn, Cycle!Drop, Cycle!Boot
<1>2. QED
  BY <1>1, Invariance, RestartsFollowTheCycle, PTL DEF ImplementsCycle, Cycle!Spec, Cycle!RestartStands, Cycle!vars
================================================================================
