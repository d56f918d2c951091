-------------------------- MODULE OperationLedger --------------------------
(***************************************************************************)
(* What the operation ledger promises to whoever reads it, now or after a  *)
(* restart: a record is created queued (or, for evidence, concluded), runs, *)
(* is concluded once, and is at most evicted afterwards.                   *)
(***************************************************************************)
CONSTANTS OpIds, Apps, None

VARIABLES
  row,      \* the durable status of each record
  subject   \* the app a record is about

Open == {"queued", "running"}
Outcomes == {"succeeded", "failed", "timed_out"}

Init ==
  /\ row = [o \in OpIds |-> "absent"]
  /\ subject = [o \in OpIds |-> None]

\* Eviction is only for concluded records.
KeptOrEvicted(o) == row'[o] = row[o] \/ (row[o] \in Outcomes /\ row'[o] = "evicted")

\* A new open record, only if its app has none.
Create(o, a) ==
  /\ row[o] = "absent"
  /\ \A p \in OpIds : subject[p] = a => row[p] \notin Open
  /\ row' = [row EXCEPT ![o] = "queued"]
  /\ subject' = [subject EXCEPT ![o] = a]

\* A record that is concluded from the start; older ones may be evicted for it,
\* and a store that keeps nothing evicts it at once.
Record(o, a) ==
  /\ row[o] = "absent"
  /\ subject' = [subject EXCEPT ![o] = a]
  /\ row' \in [OpIds -> Open \cup Outcomes \cup {"absent", "evicted"}]
  /\ row'[o] \in Outcomes \cup {"evicted"}
  /\ \A p \in OpIds \ {o} : KeptOrEvicted(p)

Begin(o) ==
  /\ row[o] = "queued"
  /\ row' = [row EXCEPT ![o] = "running"]
  /\ UNCHANGED subject

Conclude(o, outcome) ==
  /\ row[o] = "running"
  /\ row' = [row EXCEPT ![o] = outcome]
  /\ UNCHANGED subject

\* Shutdown concludes every record in S as failed, at once.
Interrupt(S) ==
  /\ \A o \in S : row[o] \in Open
  /\ row' = [o \in OpIds |-> IF o \in S THEN "failed" ELSE row[o]]
  /\ UNCHANGED subject

Evict(S) ==
  /\ \A o \in S : row[o] \in Outcomes
  /\ row' = [o \in OpIds |-> IF o \in S THEN "evicted" ELSE row[o]]
  /\ UNCHANGED subject

\* A new daemon opens the ledger: nothing stays open.
Recover ==
  /\ row' \in [OpIds -> Outcomes \cup {"absent", "evicted"}]
  /\ \A o \in OpIds : IF row[o] \in Open THEN row'[o] \in {"failed", "evicted"}
                                          ELSE KeptOrEvicted(o)
  /\ UNCHANGED subject

Next ==
  \/ \E o \in OpIds, a \in Apps : Create(o, a) \/ Record(o, a)
  \/ \E o \in OpIds : Begin(o)
  \/ \E o \in OpIds, outcome \in Outcomes : Conclude(o, outcome)
  \/ \E S \in SUBSET OpIds : Interrupt(S) \/ Evict(S)
  \/ Recover

vars == <<row, subject>>
Spec == Init /\ [][Next]_vars

-----------------------------------------------------------------------------
\* What follows. A record that is concluded says so for good, until it is evicted;
\* it stays evicted, and is about one app all along.
ConcludedForGood ==
  [][\A o \in OpIds :
       /\ row[o] # "absent" => subject'[o] = subject[o] /\ row'[o] # "absent"
       /\ row[o] \in Outcomes => row'[o] \in {row[o], "evicted"}
       /\ row[o] = "evicted" => row'[o] = "evicted"]_vars

\* An app has one open record at most, whatever its daemon lives through.
OneOpenPerApp ==
  \A o, p \in OpIds : row[o] \in Open /\ row[p] \in Open /\ subject[o] = subject[p] => o = p
=============================================================================
