--------------------------- MODULE ApprovalLedger ---------------------------
(***************************************************************************)
(* What the agent's approvals promise to the person who decides them: an   *)
(* approval is asked for once, stays open, over restarts too, until it is  *)
(* approved or rejected for good, and its tool begins to execute exactly   *)
(* when it is approved: never before, never after a rejection and never    *)
(* twice, whatever is cancelled, tightened or restarted meanwhile.         *)
(***************************************************************************)
CONSTANTS ApprovalIds, RunIds, None

VARIABLES
  decision,  \* the durable status of each approval
  owner,     \* the run it was asked for
  executing  \* the approvals whose tool is being executed

Open == {"pending", "recovered_pending"}

Init ==
  /\ decision = [p \in ApprovalIds |-> "absent"]
  /\ owner = [p \in ApprovalIds |-> None]
  /\ executing = {}

Ask(p, r) ==
  /\ decision[p] = "absent"
  /\ decision' = [decision EXCEPT ![p] = "pending"]
  /\ owner' = [owner EXCEPT ![p] = r]
  /\ UNCHANGED executing

\* One tool of a run at a time.
Approve(p) ==
  /\ decision[p] \in Open
  /\ \A q \in executing : owner[q] # owner[p]
  /\ decision' = [decision EXCEPT ![p] = "approved"]
  /\ executing' = executing \cup {p}
  /\ UNCHANGED owner

\* Whatever is open for these runs is rejected: a person rejected one of a run's
\* approvals, or the run was cancelled or failed.
Reject(these) ==
  /\ decision' = [p \in ApprovalIds |->
                    IF decision[p] \in Open /\ owner[p] \in these THEN "rejected"
                    ELSE decision[p]]
  /\ UNCHANGED <<owner, executing>>

\* The tool returned, or threw.
Finish(p) ==
  /\ p \in executing
  /\ executing' = executing \ {p}
  /\ UNCHANGED <<decision, owner>>

\* The daemon was replaced, in the middle of whatever was executing: that is not
\* offered again.
Recover ==
  /\ decision' = [p \in ApprovalIds |->
                    IF decision[p] = "pending" THEN "recovered_pending" ELSE decision[p]]
  /\ executing' = {}
  /\ UNCHANGED owner

Next ==
  \/ \E p \in ApprovalIds, r \in RunIds : Ask(p, r)
  \/ \E p \in ApprovalIds : Approve(p) \/ Finish(p)
  \/ \E these \in SUBSET RunIds : Reject(these)
  \/ Recover

vars == <<decision, owner, executing>>
Spec == Init /\ [][Next]_vars

-----------------------------------------------------------------------------
\* What follows. A decision is final, and a tool begins to execute only in the step
\* that approves it: so it executes at most once.
ExecutedOnce ==
  [][\A p \in ApprovalIds :
       /\ decision[p] \in {"approved", "rejected"} => decision'[p] = decision[p]
       /\ p \in executing' \ executing => decision[p] \in Open /\ decision'[p] = "approved"]_vars

\* A run executes one approved tool at a time.
OneToolPerRun == \A p, q \in executing : owner[p] = owner[q] => p = q
=============================================================================
