---------------------------- MODULE RestartCycle ----------------------------
(***************************************************************************)
(* What the daemon promises to a command that asks it to restart: one      *)
(* restart at a time; while it lasts no operation begins; the apps to      *)
(* restore are those it owned when it accepted, until it gives the restart *)
(* back because a stop failed, or is gone.  A daemon only goes when it was *)
(* prepared, and the next one is the next instance.                        *)
(***************************************************************************)
EXTENDS Naturals

CONSTANTS Clients, Apps, None

VARIABLES
  instance,   \* number of the last daemon
  stage,      \* how far it got with a restart; "open" without one
  request,    \* whose restart it is
  restore,    \* the apps that are to come back
  operations  \* the apps with an operation in progress

vars == <<instance, stage, request, restore, operations>>

Init ==
  /\ instance = 1 /\ stage = "open"
  /\ request = None /\ restore = {} /\ operations = {}

\* Operations begin and end, unless a restart is under way.
Operate ==
  /\ stage = "open"
  /\ operations' \in SUBSET Apps
  /\ UNCHANGED <<instance, stage, request, restore>>

Accept(c, owned) ==
  /\ stage = "open" /\ operations = {}
  /\ stage' = "stopping" /\ request' = c /\ restore' = owned
  /\ UNCHANGED <<instance, operations>>

\* The stops, the services, the answer and the close, in this order.
GoOn(from, to) ==
  /\ stage = from /\ stage' = to
  /\ UNCHANGED <<instance, request, restore, operations>>

\* The restart is over for this daemon.
Drop(from, to) ==
  /\ stage = from /\ stage' = to
  /\ request' = None /\ restore' = {}
  /\ UNCHANGED <<instance, operations>>

Boot ==
  /\ stage = "down" /\ stage' = "open"
  /\ instance' = instance + 1
  /\ UNCHANGED <<request, restore, operations>>

Next ==
  \/ Operate
  \/ \E c \in Clients, owned \in SUBSET Apps : Accept(c, owned)
  \/ GoOn("stopping", "recovering") \/ Drop("recovering", "open")
  \/ GoOn("stopping", "services") \/ GoOn("services", "prepared")
  \/ GoOn("prepared", "closing") \/ Drop("closing", "down")
  \/ Boot

Spec == Init /\ [][Next]_vars

-----------------------------------------------------------------------------
\* What follows. No operation is in progress from the acceptance of a restart to its
\* end, and none while there is no daemon.
NothingMeanwhile == stage # "open" => operations = {}

\* A restart stays that of its command, with the apps it was accepted with, until it
\* is given back after a failed stop or the daemon is gone.
RestartStands ==
  [][request # None =>
       \/ request' = request /\ restore' = restore
       \/ request' = None /\ stage \in {"recovering", "closing"}]_vars
=============================================================================
