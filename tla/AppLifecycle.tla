---------------------------- MODULE AppLifecycle ----------------------------
(***************************************************************************)
(* What the process manager promises to whoever asks it for an action or   *)
(* watches the status of an app: actions of an app come one at a time and  *)
(* in the documented order (docs/architecture.md:87-105), starting and     *)
(* stopping are only reported while an action is at the part of it that    *)
(* they name, every end of an action is one of a few verdicts, and between *)
(* actions an app can only fall.                                           *)
(***************************************************************************)
CONSTANTS Apps, None

VARIABLES
  doing,   \* the action in progress for an app
  phase,   \* how far it got
  status   \* what is reported of the app

Actions == {"start", "stop", "restart"}

Init ==
  /\ doing = [a \in Apps |-> None]
  /\ phase = [a \in Apps |-> "idle"]
  /\ status = [a \in Apps |-> "none"]

\* An action of an app begins only when it has none.
Begin(a, action) ==
  /\ phase[a] = "idle"
  /\ doing' = [doing EXCEPT ![a] = action]
  /\ phase' = [phase EXCEPT ![a] = IF action = "start" THEN "port" ELSE "asked"]
  /\ UNCHANGED status

Moves(a, from, to) == phase[a] = from /\ phase' = [phase EXCEPT ![a] = to]
Reports(a, state) == status' = [status EXCEPT ![a] = state]
Ends(a, from) == Moves(a, from, "idle") /\ doing' = [doing EXCEPT ![a] = None]

\* The first thing a stop does.
TakeDown(a) ==
  /\ Moves(a, "asked", "down")
  /\ Reports(a, "stopping")
  /\ UNCHANGED doing

\* A stop, or a restart that was aborted, ends with the verdict of its clean-up.
EndDown(a, verdict) ==
  /\ doing[a] # "start"
  /\ Ends(a, "down")
  /\ Reports(a, verdict)

\* The verdict of a restart's first half, which goes on whatever that is.
Turn(a, verdict) ==
  /\ doing[a] = "restart"
  /\ Moves(a, "down", "port")
  /\ Reports(a, verdict)
  /\ UNCHANGED doing

\* There is no port for the app, or it runs already: nothing was launched.
EndPort(a, state) ==
  /\ doing[a] # "stop"
  /\ state \in {status[a], "running", "conflict"}
  /\ Ends(a, "port")
  /\ Reports(a, state)

Launch(a) ==
  /\ doing[a] # "stop"
  /\ Moves(a, "port", "launch")
  /\ Reports(a, "starting")
  /\ UNCHANGED doing

\* The launch failed, and its clean-up begins.
Fail(a) ==
  /\ phase[a] = "launch"
  /\ status[a] \in {"starting", "stopped"}
  /\ Reports(a, "errored")
  /\ UNCHANGED <<doing, phase>>

EndLaunch(a, verdict) ==
  /\ Ends(a, "launch")
  /\ Reports(a, verdict)

\* The child of an app exits. A verdict of an action is never overturned.
Fall(a, verdict) ==
  /\ status[a] \in {"running", "starting", "stopping"}
  /\ Reports(a, verdict)
  /\ UNCHANGED <<doing, phase>>

Next ==
  \E a \in Apps :
    \/ \E action \in Actions : Begin(a, action)
    \/ TakeDown(a) \/ Launch(a) \/ Fail(a)
    \/ \E verdict \in {"stopped", "errored"} :
         EndDown(a, verdict) \/ Turn(a, verdict) \/ Fall(a, verdict)
    \/ \E state \in {status[a], "running", "conflict"} : EndPort(a, state)
    \/ \E verdict \in {"running", "errored"} : EndLaunch(a, verdict)

Spec == Init /\ [][Next]_<<doing, phase, status>>

-----------------------------------------------------------------------------
\* What follows for a client that polls: an app reported starting or stopping has an
\* action under way that is at that part of it, and no action reports stopping again
\* once it looks for a port.
StatusTellsPhase ==
  \A a \in Apps :
    /\ status[a] = "starting" => phase[a] = "launch"
    /\ status[a] = "stopping" => phase[a] = "down"
    /\ doing[a] = None <=> phase[a] = "idle"
=============================================================================
