------------------------------- MODULE ChildMcp -------------------------------
(***************************************************************************)
(* One child MCP server of an app, as ChildMcpSupervisor (childMcp.ts)     *)
(* keeps it from startApp to the end of stopApp: connecting, listing what  *)
(* the child offers, calls, unexpected closes, reconnecting after a        *)
(* backoff, draining and closing.  The children of an app are started and  *)
(* stopped one after the other and share nothing else, and a later start   *)
(* makes a new ChildRuntime: one of them is the whole state.               *)
(*                                                                         *)
(* A connection is a client of the MCP SDK with its transport.  Its close  *)
(* event may come unasked, or any time after close() was called, also when *)
(* the next connection has been opened already.  What awaits an answer of  *)
(* a closed connection is rejected in the microtasks of that event.        *)
(*                                                                         *)
(* Left out: what is listed (only whether anything is), the length of the  *)
(* backoff, events and views.                                              *)
(***************************************************************************)
EXTENDS Naturals, FiniteSets

CONSTANTS
  Conns,  \* connections, never opened twice
  Calls,  \* bound: calls in flight at the same time
  None

ASSUME NoneAssumption == None \notin Conns \cup {"connecting"} /\ "connecting" \notin Conns
ASSUME FiniteAssumption == IsFiniteSet(Calls)

VARIABLES
  status,    \* child.status
  accepting, \* child.acceptingCalls
  closing,   \* child.closing
  timer,     \* child.restartTimer is set
  client,    \* child.client
  listed,    \* the child exposes a tool, resource or prompt
  inFlight,  \* child.inFlight
  attempt,   \* #connectChild of a connection: connecting, or listing through a client
  link,      \* state of a connection
  calls,     \* the connection each call awaits
  stop,      \* how far #stopChild got
  timedOut,  \* the drain was given up
  late       \* history: a connection closed when another one had replaced it

vars == <<status, accepting, closing, timer, client, listed, inFlight, attempt, link, calls,
          stop, timedOut, late>>

Live(n) == n # None /\ link[n] = "live"
Attempting == {n \in Conns : attempt[n] # None}
ListingThrough(n) == {m \in Conns : attempt[m] = n}
CallsOn(n) == {c \in Calls : calls[c] = n}
InFlight == {c \in Calls : calls[c] # None}

\* startApp: the child is created and connected.
Init ==
  \E n \in Conns :
    /\ status = "starting"
    /\ accepting = FALSE
    /\ closing = FALSE
    /\ timer = FALSE
    /\ client = n
    /\ listed = FALSE
    /\ inFlight = 0
    /\ attempt = [m \in Conns |-> IF m = n THEN "connecting" ELSE None]
    /\ link = [m \in Conns |-> IF m = n THEN "live" ELSE "none"]
    /\ calls = [c \in Calls |-> None]
    /\ stop = "no"
    /\ timedOut = FALSE
    /\ late = FALSE

\* As below, but not while the child is connecting.
ScheduleIfIdle == IF closing \/ timer \/ Attempting # {}
                    THEN status' = "errored" /\ UNCHANGED timer
                    ELSE status' = "restarting" /\ timer' = TRUE

\* #scheduleRestart of a child that is errored.
Schedule == IF closing \/ timer THEN status' = "errored" /\ UNCHANGED timer
                                ELSE status' = "restarting" /\ timer' = TRUE

\* The close of the current client is asked for.
Disconnected == [n \in Conns |-> IF n = client /\ link[n] = "live" THEN "closing" ELSE link[n]]

\* The end of #connectChild. The listings swallow their errors: it gets here even if
\* the connection is lost while they are awaited.
Connected(n) ==
  /\ attempt' = [attempt EXCEPT ![n] = None]
  /\ status' = "connected"
  /\ accepting' = TRUE

-----------------------------------------------------------------------------
(* #connectChild                                                           *)

\* The timer fires and a connection is opened; the transport may be refused at once.
Reconnect ==
  /\ timer
  /\ accepting' = FALSE
  /\ closing' = FALSE
  /\ \/ /\ \E n \in Conns :
             /\ link[n] = "none"
             /\ client' = n
             /\ link' = [link EXCEPT ![n] = "live"]
             /\ attempt' = [attempt EXCEPT ![n] = "connecting"]
        /\ status' = "starting"
        /\ timer' = FALSE
     \/ /\ status' = "restarting"
        /\ UNCHANGED <<timer, client, link, attempt>>
  /\ UNCHANGED <<listed, inFlight, calls, stop, timedOut, late>>

\* The child answered. Its offer is asked for through whichever client is current.
StartListing(n) ==
  /\ attempt[n] = "connecting" /\ Live(n)
  /\ IF Live(client)
       THEN attempt' = [attempt EXCEPT ![n] = client] /\ UNCHANGED <<status, accepting, listed>>
       ELSE Connected(n) /\ listed' = FALSE
  /\ UNCHANGED <<closing, timer, client, inFlight, link, calls, stop, timedOut, late>>

EndListing(n) ==
  /\ attempt[n] \in Conns /\ Live(attempt[n])
  /\ Connected(n)
  /\ listed' \in BOOLEAN
  /\ UNCHANGED <<closing, timer, client, inFlight, link, calls, stop, timedOut, late>>

ClientWithout(n) == IF client = n THEN None ELSE client

\* The connection could not be made; what there is of it is closed.
FailConnecting(n) ==
  /\ attempt[n] = "connecting"
  /\ attempt' = [attempt EXCEPT ![n] = None]
  /\ client' = ClientWithout(n)
  /\ link' = [link EXCEPT ![n] = IF link[n] = "live" THEN "closing" ELSE link[n]]
  /\ accepting' = FALSE
  /\ Schedule
  /\ UNCHANGED <<closing, listed, inFlight, calls, stop, timedOut, late>>

\* #handleChildListChanged: a connected child says that its offer changed.
ListChanged(n) ==
  /\ Live(n) /\ attempt[n] # "connecting"
  /\ listed' \in BOOLEAN
  /\ UNCHANGED <<status, accepting, closing, timer, client, inFlight, attempt, link, calls, stop,
                 timedOut, late>>

-----------------------------------------------------------------------------
(* Calls, and the end of a connection                                      *)

\* callTool, readResource and getPrompt; stopApp has not forgotten the child.
Call(c) ==
  /\ calls[c] = None
  /\ stop # "done"
  /\ listed
  /\ status = "connected" /\ accepting
  /\ Live(client)
  /\ calls' = [calls EXCEPT ![c] = client]
  /\ inFlight' = inFlight + 1
  /\ UNCHANGED <<status, accepting, closing, timer, client, listed, attempt, link, stop,
                 timedOut, late>>

Uncounted(these) == inFlight

\* #completeInFlight of several calls.
StillInFlight(these) ==
  IF Cardinality(these) > inFlight THEN 0 ELSE inFlight - Cardinality(these)

\* When the last call has ended, a drain goes on to the close of the client.
Complete(these, links) ==
  /\ calls' = [c \in Calls |-> IF c \in these THEN None ELSE calls[c]]
  /\ inFlight' = StillInFlight(these)
  /\ IF stop = "draining" /\ inFlight' = 0 /\ these # {}
       THEN /\ stop' = "closing"
            /\ link' = [n \in Conns |-> IF n = client /\ links[n] = "live" THEN "closing"
                                                                         ELSE links[n]]
       ELSE /\ link' = links
            /\ UNCHANGED stop

EndCall(c) ==
  /\ calls[c] # None
  /\ Complete({c}, link)
  /\ UNCHANGED <<status, accepting, closing, timer, client, listed, attempt, timedOut, late>>

\* The transport closed: #handleChildClosed, and then what awaited an answer of it.
\* A listing ends as if connected; connecting fails.
CloseEvent(n) ==
  /\ link[n] \in {"live", "closing"}
  /\ Complete(CallsOn(n), [link EXCEPT ![n] = "closed"])
  /\ listed' = FALSE
  /\ timer' = (timer \/ ~closing)
  /\ attempt' = [m \in Conns |-> IF attempt[m] = n \/ (m = n /\ attempt[m] = "connecting")
                                   THEN None ELSE attempt[m]]
  /\ IF attempt[n] = "connecting" THEN client' = ClientWithout(n) ELSE UNCHANGED client
  /\ \/ ListingThrough(n) # {} /\ status' = "connected" /\ accepting' = TRUE
     \/ attempt[n] = "connecting" /\ status' = "errored" /\ accepting' = FALSE
     \/ /\ ListingThrough(n) = {} /\ attempt[n] # "connecting"
        /\ status' = IF closing THEN "stopped" ELSE IF timer THEN "errored" ELSE "restarting"
        /\ accepting' = FALSE
  /\ late' = (late \/ client \notin {n, None})
  /\ UNCHANGED <<closing, timedOut>>

-----------------------------------------------------------------------------
(* #stopChild                                                              *)

TimerLeft == UNCHANGED timer
TimerCleared == timer' = FALSE

\* With a drain timeout of 0 (startApp, close) nothing is waited for.
Stop ==
  /\ stop = "no"
  /\ TimerCleared
  /\ closing' = TRUE
  /\ accepting' = FALSE
  /\ status' = IF client = None THEN "stopped" ELSE "draining"
  /\ \/ inFlight > 0 /\ stop' = "draining" /\ UNCHANGED <<link, timedOut>>
     \/ stop' = "closing" /\ link' = Disconnected /\ timedOut' = (inFlight > 0)
  /\ UNCHANGED <<client, listed, inFlight, attempt, calls, late>>

DrainTimeout ==
  /\ stop = "draining"
  /\ stop' = "closing"
  /\ link' = Disconnected
  /\ timedOut' = TRUE
  /\ UNCHANGED <<status, accepting, closing, timer, client, listed, inFlight, attempt, calls, late>>

\* client.close() returned, and stopApp forgets the child.
EndStop ==
  /\ stop = "closing"
  /\ stop' = "done"
  /\ status' = "stopped"
  /\ listed' = FALSE
  /\ UNCHANGED <<accepting, closing, timer, client, inFlight, attempt, link, calls, timedOut, late>>

-----------------------------------------------------------------------------
Next ==
  \/ Reconnect
  \/ \E n \in Conns : StartListing(n) \/ EndListing(n) \/ FailConnecting(n)
  \/ \E n \in Conns : ListChanged(n) \/ CloseEvent(n)
  \/ \E c \in Calls : Call(c) \/ EndCall(c)
  \/ Stop \/ DrainTimeout \/ EndStop

Spec == Init /\ [][Next]_vars

-----------------------------------------------------------------------------
(* Properties                                                              *)

\* The child is what its type says, and no call is counted twice or forgotten.
TypeOK ==
  /\ status \in {"stopped", "starting", "connected", "errored", "restarting", "draining"}
  /\ accepting \in BOOLEAN
  /\ closing \in BOOLEAN
  /\ timer \in BOOLEAN
  /\ client \in Conns \cup {None}
  /\ listed \in BOOLEAN
  /\ inFlight = Cardinality(InFlight)
  /\ attempt \in [Conns -> Conns \cup {None, "connecting"}]
  /\ link \in [Conns -> {"none", "live", "closing", "closed"}]
  /\ calls \in [Calls -> Conns \cup {None}]
  /\ stop \in {"no", "draining", "closing", "done"}
  /\ timedOut \in BOOLEAN
  /\ late \in BOOLEAN

\* "When a child closes unexpectedly, Relaybase schedules restart" (docs/mcp.md:138):
\* until it is stopped, a child that is not connected is being connected or has
\* its timer set, whatever attempts and late close events overlap.
NeverAbandoned ==
  stop = "no" => \/ timer
                 \/ Attempting # {}
                 \/ accepting /\ Live(client)

\* "stops accepting new child calls before stop, waits for in-flight calls to drain,
\* closes child transports" (docs/mcp.md:136): once the drain is over nothing will
\* revive the child, and unless a close event came late no connection is left
\* open and the calls not answered are those the timeout gave up.
StopIsFinal ==
  stop \in {"closing", "done"} =>
    /\ ~timer /\ closing
    /\ \/ late
       \/ (\A n \in Conns : ~Live(n)) /\ (timedOut \/ InFlight = {})
-----------------------------------------------------------------------------
(* The inductive invariant, for the proofs                                 *)

\* A stop closes the child for its timer, for good.
StopInv == IF stop = "no" THEN ~closing ELSE closing /\ ~timer

\* Until then the current client is live, or its end has set the timer, and it is
\* accepting calls if nobody is connecting or listing.
ClientInv == stop = "no" /\ ~timer => Live(client) /\ (accepting \/ Attempting # {})

\* Unless a close event came late, only the current client is live or connecting.
CurrentInv ==
  ~late => \A n \in Conns : Live(n) \/ attempt[n] = "connecting" => n = client /\ ~timer

IInv == TypeOK /\ StopInv /\ ClientInv /\ CurrentInv /\ StopIsFinal
=============================================================================
