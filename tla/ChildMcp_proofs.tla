---------------------------- MODULE ChildMcp_proofs ----------------------------
(***************************************************************************)
(* Proofs about ChildMcp: the inductive invariant IInv, and from it that   *)
(* a child is never abandoned before its stop nor revived after it.        *)
(***************************************************************************)
EXTENDS ChildMcp, FiniteSetTheorems, TLAPS

\* The number of calls in flight is the size of a finite set.
LEMMA InFlightFinite ==
  ASSUME TypeOK
  PROVE  IsFiniteSet(InFlight) /\ inFlight \in Nat /\ (inFlight = 0 <=> InFlight = {})
<1>1. IsFiniteSet(InFlight)
  BY FiniteAssumption, FS_Subset DEF InFlight
<1>2. QED
  BY <1>1, FS_CardinalityType, FS_EmptySet DEF TypeOK

\* What is not about calls does not change their number.
LEMMA SameCalls ==
  ASSUME TypeOK, UNCHANGED <<calls, inFlight>>
  PROVE  inFlight' = Cardinality(InFlight') /\ InFlight' = InFlight
  BY DEF TypeOK, InFlight

\* Ending calls subtracts exactly those that were in flight.
LEMMA CompleteEffect ==
  ASSUME TypeOK, NEW these, these \subseteq InFlight, NEW links, Complete(these, links)
  PROVE  /\ calls' \in [Calls -> Conns \cup {None}]
         /\ inFlight' = Cardinality(InFlight')
         /\ InFlight' = InFlight \ these
         /\ inFlight' = 0 <=> InFlight' = {}
<1>1. InFlight' = InFlight \ these /\ calls' \in [Calls -> Conns \cup {None}]
  BY DEF Complete, InFlight, TypeOK
<1>2. IsFiniteSet(InFlight) /\ IsFiniteSet(these) /\ Cardinality(these) <= Cardinality(InFlight)
  BY InFlightFinite, FS_Subset
<1>3. /\ IsFiniteSet(InFlight \ these)
      /\ Cardinality(InFlight \ these) = Cardinality(InFlight) - Cardinality(InFlight \cap these)
  BY <1>2, FS_Difference
<1>4. InFlight \cap these = these
  OBVIOUS
<1>5. Cardinality(these) \in Nat /\ Cardinality(InFlight) \in Nat
  BY <1>2, InFlightFinite, FS_CardinalityType
<1>6. inFlight' = Cardinality(InFlight')
  <2>1. inFlight = Cardinality(InFlight)
    BY DEF TypeOK
  <2>2. inFlight' = IF Cardinality(these) > inFlight THEN 0 ELSE inFlight - Cardinality(these)
    BY DEF Complete, StillInFlight
  <2>3. inFlight' = Cardinality(InFlight) - Cardinality(these)
    BY <2>1, <2>2, <1>2, <1>5
  <2>4. QED
    BY <2>3, <1>1, <1>3, <1>4
<1>7. inFlight' = 0 <=> InFlight' = {}
  BY <1>1, <1>3, <1>6, FS_EmptySet
<1>8. QED
  BY <1>1, <1>6, <1>7

\* The links Complete leaves: those it was given, or with the client's being closed.
LEMMA CompleteLinks ==
  ASSUME NEW these, NEW links \in [Conns -> {"none", "live", "closing", "closed"}],
         Complete(these, links)
  PROVE  /\ link' \in [Conns -> {"none", "live", "closing", "closed"}]
         /\ \A n \in Conns : link'[n] = "live" => links[n] = "live"
         /\ \/ stop' = stop /\ link' = links
            \/ /\ stop = "draining" /\ stop' = "closing" /\ inFlight' = 0
               /\ \A n \in Conns : link'[n] = "live" => n # client
  BY DEF Complete

-----------------------------------------------------------------------------
\* startApp.
LEMMA InitInv == Init => IInv
<1> SUFFICES ASSUME NEW n \in Conns,
                    /\ status = "starting" /\ accepting = FALSE /\ closing = FALSE
                    /\ timer = FALSE /\ client = n /\ listed = FALSE /\ inFlight = 0
                    /\ attempt = [m \in Conns |-> IF m = n THEN "connecting" ELSE None]
                    /\ link = [m \in Conns |-> IF m = n THEN "live" ELSE "none"]
                    /\ calls = [c \in Calls |-> None]
                    /\ stop = "no" /\ timedOut = FALSE /\ late = FALSE
             PROVE  IInv
  BY DEF Init
<1>1. InFlight = {} /\ inFlight = Cardinality(InFlight)
  BY FS_EmptySet DEF InFlight
<1>2. TypeOK
  BY <1>1 DEF TypeOK
<1>3. n \in Attempting /\ Live(client)
  BY NoneAssumption DEF Attempting, Live
<1>4. CurrentInv
  BY NoneAssumption DEF CurrentInv, Live
<1>5. QED
  BY <1>2, <1>3, <1>4 DEF IInv, StopInv, ClientInv, StopIsFinal

\* The timer opens the next connection.
LEMMA ReconnectInv ==
  ASSUME IInv, Reconnect
  PROVE  IInv'
<1> USE DEF IInv
<1>1. TypeOK'
  BY SameCalls DEF Reconnect, TypeOK
<1>2. stop = "no" /\ stop' = "no" /\ StopInv'
  BY DEF Reconnect, StopInv, TypeOK
<1>3. CASE timer'
  <2>1. UNCHANGED <<client, link, attempt, late, timer>>
    BY <1>3 DEF Reconnect, TypeOK
  <2>2. QED
    BY <1>1, <1>2, <2>1, <1>3 DEF ClientInv, CurrentInv, StopIsFinal, Live
<1>4. CASE ~timer'
  <2>1. PICK n \in Conns :
          /\ link[n] = "none" /\ client' = n /\ link' = [link EXCEPT ![n] = "live"]
          /\ attempt' = [attempt EXCEPT ![n] = "connecting"] /\ timer /\ late' = late
    BY <1>4 DEF Reconnect
  <2>2. Live(client)' /\ n \in Attempting'
    BY <2>1, NoneAssumption DEF Live, Attempting, TypeOK
  <2>3. CurrentInv'
    BY <1>4, <2>1 DEF CurrentInv, Live, TypeOK
  <2>4. QED
    BY <1>1, <1>2, <2>2, <2>3 DEF ClientInv, StopIsFinal
<1>5. QED
  BY <1>3, <1>4

\* Steps that end no connection and no call: what they need is that who connected
\* left the child accepting.
LEMMA QuietInv ==
  ASSUME IInv, TypeOK', UNCHANGED <<closing, timer, client, calls, inFlight, link, stop, timedOut, late>>,
         \A n \in Conns : attempt'[n] = "connecting" => attempt[n] = "connecting",
         accepting' \/ (accepting' = accepting /\ (Attempting # {} => Attempting' # {}))
  PROVE  IInv'
<1> USE DEF IInv
<1>1. StopInv' /\ ClientInv'
  BY DEF StopInv, ClientInv, Live
<1>2. CurrentInv' /\ StopIsFinal'
  BY SameCalls DEF CurrentInv, StopIsFinal, Live
<1>3. QED
  BY <1>1, <1>2

\* Listing: through a client, or as if connected when it is gone.
LEMMA ListingInv ==
  ASSUME IInv, NEW n \in Conns, StartListing(n) \/ EndListing(n) \/ ListChanged(n)
  PROVE  IInv'
<1>1. CASE StartListing(n) /\ Live(client)
  <2>1. client \in Conns /\ attempt' = [attempt EXCEPT ![n] = client]
    BY <1>1 DEF StartListing, Live, IInv, TypeOK
  <2>2. TypeOK'
    BY <1>1, <2>1, SameCalls DEF StartListing, IInv, TypeOK
  <2>3. n \in Attempting'
    BY <2>1, NoneAssumption DEF Attempting, IInv, TypeOK
  <2>4. QED
    BY <1>1, <2>1, <2>2, <2>3, NoneAssumption, QuietInv DEF StartListing, IInv, TypeOK
<1>2. CASE (StartListing(n) /\ ~Live(client)) \/ EndListing(n)
  <2>1. Connected(n) /\ UNCHANGED <<closing, timer, client, inFlight, link, calls, stop, timedOut, late>>
    BY <1>2 DEF StartListing, EndListing
  <2>2. TypeOK'
    BY <1>2, <2>1, SameCalls DEF StartListing, EndListing, Connected, IInv, TypeOK
  <2>3. QED
    BY <2>1, <2>2, QuietInv, NoneAssumption DEF Connected, IInv, TypeOK
<1>3. CASE ListChanged(n)
  <2>1. TypeOK'
    BY <1>3, SameCalls DEF ListChanged, IInv, TypeOK
  <2>2. QED
    BY <1>3, <2>1, QuietInv DEF ListChanged, Attempting
<1>4. QED
  BY <1>1, <1>2, <1>3

\* A connection that could not be made sets the timer, unless the child is stopped.
LEMMA FailConnectingInv ==
  ASSUME IInv, NEW n \in Conns, FailConnecting(n)
  PROVE  IInv'
<1> USE DEF IInv
<1>1. /\ attempt' = [attempt EXCEPT ![n] = None]
      /\ client' = (IF client = n THEN None ELSE client)
      /\ link' = [link EXCEPT ![n] = IF link[n] = "live" THEN "closing" ELSE link[n]]
      /\ UNCHANGED <<closing, listed, inFlight, calls, stop, timedOut, late>>
      /\ accepting' = FALSE
      /\ status' \in {"errored", "restarting"}
      /\ timer' \in BOOLEAN /\ (closing => timer' = timer) /\ (~closing => timer')
  BY DEF FailConnecting, ClientWithout, Schedule, TypeOK
<1>2. TypeOK'
  BY <1>1, SameCalls DEF TypeOK
<1>3. StopInv' /\ ClientInv'
  BY <1>1 DEF StopInv, ClientInv
<1>4. attempt[n] = "connecting" /\ \A m \in Conns : Live(m)' => Live(m) /\ m # n
  BY <1>1 DEF FailConnecting, Live, TypeOK
<1>5. CurrentInv'
  BY <1>1, <1>4, NoneAssumption DEF CurrentInv, StopInv, TypeOK
<1>6. StopIsFinal'
  BY <1>1, <1>4, SameCalls DEF StopIsFinal, StopInv, TypeOK
<1>7. QED
  BY <1>2, <1>3, <1>5, <1>6

\* A call goes through a live client only.
LEMMA CallInv ==
  ASSUME IInv, NEW c \in Calls, Call(c)
  PROVE  IInv'
<1> USE DEF IInv
<1>1. client \in Conns /\ calls' = [calls EXCEPT ![c] = client] /\ inFlight' = inFlight + 1
  BY DEF Call, Live, TypeOK
<1>2. InFlight' = InFlight \cup {c} /\ c \notin InFlight
  BY <1>1, NoneAssumption DEF InFlight, Call, TypeOK
<1>3. inFlight' = Cardinality(InFlight')
  BY <1>1, <1>2, InFlightFinite, FS_AddElement DEF TypeOK
<1>4. TypeOK'
  BY <1>1, <1>3 DEF Call, TypeOK
<1>5. UNCHANGED <<closing, timer, client, link, attempt, accepting, stop, timedOut, late>>
  BY DEF Call
<1>6. StopInv' /\ ClientInv' /\ CurrentInv'
  BY <1>5 DEF StopInv, ClientInv, CurrentInv, Live, Attempting
<1>7. StopIsFinal'
  BY <1>1, <1>5 DEF StopIsFinal, Live, Call
<1>8. QED
  BY <1>4, <1>6, <1>7

\* The end of a call may end the drain of a stop.
LEMMA EndCallInv ==
  ASSUME IInv, NEW c \in Calls, EndCall(c)
  PROVE  IInv'
<1> USE DEF IInv
<1>1. {c} \subseteq InFlight /\ Complete({c}, link)
  BY DEF EndCall, InFlight
<1>2. UNCHANGED <<status, accepting, closing, timer, client, listed, attempt, timedOut, late>>
  BY DEF EndCall
<1>3. /\ link' \in [Conns -> {"none", "live", "closing", "closed"}]
      /\ \A n \in Conns : Live(n)' => Live(n)
      /\ \/ stop' = stop /\ link' = link
         \/ /\ stop = "draining" /\ stop' = "closing" /\ inFlight' = 0
            /\ \A n \in Conns : Live(n)' => n # client
  BY <1>1, CompleteLinks DEF TypeOK, Live
<1>4. TypeOK'
  BY <1>1, <1>2, <1>3, CompleteEffect DEF TypeOK
<1>5. StopInv' /\ ClientInv' /\ CurrentInv'
  BY <1>2, <1>3 DEF StopInv, ClientInv, CurrentInv, Live, Attempting
<1>6. StopIsFinal'
  BY <1>1, <1>2, <1>3, CompleteEffect DEF StopIsFinal, StopInv, CurrentInv
<1>7. QED
  BY <1>4, <1>5, <1>6

\* A close event of the current client sets the timer, that of another one is late.
LEMMA CloseEventInv ==
  ASSUME IInv, NEW n \in Conns, CloseEvent(n)
  PROVE  IInv'
<1> USE DEF IInv
<1> DEFINE links == [link EXCEPT ![n] = "closed"]
<1>1. CallsOn(n) \subseteq InFlight /\ Complete(CallsOn(n), links)
  BY NoneAssumption DEF CloseEvent, CallsOn, InFlight
<1>2. /\ timer' = (timer \/ ~closing)
      /\ client' = client \/ (client = n /\ client' = None)
      /\ late' = (late \/ client \notin {n, None})
      /\ UNCHANGED <<closing, timedOut>>
  BY DEF CloseEvent, ClientWithout
<1>3. \A m \in Conns : attempt'[m] = "connecting" => attempt[m] = "connecting" /\ m # n
  BY NoneAssumption DEF CloseEvent, TypeOK
<1>4. links \in [Conns -> {"none", "live", "closing", "closed"}]
  BY DEF TypeOK
<1>5. /\ link' \in [Conns -> {"none", "live", "closing", "closed"}]
      /\ \A m \in Conns : Live(m)' => Live(m) /\ m # n
      /\ \/ stop' = stop
         \/ stop = "draining" /\ stop' = "closing" /\ inFlight' = 0
  BY <1>1, <1>4, CompleteLinks DEF TypeOK, Live
<1>6. /\ attempt' \in [Conns -> Conns \cup {None, "connecting"}]
      /\ status' \in {"connected", "errored", "stopped", "restarting"}
      /\ accepting' \in BOOLEAN /\ listed' = FALSE
  BY DEF CloseEvent, TypeOK
<1>7. TypeOK'
  BY <1>1, <1>2, <1>5, <1>6, CompleteEffect DEF TypeOK
<1>8. StopInv' /\ ClientInv'
  BY <1>2, <1>5 DEF StopInv, ClientInv, TypeOK
<1>9. ~late' => \A m \in Conns : ~Live(m)' /\ attempt'[m] # "connecting"
  BY <1>2, <1>3, <1>5, NoneAssumption DEF CurrentInv
<1>10. CurrentInv'
  BY <1>9 DEF CurrentInv
<1>11. StopIsFinal'
  BY <1>1, <1>2, <1>5, <1>9, CompleteEffect DEF StopIsFinal, StopInv
<1>12. QED
  BY <1>7, <1>8, <1>10, <1>11

\* #stopChild.
LEMMA StopStepInv ==
  ASSUME IInv, Stop \/ DrainTimeout \/ EndStop
  PROVE  IInv'
<1> USE DEF IInv
<1>1. CASE Stop
  <2>1. TypeOK'
    <3>1. Disconnected \in [Conns -> {"none", "live", "closing", "closed"}]
      BY DEF Disconnected, TypeOK
    <3>2. /\ timer' = FALSE /\ closing' = TRUE /\ accepting' = FALSE
          /\ status' \in {"stopped", "draining"}
          /\ UNCHANGED <<client, listed, inFlight, attempt, calls, late>>
      BY <1>1 DEF Stop, TimerCleared
    <3>3. /\ stop' \in {"draining", "closing"} /\ link' \in {link, Disconnected}
          /\ timedOut' = timedOut \/ timedOut' = (inFlight > 0)
      BY <1>1 DEF Stop
    <3>4. timedOut' \in BOOLEAN
      <4>1. CASE timedOut' = timedOut
        BY <4>1 DEF TypeOK
      <4>2. CASE timedOut' = (inFlight > 0)
        <5>1. CASE inFlight > 0
          BY <4>2, <5>1
        <5>2. CASE ~(inFlight > 0)
          BY <4>2, <5>2
        <5>3. QED
          BY <5>1, <5>2
      <4>3. QED
        BY <3>3, <4>1, <4>2
    <3>5. QED
      BY <3>1, <3>2, <3>3, <3>4, SameCalls DEF TypeOK
  <2>2. ~timer' /\ closing' /\ UNCHANGED <<client, attempt, calls, inFlight, late>>
    BY <1>1 DEF Stop, TimerCleared
  <2>3. \/ stop' = "draining" /\ link' = link
        \/ stop' = "closing" /\ link' = Disconnected /\ timedOut' = (inFlight > 0)
    BY <1>1 DEF Stop
  <2>4. \A n \in Conns : Live(n)' => Live(n) /\ (stop' = "closing" => n # client)
    BY <2>3 DEF Live, Disconnected, TypeOK
  <2>5. StopInv' /\ ClientInv' /\ CurrentInv'
    BY <2>2, <2>3, <2>4 DEF StopInv, ClientInv, CurrentInv
  <2>6. timedOut' \/ InFlight' = {} \/ stop' = "draining"
    <3>1. InFlight' = InFlight /\ inFlight \in Nat /\ (inFlight = 0 <=> InFlight = {})
      BY <2>2, InFlightFinite, SameCalls
    <3>2. CASE inFlight > 0
      BY <2>3, <3>2
    <3>3. CASE inFlight = 0
      BY <3>1, <3>3
    <3>4. QED
      BY <3>1, <3>2, <3>3
  <2>7. StopIsFinal'
    BY <2>2, <2>3, <2>4, <2>6 DEF StopIsFinal, CurrentInv
  <2>8. QED
    BY <2>1, <2>5, <2>7
<1>2. CASE DrainTimeout
  <2>1. TypeOK'
    BY <1>2, SameCalls DEF DrainTimeout, Disconnected, TypeOK
  <2>2. /\ stop = "draining" /\ stop' = "closing" /\ timedOut' = TRUE
        /\ UNCHANGED <<timer, closing, client, attempt, late>>
        /\ \A n \in Conns : Live(n)' => Live(n) /\ n # client
    BY <1>2 DEF DrainTimeout, Disconnected, Live, TypeOK
  <2>3. QED
    BY <2>1, <2>2 DEF StopInv, ClientInv, CurrentInv, StopIsFinal
<1>3. CASE EndStop
  <2>1. TypeOK'
    BY <1>3, SameCalls DEF EndStop, TypeOK
  <2>2. /\ stop = "closing" /\ stop' = "done"
        /\ UNCHANGED <<timer, closing, client, attempt, late, link, calls, timedOut>>
    BY <1>3 DEF EndStop
  <2>3. QED
    BY <2>1, <2>2 DEF StopInv, ClientInv, CurrentInv, StopIsFinal, Live, InFlight
<1>4. QED
  BY <1>1, <1>2, <1>3

-----------------------------------------------------------------------------
\* One lemma for every kind of step.
LEMMA StepInv == IInv /\ [Next]_vars => IInv'
<1> SUFFICES ASSUME IInv, [Next]_vars PROVE IInv'
  OBVIOUS
<1>1. CASE UNCHANGED vars
  <2>1. TypeOK'
    BY <1>1, SameCalls DEF vars, IInv, TypeOK
  <2>2. QED
    BY <1>1, <2>1, QuietInv DEF vars, Attempting
<1>2. CASE Next
  BY <1>2, ReconnectInv, ListingInv, FailConnectingInv, CloseEventInv, CallInv, EndCallInv,
     StopStepInv DEF Next
<1>3. QED
  BY <1>1, <1>2

\* The invariant of the supervisor, from which the rest follows.
THEOREM Invariance == Spec => []IInv
<1>1. QED
  BY InitInv, StepInv, PTL DEF Spec

\* No call is counted twice or forgotten (#completeInFlight), and the variables
\* have their types.
THEOREM CallsAreCounted == Spec => []TypeOK
<1>1. IInv => TypeOK
  BY DEF IInv
<1>2. QED
  BY <1>1, Invariance, PTL

\* A child that was not stopped is connected, being connected or will be
\* (#handleChildClosed, #scheduleRestart).
THEOREM ChildrenComeBack == Spec => []NeverAbandoned
<1>1. IInv => NeverAbandoned
  BY DEF IInv, ClientInv, NeverAbandoned
<1>2. QED
  BY <1>1, Invariance, PTL

\* Nothing revives a stopped child, and what it leaves behind is what the code gave
\* up knowingly (#stopChild).
THEOREM StopsAreFinal == Spec => []StopIsFinal
<1>1. IInv => StopIsFinal
  BY DEF IInv
<1>2. QED
  BY <1>1, Invariance, PTL
=============================================================================
