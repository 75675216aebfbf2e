----------------------------- MODULE ClientProofs -----------------------------
(***************************************************************************)
(* Safety of the clients through which a service reaches others.  The      *)
(* circuit breaker, for any number of overlapping calls and any            *)
(* thresholds, as long as a call is given up before an open circuit        *)
(* retries.  The checks of InventoryClient implement it, so that what is   *)
(* proved of the breaker holds of them, and the late answers of fetches    *)
(* left behind count for nothing.  The client of the broker, for any       *)
(* number of callers and connections.                                      *)
(***************************************************************************)
EXTENDS InventoryClient, RabbitClient, TLAPS

(* The circuit breaker.                                                    *)

\* A call in flight while the circuit is open is at least as old as the last
\* failure: it was admitted before, since an open circuit admits none.
OldCallsOnly ==
  state = "OPEN" => \A r \in InFlight : since <= elapsed[r]

IInv == TypeOK /\ CountersMatchState /\ OldCallsOnly

\* The inductive invariant holds of a new breaker.
LEMMA InitIInv == Init => IInv
  BY ConfigAssumption
     DEF Init, IInv, TypeOK, CountersMatchState, OldCallsOnly, InFlight, NoFailure

\* ... and every operation of the breaker preserves it.
LEMMA StepIInv == IInv /\ [Next]_vars => IInv'
<1> SUFFICES ASSUME IInv, [Next]_vars PROVE IInv'
  OBVIOUS
<1> USE ConfigAssumption
    DEF IInv, TypeOK, CountersMatchState, OldCallsOnly, InFlight, NoFailure
<1>1. ASSUME NEW r \in Requests, Admit(r) PROVE IInv'
  BY <1>1 DEF Admit, Start, getState, shouldAttemptReset
<1>2. ASSUME NEW r \in Requests, FailFast(r) PROVE IInv'
  BY <1>2 DEF FailFast, vars
<1>3. ASSUME NEW r \in Requests, Respond(r) PROVE IInv'
  BY <1>3 DEF Respond, Settle, counters
<1>4. ASSUME NEW r \in Requests, Reject(r) PROVE IInv'
  BY <1>4 DEF Reject, Settle, counters
<1>5. ASSUME NEW r \in Requests, TimeOut(r) PROVE IInv'
  BY <1>5 DEF TimeOut, Settle, counters
<1>6. ASSUME NEW r \in Requests, onSuccess(r) PROVE IInv'
  BY <1>6 DEF onSuccess, Finish, reset
<1>7. ASSUME NEW r \in Requests, onFailure(r) PROVE IInv'
  BY <1>7 DEF onFailure, Finish, CountFailure
<1>8. CASE forceOpen
  BY <1>8 DEF forceOpen
<1>9. CASE forceClose
  BY <1>9 DEF forceClose, reset
<1>10. CASE Tick
  BY <1>10 DEF Tick
<1>11. CASE UNCHANGED vars
  BY <1>11 DEF vars
<1> QED
  BY <1>1, <1>2, <1>3, <1>4, <1>5, <1>6, <1>7, <1>8, <1>9, <1>10, <1>11 DEF Next

LEMMA AlwaysIInv == Spec => []IInv
  BY InitIInv, StepIInv, PTL DEF Spec

\* The breaker's variables keep their types.
THEOREM BreakerTypeOK == Spec => []TypeOK
  BY AlwaysIInv, PTL DEF IInv

\* The counters never disagree with the state (CountersMatchState).
THEOREM BreakerCounters == Spec => []CountersMatchState
  BY AlwaysIInv, PTL DEF IInv

\* Only an admitted call ends the wait of an open circuit, and only once
\* every earlier call has come back.
LEMMA CleanStep ==
  IInv /\ [Next]_vars => [state = "OPEN" /\ state' = "HALF_OPEN" => InFlight = {}]_vars
<1> SUFFICES ASSUME IInv, Next, state = "OPEN", state' = "HALF_OPEN"
             PROVE InFlight = {}
  BY DEF vars
<1>1. PICK r \in Requests : Admit(r)
  BY DEF Next, FailFast, Respond, Reject, TimeOut, Settle, onSuccess, onFailure,
         forceOpen, forceClose, reset, Tick, counters, vars
<1>2. since >= ResetTimeout /\ since # NoFailure
  BY <1>1 DEF Admit, getState, shouldAttemptReset, IInv, CountersMatchState
<1>3. \A q \in InFlight : since <= elapsed[q] /\ elapsed[q] <= Timeout
  BY DEF IInv, OldCallsOnly, TypeOK, InFlight
<1> QED
  BY <1>2, <1>3, ConfigAssumption DEF IInv, TypeOK, InFlight, NoFailure

\* Probation starts with no call of an earlier period in flight.
THEOREM BreakerProbation == Spec => ProbationStartsClean
  BY AlwaysIInv, CleanStep, PTL DEF Spec, ProbationStartsClean
-----------------------------------------------------------------------------
(* The checks of the client.                                               *)

\* Every call in flight on probation was let through on this probation.
CInv ==
  /\ ClientTypeOK
  /\ state = "HALF_OPEN" => InFlight \subseteq tests

LEMMA InitClient == ClientInit => Init /\ CInv
<1> SUFFICES ASSUME ClientInit PROVE CInv
  BY DEF ClientInit
<1>1. IInv
  BY InitIInv DEF ClientInit
<1> QED
  BY <1>1 DEF ClientInit, Init, CInv, ClientTypeOK, IInv

\* Every step of a check is a step of the breaker, or of a fetch left behind.
LEMMA StepClient == [ClientNext]_clientVars => [Next]_vars
  BY DEF ClientNext, Next, clientVars, fetch, unavailable, answered,
         refused, timedOut, lateAnswer, checked, notChecked, Other

\* The checks implement the breaker.
THEOREM ClientImplementsBreaker == ClientSpec => Spec
  BY InitClient, StepClient, PTL DEF ClientSpec, Spec

LEMMA StepCInv == IInv /\ CInv /\ [ClientNext]_clientVars => CInv'
<1> SUFFICES ASSUME IInv, CInv, [ClientNext]_clientVars PROVE CInv'
  OBVIOUS
<1>1. TypeOK'
  BY StepClient, StepIInv DEF IInv
<1>2. state = "OPEN" /\ state' = "HALF_OPEN" => InFlight = {}
  BY StepClient, CleanStep DEF vars
<1> USE DEF CInv, ClientTypeOK
<1> HIDE DEF TypeOK
<1>3. phase \in [Requests -> {"idle", "calling", "ok", "err"}]
  BY DEF IInv, TypeOK
<1>4. ASSUME NEW r \in Requests, fetch(r) PROVE CInv'
  <2>1. (state # "CLOSED" /\ state' = "HALF_OPEN") \/ state' # "HALF_OPEN"
    BY <1>4 DEF fetch, Admit, getState
  <2> QED
    BY <1>1, <1>2, <1>3, <1>4, <2>1 DEF fetch, Admit, Start, getState, InFlight, IInv, TypeOK
<1>5. ASSUME NEW r \in Requests, unavailable(r) PROVE CInv'
  BY <1>1, <1>5 DEF unavailable, FailFast, vars, InFlight
<1>6. ASSUME NEW r \in Requests, answered(r) PROVE CInv'
  BY <1>1, <1>3, <1>6 DEF answered, Respond, Settle, counters, InFlight
<1>7. ASSUME NEW r \in Requests, refused(r) PROVE CInv'
  BY <1>1, <1>3, <1>7 DEF refused, Reject, Settle, counters, InFlight
<1>8. ASSUME NEW r \in Requests, timedOut(r) PROVE CInv'
  BY <1>1, <1>3, <1>8 DEF timedOut, TimeOut, Settle, counters, InFlight
<1>9. ASSUME NEW r \in Requests, lateAnswer(r) PROVE CInv'
  BY <1>1, <1>9 DEF lateAnswer, vars, InFlight
<1>10. ASSUME NEW r \in Requests, checked(r) PROVE CInv'
  BY <1>1, <1>3, <1>10 DEF checked, onSuccess, Finish, reset, InFlight
<1>11. ASSUME NEW r \in Requests, notChecked(r) PROVE CInv'
  BY <1>1, <1>3, <1>11 DEF notChecked, onFailure, Finish, InFlight
<1>12. CASE Other
  BY <1>1, <1>3, <1>12 DEF Other, forceOpen, forceClose, reset, Tick, InFlight
<1>13. CASE UNCHANGED clientVars
  BY <1>1, <1>13 DEF clientVars, vars, InFlight
<1> QED
  BY <1>4, <1>5, <1>6, <1>7, <1>8, <1>9, <1>10, <1>11, <1>12, <1>13 DEF ClientNext

LEMMA AlwaysCInv == ClientSpec => [](IInv /\ CInv)
  BY ClientImplementsBreaker, AlwaysIInv, InitClient, StepCInv, PTL DEF ClientSpec

\* A step that counts a success on probation is the return of a call in flight.
LEMMA EarnedStep ==
  ASSUME IInv, CInv, ClientNext, state = "HALF_OPEN",
         successes' > successes \/ state' = "CLOSED", ~forceClose
  PROVE  \E r \in tests \ tests' : phase[r] = "ok" /\ elapsed[r] <= Timeout
<1>1. state' # "OPEN" /\ (state' # state \/ successes' # successes)
  BY DEF IInv, TypeOK, ClientNext, fetch, Admit, getState, unavailable, FailFast, answered,
         Respond, refused, Reject, timedOut, TimeOut, Settle, lateAnswer, checked, onSuccess,
         reset, notChecked, onFailure, Other, forceOpen, Tick, counters, vars
<1>2. PICK r \in Requests : checked(r)
  BY <1>1 DEF ClientNext, fetch, Admit, getState, unavailable, FailFast, answered, Respond,
         refused, Reject, timedOut, TimeOut, Settle, lateAnswer, notChecked, onFailure,
         Other, forceOpen, Tick, counters, vars
<1>3. phase[r] = "ok" /\ tests' = tests \ {r}
  BY <1>2 DEF checked, onSuccess
<1>4. r \in tests /\ elapsed[r] <= Timeout
  BY <1>3, ConfigAssumption DEF CInv, InFlight, IInv, TypeOK
<1> QED
  BY <1>3, <1>4

\* The circuit earns its closing during the probation it is in, whatever calls
\* overlap and however late the answers of those given up come.
THEOREM ClientProbationIsEarned == ClientSpec => ProbationIsEarned
<1> DEFINE Earned ==
      state = "HALF_OPEN" /\ (successes' > successes \/ state' = "CLOSED") /\ ~forceClose
        => \E r \in tests \ tests' : phase[r] = "ok" /\ elapsed[r] <= Timeout
<1>1. IInv /\ CInv /\ [ClientNext]_clientVars => [Earned]_clientVars
  BY EarnedStep
<1> QED
  BY <1>1, AlwaysCInv, PTL DEF ClientSpec, ProbationIsEarned

\* The counters of the breaker never disagree with its state under the checks.
THEOREM ClientCounters == ClientSpec => []CountersMatchState
  BY ClientImplementsBreaker, BreakerCounters, PTL
-----------------------------------------------------------------------------
(* The client of the broker.                                               *)

\* Handlers are set only on connections that were made, ...
HandledAreMade == handled \subseteq {n \in Connections : link[n] # "none"}

\* ... in the order of their numbers.
MadeInOrder == \A n \in Connections, m \in Connections : m < n /\ link[n] # "none" => link[m] # "none"

\* ... last of all: a call on its way has a connection without handlers, its own
\* unless an event took it, and the channel it opened is the connection's.
OnTheWay ==
  \A c \in Callers :
    /\ pc[c] \in {"opening", "declaring"} =>
         /\ connection \notin handled
         /\ \A n \in Connections : Last(n) => connection \in {None, n}
    /\ pc[c] = "declaring" /\ isConnected => channel = connection

\* The channel of a client with handlers is the connection's, and both are
\* there until their event.
HandledIsWhole ==
  isConnected /\ connection \in handled =>
    channel = connection /\ link[connection] # "closed" /\ pipe[channel] # "closed"

RabbitIInv == RabbitTypeOK /\ OneDial /\ HandledAreMade /\ MadeInOrder /\ OnTheWay /\ HandledIsWhole

LEMMA NoneOutside == None \notin Connections
  BY DEF None, Connections

LEMMA InitRabbit == RabbitInit => RabbitIInv
<1> SUFFICES ASSUME RabbitInit PROVE RabbitIInv
  OBVIOUS
<1>1. RabbitTypeOK
  <2>1. link \in [Connections -> States] /\ pipe \in [Connections -> States]
    BY DEF RabbitInit, States
  <2>2. pc \in [Callers -> Steps \union {"idle", "waiting"}]
    BY DEF RabbitInit
  <2>3. faults \in 0..MaxFaults
    BY BoundsAssumption DEF RabbitInit
  <2> QED
    BY <2>1, <2>2, <2>3 DEF RabbitInit, RabbitTypeOK
<1>2. OneDial
  BY DEF RabbitInit, OneDial, Steps
<1> QED
  BY <1>1, <1>2
     DEF RabbitInit, RabbitIInv, HandledAreMade, MadeInOrder, OnTheWay, HandledIsWhole, isConnected

\* Every step keeps the types and one call at a time on its way.
LEMMA StepRabbitTypes ==
  RabbitIInv /\ [RabbitNext]_rabbitVars =>
    RabbitTypeOK' /\ OneDial' /\ HandledAreMade' /\ MadeInOrder'
<1> DEFINE Kept == RabbitTypeOK' /\ OneDial' /\ HandledAreMade' /\ MadeInOrder'
<1> SUFFICES ASSUME RabbitIInv, [RabbitNext]_rabbitVars PROVE Kept
  OBVIOUS
<1> USE NoneOutside, BoundsAssumption
    DEF RabbitIInv, RabbitTypeOK, OneDial, HandledAreMade, MadeInOrder, Goto, States, Steps, client, broker
<1>1. ASSUME NEW c \in Callers, connect(c) PROVE Kept
  BY <1>1 DEF connect
<1>2. ASSUME NEW c \in Callers, waited(c) PROVE Kept
  BY <1>2 DEF waited
<1>3. ASSUME NEW c \in Callers, NEW n \in Connections, dialed(c, n) PROVE Kept
  <2>1. /\ link' = [link EXCEPT ![n] = "open"] /\ connection' = n /\ link[n] = "none"
        /\ \A m \in 1..(n - 1) : link[m] # "none"
        /\ UNCHANGED <<channel, isConnecting, handled, pipe, stopping, faults>>
        /\ pc[c] = "dialing" /\ pc' = [pc EXCEPT ![c] = "opening"]
    BY <1>3 DEF dialed
  <2>2. n \in Nat /\ \A m \in Connections : m \in Nat /\ m >= 1
    BY BoundsAssumption DEF Connections
  <2>3. MadeInOrder'
    BY <2>1, <2>2
  <2>4. RabbitTypeOK' /\ HandledAreMade'
    BY <2>1, <2>2
  <2>5. OneDial'
    BY <2>1
  <2> QED
    BY <2>3, <2>4, <2>5
<1>4. ASSUME NEW c \in Callers, NEW n \in Connections, opened(c, n) PROVE Kept
  BY <1>4 DEF opened, Last
<1>5. ASSUME NEW c \in Callers, declared(c) PROVE Kept
  BY <1>5 DEF declared, isConnected
<1>6. ASSUME NEW c \in Callers, connectThrows(c) PROVE Kept
  <2>1. /\ pc[c] \in Steps /\ pc' = [pc EXCEPT ![c] = "idle"] /\ isConnecting' = FALSE
        /\ UNCHANGED <<connection, channel, link, pipe, stopping>>
    BY <1>6 DEF connectThrows, Broken
  <2>4. handled' \subseteq handled \union {n \in Connections : connection = n}
    BY <1>6 DEF connectThrows
  <2>5. faults' \in 0..MaxFaults
    BY <1>6 DEF connectThrows, Fault
  <2>2. RabbitTypeOK' /\ HandledAreMade'
    BY <2>1, <2>4, <2>5
  <2>3. \A d \in Callers : pc'[d] \notin Steps
    BY <2>1
  <2> QED
    BY <2>1, <2>2, <2>3
<1>7. ASSUME NEW n \in Connections, linkLost(n) PROVE Kept
  BY <1>7 DEF linkLost, Fault
<1>8. ASSUME NEW n \in Connections, pipeLost(n) PROVE Kept
  BY <1>8 DEF pipeLost, Fault
<1>9. ASSUME NEW n \in Connections, connectionClosed(n) PROVE Kept
  BY <1>9 DEF connectionClosed
<1>10. ASSUME NEW n \in Connections, channelClosed(n) PROVE Kept
  BY <1>10 DEF channelClosed
<1>11. CASE disconnect
  BY <1>11 DEF disconnect
<1>12. CASE closeChannel
  BY <1>12 DEF closeChannel
<1>13. CASE closeConnection
  BY <1>13 DEF closeConnection
<1>14. CASE UNCHANGED rabbitVars
  BY <1>14 DEF rabbitVars
<1> QED
  BY <1>1, <1>2, <1>3, <1>4, <1>5, <1>6, <1>7, <1>8, <1>9, <1>10, <1>11, <1>12, <1>13, <1>14
     DEF RabbitNext, Connect, Lose, Notice, Disconnect

\* Every step keeps the handlers on what is whole.
LEMMA StepHandled ==
  RabbitIInv /\ [RabbitNext]_rabbitVars => OnTheWay' /\ HandledIsWhole'
<1> DEFINE Kept == OnTheWay' /\ HandledIsWhole'
<1> SUFFICES ASSUME RabbitIInv, [RabbitNext]_rabbitVars PROVE Kept
  OBVIOUS
<1> USE NoneOutside, BoundsAssumption
    DEF RabbitIInv, RabbitTypeOK, OneDial, HandledAreMade, MadeInOrder, OnTheWay,
        HandledIsWhole, isConnected, Last, Goto, States, Steps, client, broker
<1>1. ASSUME NEW c \in Callers, connect(c) PROVE Kept
  BY <1>1 DEF connect
<1>2. ASSUME NEW c \in Callers, waited(c) PROVE Kept
  BY <1>2 DEF waited
<1>3. ASSUME NEW c \in Callers, NEW n \in Connections, dialed(c, n) PROVE Kept
  <2>1. /\ link' = [link EXCEPT ![n] = "open"] /\ connection' = n /\ link[n] = "none"
        /\ \A m \in 1..(n - 1) : link[m] # "none"
        /\ UNCHANGED <<channel, isConnecting, handled, pipe, stopping, faults>>
        /\ pc[c] = "dialing" /\ pc' = [pc EXCEPT ![c] = "opening"]
    BY <1>3 DEF dialed
  <2>2. n \in Nat /\ \A m \in Connections : m \in Nat /\ m >= 1
    BY BoundsAssumption DEF Connections
  <2>3. n \notin handled /\ \A m \in Connections : m > n => link[m] = "none"
    BY <2>1, <2>2
  <2>4. \A m \in Connections : Last(m)' => m = n
    BY <2>1, <2>2, <2>3
  <2>5. \A d \in Callers : pc'[d] \in Steps => d = c
    BY <2>1
  <2>6. OnTheWay'
    BY <2>1, <2>3, <2>4, <2>5
  <2>7. HandledIsWhole'
    BY <2>1, <2>3
  <2> QED
    BY <2>6, <2>7
<1>4. ASSUME NEW c \in Callers, NEW n \in Connections, opened(c, n) PROVE Kept
  BY <1>4 DEF opened, Last
<1>5. ASSUME NEW c \in Callers, declared(c) PROVE Kept
  BY <1>5 DEF declared
<1>6. ASSUME NEW c \in Callers, connectThrows(c) PROVE Kept
  BY <1>6 DEF connectThrows, Broken, Fault
<1>7. ASSUME NEW n \in Connections, linkLost(n) PROVE Kept
  BY <1>7 DEF linkLost, Fault
<1>8. ASSUME NEW n \in Connections, pipeLost(n) PROVE Kept
  BY <1>8 DEF pipeLost, Fault
<1>9. ASSUME NEW n \in Connections, connectionClosed(n) PROVE Kept
  BY <1>9 DEF connectionClosed
<1>10. ASSUME NEW n \in Connections, channelClosed(n) PROVE Kept
  BY <1>10 DEF channelClosed
<1>11. CASE disconnect
  BY <1>11 DEF disconnect
<1>12. CASE closeChannel
  BY <1>12 DEF closeChannel
<1>13. CASE closeConnection
  BY <1>13 DEF closeConnection
<1>14. CASE UNCHANGED rabbitVars
  BY <1>14 DEF rabbitVars
<1> QED
  BY <1>1, <1>2, <1>3, <1>4, <1>5, <1>6, <1>7, <1>8, <1>9, <1>10, <1>11, <1>12, <1>13, <1>14
     DEF RabbitNext, Connect, Lose, Notice, Disconnect

LEMMA AlwaysRabbit == RabbitSpec => []RabbitIInv
<1>1. RabbitIInv /\ [RabbitNext]_rabbitVars => RabbitIInv'
  BY StepRabbitTypes, StepHandled DEF RabbitIInv
<1> QED
  BY InitRabbit, <1>1, PTL DEF RabbitSpec

\* The variables of the client keep their types: it knows only connections and
\* channels that were made.
THEOREM RabbitKeepsTypes == RabbitSpec => []RabbitTypeOK
  BY AlwaysRabbit, PTL DEF RabbitIInv

\* At most one of any number of callers is on its way to a connection, and the
\* flag says so, however calls fail and connections go.
THEOREM RabbitOneDial == RabbitSpec => []OneDial
  BY AlwaysRabbit, PTL DEF RabbitIInv

\* A client with handlers takes what is gone for working only until the event.
THEOREM RabbitGoneIsNoticed == RabbitSpec => []GoneIsNoticed
<1>1. RabbitIInv => GoneIsNoticed
  BY DEF RabbitIInv, HandledIsWhole, GoneIsNoticed
<1> QED
  BY <1>1, AlwaysRabbit, PTL
=============================================================================
