---------------------------- MODULE CircuitBreaker ----------------------------
(***************************************************************************)
(* The circuit breaker the order service puts in front of its HTTP calls   *)
(* to the inventory service (order-service/src/lib/circuit-breaker.ts).    *)
(* Calls of execute() overlap: each one is a request slot of Requests.     *)
(*                                                                         *)
(* Time is discrete.  since is the age of lastFailureTime and elapsed[r]   *)
(* the age of r's call; both stop growing where the code stops telling     *)
(* ages apart.  A timer that is due fires before the clock moves on, and   *)
(* promise reactions run before any timer: Tick waits for both.            *)
(* The lifetime counters of getStats() are left out.                       *)
(***************************************************************************)
EXTENDS Integers, FiniteSets

CONSTANTS
  Requests,         \* slots for calls of execute() that may overlap
  FailureThreshold, \* failures that open a closed circuit
  SuccessThreshold, \* successes that close a half-open one
  Timeout,          \* ticks after which a call is given up
  ResetTimeout      \* ticks without a failure before an open circuit retries

ASSUME ConfigAssumption ==
  /\ FailureThreshold \in Nat \ {0}
  /\ SuccessThreshold \in Nat \ {0}
  /\ Timeout \in Nat \ {0}
  /\ ResetTimeout \in Nat
  /\ Timeout < ResetTimeout

VARIABLES state, failures, successes, since, phase, elapsed

counters == <<state, failures, successes, since>>
vars == <<state, failures, successes, since, phase, elapsed>>

NoFailure == -1   \* lastFailureTime = null

InFlight == {r \in Requests : phase[r] # "idle"}

Init ==
  /\ state = "CLOSED"
  /\ failures = 0
  /\ successes = 0
  /\ since = NoFailure
  /\ phase = [r \in Requests |-> "idle"]
  /\ elapsed = [r \in Requests |-> 0]

-----------------------------------------------------------------------------
\* Operators named Wrong_... are plausible mistakes in the operation that
\* follows them; the properties are checked to reject each of them.

Wrong_RetryNever == since = NoFailure \/ since > ResetTimeout

shouldAttemptReset == since = NoFailure \/ since >= ResetTimeout

\* getState() reports what the next execute() would find; it changes nothing.
getState ==
  IF state = "OPEN" /\ shouldAttemptReset THEN "HALF_OPEN" ELSE state

Start(r) ==
  /\ phase' = [phase EXCEPT ![r] = "calling"]
  /\ elapsed' = [elapsed EXCEPT ![r] = 0]

\* execute() lets the call through; an open circuit whose wait is over
\* becomes half-open.  Nothing limits how many calls a half-open one admits.
Admit(r) ==
  /\ phase[r] = "idle"
  /\ getState # "OPEN"
  /\ state' = getState
  /\ Start(r)
  /\ UNCHANGED <<failures, successes, since>>

\* execute() throws CircuitBreakerOpenError: only the statistics change.
FailFast(r) ==
  /\ phase[r] = "idle"
  /\ getState = "OPEN"
  /\ UNCHANGED vars

Settle(r, outcome) ==
  /\ phase[r] = "calling"
  /\ phase' = [phase EXCEPT ![r] = outcome]
  /\ UNCHANGED <<counters, elapsed>>

\* fn() resolves or rejects before the timer: clearTimeout.
Respond(r) == Settle(r, "ok")
Reject(r) == Settle(r, "err")

Wrong_TimerLate(r) == elapsed[r] > Timeout /\ Settle(r, "err")

\* The timer of executeWithTimeout fires first; a later answer is ignored.
TimeOut(r) == elapsed[r] >= Timeout /\ Settle(r, "err")

reset ==
  /\ state' = "CLOSED"
  /\ failures' = 0
  /\ successes' = 0

Finish(r) ==
  /\ phase' = [phase EXCEPT ![r] = "idle"]
  /\ elapsed' = [elapsed EXCEPT ![r] = 0]

onSuccess(r) ==
  /\ phase[r] = "ok"
  /\ Finish(r)
  /\ UNCHANGED since
  /\ \/ /\ state = "HALF_OPEN"
        /\ successes + 1 >= SuccessThreshold
        /\ reset
     \/ /\ state = "HALF_OPEN"
        /\ successes + 1 < SuccessThreshold
        /\ successes' = successes + 1
        /\ UNCHANGED <<state, failures>>
     \/ /\ state # "HALF_OPEN"
        /\ failures' = 0
        /\ UNCHANGED <<state, successes>>

\* failures only meets FailureThreshold in comparisons: it stops there.
CountFailure == IF failures < FailureThreshold THEN failures + 1 ELSE failures

Wrong_FailureTimeKept(r) ==
  /\ phase[r] = "err"
  /\ Finish(r)
  /\ UNCHANGED since
  /\ failures' = CountFailure
  /\ \/ /\ state = "HALF_OPEN"
        /\ state' = "OPEN"
        /\ successes' = 0
     \/ /\ state # "HALF_OPEN"
        /\ state' = IF failures' >= FailureThreshold THEN "OPEN" ELSE state
        /\ UNCHANGED successes

Wrong_OneFailureTooMany(r) ==
  /\ phase[r] = "err"
  /\ Finish(r)
  /\ since' = 0
  /\ failures' = CountFailure
  /\ \/ /\ state = "HALF_OPEN"
        /\ state' = "OPEN"
        /\ successes' = 0
     \/ /\ state # "HALF_OPEN"
        /\ state' = IF failures' > FailureThreshold THEN "OPEN" ELSE state
        /\ UNCHANGED successes

onFailure(r) ==
  /\ phase[r] = "err"
  /\ Finish(r)
  /\ since' = 0
  /\ failures' = CountFailure
  /\ \/ /\ state = "HALF_OPEN"
        /\ state' = "OPEN"
        /\ successes' = 0
     \/ /\ state # "HALF_OPEN"
        /\ state' = IF failures' >= FailureThreshold THEN "OPEN" ELSE state
        /\ UNCHANGED successes

\* forceOpen() and forceClose(): public, called by nobody but tests.
\* forceOpen() leaves successes alone.
forceOpen ==
  /\ state' = "OPEN"
  /\ since' = 0
  /\ UNCHANGED <<failures, successes, phase, elapsed>>

forceClose == reset /\ UNCHANGED <<since, phase, elapsed>>

Tick ==
  /\ \A r \in InFlight : phase[r] = "calling" /\ elapsed[r] < Timeout
  /\ elapsed' = [r \in Requests |-> IF r \in InFlight THEN elapsed[r] + 1 ELSE 0]
  /\ since' = IF since \in {NoFailure, ResetTimeout} THEN since ELSE since + 1
  /\ UNCHANGED <<state, failures, successes, phase>>

Next ==
  \/ \E r \in Requests :
       \/ Admit(r) \/ FailFast(r)
       \/ Respond(r) \/ Reject(r) \/ TimeOut(r)
       \/ onSuccess(r) \/ onFailure(r)
  \/ forceOpen
  \/ forceClose
  \/ Tick

Spec == Init /\ [][Next]_vars

(***************************************************************************)
(* The event loop runs every promise reaction and every timer that is due. *)
(* Time goes on: no call waits for ever while the clock stands still,      *)
(* unless a timer that is due holds the clock up.                          *)
(* That callers keep calling is the assumption under which recovery can be *)
(* asked for at all.                                                       *)
(***************************************************************************)
TimeGoesOn ==
  /\ WF_vars(Tick)
  /\ \/ []<><<Tick>>_vars
     \/ \A r \in Requests : []<>(phase[r] # "calling")
     \/ <>[](\E r \in Requests : phase[r] = "calling" /\ elapsed[r] >= Timeout)

Fairness ==
  /\ TimeGoesOn
  /\ \A r \in Requests :
       /\ WF_vars(Admit(r))
       /\ WF_vars(TimeOut(r))
       /\ WF_vars(onSuccess(r))
       /\ WF_vars(onFailure(r))

FairSpec == Spec /\ Fairness
-----------------------------------------------------------------------------
TypeOK ==
  /\ state \in {"CLOSED", "OPEN", "HALF_OPEN"}
  /\ failures \in 0..FailureThreshold
  /\ successes \in 0..(SuccessThreshold - 1)
  /\ since \in NoFailure..ResetTimeout
  /\ phase \in [Requests -> {"idle", "calling", "ok", "err"}]
  /\ elapsed \in [Requests -> 0..Timeout]

\* The counters never disagree with the state, whatever calls overlap with
\* the transitions: a closed circuit is below its failure threshold and has
\* forgotten its probation, one on probation has not yet earned its closing,
\* and an open one knows when it last failed.
CountersMatchState ==
  /\ state = "CLOSED" => failures < FailureThreshold /\ successes = 0
  /\ state # "CLOSED" => successes < SuccessThreshold
  /\ state = "OPEN" => since # NoFailure

\* Probation starts clean: when the wait of an open circuit ends, no call
\* from before it opened is still in flight, so no outcome counted while
\* half-open is a stale one (the code relies on timeout < resetTimeout).
ProbationStartsClean ==
  [][state = "OPEN" /\ state' = "HALF_OPEN" => InFlight = {}]_vars

\* A service that hangs cannot hold a caller: every call comes back.
CallsReturn == \A r \in Requests : phase[r] = "calling" ~> phase[r] = "idle"

\* The circuit cannot stay open on a service that has recovered: if calls
\* stop failing (and nobody forces it) it closes and stays closed.
Recovers ==
  <>[][~forceOpen /\ \A r \in Requests : ~onFailure(r)]_vars
    => <>[](state = "CLOSED")
=============================================================================
