---------------------------- MODULE InventoryClient ----------------------------
(***************************************************************************)
(* The order service asks the inventory service whether a product is in    *)
(* stock (order-service/src/services/inventory.client.ts) through the      *)
(* circuit breaker, whose state and steps this module takes over: every    *)
(* step of the breaker becomes a step of a check.                          *)
(*                                                                         *)
(* A fetch whose call timed out is not aborted: it stays behind and may be *)
(* answered at any later time, when its slot has long begun another check. *)
(* What the service answers only matters as an answer or a failure; an     *)
(* unknown product (404) and one out of stock are answers.  The client's   *)
(* reserveStock() is called by nobody.                                     *)
(***************************************************************************)
EXTENDS CircuitBreaker

VARIABLES
  left,   \* slots with a fetch whose call has timed out
  \* History:
  tests   \* calls let through in the latest probation and not yet back

clientVars == <<vars, left, tests>>

ClientInit == Init /\ left = {} /\ tests = {}

\* checkInventory() sends GET /inventory/:productId if the circuit lets it.
fetch(r) ==
  /\ Admit(r)
  /\ tests' = {q \in tests : state # "OPEN"} \cup {q \in {r} : state' = "HALF_OPEN"}
  /\ UNCHANGED left

\* The circuit is open: "unavailable", and the order goes on without a check.
unavailable(r) == FailFast(r) /\ UNCHANGED <<left, tests>>

\* 200 or 404 reaches the client before the timer.
answered(r) == Respond(r) /\ UNCHANGED <<left, tests>>

\* Any other status, no connection, or a body that is no JSON.
refused(r) == Reject(r) /\ UNCHANGED <<left, tests>>

\* "timed out": the call is over, its fetch goes on.
timedOut(r) ==
  /\ TimeOut(r)
  /\ left' = left \cup {r}
  /\ UNCHANGED tests

\* An answer that counts whenever it comes.
Wrong_lateAnswer(r) ==
  /\ r \in left
  /\ left' \in {left, left \ {r}}
  /\ \/ /\ state = "HALF_OPEN"
        /\ successes + 1 >= SuccessThreshold
        /\ reset
     \/ /\ state = "HALF_OPEN"
        /\ successes + 1 < SuccessThreshold
        /\ successes' = successes + 1
        /\ UNCHANGED <<state, failures>>
     \/ /\ state # "HALF_OPEN"
        /\ failures' = 0
        /\ UNCHANGED <<state, successes>>
  /\ UNCHANGED <<since, phase, elapsed, tests>>

\* A fetch that was left behind is answered or fails.  Its timer has fired and
\* its promise is settled: clearTimeout and resolve or reject do nothing.  The
\* slot may have left more than one behind.
lateAnswer(r) ==
  /\ r \in left
  /\ left' \in {left, left \ {r}}
  /\ UNCHANGED <<vars, tests>>

\* The result {success: true, available}, which refuses the order when the item
\* is short, or {success: false}, with which the order goes on unchecked.
checked(r) == onSuccess(r) /\ tests' = tests \ {r} /\ UNCHANGED left
notChecked(r) == onFailure(r) /\ tests' = tests \ {r} /\ UNCHANGED left

\* Steps of the breaker alone.
Other == (forceOpen \/ forceClose \/ Tick) /\ UNCHANGED <<left, tests>>

ClientNext ==
  \/ \E r \in Requests :
       \/ fetch(r) \/ unavailable(r)
       \/ answered(r) \/ refused(r) \/ timedOut(r) \/ lateAnswer(r)
       \/ checked(r) \/ notChecked(r)
  \/ Other

ClientSpec == ClientInit /\ [][ClientNext]_clientVars

\* The fairness of the breaker; nothing obliges the service to answer.
ClientFairSpec == ClientSpec /\ Fairness
-----------------------------------------------------------------------------
ClientTypeOK == TypeOK /\ left \subseteq Requests /\ tests \subseteq Requests

\* The circuit earns its closing during the probation it is in: each success
\* counted while half-open is the success of one call let through since the
\* circuit was last open, counted once and in time; neither calls from before
\* nor the late answers of calls given up help to close it.
ProbationIsEarned ==
  [][state = "HALF_OPEN" /\ (successes' > successes \/ state' = "CLOSED") /\ ~forceClose
       => \E r \in tests \ tests' : phase[r] = "ok" /\ elapsed[r] <= Timeout]_clientVars
=============================================================================
