----------------------------- MODULE ReserveRoute -----------------------------
(***************************************************************************)
(* The HTTP reserve route of the inventory service (routes/inventory.ts)   *)
(* beside the consumer of order events: both change the same stock.  A     *)
(* caller that may repeat its request gives it an adjustmentRequestId; the *)
(* route looks for a stored result, reserves, stores the result and        *)
(* answers, each after an await.  lib/gremlin.ts delays calls and makes    *)
(* some fail right after the reservation was committed.                    *)
(*                                                                         *)
(* The records of the route carry an adjustmentRequestId and an eventId of *)
(* their own, so they never meet those of the consumer and are kept apart. *)
(***************************************************************************)
EXTENDS InventoryConsumer

CONSTANTS
  Requests,    \* what callers ask for
  Identified,  \* the requests that carry an adjustmentRequestId
  Asked,       \* the product and quantity of each request
  Calls,       \* numbers of the HTTP calls that may be open at the same time
  NoRequest,
  MaxCalls     \* bound: calls made

Outcomes == {"granted", "refused"}

ASSUME RouteAssumption ==
  /\ Identified \subseteq Requests
  /\ Asked \in [Requests -> Items]
  /\ NoRequest \notin Requests
  /\ Calls \subseteq Nat
  /\ MaxCalls \in Nat

VARIABLES
  step, request, outcome,  \* per call: the handler
  results,                 \* the stored result of each request
  calls,                   \* calls made
  \* History:
  grants,                  \* reservations made for a request
  told,                    \* the answers its callers received
  excused                  \* requests with a call that overlapped another,
                           \* ended between reserving and storing, or whose
                           \* result could not be stored or has expired

history == <<grants, told, excused>>
route == <<step, request, outcome, results, calls, history>>
allVars == <<vars, route>>

RouteInit ==
  /\ Init
  /\ step = [c \in Calls |-> "idle"]
  /\ request = [c \in Calls |-> NoRequest]
  /\ outcome = [c \in Calls |-> "none"]
  /\ results = [r \in Requests |-> "none"]
  /\ calls = 0
  /\ grants = [r \in Requests |-> 0]
  /\ told = [r \in Requests |-> {}]
  /\ excused = {}

Advance(c, label) == step' = [step EXCEPT ![c] = label]

Conclude(c, o) == outcome' = [outcome EXCEPT ![c] = o]

\* The handler has returned or died; what it held in memory is gone.
Leave(c) ==
  /\ Advance(c, "idle")
  /\ request' = [request EXCEPT ![c] = NoRequest]
  /\ Conclude(c, "none")

Excuse(r) == excused' = excused \cup {r}

\* A request arrives and takes the lowest free number.
receive(c, r) ==
  /\ step[c] = "idle" /\ calls < MaxCalls
  /\ \A b \in Calls : b < c => step[b] # "idle"
  /\ calls' = calls + 1
  /\ request' = [request EXCEPT ![c] = r]
  /\ Advance(c, "delayed")
  /\ IF \E b \in Calls : request[b] = r THEN Excuse(r) ELSE UNCHANGED excused
  /\ UNCHANGED <<vars, outcome, results, grants, told>>

\* The injected latency, none for most calls, is over.
maybeApplyGremlinLatency(c) ==
  /\ step[c] = "delayed"
  /\ Advance(c, IF request[c] \in Identified THEN "looking" ELSE "finding")
  /\ UNCHANGED <<vars, request, outcome, results, calls, history>>

\* A stored result is the answer, whether it was a success or a failure.
getProcessedRequest(c) ==
  /\ step[c] = "looking"
  /\ LET stored == results[request[c]] IN
       IF stored # "none"
         THEN Conclude(c, stored) /\ Advance(c, "answering")
         ELSE Advance(c, "finding") /\ UNCHANGED outcome
  /\ UNCHANGED <<vars, request, results, calls, history>>

Product(c) == Asked[request[c]].product
Amount(c) == Asked[request[c]].quantity
Covered(c) == quantity[Product(c)] >= reserved[Product(c)] + Amount(c)

\* What follows the reservation: a result is stored only under an id.
AfterReserve(c) == Advance(c, IF request[c] \in Identified THEN "storing" ELSE "answering")

\* reserveStock's findOne.
findProduct(c) ==
  /\ step[c] = "finding"
  /\ IF Product(c) \in listed /\ Covered(c)
       THEN Advance(c, "reserving") /\ UNCHANGED outcome
       ELSE Conclude(c, "refused") /\ AfterReserve(c)
  /\ UNCHANGED <<vars, request, results, calls, history>>

Reserve(c) ==
  /\ step[c] = "reserving" /\ Covered(c)
  /\ reserved' = [reserved EXCEPT ![Product(c)] = @ + Amount(c)]
  /\ grants' = [grants EXCEPT ![request[c]] = @ + 1]

\* reserveStock's findOneAndUpdate, which looks at the stock again.
reserve(c) ==
  /\ \/ Reserve(c) /\ Conclude(c, "granted")
     \/ /\ step[c] = "reserving" /\ ~Covered(c)
        /\ Conclude(c, "refused")
        /\ UNCHANGED <<reserved, grants>>
  /\ AfterReserve(c)
  /\ UNCHANGED <<listed, quantity, records, tally, slots, broker, request, results, calls, told, excused>>

\* The failure injected after the commit: an exception in every mode (the hard
\* crash follows it).  The caller receives an error and nothing is stored.
maybeSchrodingerCrash(c) ==
  /\ Reserve(c)
  /\ Excuse(request[c])
  /\ Leave(c)
  /\ UNCHANGED <<listed, quantity, records, tally, slots, broker, results, calls, told>>

Wrong_processEventIdempotently(c) ==
  /\ step[c] = "storing"
  /\ results' = [results EXCEPT ![request[c]] = IF @ = "none" THEN "refused" ELSE @]
  /\ Advance(c, "answering")
  /\ UNCHANGED <<vars, request, outcome, calls, history>>

\* processEventIdempotently with the result at hand.  A stored result stays: its
\* own lookup and the unique index on id and operation agree on that.  Errors
\* (of the database, or an eventId already used) are ignored.
processEventIdempotently(c) ==
  /\ step[c] = "storing"
  /\ \/ /\ results' = [results EXCEPT ![request[c]] = IF @ = "none" THEN outcome[c] ELSE @]
        /\ UNCHANGED excused
     \/ Excuse(request[c]) /\ UNCHANGED results
  /\ Advance(c, "answering")
  /\ UNCHANGED <<vars, request, outcome, calls, grants, told>>

answer(c) ==
  /\ step[c] = "answering"
  /\ told' = [told EXCEPT ![request[c]] = @ \cup {outcome[c]}]
  /\ Leave(c)
  /\ UNCHANGED <<vars, results, calls, grants, excused>>

\* The process dies or the database fails: the caller receives no result.
abandon(c) ==
  /\ step[c] # "idle"
  /\ IF step[c] = "storing" THEN Excuse(request[c]) ELSE UNCHANGED excused
  /\ Leave(c)
  /\ UNCHANGED <<vars, results, calls, grants, told>>

\* The TTL index drops a result after 7 days; no call takes that long.
expireResult(r) ==
  /\ results[r] # "none"
  /\ \A c \in Calls : step[c] = "idle"
  /\ results' = [results EXCEPT ![r] = "none"]
  /\ Excuse(r)
  /\ UNCHANGED <<vars, step, request, outcome, calls, grants, told>>

Route(c) ==
  \/ maybeApplyGremlinLatency(c) \/ getProcessedRequest(c) \/ findProduct(c)
  \/ reserve(c) \/ maybeSchrodingerCrash(c)
  \/ processEventIdempotently(c) \/ answer(c) \/ abandon(c)

RouteNext ==
  \/ Next /\ UNCHANGED route
  \/ \E c \in Calls, r \in Requests : receive(c, r)
  \/ \E c \in Calls : Route(c)
  \/ \E r \in Requests : expireResult(r)

RouteSpec == RouteInit /\ [][RouteNext]_allVars

\* The broker pushes what is queued and every await of a handler returns.
RouteFairness ==
  /\ WF_allVars(Deliver /\ UNCHANGED route)
  /\ \A d \in Slots : WF_allVars(Handle(d) /\ UNCHANGED route)
-----------------------------------------------------------------------------
RouteTypeOK ==
  /\ TypeOK
  /\ step \in [Calls -> {"idle", "delayed", "looking", "finding", "reserving", "storing", "answering"}]
  /\ request \in [Calls -> Requests \cup {NoRequest}]
  /\ outcome \in [Calls -> Outcomes \cup {"none"}]
  /\ results \in [Requests -> Outcomes \cup {"none"}]
  /\ calls \in 0..MaxCalls
  /\ grants \in [Requests -> Nat]
  /\ told \in [Requests -> SUBSET Outcomes]
  /\ excused \subseteq Requests

\* routes/inventory.ts:138: "Check idempotency first".  Calls with the same id
\* reserve at most once, all get the same answer, and it tells whether stock is
\* reserved: unless two of them overlapped, one ended between reserving and
\* storing, or the result was not kept.
RetriesAgree ==
  \A r \in Identified \ excused :
    /\ grants[r] <= 1
    /\ "granted" \in told[r] => grants[r] = 1
    /\ "refused" \in told[r] => grants[r] = 0
=============================================================================
