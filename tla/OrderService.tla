----------------------------- MODULE OrderService -----------------------------
(***************************************************************************)
(* The order service (services/order.service.ts): createOrder with its     *)
(* idempotency keys, shipOrder and cancelOrder, over the collections of    *)
(* keys, orders and outbox events.  Several calls of createOrder overlap   *)
(* at their awaits; a MongoDB transaction is one step.                     *)
(*                                                                         *)
(* The cached response of a key always names the order whose id is the key *)
(* (lines 79 and 205), so a key row is the hash it was claimed with.       *)
(***************************************************************************)
EXTENDS Naturals, FiniteSets

CONSTANTS
  Requests,   \* calls of createOrder
  Keys,       \* idempotency keys clients send
  Hashes,     \* what hashRequest tells apart
  NoKey, NoHash

ASSUME OrderAssumption ==
  /\ NoKey \notin Keys
  /\ NoHash \notin Hashes
  /\ Keys \cap Requests = {}

VARIABLES
  keyHash,                      \* the idempotency keys
  status, content,              \* the orders: status and request hash
  emitted,                      \* outbox rows of each order, by type
  pc, key, hash, reply          \* the calls of createOrder

orders == <<status, content>>
calls == <<pc, key, hash, reply>>
vars == <<keyHash, orders, emitted, calls>>

\* Without a key the id is a fresh uuid: the call itself stands for it.
OrderIds == Keys \cup Requests
EventTypes == {"ORDER_CREATED", "ORDER_SHIPPED", "ORDER_CANCELLED"}

orderId(r) == IF key[r] = NoKey THEN r ELSE key[r]
OrderExists(o) == status[o] # "none"

Init ==
  /\ keyHash = [k \in Keys |-> NoHash]
  /\ status = [o \in OrderIds |-> "none"]
  /\ content = [o \in OrderIds |-> NoHash]
  /\ emitted = [o \in OrderIds |-> [t \in EventTypes |-> 0]]
  /\ pc = [r \in Requests |-> "idle"]
  /\ key = [r \in Requests |-> NoKey]
  /\ hash = [r \in Requests |-> NoHash]
  /\ reply = [r \in Requests |-> "none"]

Goto(r, label) == pc' = [pc EXCEPT ![r] = label]

\* The route's answer: 202 with the order, or an error.
Answer(r, a) == Goto(r, "done") /\ reply' = [reply EXCEPT ![r] = a]

Emit(o, t) == emitted' = [emitted EXCEPT ![o][t] = @ + 1]
-----------------------------------------------------------------------------
createOrder(r, k, h) ==
  /\ pc[r] = "idle"
  /\ key' = [key EXCEPT ![r] = k]
  /\ hash' = [hash EXCEPT ![r] = h]
  /\ Goto(r, IF k = NoKey THEN "checking" ELSE "finding")
  /\ UNCHANGED <<keyHash, orders, emitted, reply>>

findKey(r) ==
  /\ pc[r] = "finding"
  /\ LET found == keyHash[key[r]] IN
       \/ found = NoHash /\ Goto(r, "claiming") /\ UNCHANGED reply
       \/ found \notin {NoHash, hash[r]} /\ Answer(r, "mismatch")
       \/ found = hash[r] /\ Goto(r, "cached") /\ UNCHANGED reply
  /\ UNCHANGED <<keyHash, orders, emitted, key, hash>>

Wrong_findOrder(r) ==
  /\ pc[r] = "cached"
  /\ Answer(r, "accepted")
  /\ UNCHANGED <<keyHash, orders, emitted, key, hash>>

\* Order.findOne; with no order yet the route dereferences undefined and the
\* client gets a 500.
findOrder(r) ==
  /\ pc[r] = "cached"
  /\ Answer(r, IF OrderExists(key[r]) THEN "accepted" ELSE "error")
  /\ UNCHANGED <<keyHash, orders, emitted, key, hash>>

Wrong_claimKey(r) ==
  /\ pc[r] = "claiming"
  /\ keyHash' = [keyHash EXCEPT ![key[r]] = hash[r]]
  /\ Goto(r, "checking")
  /\ UNCHANGED <<orders, emitted, key, hash, reply>>

\* IdempotencyKey.create: the unique index lets one claim through.
claimKey(r) ==
  /\ pc[r] = "claiming"
  /\ \/ /\ keyHash[key[r]] = NoHash
        /\ keyHash' = [keyHash EXCEPT ![key[r]] = hash[r]]
        /\ Goto(r, "checking")
     \/ /\ keyHash[key[r]] # NoHash
        /\ Goto(r, "raced")
        /\ UNCHANGED keyHash
  /\ UNCHANGED <<orders, emitted, key, hash, reply>>

\* The loser fetches the key again and does not compare hashes.
findKeyAgain(r) ==
  /\ pc[r] = "raced"
  /\ \/ keyHash[key[r]] # NoHash /\ Goto(r, "cached") /\ UNCHANGED reply
     \/ keyHash[key[r]] = NoHash /\ Answer(r, "error")
  /\ UNCHANGED <<keyHash, orders, emitted, key, hash>>

\* The loop over the items found none short of stock.  A check that fails
\* (open circuit, timeout, error) is passed over; the item's price is then 0.
checkInventory(r) ==
  /\ pc[r] = "checking"
  /\ Goto(r, "starting")
  /\ UNCHANGED <<keyHash, orders, emitted, key, hash, reply>>

\* An early return: the claimed key stays behind.
insufficientStock(r) ==
  /\ pc[r] = "checking"
  /\ Answer(r, "insufficient")
  /\ UNCHANGED <<keyHash, orders, emitted, key, hash>>

\* startSession stands outside the try block.
startSession(r) ==
  /\ pc[r] = "starting"
  /\ \/ Goto(r, "transacting") /\ UNCHANGED reply
     \/ Answer(r, "error")
  /\ UNCHANGED <<keyHash, orders, emitted, key, hash>>

Wrong_insertOrder(r) ==
  LET o == orderId(r) IN
    /\ status' = [status EXCEPT ![o] = "pending"]
    /\ content' = [content EXCEPT ![o] = hash[r]]
    /\ Emit(o, "ORDER_CREATED")

\* The order and its outbox event, in one transaction; orderId is unique.
insertOrder(r) ==
  LET o == orderId(r) IN
    /\ ~OrderExists(o)
    /\ status' = [status EXCEPT ![o] = "pending"]
    /\ content' = [content EXCEPT ![o] = hash[r]]
    /\ Emit(o, "ORDER_CREATED")

\* The commit may be acknowledged or not.
commitOrder(r) ==
  /\ pc[r] = "transacting"
  /\ insertOrder(r)
  /\ \E label \in {"caching", "cleaning"} : Goto(r, label)
  /\ UNCHANGED <<keyHash, key, hash, reply>>

\* A duplicate orderId or a database error aborts the transaction.
abortOrder(r) ==
  /\ pc[r] = "transacting"
  /\ Goto(r, "cleaning")
  /\ UNCHANGED <<keyHash, orders, emitted, key, hash, reply>>

\* Update the cached response, when there is a key; this may fail as well.
cacheResponse(r) ==
  /\ pc[r] = "caching"
  /\ \/ Answer(r, "accepted")
     \/ key[r] # NoKey /\ Goto(r, "cleaning") /\ UNCHANGED reply
  /\ UNCHANGED <<keyHash, orders, emitted, key, hash>>

\* The catch block deletes the key; a failure to do so is only logged.
cleanUp(r) ==
  /\ pc[r] = "cleaning"
  /\ \/ key[r] # NoKey /\ keyHash' = [keyHash EXCEPT ![key[r]] = NoHash]
     \/ UNCHANGED keyHash
  /\ Answer(r, "failed")
  /\ UNCHANGED <<orders, emitted, key, hash>>

\* The process that serves r dies.
crash(r) ==
  /\ pc[r] \notin {"idle", "done"}
  /\ Answer(r, "lost")
  /\ UNCHANGED <<keyHash, orders, emitted, key, hash>>

\* Calls that own their key: between the claim and the answer.
Owners(k) ==
  {r \in Requests : key[r] = k /\
     pc[r] \in {"checking", "starting", "transacting", "caching", "cleaning"}}

\* The TTL index drops a key after 24 hours; no call takes that long.
expireKey(k) ==
  /\ keyHash[k] # NoHash
  /\ Owners(k) = {}
  /\ keyHash' = [keyHash EXCEPT ![k] = NoHash]
  /\ UNCHANGED <<orders, emitted, calls>>

\* The filter of the findOneAndUpdate in shipOrder and cancelOrder.
Open(o) == status[o] \in {"pending", "confirmed"}

shipOrder(o) ==
  /\ Open(o)
  /\ status' = [status EXCEPT ![o] = "shipped"]
  /\ Emit(o, "ORDER_SHIPPED")
  /\ UNCHANGED <<keyHash, content, calls>>

cancelOrder(o) ==
  /\ Open(o)
  /\ status' = [status EXCEPT ![o] = "cancelled"]
  /\ Emit(o, "ORDER_CANCELLED")
  /\ UNCHANGED <<keyHash, content, calls>>

\* POST /:orderId/ship and /:orderId/cancel: 200, or 404 and 400 with nothing changed.
Ship == \E o \in OrderIds : shipOrder(o)
Cancel == \E o \in OrderIds : cancelOrder(o)

Next ==
  \/ \E r \in Requests :
       \/ \E k \in Keys \cup {NoKey}, h \in Hashes : createOrder(r, k, h)
       \/ findKey(r) \/ findOrder(r) \/ claimKey(r) \/ findKeyAgain(r)
       \/ checkInventory(r) \/ insufficientStock(r) \/ startSession(r)
       \/ commitOrder(r) \/ abortOrder(r) \/ cacheResponse(r) \/ cleanUp(r)
       \/ crash(r)
  \/ \E k \in Keys : expireKey(k)
  \/ Ship \/ Cancel

Spec == Init /\ [][Next]_vars
-----------------------------------------------------------------------------
TypeOK ==
  /\ keyHash \in [Keys -> Hashes \cup {NoHash}]
  /\ status \in [OrderIds -> {"none", "pending", "shipped", "cancelled"}]
  /\ content \in [OrderIds -> Hashes \cup {NoHash}]
  /\ emitted \in [OrderIds -> [EventTypes -> Nat]]
  /\ pc \in [Requests -> {"idle", "finding", "cached", "claiming", "raced",
       "checking", "starting", "transacting", "caching", "cleaning", "done"}]
  /\ key \in [Requests -> Keys \cup {NoKey}]
  /\ hash \in [Requests -> Hashes \cup {NoHash}]
  /\ reply \in [Requests -> {"none", "accepted", "mismatch", "insufficient",
                             "failed", "error", "lost"}]

\* The outbox tells the true story of every order, retries, races, crashes
\* and aborted transactions included: exactly one ORDER_CREATED per order and
\* none without it, and at most one of ORDER_SHIPPED and ORDER_CANCELLED,
\* the one the order's status says.
OutboxMatchesOrders ==
  \A o \in OrderIds :
    /\ emitted[o]["ORDER_CREATED"] = IF OrderExists(o) THEN 1 ELSE 0
    /\ emitted[o]["ORDER_SHIPPED"] = IF status[o] = "shipped" THEN 1 ELSE 0
    /\ emitted[o]["ORDER_CANCELLED"] = IF status[o] = "cancelled" THEN 1 ELSE 0

\* Two calls never work on the same key at once, and the key records the body
\* of the one that does.
KeyIsALock ==
  \A k \in Keys, r \in Requests : r \in Owners(k) =>
    keyHash[k] = hash[r] /\ Owners(k) = {r}

\* A 202 is never sent for an order that does not exist, whichever of the
\* three paths to it a call took.
AcceptedExists ==
  \A r \in Requests : reply[r] = "accepted" => OrderExists(orderId(r))
=============================================================================
