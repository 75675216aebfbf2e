----------------------------- MODULE OrderProofs -----------------------------
(***************************************************************************)
(* Safety of the order service, for any number of overlapping calls, keys  *)
(* and request bodies, and of the fan-out of its events, for any events,   *)
(* any number of copies and faults, and any of the services.               *)
(***************************************************************************)
EXTENDS OrderService, OrderFanout, Integers, TLAPS

\* Calls on the key path have a key; a call that committed has its order.
CallsInOrder ==
  \A r \in Requests :
    /\ pc[r] \in {"finding", "cached", "claiming", "raced"} => key[r] \in Keys
    /\ pc[r] # "idle" => hash[r] \in Hashes
    /\ pc[r] = "caching" => OrderExists(orderId(r))
    /\ pc[r] # "done" => reply[r] = "none"

IInv == TypeOK /\ CallsInOrder /\ OutboxMatchesOrders /\ KeyIsALock /\ AcceptedExists

LEMMA InitIInv == Init => IInv
  BY OrderAssumption
     DEF Init, IInv, TypeOK, CallsInOrder, OutboxMatchesOrders, KeyIsALock,
         AcceptedExists, OrderExists, Owners, EventTypes

\* The id of an order is one of OrderIds.
LEMMA OrderIdType == TypeOK => \A r \in Requests : orderId(r) \in OrderIds
  BY DEF TypeOK, orderId, OrderIds

\* Counting one more row of an order keeps the counters' type.
LEMMA EmitType ==
  ASSUME emitted \in [OrderIds -> [EventTypes -> Nat]],
         NEW o \in OrderIds, NEW t \in EventTypes, Emit(o, t)
  PROVE  emitted' \in [OrderIds -> [EventTypes -> Nat]]
<1>1. emitted[o] \in [EventTypes -> Nat]
  OBVIOUS
<1>2. [emitted[o] EXCEPT ![t] = @ + 1] \in [EventTypes -> Nat]
  BY <1>1
<1>3. emitted' = [emitted EXCEPT ![o] = [emitted[o] EXCEPT ![t] = @ + 1]]
  BY DEF Emit
<1> QED
  BY <1>2, <1>3

LEMMA EventTypeNames ==
  /\ "ORDER_CREATED" \in EventTypes
  /\ "ORDER_SHIPPED" \in EventTypes
  /\ "ORDER_CANCELLED" \in EventTypes
  BY DEF EventTypes

\* Every step keeps the types.
LEMMA StepTypeOK == TypeOK /\ CallsInOrder /\ [Next]_vars => TypeOK'
<1> SUFFICES ASSUME TypeOK /\ CallsInOrder, [Next]_vars PROVE TypeOK'
  OBVIOUS
<1> USE OrderAssumption, OrderIdType
    DEF TypeOK, CallsInOrder, orders, calls, Goto, Answer
<1>1. ASSUME NEW r \in Requests, NEW k \in Keys \cup {NoKey}, NEW h \in Hashes,
            createOrder(r, k, h)
      PROVE  TypeOK'
  BY <1>1 DEF createOrder
<1>2. ASSUME NEW r \in Requests, findKey(r) PROVE TypeOK'
  BY <1>2 DEF findKey
<1>3. ASSUME NEW r \in Requests, findOrder(r) PROVE TypeOK'
  BY <1>3 DEF findOrder
<1>4. ASSUME NEW r \in Requests, claimKey(r) PROVE TypeOK'
  BY <1>4 DEF claimKey
<1>5. ASSUME NEW r \in Requests, findKeyAgain(r) PROVE TypeOK'
  BY <1>5 DEF findKeyAgain
<1>6. ASSUME NEW r \in Requests, checkInventory(r) PROVE TypeOK'
  BY <1>6 DEF checkInventory
<1>7. ASSUME NEW r \in Requests, insufficientStock(r) PROVE TypeOK'
  BY <1>7 DEF insufficientStock
<1>8. ASSUME NEW r \in Requests, startSession(r) PROVE TypeOK'
  BY <1>8 DEF startSession
<1>9. ASSUME NEW r \in Requests, commitOrder(r) PROVE TypeOK'
  BY <1>9, EmitType, EventTypeNames DEF commitOrder, insertOrder
<1>10. ASSUME NEW r \in Requests, abortOrder(r) PROVE TypeOK'
  BY <1>10 DEF abortOrder
<1>11. ASSUME NEW r \in Requests, cacheResponse(r) PROVE TypeOK'
  BY <1>11 DEF cacheResponse
<1>12. ASSUME NEW r \in Requests, cleanUp(r) PROVE TypeOK'
  BY <1>12 DEF cleanUp
<1>13. ASSUME NEW r \in Requests, crash(r) PROVE TypeOK'
  BY <1>13 DEF crash
<1>14. ASSUME NEW k \in Keys, expireKey(k) PROVE TypeOK'
  BY <1>14 DEF expireKey
<1>15. ASSUME NEW o \in OrderIds, shipOrder(o) PROVE TypeOK'
  BY <1>15, EmitType, EventTypeNames DEF shipOrder, Open
<1>16. ASSUME NEW o \in OrderIds, cancelOrder(o) PROVE TypeOK'
  BY <1>16, EmitType, EventTypeNames DEF cancelOrder, Open
<1>17. CASE UNCHANGED vars
  BY <1>17 DEF vars
<1> QED
  BY <1>1, <1>2, <1>3, <1>4, <1>5, <1>6, <1>7, <1>8, <1>9, <1>10, <1>11, <1>12, <1>13, <1>14, <1>15, <1>16, <1>17 DEF Next, Ship, Cancel

\* Every step keeps the calls in order.
LEMMA StepCalls == TypeOK /\ CallsInOrder /\ [Next]_vars => CallsInOrder'
<1> SUFFICES ASSUME TypeOK /\ CallsInOrder, [Next]_vars PROVE CallsInOrder'
  OBVIOUS
<1> USE OrderAssumption
    DEF TypeOK, CallsInOrder, OrderExists, orderId, OrderIds, orders, calls, Goto, Answer
<1>1. ASSUME NEW r \in Requests, NEW k \in Keys \cup {NoKey}, NEW h \in Hashes,
            createOrder(r, k, h)
      PROVE  CallsInOrder'
  BY <1>1 DEF createOrder
<1>2. ASSUME NEW r \in Requests, findKey(r) PROVE CallsInOrder'
  BY <1>2 DEF findKey
<1>3. ASSUME NEW r \in Requests, findOrder(r) PROVE CallsInOrder'
  BY <1>3 DEF findOrder
<1>4. ASSUME NEW r \in Requests, claimKey(r) PROVE CallsInOrder'
  BY <1>4 DEF claimKey
<1>5. ASSUME NEW r \in Requests, findKeyAgain(r) PROVE CallsInOrder'
  BY <1>5 DEF findKeyAgain
<1>6. ASSUME NEW r \in Requests, checkInventory(r) PROVE CallsInOrder'
  BY <1>6 DEF checkInventory
<1>7. ASSUME NEW r \in Requests, insufficientStock(r) PROVE CallsInOrder'
  BY <1>7 DEF insufficientStock
<1>8. ASSUME NEW r \in Requests, startSession(r) PROVE CallsInOrder'
  BY <1>8 DEF startSession
<1>9. ASSUME NEW r \in Requests, commitOrder(r) PROVE CallsInOrder'
  BY <1>9 DEF commitOrder, insertOrder
<1>10. ASSUME NEW r \in Requests, abortOrder(r) PROVE CallsInOrder'
  BY <1>10 DEF abortOrder
<1>11. ASSUME NEW r \in Requests, cacheResponse(r) PROVE CallsInOrder'
  BY <1>11 DEF cacheResponse
<1>12. ASSUME NEW r \in Requests, cleanUp(r) PROVE CallsInOrder'
  BY <1>12 DEF cleanUp
<1>13. ASSUME NEW r \in Requests, crash(r) PROVE CallsInOrder'
  BY <1>13 DEF crash
<1>14. ASSUME NEW k \in Keys, expireKey(k) PROVE CallsInOrder'
  BY <1>14 DEF expireKey
<1>15. ASSUME NEW o \in OrderIds, shipOrder(o) PROVE CallsInOrder'
  BY <1>15 DEF shipOrder, Open
<1>16. ASSUME NEW o \in OrderIds, cancelOrder(o) PROVE CallsInOrder'
  BY <1>16 DEF cancelOrder, Open
<1>17. CASE UNCHANGED vars
  BY <1>17 DEF vars
<1> QED
  BY <1>1, <1>2, <1>3, <1>4, <1>5, <1>6, <1>7, <1>8, <1>9, <1>10, <1>11, <1>12, <1>13, <1>14, <1>15, <1>16, <1>17 DEF Next, Ship, Cancel

\* Every transaction writes the order and its event together.
LEMMA StepOutbox == TypeOK /\ OutboxMatchesOrders /\ [Next]_vars => OutboxMatchesOrders'
<1> SUFFICES ASSUME TypeOK /\ OutboxMatchesOrders, [Next]_vars PROVE OutboxMatchesOrders'
  OBVIOUS
<1> USE OrderAssumption, OrderIdType
    DEF TypeOK, OutboxMatchesOrders, OrderExists, Emit, EventTypes, orders, calls, Goto, Answer
<1>1. ASSUME NEW r \in Requests, NEW k \in Keys \cup {NoKey}, NEW h \in Hashes,
            createOrder(r, k, h)
      PROVE  OutboxMatchesOrders'
  BY <1>1 DEF createOrder
<1>2. ASSUME NEW r \in Requests, findKey(r) PROVE OutboxMatchesOrders'
  BY <1>2 DEF findKey
<1>3. ASSUME NEW r \in Requests, findOrder(r) PROVE OutboxMatchesOrders'
  BY <1>3 DEF findOrder
<1>4. ASSUME NEW r \in Requests, claimKey(r) PROVE OutboxMatchesOrders'
  BY <1>4 DEF claimKey
<1>5. ASSUME NEW r \in Requests, findKeyAgain(r) PROVE OutboxMatchesOrders'
  BY <1>5 DEF findKeyAgain
<1>6. ASSUME NEW r \in Requests, checkInventory(r) PROVE OutboxMatchesOrders'
  BY <1>6 DEF checkInventory
<1>7. ASSUME NEW r \in Requests, insufficientStock(r) PROVE OutboxMatchesOrders'
  BY <1>7 DEF insufficientStock
<1>8. ASSUME NEW r \in Requests, startSession(r) PROVE OutboxMatchesOrders'
  BY <1>8 DEF startSession
<1>9. ASSUME NEW r \in Requests, commitOrder(r) PROVE OutboxMatchesOrders'
  BY <1>9 DEF commitOrder, insertOrder
<1>10. ASSUME NEW r \in Requests, abortOrder(r) PROVE OutboxMatchesOrders'
  BY <1>10 DEF abortOrder
<1>11. ASSUME NEW r \in Requests, cacheResponse(r) PROVE OutboxMatchesOrders'
  BY <1>11 DEF cacheResponse
<1>12. ASSUME NEW r \in Requests, cleanUp(r) PROVE OutboxMatchesOrders'
  BY <1>12 DEF cleanUp
<1>13. ASSUME NEW r \in Requests, crash(r) PROVE OutboxMatchesOrders'
  BY <1>13 DEF crash
<1>14. ASSUME NEW k \in Keys, expireKey(k) PROVE OutboxMatchesOrders'
  BY <1>14 DEF expireKey
<1>15. ASSUME NEW o \in OrderIds, shipOrder(o) PROVE OutboxMatchesOrders'
  BY <1>15 DEF shipOrder, Open
<1>16. ASSUME NEW o \in OrderIds, cancelOrder(o) PROVE OutboxMatchesOrders'
  BY <1>16 DEF cancelOrder, Open
<1>17. CASE UNCHANGED vars
  BY <1>17 DEF vars
<1> QED
  BY <1>1, <1>2, <1>3, <1>4, <1>5, <1>6, <1>7, <1>8, <1>9, <1>10, <1>11, <1>12, <1>13, <1>14, <1>15, <1>16, <1>17 DEF Next, Ship, Cancel

\* A key changes hands only when nobody owns it.
LEMMA StepLock == TypeOK /\ CallsInOrder /\ KeyIsALock /\ [Next]_vars => KeyIsALock'
<1> SUFFICES ASSUME TypeOK /\ CallsInOrder /\ KeyIsALock, [Next]_vars PROVE KeyIsALock'
  OBVIOUS
<1> USE OrderAssumption
    DEF TypeOK, CallsInOrder, KeyIsALock, Owners, orders, calls, Goto, Answer
<1>1. ASSUME NEW r \in Requests, NEW k \in Keys \cup {NoKey}, NEW h \in Hashes,
            createOrder(r, k, h)
      PROVE  KeyIsALock'
  BY <1>1 DEF createOrder
<1>2. ASSUME NEW r \in Requests, findKey(r) PROVE KeyIsALock'
  BY <1>2 DEF findKey
<1>3. ASSUME NEW r \in Requests, findOrder(r) PROVE KeyIsALock'
  BY <1>3 DEF findOrder
<1>4. ASSUME NEW r \in Requests, claimKey(r) PROVE KeyIsALock'
  BY <1>4 DEF claimKey
<1>5. ASSUME NEW r \in Requests, findKeyAgain(r) PROVE KeyIsALock'
  BY <1>5 DEF findKeyAgain
<1>6. ASSUME NEW r \in Requests, checkInventory(r) PROVE KeyIsALock'
  BY <1>6 DEF checkInventory
<1>7. ASSUME NEW r \in Requests, insufficientStock(r) PROVE KeyIsALock'
  BY <1>7 DEF insufficientStock
<1>8. ASSUME NEW r \in Requests, startSession(r) PROVE KeyIsALock'
  BY <1>8 DEF startSession
<1>9. ASSUME NEW r \in Requests, commitOrder(r) PROVE KeyIsALock'
  BY <1>9 DEF commitOrder, insertOrder
<1>10. ASSUME NEW r \in Requests, abortOrder(r) PROVE KeyIsALock'
  BY <1>10 DEF abortOrder
<1>11. ASSUME NEW r \in Requests, cacheResponse(r) PROVE KeyIsALock'
  BY <1>11 DEF cacheResponse
<1>12. ASSUME NEW r \in Requests, cleanUp(r) PROVE KeyIsALock'
  BY <1>12 DEF cleanUp
<1>13. ASSUME NEW r \in Requests, crash(r) PROVE KeyIsALock'
  BY <1>13 DEF crash
<1>14. ASSUME NEW k \in Keys, expireKey(k) PROVE KeyIsALock'
  BY <1>14 DEF expireKey
<1>15. ASSUME NEW o \in OrderIds, shipOrder(o) PROVE KeyIsALock'
  BY <1>15 DEF shipOrder, Open
<1>16. ASSUME NEW o \in OrderIds, cancelOrder(o) PROVE KeyIsALock'
  BY <1>16 DEF cancelOrder, Open
<1>17. CASE UNCHANGED vars
  BY <1>17 DEF vars
<1> QED
  BY <1>1, <1>2, <1>3, <1>4, <1>5, <1>6, <1>7, <1>8, <1>9, <1>10, <1>11, <1>12, <1>13, <1>14, <1>15, <1>16, <1>17 DEF Next, Ship, Cancel

\* A 202 is sent for an order that exists, and orders stay.
LEMMA StepAccepted == TypeOK /\ CallsInOrder /\ AcceptedExists /\ [Next]_vars => AcceptedExists'
<1> SUFFICES ASSUME TypeOK /\ CallsInOrder /\ AcceptedExists, [Next]_vars PROVE AcceptedExists'
  OBVIOUS
<1> USE OrderAssumption
    DEF TypeOK, CallsInOrder, AcceptedExists, OrderExists, orderId, OrderIds, orders, calls, Goto, Answer
<1>1. ASSUME NEW r \in Requests, NEW k \in Keys \cup {NoKey}, NEW h \in Hashes,
            createOrder(r, k, h)
      PROVE  AcceptedExists'
  BY <1>1 DEF createOrder
<1>2. ASSUME NEW r \in Requests, findKey(r) PROVE AcceptedExists'
  BY <1>2 DEF findKey
<1>3. ASSUME NEW r \in Requests, findOrder(r) PROVE AcceptedExists'
  BY <1>3 DEF findOrder
<1>4. ASSUME NEW r \in Requests, claimKey(r) PROVE AcceptedExists'
  BY <1>4 DEF claimKey
<1>5. ASSUME NEW r \in Requests, findKeyAgain(r) PROVE AcceptedExists'
  BY <1>5 DEF findKeyAgain
<1>6. ASSUME NEW r \in Requests, checkInventory(r) PROVE AcceptedExists'
  BY <1>6 DEF checkInventory
<1>7. ASSUME NEW r \in Requests, insufficientStock(r) PROVE AcceptedExists'
  BY <1>7 DEF insufficientStock
<1>8. ASSUME NEW r \in Requests, startSession(r) PROVE AcceptedExists'
  BY <1>8 DEF startSession
<1>9. ASSUME NEW r \in Requests, commitOrder(r) PROVE AcceptedExists'
  BY <1>9 DEF commitOrder, insertOrder
<1>10. ASSUME NEW r \in Requests, abortOrder(r) PROVE AcceptedExists'
  BY <1>10 DEF abortOrder
<1>11. ASSUME NEW r \in Requests, cacheResponse(r) PROVE AcceptedExists'
  BY <1>11 DEF cacheResponse
<1>12. ASSUME NEW r \in Requests, cleanUp(r) PROVE AcceptedExists'
  BY <1>12 DEF cleanUp
<1>13. ASSUME NEW r \in Requests, crash(r) PROVE AcceptedExists'
  BY <1>13 DEF crash
<1>14. ASSUME NEW k \in Keys, expireKey(k) PROVE AcceptedExists'
  BY <1>14 DEF expireKey
<1>15. ASSUME NEW o \in OrderIds, shipOrder(o) PROVE AcceptedExists'
  BY <1>15 DEF shipOrder, Open
<1>16. ASSUME NEW o \in OrderIds, cancelOrder(o) PROVE AcceptedExists'
  BY <1>16 DEF cancelOrder, Open
<1>17. CASE UNCHANGED vars
  BY <1>17 DEF vars
<1> QED
  BY <1>1, <1>2, <1>3, <1>4, <1>5, <1>6, <1>7, <1>8, <1>9, <1>10, <1>11, <1>12, <1>13, <1>14, <1>15, <1>16, <1>17 DEF Next, Ship, Cancel

LEMMA AlwaysIInv == Spec => []IInv
<1>1. IInv /\ [Next]_vars => IInv'
  BY StepTypeOK, StepCalls, StepOutbox, StepLock, StepAccepted DEF IInv
<1> QED
  BY InitIInv, <1>1, PTL DEF Spec

\* The variables of the order service keep their types.
THEOREM OrderTypeOK == Spec => []TypeOK
  BY AlwaysIInv, PTL DEF IInv

\* The outbox rows of an order are those its status calls for.
THEOREM OrderOutbox == Spec => []OutboxMatchesOrders
  BY AlwaysIInv, PTL DEF IInv

\* A key is a lock on the creation of its order.
THEOREM OrderKeyLock == Spec => []KeyIsALock
  BY AlwaysIInv, PTL DEF IInv

\* No 202 without an order.
THEOREM OrderAccepted == Spec => []AcceptedExists
  BY AlwaysIInv, PTL DEF IInv

-----------------------------------------------------------------------------
\* What a service ever held was routed to it by one of its own keys, and every
\* finished or orphaned delivery was acknowledged or taken back.
WorkFor(s, e) ==
  /\ ready[s][e] + Both(hand[s], e) + Both(orphans[s], e) + Both(done[s], e) > 0
       => Key[e] \in QueueKeys[s]
  /\ Both(done[s], e) + Both(orphans[s], e) <= acked[s][e] + returned[s][e]

CountedFor(s, e) ==
  /\ routed[s][e] = ready[s][e] + Both(hand[s], e) + acked[s][e]
  /\ acked[s][e] <= Both(done[s], e)

Justified ==
  /\ \A s \in Services : bound[s] \subseteq QueueKeys[s]
  /\ \A s \in Services, e \in Events : WorkFor(s, e)

FanoutIInv == FanoutTypeOK /\ CopiesAccounted /\ Justified

LEMMA FanoutInitIInv == FanoutInit => FanoutIInv
  BY FanoutAssumption
     DEF FanoutInit, FanoutIInv, FanoutTypeOK, CopiesAccounted, CountedFor, Justified, WorkFor, Counts,
         PerHandler, Both, NoMessage, NobodyHolds, Handlers

\* One (service, event) of a count per handler changes by n, over both handlers.
Changed(old, new, s, e, n) ==
  \A r \in Services, f \in Events :
    Both(new[r], f) = Both(old[r], f) + (IF r = s /\ f = e THEN n ELSE 0)

LEMMA BothIsNat ==
  \A count \in PerHandler, s \in Services, e \in Events : Both(count[s], e) \in Nat
  BY DEF PerHandler, Both, Handlers

LEMMA OneChanges ==
  ASSUME NEW count \in PerHandler, NEW s \in Services, NEW h \in Handlers,
         NEW e \in Events, NEW n \in Int
  PROVE  Changed(count, [count EXCEPT ![s][h][e] = @ + n], s, e, n)
<1> DEFINE new == [count EXCEPT ![s][h][e] = @ + n]
<1> SUFFICES ASSUME NEW r \in Services, NEW f \in Events
    PROVE  Both(new[r], f) = Both(count[r], f) + (IF r = s /\ f = e THEN n ELSE 0)
  BY DEF Changed
<1>1. \A i \in Handlers :
        /\ count[r][i][f] \in Nat
        /\ new[r][i][f] = IF r = s /\ i = h /\ f = e THEN count[r][i][f] + n
                                                   ELSE count[r][i][f]
  BY DEF PerHandler
<1> QED
  BY <1>1 DEF Both, Handlers

\* A delivery moves one message from the queue to a hand.
LEMMA DeliverIInv ==
  ASSUME FanoutIInv, NEW s \in Services, NEW h \in Handlers, NEW e \in Events, deliver(s, h, e)
  PROVE  FanoutIInv'
<1>1. FanoutTypeOK'
  BY DEF FanoutIInv, FanoutTypeOK, deliver, Counts, PerHandler, Handlers
<1>2. Changed(hand, hand', s, e, 1)
  <2>1. hand \in PerHandler /\ hand' = [hand EXCEPT ![s][h][e] = @ + 1]
    BY DEF FanoutIInv, FanoutTypeOK, deliver
  <2>2. Changed(hand, [hand EXCEPT ![s][h][e] = @ + 1], s, e, 1)
    BY <2>1, OneChanges, 1 \in Int
  <2> QED
    BY <2>1, <2>2
<1>3. ASSUME NEW r \in Services, NEW f \in Events
      PROVE  CountedFor(r, f)' /\ WorkFor(r, f)'
  <2>1. CountedFor(r, f) /\ WorkFor(r, f) /\ WorkFor(s, e)
    BY DEF FanoutIInv, CopiesAccounted, CountedFor, Justified
  <2>2. /\ ready[r][f] \in Nat /\ acked[r][f] \in Nat /\ returned[r][f] \in Nat /\ routed[r][f] \in Nat
        /\ \A c \in {hand, orphans, done} : Both(c[r], f) \in Nat
    BY BothIsNat DEF FanoutIInv, FanoutTypeOK, Counts
  <2>3. /\ ready'[r][f] = ready[r][f] - (IF r = s /\ f = e THEN 1 ELSE 0)
        /\ ready[s][e] > 0
        /\ UNCHANGED <<acked, done, routed, orphans, returned>>
    BY DEF deliver, FanoutIInv, FanoutTypeOK, Counts
  <2> QED
    BY <2>1, <2>2, <2>3, <1>2 DEF CountedFor, WorkFor, Changed
<1>4. CopiesAccounted' /\ Justified'
  BY <1>3 DEF CopiesAccounted, CountedFor, Justified, deliver, FanoutIInv
<1> QED
  BY <1>1, <1>4 DEF FanoutIInv

\* A finished delivery leaves its hand, is acknowledged and counts as work.
LEMMA FinishIInv ==
  ASSUME FanoutIInv, NEW s \in Services, NEW h \in Handlers, NEW e \in Events, finish(s, h, e)
  PROVE  FanoutIInv'
<1>1. FanoutTypeOK'
  BY DEF FanoutIInv, FanoutTypeOK, finish, Work, Counts, PerHandler, Handlers, broker
<1>2. Changed(hand, hand', s, e, 0 - 1)
  <2>1. hand \in PerHandler /\ hand' = [hand EXCEPT ![s][h][e] = @ - 1]
    BY DEF FanoutIInv, FanoutTypeOK, finish, Work
  <2>2. hand[s][h][e] \in Nat /\ hand[s][h][e] - 1 = hand[s][h][e] + (0 - 1)
    BY <2>1 DEF PerHandler
  <2>3. hand' = [hand EXCEPT ![s][h][e] = @ + (0 - 1)]
    BY <2>1, <2>2
  <2>4. Changed(hand, [hand EXCEPT ![s][h][e] = @ + (0 - 1)], s, e, 0 - 1)
    BY <2>1, OneChanges, 0 - 1 \in Int
  <2> QED
    BY <2>3, <2>4
<1>3. Changed(done, done', s, e, 1)
  <2>1. done \in PerHandler /\ done' = [done EXCEPT ![s][h][e] = @ + 1]
    BY DEF FanoutIInv, FanoutTypeOK, finish, Work
  <2>2. Changed(done, [done EXCEPT ![s][h][e] = @ + 1], s, e, 1)
    BY <2>1, OneChanges, 1 \in Int
  <2> QED
    BY <2>1, <2>2
<1>4. ASSUME NEW r \in Services, NEW f \in Events
      PROVE  CountedFor(r, f)' /\ WorkFor(r, f)'
  <2>1. CountedFor(r, f) /\ WorkFor(r, f) /\ WorkFor(s, e)
    BY DEF FanoutIInv, CopiesAccounted, CountedFor, Justified
  <2>2. /\ ready[r][f] \in Nat /\ acked[r][f] \in Nat /\ returned[r][f] \in Nat /\ routed[r][f] \in Nat
        /\ \A c \in {hand, orphans, done} : Both(c[r], f) \in Nat
    BY BothIsNat DEF FanoutIInv, FanoutTypeOK, Counts
  <2>3. /\ acked'[r][f] = acked[r][f] + (IF r = s /\ f = e THEN 1 ELSE 0)
        /\ UNCHANGED <<ready, routed, orphans, returned>>
    BY DEF finish, Work, FanoutIInv, FanoutTypeOK, Counts, broker
  <2>4. /\ Both(hand'[r], f) = Both(hand[r], f) - (IF r = s /\ f = e THEN 1 ELSE 0)
        /\ Both(done'[r], f) = Both(done[r], f) + (IF r = s /\ f = e THEN 1 ELSE 0)
    BY <2>2, <1>2, <1>3 DEF Changed
  <2>5. CountedFor(r, f)'
    BY <2>1, <2>2, <2>3, <2>4 DEF CountedFor
  <2>6. WorkFor(r, f)'
    BY <2>1, <2>2, <2>3, <2>4 DEF WorkFor
  <2> QED
    BY <2>5, <2>6
<1>5. CopiesAccounted' /\ Justified'
  BY <1>4 DEF CopiesAccounted, CountedFor, Justified, finish, Work, FanoutIInv, broker
<1> QED
  BY <1>1, <1>5 DEF FanoutIInv

LEMMA FanoutStepIInv == FanoutIInv /\ [FanoutNext]_fanoutVars => FanoutIInv'
<1> SUFFICES ASSUME FanoutIInv, [FanoutNext]_fanoutVars PROVE FanoutIInv'
  OBVIOUS
<1>1. ASSUME NEW s \in Services, NEW h \in Handlers, NEW e \in Events, deliver(s, h, e)
      PROVE  FanoutIInv'
  BY <1>1, DeliverIInv
<1>2. ASSUME NEW s \in Services, NEW h \in Handlers, NEW e \in Events, finish(s, h, e)
      PROVE  FanoutIInv'
  BY <1>2, FinishIInv
<1> USE FanoutAssumption
    DEF FanoutIInv, FanoutTypeOK, CopiesAccounted, CountedFor, Justified, WorkFor, Counts,
        PerHandler, Both, Handlers
<1>3. ASSUME NEW e \in Events, publish(e) PROVE FanoutIInv'
  BY <1>3 DEF publish, Route, Bound, service
<1>4. ASSUME NEW s \in Services, connect(s) PROVE FanoutIInv'
  BY <1>4 DEF connect, broker
<1>5. ASSUME NEW s \in Services, NEW k \in Handlers, consume(s, k) PROVE FanoutIInv'
  BY <1>5 DEF consume
<1>6. ASSUME NEW s \in Services, NEW h \in Handlers, NEW e \in Events, finishOrphan(s, h, e)
      PROVE  FanoutIInv'
  BY <1>6 DEF finishOrphan, Work, broker
<1>7. ASSUME NEW s \in Services, loseConnection(s) \/ shutdown(s) PROVE FanoutIInv'
  <2>1. CASE loseConnection(s)
    BY <2>1 DEF loseConnection, Orphan, Return, NobodyHolds, NoMessage
  <2>2. CASE shutdown(s)
    BY <2>2 DEF shutdown, Orphan, Return, NobodyHolds, NoMessage
  <2> QED
    BY <1>7, <2>1, <2>2
<1>8. ASSUME NEW s \in Services, exit(s) PROVE FanoutIInv'
  BY <1>8 DEF exit, Return, NobodyHolds, NoMessage
<1>9. CASE UNCHANGED fanoutVars
  BY <1>9 DEF fanoutVars, broker, service
<1> HIDE DEF FanoutIInv, Handlers
<1> QED
  BY <1>1, <1>2, <1>3, <1>4, <1>5, <1>6, <1>7, <1>8, <1>9 DEF FanoutNext, Deliver, Handle

LEMMA FanoutAlwaysIInv == FanoutSpec => []FanoutIInv
  BY FanoutInitIInv, FanoutStepIInv, PTL DEF FanoutSpec

\* The variables keep their types.
THEOREM FanoutKeepsTypes == FanoutSpec => []FanoutTypeOK
  BY FanoutAlwaysIInv, PTL DEF FanoutIInv

\* No message disappears from a queue unhandled (CopiesAccounted).
THEOREM FanoutAccounted == FanoutSpec => []CopiesAccounted
  BY FanoutAlwaysIInv, PTL DEF FanoutIInv

\* Work is repeated only for a message that was taken back, and a service only
\* works on the keys it consumes (EffectsJustified).
THEOREM FanoutEffectsJustified == FanoutSpec => []EffectsJustified
<1>1. FanoutIInv => EffectsJustified
  BY DEF FanoutIInv, FanoutTypeOK, Justified, WorkFor, EffectsJustified, Both, PerHandler, Counts, Handlers
<1> QED
  BY <1>1, FanoutAlwaysIInv, PTL
=============================================================================
