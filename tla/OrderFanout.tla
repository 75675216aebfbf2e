------------------------------ MODULE OrderFanout ------------------------------
(***************************************************************************)
(* The orders.exchange copies each event of the outbox into the queues     *)
(* bound to its routing key, and the payment, notification and analytics   *)
(* services consume them (consumers/order.consumer.ts of each service,     *)
(* consume() of packages/rabbitmq/src/connection.ts).                      *)
(*                                                                         *)
(* A service that wants two keys calls consume() twice on one queue, each  *)
(* call with a handler of its own: the broker hands every message to       *)
(* either consumer, and no handler looks at the event's type.  Nobody      *)
(* binds the key of cancelled orders.                                      *)
(*                                                                         *)
(* Queues and bindings survive their service.  Messages are counted, not   *)
(* ordered; the prefetch limit and the statistics are left out, and no     *)
(* handler throws.                                                         *)
(***************************************************************************)
EXTENDS Naturals

CONSTANTS
  Services,   \* among the services of QueueKeys
  Events,
  Type,       \* the type of each event
  MaxCopies,  \* bound: times an event is published
  MaxFaults   \* bound: lost connections and ended processes that had messages in hand

\* The keys each service consumes, in one queue of its own.
PaymentKeys == {"order.created"}
NotificationKeys == {"order.created", "order.shipped"}
AnalyticsKeys == {"order.created", "order.shipped"}

QueueKeys == [payment |-> PaymentKeys, notification |-> NotificationKeys, analytics |-> AnalyticsKeys]

Handlers == {"order.created", "order.shipped"}

\* The routing key the outbox worker gives an event.
getRoutingKey(type) ==
  CASE type = "ORDER_CREATED" -> "order.created"
    [] type = "ORDER_SHIPPED" -> "order.shipped"
    [] type = "ORDER_CANCELLED" -> "inventory.release"

Key == [e \in Events |-> getRoutingKey(Type[e])]

ASSUME FanoutAssumption ==
  /\ Services \subseteq DOMAIN QueueKeys
  /\ Type \in [Events -> {"ORDER_CREATED", "ORDER_SHIPPED", "ORDER_CANCELLED"}]
  /\ MaxCopies \in Nat /\ MaxFaults \in Nat

VARIABLES
  copies,      \* how often an event was published
  bound,       \* per service: the keys bound to its queue
  ready,       \* per service and event: messages in its queue
  process,     \* per service: "down", "up", "deaf" after a lost connection, or
               \* "closing" after a signal
  consuming,   \* per service: the keys it has called consume() for
  hand,        \* messages in the hands of a handler, not acknowledged
  orphans,     \* messages whose channel closed under their handler
  faults,
  \* History, per service and event:
  routed,      \* messages the queue received
  acked,       \* messages acknowledged
  done,        \* per handler: times the handler did its work
  returned     \* messages the broker took back

broker == <<copies, bound, ready, routed>>
service == <<process, consuming, hand, orphans, done>>
fanoutVars == <<broker, service, acked, returned, faults>>

NoMessage == [e \in Events |-> 0]
NobodyHolds == [h \in Handlers |-> NoMessage]

FanoutInit ==
  /\ copies = NoMessage
  /\ bound = [s \in Services |-> {}]
  /\ ready = [s \in Services |-> NoMessage]
  /\ process = [s \in Services |-> "down"]
  /\ consuming = [s \in Services |-> {}]
  /\ hand = [s \in Services |-> NobodyHolds]
  /\ orphans = [s \in Services |-> NobodyHolds]
  /\ faults = 0
  /\ routed = [s \in Services |-> NoMessage]
  /\ acked = [s \in Services |-> NoMessage]
  /\ done = [s \in Services |-> NobodyHolds]
  /\ returned = [s \in Services |-> NoMessage]

\* Over both handlers.
Both(count, e) == count["order.created"][e] + count["order.shipped"][e]

Bound(s, e) == Key[e] \in bound[s]

\* One message more for e in every queue bound to its key.
Route(count, e) ==
  [s \in Services |-> IF Bound(s, e) THEN [count[s] EXCEPT ![e] = @ + 1] ELSE count[s]]

\* The outbox publishes an event, perhaps again.
publish(e) ==
  /\ copies[e] < MaxCopies
  /\ copies' = [copies EXCEPT ![e] = @ + 1]
  /\ ready' = Route(ready, e)
  /\ routed' = Route(routed, e)
  /\ UNCHANGED <<bound, service, acked, returned, faults>>

\* The process starts and connects.
connect(s) ==
  /\ process[s] = "down"
  /\ process' = [process EXCEPT ![s] = "up"]
  /\ UNCHANGED <<broker, consuming, hand, orphans, done, acked, returned, faults>>

Wrong_consume(s, k) ==
  /\ process[s] = "up" /\ k \in QueueKeys[s] \ consuming[s]
  /\ k = "order.shipped" => "order.created" \in consuming[s]
  /\ bound' = [bound EXCEPT ![s] = Handlers]
  /\ consuming' = [consuming EXCEPT ![s] = @ \cup {k}]
  /\ UNCHANGED <<copies, ready, routed, process, hand, orphans, done, acked, returned, faults>>

\* consume(): the queue exists, is bound to the key and has one consumer more;
\* order.created comes first.
consume(s, k) ==
  /\ process[s] = "up" /\ k \in QueueKeys[s] \ consuming[s]
  /\ k = "order.shipped" => "order.created" \in consuming[s]
  /\ bound' = [bound EXCEPT ![s] = @ \cup {k}]
  /\ consuming' = [consuming EXCEPT ![s] = @ \cup {k}]
  /\ UNCHANGED <<copies, ready, routed, process, hand, orphans, done, acked, returned, faults>>

\* Any consumer of the queue may receive the message, whatever its key.
deliver(s, h, e) ==
  /\ h \in consuming[s] /\ ready[s][e] > 0
  /\ ready' = [ready EXCEPT ![s][e] = @ - 1]
  /\ hand' = [hand EXCEPT ![s][h][e] = @ + 1]
  /\ UNCHANGED <<copies, bound, routed, process, consuming, orphans, done, acked, returned, faults>>

\* The handler takes the payment, sends the mail or counts the order.
Work(s, h, e) == done' = [done EXCEPT ![s][h][e] = @ + 1]

Wrong_finish(s, h, e) ==
  /\ hand[s][h][e] > 0
  /\ hand' = [hand EXCEPT ![s][h][e] = @ - 1]
  /\ Work(s, h, e)
  /\ UNCHANGED <<broker, process, consuming, orphans, acked, returned, faults>>

\* The handler puts back what is not of its key.
Wrong_putBack(s, h, e) ==
  /\ hand[s][h][e] > 0
  /\ hand' = [hand EXCEPT ![s][h][e] = @ - 1]
  /\ IF Key[e] = h
       THEN /\ Work(s, h, e)
            /\ acked' = [acked EXCEPT ![s][e] = @ + 1]
            /\ UNCHANGED ready
       ELSE /\ ready' = [ready EXCEPT ![s][e] = @ + 1]
            /\ UNCHANGED <<done, acked>>
  /\ UNCHANGED <<copies, bound, routed, process, consuming, orphans, returned, faults>>

\* The handler has done its work and the message is acknowledged.
finish(s, h, e) ==
  /\ hand[s][h][e] > 0
  /\ hand' = [hand EXCEPT ![s][h][e] = @ - 1]
  /\ Work(s, h, e)
  /\ acked' = [acked EXCEPT ![s][e] = @ + 1]
  /\ UNCHANGED <<broker, process, consuming, orphans, returned, faults>>

\* A handler whose channel closed goes on; there is nothing left to acknowledge.
finishOrphan(s, h, e) ==
  /\ orphans[s][h][e] > 0
  /\ orphans' = [orphans EXCEPT ![s][h][e] = @ - 1]
  /\ Work(s, h, e)
  /\ UNCHANGED <<broker, process, consuming, hand, acked, returned, faults>>

\* The broker takes back what was not acknowledged.
Return(s) ==
  /\ ready' = [ready EXCEPT ![s] = [e \in Events |-> @[e] + Both(hand[s], e)]]
  /\ returned' = [returned EXCEPT ![s] = [e \in Events |-> @[e] + Both(hand[s], e)]]
  /\ hand' = [hand EXCEPT ![s] = NobodyHolds]
  /\ consuming' = [consuming EXCEPT ![s] = {}]
  /\ IF hand[s] = NobodyHolds THEN UNCHANGED faults
                              ELSE faults < MaxFaults /\ faults' = faults + 1

\* The channel is gone under the handlers of s, which go on.
Orphan(s) ==
  /\ Return(s)
  /\ orphans' = [orphans EXCEPT ![s] =
                   [h \in Handlers |-> [e \in Events |-> @[h][e] + hand[s][h][e]]]]
  /\ UNCHANGED <<copies, bound, routed, done, acked>>

\* The close handler forgets connection and channel; nobody connects again.
loseConnection(s) ==
  /\ process[s] = "up"
  /\ Orphan(s)
  /\ process' = [process EXCEPT ![s] = "deaf"]

\* SIGINT or SIGTERM: the service disconnects and does not wait for its handlers.
shutdown(s) ==
  /\ process[s] = "up"
  /\ Orphan(s)
  /\ process' = [process EXCEPT ![s] = "closing"]

\* The process ends: exit(1) after a start that failed, exit(0) after a shutdown,
\* or a crash.
exit(s) ==
  /\ process[s] # "down"
  /\ Return(s)
  /\ process' = [process EXCEPT ![s] = "down"]
  /\ orphans' = [orphans EXCEPT ![s] = NobodyHolds]
  /\ UNCHANGED <<copies, bound, routed, done, acked>>

Handle(s) == \E h \in Handlers, e \in Events : finish(s, h, e)
Deliver(s) == \E h \in Handlers, e \in Events : deliver(s, h, e)

FanoutNext ==
  \/ \E e \in Events : publish(e)
  \/ \E s \in Services :
       \/ connect(s) \/ Deliver(s) \/ Handle(s) \/ loseConnection(s)
       \/ shutdown(s) \/ exit(s)
       \/ \E k \in Handlers : consume(s, k)
       \/ \E h \in Handlers, e \in Events : finishOrphan(s, h, e)

FanoutSpec == FanoutInit /\ [][FanoutNext]_fanoutVars

\* The broker delivers to whoever consumes, and handlers end.
FanoutFairSpec == FanoutSpec /\ \A s \in Services : WF_fanoutVars(Deliver(s)) /\ WF_fanoutVars(Handle(s))
-----------------------------------------------------------------------------
Counts == [Services -> [Events -> Nat]]
PerHandler == [Services -> [Handlers -> [Events -> Nat]]]

FanoutTypeOK ==
  /\ copies \in [Events -> 0..MaxCopies]
  /\ bound \in [Services -> SUBSET Handlers]
  /\ process \in [Services -> {"down", "up", "deaf", "closing"}]
  /\ consuming \in [Services -> SUBSET Handlers]
  /\ ready \in Counts /\ routed \in Counts /\ acked \in Counts /\ returned \in Counts
  /\ hand \in PerHandler /\ orphans \in PerHandler /\ done \in PerHandler
  /\ faults \in 0..MaxFaults

\* No message disappears from a queue unhandled: each one it received waits, is
\* in hand, or was acknowledged by a handler that had done its work, through
\* lost connections, crashes and restarts, and whatever the other services do.
CopiesAccounted ==
  \A s \in Services, e \in Events :
    /\ routed[s][e] = ready[s][e] + Both(hand[s], e) + acked[s][e]
    /\ acked[s][e] <= Both(done[s], e)

\* A payment is only taken for a created order, and what a service does for a
\* message it repeats only when the broker took the message back: an event
\* published once and never returned is paid, mailed and counted once.
EffectsJustified ==
  \A s \in Services, e \in Events :
    /\ Both(done[s], e) > 0 => Key[e] \in QueueKeys[s]
    /\ Both(done[s], e) <= acked[s][e] + returned[s][e]

\* A service that goes on consuming ends up with an empty queue.
QueuesDrain ==
  \A s \in Services :
    <>[](consuming[s] # {}) =>
      <>[](\A e \in Events : ready[s][e] = 0 /\ Both(hand[s], e) = 0)
=============================================================================
