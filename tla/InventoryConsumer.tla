--------------------------- MODULE InventoryConsumer ---------------------------
(***************************************************************************)
(* The inventory service's consumer of order events                        *)
(* (consumers/order.consumer.ts), the stock operations it calls            *)
(* (services/inventory.service.ts), the record of processed events, and    *)
(* the queue "inventory.updates" it reads from.  A slot handles one        *)
(* delivery at a time; several are open at once, in one process (prefetch) *)
(* or in several, and interleave at every await.  Each slot has a          *)
(* connection of its own.                                                  *)
(*                                                                         *)
(* Order events carry no adjustmentRequestId, so the lookup by it          *)
(* (service lines 226-239) never runs and every record has none.           *)
(***************************************************************************)
EXTENDS Naturals, Sequences, FiniteSets

CONSTANTS
  Orders, Products,
  Lines,       \* the items of each order
  Slots,
  NoEvent,
  Quantities,  \* what create and update set a quantity to
  MaxCopies,   \* bound: copies the outbox publishes of one event
  MaxLosses    \* bound: lost connections and crashes

Items == [product : Products, quantity : Nat \ {0}]
EventTypes == {"ORDER_CREATED", "ORDER_SHIPPED"}
Events == [order : Orders, type : EventTypes]
Operations == {"reserve", "confirm"}

ASSUME InventoryAssumption ==
  /\ Lines \in [Orders -> Seq(Items)]
  /\ IsFiniteSet(Slots)
  /\ Quantities \subseteq Nat
  /\ MaxCopies \in Nat /\ MaxLosses \in Nat
  /\ NoEvent \notin Events

VARIABLES
  listed, quantity, reserved,  \* the inventory documents
  records,                     \* the ProcessedEvent documents
  copies, queue,               \* copies published of an event, and queued
  pc, event, op, item,         \* per slot: the handler
  held,                        \* per slot: the broker still waits for its ack
  consumer,                    \* per slot: its subscription to the queue
  settled,                     \* copies acked or rejected, per event
  losses,
  \* History:
  applied,                     \* <<event, line>>: the line's change of the stock was made
  twice,                       \* events a line of which was changed twice
  unsure                       \* events handled by two slots at once, left between
                               \* change and record, or whose record was refused or expired

stock == <<listed, quantity, reserved>>
handler == <<pc, event, op, item>>
slots == <<handler, held, consumer>>
broker == <<copies, queue, settled, losses>>
tally == <<applied, twice, unsure>>
vars == <<stock, records, tally, slots, broker>>

Init ==
  /\ listed = {}
  /\ quantity = [p \in Products |-> 0]
  /\ reserved = [p \in Products |-> 0]
  /\ records = {}
  /\ copies = [e \in Events |-> 0]
  /\ queue = [e \in Events |-> 0]
  /\ pc = [d \in Slots |-> "idle"]
  /\ event = [d \in Slots |-> NoEvent]
  /\ op = [d \in Slots |-> "reserve"]
  /\ item = [d \in Slots |-> 1]
  /\ held = [d \in Slots |-> FALSE]
  /\ consumer = [d \in Slots |-> "starting"]
  /\ settled = [e \in Events |-> 0]
  /\ losses = 0
  /\ applied = {} /\ twice = {} /\ unsure = {}

Goto(d, label) == pc' = [pc EXCEPT ![d] = label]

\* The handler of a delivery has returned or died.
Free(d) ==
  /\ Goto(d, "idle")
  /\ event' = [event EXCEPT ![d] = NoEvent]
  /\ op' = [op EXCEPT ![d] = "reserve"]
  /\ item' = [item EXCEPT ![d] = 1]
  /\ held' = [held EXCEPT ![d] = FALSE]

Subscription(d, s) == consumer' = [consumer EXCEPT ![d] = s]

Recorded(e) == \E x \in records : x.event = e

\* History: the line a handler stands at is applied, and whether it was before.
Apply(d) ==
  /\ applied' = applied \cup {<<event[d], item[d]>>}
  /\ twice' = twice \cup {e \in {event[d]} : <<e, item[d]>> \in applied}
  /\ UNCHANGED unsure

\* History: what happens leaves it open whether the event is handled again.
Doubt(E) == unsure' = unsure \cup E /\ UNCHANGED <<applied, twice>>

HalfDone(e) == ~Recorded(e) /\ \E x \in applied : x[1] = e
-----------------------------------------------------------------------------
(* The outbox publishes an event at least once, in any order.              *)
publish(e) ==
  /\ copies[e] < MaxCopies
  /\ copies' = [copies EXCEPT ![e] = @ + 1]
  /\ queue' = [queue EXCEPT ![e] = @ + 1]
  /\ UNCHANGED <<stock, records, tally, slots, settled, losses>>

\* startConsumerWithRetry subscribes, or gives up after its last attempt.
\* Nothing subscribes again but the next start of the process.
startConsumer(d) ==
  /\ consumer[d] = "starting"
  /\ \E s \in {"subscribed", "deaf"} : Subscription(d, s)
  /\ UNCHANGED <<stock, records, tally, handler, held, broker>>

\* Both consumers read the one queue and the broker gives a message to either.
deliver(d, e, o) ==
  /\ consumer[d] = "subscribed" /\ pc[d] = "idle"
  /\ queue[e] > 0
  /\ queue' = [queue EXCEPT ![e] = @ - 1]
  /\ Goto(d, "checking")
  /\ event' = [event EXCEPT ![d] = e]
  /\ op' = [op EXCEPT ![d] = o]
  /\ held' = [held EXCEPT ![d] = TRUE]
  /\ Doubt({e} \cap {event[c] : c \in Slots})
  /\ UNCHANGED <<stock, records, item, consumer, copies, settled, losses>>

Wrong_isEventProcessed(d) ==
  /\ pc[d] = "checking"
  /\ Goto(d, IF \E x \in records : x.event = event[d] /\ x.operation = op[d]
             THEN "settling" ELSE "processing")
  /\ UNCHANGED <<stock, records, tally, event, op, item, held, consumer, broker>>

isEventProcessed(d) ==
  /\ pc[d] = "checking"
  /\ Goto(d, IF Recorded(event[d]) THEN "settling" ELSE "processing")
  /\ UNCHANGED <<stock, records, tally, event, op, item, held, consumer, broker>>

\* The loop over the items of the order; a line that fails is logged and
\* passed over.
MoreItems(d) == item[d] <= Len(Lines[event[d].order])
Line(d) == Lines[event[d].order][item[d]]
NextItem(d) == item' = [item EXCEPT ![d] = @ + 1] /\ Goto(d, "processing")

\* reserveStock's findOne, and its early returns.
findStock(d) ==
  /\ pc[d] = "processing" /\ op[d] = "reserve" /\ MoreItems(d)
  /\ LET p == Line(d).product IN
       \/ /\ p \notin listed \/ quantity[p] < reserved[p] + Line(d).quantity
          /\ NextItem(d)
       \/ /\ p \in listed /\ quantity[p] >= reserved[p] + Line(d).quantity
          /\ Goto(d, "reserving")
          /\ UNCHANGED item
  /\ UNCHANGED <<stock, records, tally, event, op, held, consumer, broker>>

Wrong_reserveStock(d) ==
  /\ pc[d] = "reserving"
  /\ reserved' = [reserved EXCEPT ![Line(d).product] = @ + Line(d).quantity]
  /\ Apply(d)
  /\ NextItem(d)
  /\ UNCHANGED <<listed, quantity, records, event, op, held, consumer, broker>>

\* reserveStock's findOneAndUpdate, which looks at the stock again.
reserveStock(d) ==
  /\ pc[d] = "reserving"
  /\ LET p == Line(d).product IN
       \/ /\ quantity[p] >= reserved[p] + Line(d).quantity
          /\ reserved' = [reserved EXCEPT ![p] = @ + Line(d).quantity]
          /\ Apply(d)
       \/ /\ quantity[p] < reserved[p] + Line(d).quantity
          /\ UNCHANGED <<reserved, tally>>
  /\ NextItem(d)
  /\ UNCHANGED <<listed, quantity, records, event, op, held, consumer, broker>>

CanConfirm(p, n) == p \in listed /\ reserved[p] >= n /\ quantity[p] >= n

confirmStockDeduction(d) ==
  /\ pc[d] = "processing" /\ op[d] = "confirm" /\ MoreItems(d)
  /\ LET p == Line(d).product
         n == Line(d).quantity IN
       \/ /\ CanConfirm(p, n)
          /\ quantity' = [quantity EXCEPT ![p] = @ - n]
          /\ reserved' = [reserved EXCEPT ![p] = @ - n]
          /\ Apply(d)
       \/ ~CanConfirm(p, n) /\ UNCHANGED <<quantity, reserved, tally>>
  /\ NextItem(d)
  /\ UNCHANGED <<listed, records, event, op, held, consumer, broker>>

\* The two unique indexes on ProcessedEvent: eventId, and the pair of
\* adjustmentRequestId and operationType.  "sparse" leaves out of the second
\* only documents with neither field, and every document has an operation.
\* (Records of the HTTP route have a request id and collide with none of these.)
Unique(e, o) == ~Recorded(e) /\ \A x \in records : x.operation # o

AtRecord(d) == pc[d] = "processing" /\ ~MoreItems(d)

\* ProcessedEvent.create; a duplicate key is thrown, as any database error.
recordEvent(d) ==
  /\ AtRecord(d)
  /\ \/ /\ Unique(event[d], op[d])
        /\ records' = records \cup {[event |-> event[d], operation |-> op[d]]}
        /\ UNCHANGED tally
     \/ /\ ~Unique(event[d], op[d])
        /\ Doubt({e \in {event[d]} : HalfDone(e)})
        /\ UNCHANGED records
  /\ Goto(d, "settling")
  /\ UNCHANGED <<stock, event, op, item, held, consumer, broker>>

\* A database error at any await of the handler.
throws(d) ==
  /\ pc[d] \in {"checking", "processing", "reserving"}
  /\ Doubt({e \in {event[d]} : HalfDone(e)})
  /\ Goto(d, "settling")
  /\ UNCHANGED <<stock, records, event, op, item, held, consumer, broker>>

Wrong_settle(d) ==
  /\ pc[d] = "settling"
  /\ IF Recorded(event[d])
     THEN settled' = [settled EXCEPT ![event[d]] = @ + IF held[d] THEN 1 ELSE 0] /\ UNCHANGED queue
     ELSE queue' = [queue EXCEPT ![event[d]] = @ + IF held[d] THEN 1 ELSE 0] /\ UNCHANGED settled
  /\ Free(d)
  /\ UNCHANGED <<stock, records, tally, consumer, copies, losses>>

\* ack after success and nack without requeue after an error: the queue has no
\* dead-letter exchange, so the message is gone either way.  On a closed
\* channel neither does anything.
settle(d) ==
  /\ pc[d] = "settling"
  /\ settled' = [settled EXCEPT ![event[d]] = @ + IF held[d] THEN 1 ELSE 0]
  /\ Free(d)
  /\ UNCHANGED <<stock, records, tally, consumer, copies, queue, losses>>

\* The broker puts back what was never acknowledged.
Requeue(d) ==
  /\ losses < MaxLosses
  /\ losses' = losses + 1
  /\ queue' = [queue EXCEPT ![event[d]] = @ + 1]

\* The connection drops; the handler keeps running, and the process consumes
\* nothing more: consume() is not called again.
loseConnection(d) ==
  /\ consumer[d] = "subscribed"
  /\ \/ /\ held[d]
        /\ Requeue(d)
        /\ held' = [held EXCEPT ![d] = FALSE]
     \/ ~held[d] /\ UNCHANGED <<queue, held, losses>>
  /\ Subscription(d, "deaf")
  /\ UNCHANGED <<stock, records, tally, handler, copies, settled>>

Wrong_crash(d) ==
  /\ Free(d)
  /\ Subscription(d, "starting")
  /\ UNCHANGED <<stock, records, tally, broker>>

\* The process dies, perhaps in the middle of the handler, and is restarted.
crash(d) ==
  /\ \/ held[d] /\ Requeue(d)
     \/ ~held[d] /\ UNCHANGED <<queue, losses>>
  /\ Doubt({e \in {event[d]} : HalfDone(e)})
  /\ Free(d)
  /\ Subscription(d, "starting")
  /\ UNCHANGED <<stock, records, copies, settled>>

\* The TTL index drops a record after 7 days; no handler takes that long.
expireRecord(x) ==
  /\ \A d \in Slots : pc[d] = "idle"
  /\ records' = records \ {x}
  /\ Doubt({x.event})
  /\ UNCHANGED <<stock, slots, broker>>
-----------------------------------------------------------------------------
(* The HTTP routes: create (and the seeding at startup), update, release.  *)
create(p, n) ==
  /\ p \notin listed
  /\ listed' = listed \cup {p}
  /\ quantity' = [quantity EXCEPT ![p] = n]
  /\ UNCHANGED <<reserved, records, tally, slots, broker>>

update(p, n) ==
  /\ p \in listed
  /\ quantity' = [quantity EXCEPT ![p] = n]
  /\ UNCHANGED <<listed, reserved, records, tally, slots, broker>>

releaseStock(p, n) ==
  /\ n > 0 /\ reserved[p] >= n
  /\ reserved' = [reserved EXCEPT ![p] = @ - n]
  /\ UNCHANGED <<listed, quantity, records, tally, slots, broker>>

Handle(d) ==
  \/ isEventProcessed(d) \/ findStock(d) \/ reserveStock(d)
  \/ confirmStockDeduction(d) \/ recordEvent(d) \/ settle(d)

Deliver == \E d \in Slots, e \in Events, o \in Operations : deliver(d, e, o)

\* What is not asked for by an event: the routes that create and release, and update.
Routes ==
  \E p \in Products, n \in Quantities : create(p, n) \/ update(p, n) \/ releaseStock(p, n)

Next ==
  \/ \E e \in Events : publish(e)
  \/ Deliver
  \/ \E d \in Slots : startConsumer(d) \/ Handle(d) \/ throws(d) \/ loseConnection(d) \/ crash(d)
  \/ \E x \in records : expireRecord(x)
  \/ Routes

Spec == Init /\ [][Next]_vars

\* The broker pushes what is queued and every await of a handler returns.
FairSpec == Spec /\ WF_vars(Deliver) /\ \A d \in Slots : WF_vars(Handle(d))
-----------------------------------------------------------------------------
TypeOK ==
  /\ listed \subseteq Products
  /\ quantity \in [Products -> Nat]
  /\ reserved \in [Products -> Nat]
  /\ records \subseteq [event : Events, operation : Operations]
  /\ copies \in [Events -> 0..MaxCopies]
  /\ queue \in [Events -> Nat]
  /\ pc \in [Slots -> {"idle", "checking", "processing", "reserving", "settling"}]
  /\ event \in [Slots -> Events \cup {NoEvent}]
  /\ op \in [Slots -> Operations]
  /\ item \in [Slots -> Nat \ {0}]
  /\ held \in [Slots -> BOOLEAN]
  /\ consumer \in [Slots -> {"starting", "subscribed", "deaf"}]
  /\ settled \in [Events -> Nat]
  /\ losses \in 0..MaxLosses
  /\ applied \subseteq Events \X (Nat \ {0})
  /\ twice \subseteq Events /\ unsure \subseteq Events

\* However handlers, routes and retries interleave, the reservation that makes
\* an item's reserved stock grow is covered by the stock on hand at that moment
\* (the read before it may be stale).  Only update can lower the quantity below
\* what is already reserved.
NeverOversold ==
  [][\A p \in Products : reserved'[p] > reserved[p] => reserved'[p] <= quantity'[p]]_vars

Holders(e) == {d \in Slots : held[d] /\ event[d] = e}

\* No copy of a message disappears: each is queued, held by a handler or
\* settled, through lost connections and crashes.
MessagesAccounted ==
  \A e \in Events : copies[e] = queue[e] + settled[e] + Cardinality(Holders(e))

\* No line of an event changes the stock twice, however often the event is
\* published and delivered and whichever consumer gets it: unless two slots had
\* it at once, a handler ended between its change and the record, or the record
\* was refused or has expired.
AppliedOnce == twice \subseteq unsure

\* As long as somebody stays subscribed, a message leaves the queue for good:
\* no event goes round for ever, and handlers that fail block nothing.
QueueDrains ==
  <>[](\E d \in Slots : consumer[d] = "subscribed")
    => \A e \in Events : queue[e] > 0 ~> queue[e] = 0
=============================================================================
