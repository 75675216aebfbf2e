----------------------- MODULE InventoryConsumerProofs -----------------------
(***************************************************************************)
(* Safety of the inventory consumer for any orders, stock and number of    *)
(* concurrent deliveries, alone and beside the reserve route with any      *)
(* number of callers.                                                      *)
(***************************************************************************)
EXTENDS ReserveRoute, FiniteSetTheorems, TLAPS

\* A handler at work has an event, and one about to reserve stands at a line.
SlotsInOrder ==
  \A d \in Slots :
    /\ pc[d] # "idle" => event[d] \in Events
    /\ held[d] => pc[d] # "idle"
    /\ pc[d] = "reserving" => op[d] = "reserve" /\ MoreItems(d)

IInv == TypeOK /\ SlotsInOrder

LEMMA InitIInv == Init => IInv
  BY InventoryAssumption DEF Init, IInv, TypeOK, SlotsInOrder, Operations

\* The line a handler stands at names a product and a positive quantity.
LEMMA LineType ==
  ASSUME IInv, NEW d \in Slots, pc[d] # "idle", MoreItems(d)
  PROVE  /\ Line(d).product \in Products
         /\ Line(d).quantity \in Nat \ {0}
<1>1. event[d].order \in Orders
  BY DEF IInv, SlotsInOrder, Events
<1>2. Lines[event[d].order] \in Seq(Items)
  BY <1>1, InventoryAssumption
<1>3. item[d] \in Nat \ {0}
  BY DEF IInv, TypeOK
<1>4. item[d] \in 1..Len(Lines[event[d].order])
  BY <1>2, <1>3 DEF MoreItems
<1>5. Lines[event[d].order][item[d]] \in Items
  BY <1>2, <1>4
<1> QED
  BY <1>5 DEF Line, Items

\* What a reservation does to the stock of the one product of its line.
LEMMA ReserveStep ==
  ASSUME IInv, NEW d \in Slots, reserveStock(d)
  PROVE  \E p \in Products, n \in Nat \ {0} :
           /\ quantity' = quantity
           /\ \/ reserved' = reserved
              \/ /\ quantity[p] >= reserved[p] + n
                 /\ reserved' = [reserved EXCEPT ![p] = @ + n]
<1> DEFINE p == Line(d).product
           n == Line(d).quantity
<1>1. pc[d] = "reserving" /\ MoreItems(d)
  BY DEF reserveStock, IInv, SlotsInOrder
<1>2. p \in Products /\ n \in Nat \ {0}
  BY <1>1, LineType
<1>4. /\ quantity' = quantity
      /\ \/ reserved' = reserved
         \/ quantity[p] >= reserved[p] + n /\ reserved' = [reserved EXCEPT ![p] = @ + n]
  BY DEF reserveStock
<1> HIDE DEF p, n
<1> QED
  BY <1>2, <1>4

\* What a deduction does to the stock of the one product of its line.
LEMMA ConfirmStep ==
  ASSUME IInv, NEW d \in Slots, confirmStockDeduction(d)
  PROVE  \E p \in Products, n \in Nat \ {0} :
           /\ \/ quantity' = quantity /\ reserved' = reserved
              \/ /\ reserved[p] >= n /\ quantity[p] >= n
                 /\ quantity' = [quantity EXCEPT ![p] = @ - n]
                 /\ reserved' = [reserved EXCEPT ![p] = @ - n]
<1> DEFINE p == Line(d).product
           n == Line(d).quantity
<1>1. pc[d] = "processing" /\ MoreItems(d)
  BY DEF confirmStockDeduction
<1>2. p \in Products /\ n \in Nat \ {0}
  BY <1>1, LineType
<1>4. /\ \/ quantity' = quantity /\ reserved' = reserved
         \/ /\ reserved[p] >= n /\ quantity[p] >= n
            /\ quantity' = [quantity EXCEPT ![p] = @ - n]
            /\ reserved' = [reserved EXCEPT ![p] = @ - n]
  BY DEF confirmStockDeduction, CanConfirm
<1> HIDE DEF p, n
<1> QED
  BY <1>2, <1>4

\* An event counter that grows by a natural keeps its type.
LEMMA CounterType ==
  ASSUME NEW f \in [Events -> Nat], NEW e \in Events, NEW n \in Nat
  PROVE  [f EXCEPT ![e] = @ + n] \in [Events -> Nat]
  OBVIOUS

TallyTypes ==
  applied \subseteq Events \X (Nat \ {0}) /\ twice \subseteq Events /\ unsure \subseteq Events

\* What the history notes of a line keeps its types.
LEMMA ApplyTypes ==
  ASSUME IInv, NEW d \in Slots, pc[d] # "idle", Apply(d)
  PROVE  TallyTypes'
<1>1. event[d] \in Events /\ item[d] \in Nat \ {0}
  BY DEF IInv, TypeOK, SlotsInOrder
<1>2. TallyTypes
  BY DEF IInv, TypeOK, TallyTypes
<1> QED
  BY <1>1, <1>2 DEF Apply, TallyTypes

\* ... and so does a doubt.
LEMMA DoubtTypes ==
  ASSUME IInv, NEW E, Doubt(E), E \subseteq Events
  PROVE  TallyTypes'
  BY DEF IInv, TypeOK, Doubt, TallyTypes

LEMMA BoundTypes == Quantities \subseteq Nat /\ MaxCopies \in Nat /\ MaxLosses \in Nat
  BY InventoryAssumption

LEMMA OperationNames == "reserve" \in Operations /\ "confirm" \in Operations
  BY DEF Operations
-----------------------------------------------------------------------------
\* Every step keeps the types.
LEMMA StepTypeOK == IInv /\ [Next]_vars => TypeOK'
<1> SUFFICES ASSUME IInv, [Next]_vars PROVE TypeOK'
  OBVIOUS
<1> USE BoundTypes, OperationNames
    DEF IInv, TypeOK, SlotsInOrder, stock, handler, slots, broker, tally, Goto, Subscription, Doubt
<1>1. ASSUME NEW e \in Events, publish(e) PROVE TypeOK'
  BY <1>1 DEF publish
<1>2. ASSUME NEW d \in Slots, NEW e \in Events, NEW o \in Operations, deliver(d, e, o)
      PROVE  TypeOK'
  BY <1>2 DEF deliver
<1>3. ASSUME NEW d \in Slots, isEventProcessed(d) PROVE TypeOK'
  BY <1>3 DEF isEventProcessed
<1>4. ASSUME NEW d \in Slots, findStock(d) PROVE TypeOK'
  BY <1>4 DEF findStock, NextItem
<1>5. ASSUME NEW d \in Slots, reserveStock(d) PROVE TypeOK'
  <2>1. quantity' \in [Products -> Nat] /\ reserved' \in [Products -> Nat]
    <3>1. quantity \in [Products -> Nat] /\ reserved \in [Products -> Nat]
      OBVIOUS
    <3> HIDE DEF IInv, TypeOK, SlotsInOrder
    <3> QED BY <1>5, <3>1, ReserveStep
  <2>2. TallyTypes'
    <3>1. pc[d] # "idle" /\ (Apply(d) \/ UNCHANGED tally)
      BY <1>5 DEF reserveStock
    <3>2. TallyTypes
      BY DEF TallyTypes
    <3> HIDE DEF IInv, TypeOK, SlotsInOrder
    <3> QED BY <3>1, <3>2, ApplyTypes DEF TallyTypes
  <2> QED
    BY <1>5, <2>1, <2>2 DEF reserveStock, NextItem, TallyTypes
<1>6. ASSUME NEW d \in Slots, confirmStockDeduction(d) PROVE TypeOK'
  <2>1. quantity' \in [Products -> Nat] /\ reserved' \in [Products -> Nat]
    <3>1. quantity \in [Products -> Nat] /\ reserved \in [Products -> Nat]
      OBVIOUS
    <3> HIDE DEF IInv, TypeOK, SlotsInOrder
    <3> QED BY <1>6, <3>1, ConfirmStep
  <2>2. TallyTypes'
    <3>1. pc[d] # "idle" /\ (Apply(d) \/ UNCHANGED tally)
      BY <1>6 DEF confirmStockDeduction
    <3>2. TallyTypes
      BY DEF TallyTypes
    <3> HIDE DEF IInv, TypeOK, SlotsInOrder
    <3> QED BY <3>1, <3>2, ApplyTypes DEF TallyTypes
  <2> QED
    BY <1>6, <2>1, <2>2 DEF confirmStockDeduction, NextItem, TallyTypes
<1>7. ASSUME NEW d \in Slots, recordEvent(d) PROVE TypeOK'
  BY <1>7 DEF recordEvent, AtRecord
<1>8. ASSUME NEW d \in Slots, throws(d) PROVE TypeOK'
  BY <1>8 DEF throws
<1>9. ASSUME NEW d \in Slots, settle(d) PROVE TypeOK'
  BY <1>9, CounterType DEF settle, Free
<1>10. ASSUME NEW d \in Slots, loseConnection(d) PROVE TypeOK'
  <2>1. CASE held[d]
    <3>1. queue' = [queue EXCEPT ![event[d]] = @ + 1] /\ event[d] \in Events
      BY <1>10, <2>1 DEF loseConnection, Requeue
    <3>2. queue' \in [Events -> Nat]
      BY <3>1
    <3>3. losses' \in 0..MaxLosses
      BY <1>10, <2>1 DEF loseConnection, Requeue
    <3>4. /\ held' \in [Slots -> BOOLEAN]
          /\ consumer' \in [Slots -> {"starting", "subscribed", "deaf"}]
      BY <1>10, <2>1 DEF loseConnection
    <3>5. UNCHANGED <<stock, records, tally, handler, copies, settled>>
      BY <1>10 DEF loseConnection
    <3> HIDE DEF Subscription
    <3> QED
      BY <3>2, <3>3, <3>4, <3>5
  <2>2. CASE ~held[d]
    BY <1>10, <2>2 DEF loseConnection
  <2> QED
    BY <2>1, <2>2
<1>11. ASSUME NEW d \in Slots, crash(d) PROVE TypeOK'
  <2>3. TallyTypes'
    <3>1. Doubt({e \in {event[d]} : HalfDone(e)})
      BY <1>11 DEF crash
    <3>2. {e \in {event[d]} : HalfDone(e)} \subseteq Events
      BY InventoryAssumption DEF HalfDone
    <3> HIDE DEF IInv, TypeOK, SlotsInOrder, Doubt
    <3> QED BY <3>1, <3>2, DoubtTypes
  <2>1. CASE held[d]
    <3>1. queue' = [queue EXCEPT ![event[d]] = @ + 1] /\ event[d] \in Events
      BY <1>11, <2>1 DEF crash, Requeue
    <3>2. queue' \in [Events -> Nat]
      BY <3>1
    <3> QED
      BY <1>11, <2>1, <2>3, <3>2 DEF crash, Requeue, Free, TallyTypes
  <2>2. CASE ~held[d]
    BY <1>11, <2>2, <2>3 DEF crash, Free, TallyTypes
  <2> QED
    BY <2>1, <2>2
<1>12. ASSUME NEW x \in records, expireRecord(x) PROVE TypeOK'
  BY <1>12 DEF expireRecord
<1>13. ASSUME NEW p \in Products, NEW n \in Quantities, create(p, n) PROVE TypeOK'
  BY <1>13 DEF create
<1>14. ASSUME NEW p \in Products, NEW n \in Quantities, update(p, n) PROVE TypeOK'
  BY <1>14 DEF update
<1>15. ASSUME NEW p \in Products, NEW n \in Quantities, releaseStock(p, n) PROVE TypeOK'
  BY <1>15 DEF releaseStock
<1>16. CASE UNCHANGED vars
  BY <1>16 DEF vars
<1>17. ASSUME NEW d \in Slots, startConsumer(d) PROVE TypeOK'
  BY <1>17 DEF startConsumer
<1> QED
  BY <1>1, <1>2, <1>3, <1>4, <1>5, <1>6, <1>7, <1>8, <1>9, <1>10, <1>11, <1>12,
     <1>13, <1>14, <1>15, <1>16, <1>17 DEF Next, Handle, Deliver, Routes

\* Every step keeps the slots in order.
LEMMA StepSlots == IInv /\ [Next]_vars => SlotsInOrder'
<1> SUFFICES ASSUME IInv, [Next]_vars PROVE SlotsInOrder'
  OBVIOUS
<1> USE BoundTypes
    DEF IInv, TypeOK, SlotsInOrder, MoreItems, stock, handler, slots, broker, Goto,
        Subscription
<1>1. ASSUME NEW e \in Events, publish(e) PROVE SlotsInOrder'
  BY <1>1 DEF publish
<1>2. ASSUME NEW d \in Slots, NEW e \in Events, NEW o \in Operations, deliver(d, e, o)
      PROVE  SlotsInOrder'
  BY <1>2 DEF deliver
<1>3. ASSUME NEW d \in Slots, isEventProcessed(d) PROVE SlotsInOrder'
  BY <1>3 DEF isEventProcessed
<1>4. ASSUME NEW d \in Slots, findStock(d) PROVE SlotsInOrder'
  BY <1>4 DEF findStock, NextItem
<1>5. ASSUME NEW d \in Slots, reserveStock(d) PROVE SlotsInOrder'
  BY <1>5 DEF reserveStock, NextItem
<1>6. ASSUME NEW d \in Slots, confirmStockDeduction(d) PROVE SlotsInOrder'
  BY <1>6 DEF confirmStockDeduction, NextItem
<1>7. ASSUME NEW d \in Slots, recordEvent(d) PROVE SlotsInOrder'
  BY <1>7 DEF recordEvent, AtRecord
<1>8. ASSUME NEW d \in Slots, throws(d) PROVE SlotsInOrder'
  BY <1>8 DEF throws
<1>9. ASSUME NEW d \in Slots, settle(d) PROVE SlotsInOrder'
  BY <1>9 DEF settle, Free
<1>10. ASSUME NEW d \in Slots, loseConnection(d) PROVE SlotsInOrder'
  BY <1>10 DEF loseConnection, Requeue
<1>11. ASSUME NEW d \in Slots, crash(d) PROVE SlotsInOrder'
  BY <1>11 DEF crash, Requeue, Free
<1>12. ASSUME NEW x \in records, expireRecord(x) PROVE SlotsInOrder'
  BY <1>12 DEF expireRecord
<1>13. ASSUME NEW p \in Products, NEW n \in Quantities, create(p, n) PROVE SlotsInOrder'
  BY <1>13 DEF create
<1>14. ASSUME NEW p \in Products, NEW n \in Quantities, update(p, n) PROVE SlotsInOrder'
  BY <1>14 DEF update
<1>15. ASSUME NEW p \in Products, NEW n \in Quantities, releaseStock(p, n)
      PROVE  SlotsInOrder'
  BY <1>15 DEF releaseStock
<1>16. CASE UNCHANGED vars
  BY <1>16 DEF vars
<1>17. ASSUME NEW d \in Slots, startConsumer(d) PROVE SlotsInOrder'
  BY <1>17 DEF startConsumer
<1> QED
  BY <1>1, <1>2, <1>3, <1>4, <1>5, <1>6, <1>7, <1>8, <1>9, <1>10, <1>11, <1>12,
     <1>13, <1>14, <1>15, <1>16, <1>17 DEF Next, Handle, Deliver, Routes

LEMMA AlwaysIInv == Spec => []IInv
<1>1. IInv /\ [Next]_vars => IInv'
  BY StepTypeOK, StepSlots DEF IInv
<1> QED
  BY InitIInv, <1>1, PTL DEF Spec

\* The variables of the consumer keep their types; in particular neither
\* quantity of a product is ever negative.
THEOREM InventoryTypeOK == Spec => []TypeOK
  BY AlwaysIInv, PTL DEF IInv
-----------------------------------------------------------------------------
\* A step that makes reserved stock grow leaves it covered.
LEMMA StepOversold ==
  IInv /\ [Next]_vars =>
    \A p \in Products : reserved'[p] > reserved[p] => reserved'[p] <= quantity'[p]
<1> DEFINE Grows == \A p \in Products : reserved'[p] > reserved[p] => reserved'[p] <= quantity'[p]
<1> SUFFICES ASSUME IInv, [Next]_vars PROVE Grows
  OBVIOUS
<1> USE BoundTypes
    DEF IInv, TypeOK, SlotsInOrder, stock
<1>1. ASSUME NEW e \in Events, publish(e) PROVE Grows
  BY <1>1 DEF publish
<1>2. ASSUME NEW d \in Slots, NEW e \in Events, NEW o \in Operations, deliver(d, e, o)
      PROVE  Grows
  BY <1>2 DEF deliver
<1>3. ASSUME NEW d \in Slots, isEventProcessed(d) PROVE Grows
  BY <1>3 DEF isEventProcessed
<1>4. ASSUME NEW d \in Slots, findStock(d) PROVE Grows
  BY <1>4 DEF findStock, NextItem
<1>5. ASSUME NEW d \in Slots, reserveStock(d) PROVE Grows
  BY <1>5, ReserveStep
<1>6. ASSUME NEW d \in Slots, confirmStockDeduction(d) PROVE Grows
  BY <1>6, ConfirmStep
<1>7. ASSUME NEW d \in Slots, recordEvent(d) PROVE Grows
  BY <1>7 DEF recordEvent, AtRecord
<1>8. ASSUME NEW d \in Slots, throws(d) PROVE Grows
  BY <1>8 DEF throws
<1>9. ASSUME NEW d \in Slots, settle(d) PROVE Grows
  BY <1>9 DEF settle, Free
<1>10. ASSUME NEW d \in Slots, loseConnection(d) PROVE Grows
  BY <1>10 DEF loseConnection, Requeue
<1>11. ASSUME NEW d \in Slots, crash(d) PROVE Grows
  BY <1>11 DEF crash, Requeue, Free
<1>12. ASSUME NEW x \in records, expireRecord(x) PROVE Grows
  BY <1>12 DEF expireRecord
<1>13. ASSUME NEW p \in Products, NEW n \in Quantities, create(p, n) PROVE Grows
  BY <1>13 DEF create
<1>14. ASSUME NEW p \in Products, NEW n \in Quantities, update(p, n) PROVE Grows
  BY <1>14 DEF update
<1>15. ASSUME NEW p \in Products, NEW n \in Quantities, releaseStock(p, n) PROVE Grows
  BY <1>15 DEF releaseStock
<1>16. CASE UNCHANGED vars
  BY <1>16 DEF vars
<1>17. ASSUME NEW d \in Slots, startConsumer(d) PROVE Grows
  BY <1>17 DEF startConsumer
<1> QED
  BY <1>1, <1>2, <1>3, <1>4, <1>5, <1>6, <1>7, <1>8, <1>9, <1>10, <1>11, <1>12,
     <1>13, <1>14, <1>15, <1>16, <1>17 DEF Next, Handle, Deliver, Routes

\* Reservations never exceed the stock on hand at the time they are made.
THEOREM InventoryNeverOversold == Spec => NeverOversold
  BY AlwaysIInv, StepOversold, PTL DEF Spec, NeverOversold
-----------------------------------------------------------------------------
\* One slot more or less among the holders of an event.
LEMMA Counting ==
  ASSUME NEW S \in SUBSET Slots, NEW d \in Slots
  PROVE  /\ Cardinality(S) \in Nat
         /\ d \notin S => Cardinality(S \cup {d}) = Cardinality(S) + 1
         /\ d \in S => Cardinality(S \ {d}) + 1 = Cardinality(S)
<1>1. IsFiniteSet(S)
  BY InventoryAssumption, FS_Subset
<1>2. Cardinality(S) \in Nat
  BY <1>1, FS_CardinalityType
<1>3. d \notin S => Cardinality(S \cup {d}) = Cardinality(S) + 1
  BY <1>1, FS_AddElement
<1>4. d \in S => Cardinality(S \ {d}) = Cardinality(S) - 1
  BY <1>1, FS_RemoveElement
<1> QED
  BY <1>2, <1>3, <1>4

\* A slot that lets go of its delivery leaves the holders of its event.
LEMMA LetGo ==
  ASSUME IInv, NEW d \in Slots, held[d], held' = [held EXCEPT ![d] = FALSE],
         event' = event \/ event' = [event EXCEPT ![d] = NoEvent],
         NEW f \in Events, event[d] = f
  PROVE  /\ \A e \in Events \ {f} : Holders(e)' = Holders(e)
         /\ Cardinality(Holders(f)) = Cardinality(Holders(f)') + 1
         /\ Cardinality(Holders(f)') \in Nat
<1>1. \A e \in Events : Holders(e) \in SUBSET Slots /\ Holders(e)' \in SUBSET Slots
  BY DEF Holders
<1>2. \A e \in Events \ {f} : Holders(e)' = Holders(e)
  BY InventoryAssumption DEF IInv, TypeOK, Holders
<1>3. d \in Holders(f) /\ Holders(f)' = Holders(f) \ {d}
  BY InventoryAssumption DEF IInv, TypeOK, Holders
<1> QED
  BY <1>1, <1>2, <1>3, Counting

\* Every step accounts for every copy.
LEMMA StepAccounted == IInv /\ MessagesAccounted /\ [Next]_vars => MessagesAccounted'
<1> SUFFICES ASSUME IInv, MessagesAccounted, [Next]_vars PROVE MessagesAccounted'
  OBVIOUS
<1>1. \A e \in Events : copies[e] = queue[e] + settled[e] + Cardinality(Holders(e))
  BY DEF MessagesAccounted
<1>2. /\ copies \in [Events -> Nat] /\ queue \in [Events -> Nat] /\ settled \in [Events -> Nat]
      /\ held \in [Slots -> BOOLEAN] /\ event \in [Slots -> Events \cup {NoEvent}]
  BY BoundTypes DEF IInv, TypeOK
<1>3. \A e \in Events : Holders(e) \in SUBSET Slots
  BY DEF Holders
<1>4. \A e \in Events : Cardinality(Holders(e)) \in Nat
  <2> TAKE e \in Events
  <2>1. IsFiniteSet(Holders(e))
    BY <1>3, InventoryAssumption, FS_Subset
  <2> QED
    BY <2>1, FS_CardinalityType
<1>5. ASSUME UNCHANGED <<copies, queue, settled, held, event>> PROVE MessagesAccounted'
  BY <1>5, <1>1 DEF MessagesAccounted, Holders
<1>6. ASSUME NEW f \in Events, publish(f) PROVE MessagesAccounted'
  <2>1. \A e \in Events : Holders(e)' = Holders(e)
    BY <1>6 DEF publish, handler, slots, Holders
  <2> QED
    BY <1>1, <1>2, <1>4, <1>6, <2>1 DEF publish, MessagesAccounted
<1>7. ASSUME NEW d \in Slots, NEW f \in Events, NEW o \in Operations, deliver(d, f, o)
      PROVE  MessagesAccounted'
  <2>1. ~held[d]
    BY <1>2, <1>7 DEF deliver, IInv, SlotsInOrder
  <2>2. \A e \in Events : e # f => Holders(e)' = Holders(e)
    BY <1>2, <1>7, <2>1 DEF deliver, Holders
  <2>3. d \notin Holders(f) /\ Holders(f)' = Holders(f) \cup {d}
    BY <1>2, <1>7, <2>1 DEF deliver, Holders
  <2>4. Cardinality(Holders(f)') = Cardinality(Holders(f)) + 1
    BY <1>3, <2>3, Counting
  <2>5. /\ queue[f] > 0 /\ queue' = [queue EXCEPT ![f] = @ - 1]
        /\ UNCHANGED <<copies, settled>>
    BY <1>7 DEF deliver
  <2> SUFFICES ASSUME NEW e \in Events
               PROVE  copies'[e] = queue'[e] + settled'[e] + Cardinality(Holders(e)')
    BY DEF MessagesAccounted
  <2>6. CASE e = f
    BY <1>1, <1>2, <1>4, <2>4, <2>5, <2>6
  <2>7. CASE e # f
    BY <1>1, <1>2, <2>2, <2>5, <2>7
  <2> QED
    BY <2>6, <2>7
<1>8. ASSUME NEW d \in Slots, ~held[d], settle(d) \/ crash(d) \/ loseConnection(d)
      PROVE  MessagesAccounted'
  <2>1. \A e \in Events : Holders(e)' = Holders(e)
    BY <1>2, <1>8 DEF settle, crash, loseConnection, Free, handler, Holders
  <2>2. UNCHANGED <<copies, queue>>
    BY <1>8 DEF settle, crash, loseConnection
  <2>3. settled' = settled
    <3>1. CASE settle(d)
      <4>1. event[d] \in Events
        BY <3>1 DEF settle, IInv, SlotsInOrder
      <4> QED
        BY <1>2, <1>8, <3>1, <4>1 DEF settle
    <3> QED
      BY <1>8, <3>1 DEF crash, loseConnection
  <2> QED
    BY <1>1, <2>1, <2>2, <2>3 DEF MessagesAccounted
<1>9. ASSUME NEW d \in Slots, held[d], settle(d) PROVE MessagesAccounted'
  <2>1. held' = [held EXCEPT ![d] = FALSE] /\ event' = [event EXCEPT ![d] = NoEvent]
    BY <1>9 DEF settle, Free
  <2>2. UNCHANGED <<copies, queue>> /\ settled' = [settled EXCEPT ![event[d]] = @ + 1]
    BY <1>9 DEF settle
  <2>3. PICK f \in Events : event[d] = f
    BY <1>2, <1>9 DEF IInv, SlotsInOrder
  <2>4. /\ \A e \in Events \ {f} : Holders(e)' = Holders(e)
        /\ Cardinality(Holders(f)) = Cardinality(Holders(f)') + 1
        /\ Cardinality(Holders(f)') \in Nat
    BY <1>9, <2>1, <2>3, LetGo
  <2> QED
    BY <1>1, <1>2, <1>4, <2>2, <2>3, <2>4 DEF MessagesAccounted
<1>10. ASSUME NEW d \in Slots, held[d], loseConnection(d) \/ crash(d) PROVE MessagesAccounted'
  <2>1. /\ held' = [held EXCEPT ![d] = FALSE]
        /\ event' = event \/ event' = [event EXCEPT ![d] = NoEvent]
    BY <1>10 DEF loseConnection, crash, Free, handler
  <2>2. UNCHANGED <<copies, settled>> /\ queue' = [queue EXCEPT ![event[d]] = @ + 1]
    BY <1>10 DEF loseConnection, crash, Requeue
  <2>3. PICK f \in Events : event[d] = f
    BY <1>2, <1>10 DEF IInv, SlotsInOrder
  <2>4. /\ \A e \in Events \ {f} : Holders(e)' = Holders(e)
        /\ Cardinality(Holders(f)) = Cardinality(Holders(f)') + 1
        /\ Cardinality(Holders(f)') \in Nat
    BY <1>10, <2>1, <2>3, LetGo
  <2> QED
    BY <1>1, <1>2, <1>4, <2>2, <2>3, <2>4 DEF MessagesAccounted
<1>11. ASSUME NEW d \in Slots, Handle(d) \/ throws(d), ~settle(d) PROVE MessagesAccounted'
  <2> UNCHANGED <<copies, queue, settled, held, event>>
    BY <1>11 DEF Handle, throws, isEventProcessed, findStock, reserveStock,
         confirmStockDeduction, recordEvent, broker
  <2> QED
    BY <1>5
<1>12. ASSUME NEW x \in records, expireRecord(x) PROVE MessagesAccounted'
  BY <1>5, <1>12 DEF expireRecord, handler, slots, broker
<1>13. ASSUME NEW p \in Products, NEW n \in Quantities, create(p, n) \/ update(p, n) \/ releaseStock(p, n)
       PROVE  MessagesAccounted'
  BY <1>5, <1>13 DEF create, update, releaseStock, handler, slots, broker
<1>14. CASE UNCHANGED vars
  BY <1>5, <1>14 DEF vars, handler, slots, broker
<1>15. ASSUME NEW d \in Slots, startConsumer(d) PROVE MessagesAccounted'
  BY <1>5, <1>15 DEF startConsumer, handler, broker
<1> QED
  BY <1>6, <1>7, <1>8, <1>9, <1>10, <1>11, <1>12, <1>13, <1>14, <1>15 DEF Next, Deliver, Handle, Routes

LEMMA InitAccounted == Init => MessagesAccounted
<1> SUFFICES ASSUME Init PROVE MessagesAccounted
  OBVIOUS
<1>1. \A e \in Events : Holders(e) = {}
  BY DEF Init, Holders
<1> QED
  BY <1>1, FS_EmptySet DEF Init, MessagesAccounted

\* Through lost connections and crashes no copy of a message disappears.
THEOREM InventoryAccounted == Spec => []MessagesAccounted
  BY InitAccounted, AlwaysIInv, StepAccounted, PTL DEF Spec
-----------------------------------------------------------------------------
Working(d) == pc[d] \in {"processing", "reserving"}

\* An event without doubt has one story: at most one slot has it, and what is
\* applied of it is recorded, or is behind the line at which that slot stands.
Once(e) ==
  /\ e \notin twice
  /\ \A c, d \in Slots : event[c] = e /\ event[d] = e => c = d
  /\ Recorded(e) => \A d \in Slots : event[d] = e => ~Working(d)
  /\ HalfDone(e) => \E d \in Slots : event[d] = e /\ Working(d)
  /\ \A d \in Slots : event[d] = e /\ Working(d) => \A x \in applied : x[1] = e => x[2] < item[d]

OnceEach == \A e \in Events \ unsure : Once(e)

\* A handler that applies a line is not the second to do so.
LEMMA ApplyOnce ==
  ASSUME IInv, NEW e \in Events, Once(e), NEW d \in Slots, Working(d), Apply(d),
         UNCHANGED <<event, records>>, Goto(d, "processing"),
         item' = [item EXCEPT ![d] = @ + 1]
  PROVE  Once(e)'
<1>1. /\ item[d] \in Nat \ {0} /\ item' \in [Slots -> Nat \ {0}] /\ item'[d] = item[d] + 1
      /\ \A c \in Slots \ {d} : item'[c] = item[c] /\ pc'[c] = pc[c]
      /\ pc'[d] = "processing" /\ item \in [Slots -> Nat \ {0}]
  BY DEF IInv, TypeOK, Goto
<1>2. \A c \in Slots : Working(c)' <=> Working(c)
  BY <1>1 DEF Working
<1>3. \A x \in applied : x[2] \in Nat
  BY DEF IInv, TypeOK
<1>4. CASE event[d] # e
  <2>1. twice' \subseteq twice \cup {event[d]}
    BY DEF Apply
  <2>2. \A x \in applied' : x[1] = e => x \in applied
    BY <1>4 DEF Apply
  <2>3. HalfDone(e)' => HalfDone(e)
    BY <2>2 DEF HalfDone, Recorded
  <2>4. Recorded(e)' <=> Recorded(e)
    BY DEF Recorded
  <2>5. \A c \in Slots : event[c] = e => item'[c] = item[c]
    BY <1>1, <1>4
  <2> QED
    BY <1>2, <1>4, <2>1, <2>2, <2>3, <2>4, <2>5 DEF Once
<1>5. CASE event[d] = e
  <2>1. \A x \in applied : x[1] = e => x[2] < item[d]
    BY <1>5 DEF Once
  <2>2. <<e, item[d]>> \notin applied
    BY <1>1, <2>1
  <2>3. e \notin twice'
    BY <1>5, <2>2 DEF Apply, Once
  <2>4. \A x \in applied' : x[1] = e => x[2] < item'[d]
    BY <1>1, <1>3, <1>5, <2>1 DEF Apply
  <2>5. Recorded(e)' => \A c \in Slots : event'[c] = e => ~Working(c)'
    BY <1>2 DEF Once, Recorded
  <2> QED
    BY <1>2, <1>5, <2>3, <2>4, <2>5 DEF Once
<1> QED
  BY <1>4, <1>5

\* Every step keeps the stories of the events.
LEMMA StepOnce == IInv /\ OnceEach /\ [Next]_vars => OnceEach'
<1> SUFFICES ASSUME IInv, OnceEach, [Next]_vars, NEW e \in Events \ unsure' PROVE Once(e)'
  BY DEF OnceEach
<1>1. ASSUME e \notin unsure PROVE Once(e)
  BY <1>1 DEF OnceEach
<1>2. ASSUME UNCHANGED <<pc, event, item, records, tally>> PROVE Once(e)'
  BY <1>1, <1>2 DEF tally, Once, Recorded, HalfDone, Working
<1> USE DEF stock, handler, slots, broker
<1>3. ASSUME NEW f \in Events, publish(f) PROVE Once(e)'
  BY <1>2, <1>3 DEF publish
<1>4. ASSUME NEW d \in Slots, startConsumer(d) \/ loseConnection(d) PROVE Once(e)'
  BY <1>2, <1>4 DEF startConsumer, loseConnection
<1>5. ASSUME NEW p \in Products, NEW n \in Quantities, create(p, n) \/ update(p, n) \/ releaseStock(p, n)
      PROVE  Once(e)'
  BY <1>2, <1>5 DEF create, update, releaseStock
<1>6. CASE UNCHANGED vars
  BY <1>2, <1>6 DEF vars
<1> USE DEF IInv, TypeOK, SlotsInOrder, Goto, Doubt
<1>7. ASSUME NEW d \in Slots, NEW f \in Events, NEW o \in Operations, deliver(d, f, o)
      PROVE  Once(e)'
  <2>1. /\ event' = [event EXCEPT ![d] = f] /\ pc' = [pc EXCEPT ![d] = "checking"]
        /\ UNCHANGED <<item, records, applied, twice>> /\ pc[d] = "idle"
        /\ unsure' = unsure \cup ({f} \cap {event[c] : c \in Slots})
    BY <1>7 DEF deliver
  <2>2. Once(e) /\ (f = e => \A c \in Slots : event[c] # e)
    BY <1>1, <2>1
  <2>3. \A c \in Slots : (event'[c] = e /\ Working(c)') <=> (event[c] = e /\ Working(c))
    BY <2>1 DEF Working
  <2>4. \A b, c \in Slots : event'[b] = e /\ event'[c] = e => b = c
    BY <2>1, <2>2 DEF Once
  <2> QED
    BY <2>1, <2>2, <2>3, <2>4 DEF Once, Recorded, HalfDone
<1>8. ASSUME NEW d \in Slots, isEventProcessed(d) PROVE Once(e)'
  <2>1. /\ pc[d] = "checking" /\ UNCHANGED <<event, item, records, applied, twice, unsure>>
        /\ pc' = [pc EXCEPT ![d] = IF Recorded(event[d]) THEN "settling" ELSE "processing"]
    BY <1>8 DEF isEventProcessed, tally
  <2>2. Once(e)
    BY <1>1, <2>1
  <2>3. \A c \in Slots \ {d} : Working(c)' <=> Working(c)
    BY <2>1 DEF Working
  <2>4. Working(d)' <=> ~Recorded(event[d])
    BY <2>1 DEF Working
  <2>5. ~Working(d) /\ event[d] \in Events
    BY <2>1 DEF Working
  <2>6. ASSUME event[d] = e, ~Recorded(e) PROVE \A x \in applied : x[1] # e
    <3>1. ~HalfDone(e)
      BY <2>2, <2>5, <2>6 DEF Once
    <3> QED
      BY <2>6, <3>1 DEF HalfDone
  <2>7. Recorded(e)' <=> Recorded(e)
    BY <2>1 DEF Recorded
  <2>8. HalfDone(e)' <=> HalfDone(e)
    BY <2>1, <2>7 DEF HalfDone
  <2> QED
    BY <2>1, <2>2, <2>3, <2>4, <2>5, <2>6, <2>7, <2>8 DEF Once
<1>9. ASSUME NEW d \in Slots, NEW g \in {"processing", "reserving"}, Working(d), Goto(d, g),
             item' = item \/ item' = [item EXCEPT ![d] = @ + 1],
             UNCHANGED <<event, records, tally>>
      PROVE  Once(e)'
  <2>1. Once(e)
    BY <1>1, <1>9 DEF tally
  <2>2. \A c \in Slots : Working(c)' <=> Working(c)
    BY <1>9 DEF Working
  <2>3. \A c \in Slots : item'[c] >= item[c] /\ item[c] \in Nat /\ item'[c] \in Nat
    BY <1>9
  <2>4. \A x \in applied : x[2] \in Nat
    OBVIOUS
  <2> QED
    BY <1>9, <2>1, <2>2, <2>3, <2>4 DEF Once, Recorded, HalfDone, tally
<1>10. ASSUME NEW d \in Slots, findStock(d) PROVE Once(e)'
  BY <1>9, <1>10 DEF findStock, NextItem, Working
<1>11. ASSUME NEW d \in Slots, reserveStock(d) PROVE Once(e)'
  <2>1. /\ Working(d) /\ Goto(d, "processing") /\ item' = [item EXCEPT ![d] = @ + 1]
        /\ UNCHANGED <<event, records>> /\ (Apply(d) \/ UNCHANGED tally)
    BY <1>11 DEF reserveStock, NextItem, Working
  <2>2. CASE Apply(d)
    BY <1>1, <2>1, <2>2, ApplyOnce DEF Apply
  <2>3. CASE UNCHANGED tally
    BY <1>9, <2>1, <2>3
  <2> QED
    BY <2>1, <2>2, <2>3
<1>12. ASSUME NEW d \in Slots, confirmStockDeduction(d) PROVE Once(e)'
  <2>1. /\ Working(d) /\ Goto(d, "processing") /\ item' = [item EXCEPT ![d] = @ + 1]
        /\ UNCHANGED <<event, records>> /\ (Apply(d) \/ UNCHANGED tally)
    BY <1>12 DEF confirmStockDeduction, NextItem, Working
  <2>2. CASE Apply(d)
    BY <1>1, <2>1, <2>2, ApplyOnce DEF Apply
  <2>3. CASE UNCHANGED tally
    BY <1>9, <2>1, <2>3
  <2> QED
    BY <2>1, <2>2, <2>3
<1>13. ASSUME NEW d \in Slots, NEW g \in {"settling", "idle"}, pc' = [pc EXCEPT ![d] = g],
              event' = event \/ event' = [event EXCEPT ![d] = NoEvent],
              item' = item \/ item' = [item EXCEPT ![d] = 1],
              UNCHANGED <<records, applied, twice>>, unsure \subseteq unsure',
              HalfDone(e) /\ event[d] = e /\ Working(d) => e \in unsure'
       PROVE  Once(e)'
  <2>1. Once(e) /\ e # NoEvent
    BY <1>1, <1>13, InventoryAssumption
  <2>2. ~Working(d)' /\ \A c \in Slots \ {d} : /\ Working(c)' <=> Working(c)
                                                /\ event'[c] = event[c] /\ item'[c] = item[c]
    BY <1>13 DEF Working
  <2>3. \A c \in Slots : event'[c] = e => event[c] = e
    BY <1>13, <2>1
  <2>4. (Recorded(e)' <=> Recorded(e)) /\ (HalfDone(e)' <=> HalfDone(e))
    BY <1>13 DEF Recorded, HalfDone
  <2> QED
    BY <1>13, <2>1, <2>2, <2>3, <2>4 DEF Once
<1>14. ASSUME NEW d \in Slots, throws(d) PROVE Once(e)'
  <2>1. /\ pc' = [pc EXCEPT ![d] = "settling"] /\ UNCHANGED <<event, item, records, applied, twice>>
        /\ unsure' = unsure \cup {f \in {event[d]} : HalfDone(f)}
    BY <1>14 DEF throws
  <2> QED
    BY <1>13, <2>1
<1>15. ASSUME NEW d \in Slots, recordEvent(d) PROVE Once(e)'
  <2>1. /\ pc[d] = "processing" /\ pc' = [pc EXCEPT ![d] = "settling"]
        /\ UNCHANGED <<event, item>>
    BY <1>15 DEF recordEvent, AtRecord
  <2>2. CASE ~Unique(event[d], op[d])
    <3>1. /\ UNCHANGED <<records, applied, twice>>
          /\ unsure' = unsure \cup {f \in {event[d]} : HalfDone(f)}
      BY <1>15, <2>2 DEF recordEvent
    <3> QED
      BY <1>13, <2>1, <3>1
  <2>3. CASE Unique(event[d], op[d])
    <3>1. /\ records' = records \cup {[event |-> event[d], operation |-> op[d]]}
          /\ UNCHANGED <<applied, twice, unsure>>
      BY <1>15, <2>3 DEF recordEvent, tally
    <3>2. Once(e)
      BY <1>1, <3>1
    <3>3. ~Working(d)' /\ \A c \in Slots \ {d} : Working(c)' <=> Working(c)
      BY <2>1 DEF Working
    <3>4. CASE event[d] = e
      <4>1. Recorded(e)'
        <5>1. [event |-> event[d], operation |-> op[d]].event = e
          BY <3>4
        <5> QED
          BY <3>1, <5>1 DEF Recorded
      <4>2. \A c \in Slots : event'[c] = e => ~Working(c)'
        BY <2>1, <3>2, <3>3, <3>4 DEF Once
      <4> QED
        BY <2>1, <3>1, <3>2, <4>1, <4>2 DEF Once, HalfDone
    <3>5. CASE event[d] # e
      <4>1. (Recorded(e)' <=> Recorded(e)) /\ (HalfDone(e)' <=> HalfDone(e))
        BY <3>1, <3>5 DEF Recorded, HalfDone
      <4> QED
        BY <2>1, <3>1, <3>2, <3>3, <3>5, <4>1 DEF Once
    <3> QED
      BY <3>4, <3>5
  <2> QED
    BY <2>2, <2>3
<1>16. ASSUME NEW d \in Slots, settle(d) PROVE Once(e)'
  <2>1. /\ pc[d] = "settling" /\ pc' = [pc EXCEPT ![d] = "idle"]
        /\ event' = [event EXCEPT ![d] = NoEvent] /\ item' = [item EXCEPT ![d] = 1]
        /\ UNCHANGED <<records, applied, twice, unsure>>
    BY <1>16 DEF settle, Free, tally
  <2> QED
    BY <1>13, <2>1 DEF Working
<1>17. ASSUME NEW d \in Slots, crash(d) PROVE Once(e)'
  <2>1. /\ pc' = [pc EXCEPT ![d] = "idle"]
        /\ event' = [event EXCEPT ![d] = NoEvent] /\ item' = [item EXCEPT ![d] = 1]
        /\ UNCHANGED <<records, applied, twice>>
        /\ unsure' = unsure \cup {f \in {event[d]} : HalfDone(f)}
    BY <1>17 DEF crash, Free
  <2> QED
    BY <1>13, <2>1
<1>18. ASSUME NEW x \in records, expireRecord(x) PROVE Once(e)'
  <2>1. /\ UNCHANGED <<pc, event, item, applied, twice>> /\ records' = records \ {x}
        /\ unsure' = unsure \cup {x.event}
    BY <1>18 DEF expireRecord
  <2>2. Once(e) /\ x.event # e
    BY <1>1, <2>1
  <2>3. (Recorded(e)' <=> Recorded(e)) /\ (HalfDone(e)' <=> HalfDone(e))
    BY <2>1, <2>2 DEF Recorded, HalfDone
  <2> QED
    BY <2>1, <2>2, <2>3 DEF Once, Working
<1> QED
  BY <1>3, <1>4, <1>5, <1>6, <1>7, <1>8, <1>10, <1>11, <1>12, <1>14, <1>15, <1>16, <1>17, <1>18
     DEF Next, Handle, Deliver, Routes

LEMMA InitOnce == Init => OnceEach
  BY InventoryAssumption DEF Init, OnceEach, Once, Recorded, HalfDone, Working

LEMMA OnceApplied == IInv /\ OnceEach => AppliedOnce
  BY DEF IInv, TypeOK, OnceEach, Once, AppliedOnce

\* No line of an event changes the stock twice, however many handlers, copies
\* and lost connections there are, but in the four cases of doubt.
THEOREM InventoryAppliedOnce == Spec => []AppliedOnce
  BY InitOnce, AlwaysIInv, StepOnce, OnceApplied, PTL DEF Spec
-----------------------------------------------------------------------------
(* The reserve route beside the consumer.                                  *)

\* A handler at work has a request, and one past the reservation its outcome.
CallsInOrder ==
  \A c \in Calls :
    /\ step[c] # "idle" => request[c] \in Requests
    /\ step[c] \in {"storing", "answering"} => outcome[c] # "none"

\* What the handler of a call knows of its request.
InHand(c) ==
  /\ step[c] \in {"finding", "reserving"} => results[request[c]] = "none" /\ grants[request[c]] = 0
  /\ step[c] = "storing" =>
       /\ results[request[c]] = "none"
       /\ outcome[c] = "granted" <=> grants[request[c]] = 1
  /\ step[c] = "answering" => outcome[c] = results[request[c]]

Storing(c, r) == request[c] = r /\ step[c] = "storing"

Alone(r) == \A b, c \in Calls : request[b] = r /\ request[c] = r => b = c

\* A request has one story: the stored result says whether stock is reserved,
\* every answer is that result, and without one only a call about to store it
\* has reserved.
OneStory(r) ==
  /\ Alone(r)
  /\ grants[r] <= 1
  /\ told[r] \subseteq {results[r]}
  /\ results[r] # "none" => (results[r] = "granted" <=> grants[r] = 1)
  /\ results[r] = "none" /\ grants[r] = 1 => \E c \in Calls : Storing(c, r)
  /\ \A c \in Calls : request[c] = r => InHand(c)

Stories == \A r \in Identified \ excused : OneStory(r)

RouteIInv == IInv /\ RouteTypeOK /\ CallsInOrder /\ Stories

LEMMA RequestTypes ==
  /\ Identified \subseteq Requests /\ NoRequest \notin Requests /\ MaxCalls \in Nat
  /\ \A r \in Requests : Asked[r].product \in Products /\ Asked[r].quantity \in Nat \ {0}
<1>1. \A r \in Requests : Asked[r] \in Items
  BY RouteAssumption
<1> QED
  BY <1>1, RouteAssumption DEF Items

LEMMA InitRouteIInv == RouteInit => RouteIInv
<1> SUFFICES ASSUME RouteInit PROVE RouteIInv
  OBVIOUS
<1>1. IInv
  BY InitIInv DEF RouteInit
<1>2. RouteTypeOK /\ CallsInOrder
  BY <1>1, RequestTypes DEF RouteInit, RouteTypeOK, CallsInOrder, IInv
<1>3. Stories
  BY RequestTypes DEF RouteInit, Stories, OneStory, Alone, InHand
<1> QED
  BY <1>1, <1>2, <1>3 DEF RouteIInv

\* The route makes a reservation that the stock on hand covers.
Grant ==
  /\ \E p \in Products, n \in Nat \ {0} :
       /\ quantity[p] >= reserved[p] + n
       /\ reserved' = [reserved EXCEPT ![p] = @ + n]
  /\ UNCHANGED <<listed, quantity, records, tally, slots, broker>>

LEMMA ReserveIsGrant ==
  ASSUME RouteIInv, NEW c \in Calls, Reserve(c),
         UNCHANGED <<listed, quantity, records, tally, slots, broker>>
  PROVE  Grant
<1>1. request[c] \in Requests
  BY DEF Reserve, RouteIInv, CallsInOrder
<1>2. Product(c) \in Products /\ Amount(c) \in Nat \ {0}
  BY <1>1, RequestTypes DEF Product, Amount
<1>3. /\ quantity[Product(c)] >= reserved[Product(c)] + Amount(c)
      /\ reserved' = [reserved EXCEPT ![Product(c)] = @ + Amount(c)]
  BY DEF Reserve, Covered
<1> QED
  BY <1>2, <1>3 DEF Grant

\* To the consumer, a step of the whole is one of its own or a reservation.
LEMMA RouteStep == RouteIInv /\ [RouteNext]_allVars => [Next]_vars \/ Grant
<1> SUFFICES ASSUME RouteIInv, [RouteNext]_allVars PROVE [Next]_vars \/ Grant
  OBVIOUS
<1>1. CASE UNCHANGED allVars
  BY <1>1 DEF allVars
<1>2. CASE Next /\ UNCHANGED route
  BY <1>2
<1>3. ASSUME NEW c \in Calls, NEW r \in Requests, receive(c, r) PROVE UNCHANGED vars
  BY <1>3 DEF receive
<1>4. ASSUME NEW r \in Requests, expireResult(r) PROVE UNCHANGED vars
  BY <1>4 DEF expireResult
<1>5. ASSUME NEW c \in Calls, Route(c), ~reserve(c), ~maybeSchrodingerCrash(c)
      PROVE  UNCHANGED vars
  BY <1>5 DEF Route, maybeApplyGremlinLatency, getProcessedRequest, findProduct,
       processEventIdempotently, answer, abandon
<1>6. ASSUME NEW c \in Calls, reserve(c) PROVE UNCHANGED vars \/ Grant
  <2>1. UNCHANGED <<listed, quantity, records, tally, slots, broker>>
    BY <1>6 DEF reserve
  <2>2. CASE Reserve(c)
    BY <2>1, <2>2, ReserveIsGrant
  <2>3. CASE ~Reserve(c)
    BY <1>6, <2>1, <2>3 DEF reserve, vars, stock
  <2> QED
    BY <2>2, <2>3
<1>7. ASSUME NEW c \in Calls, maybeSchrodingerCrash(c) PROVE Grant
  <2>1. Reserve(c) /\ UNCHANGED <<listed, quantity, records, tally, slots, broker>>
    BY <1>7 DEF maybeSchrodingerCrash
  <2> QED
    BY <2>1, ReserveIsGrant
<1> QED
  BY <1>1, <1>2, <1>3, <1>4, <1>5, <1>6, <1>7 DEF RouteNext

LEMMA GrantIInv == IInv /\ Grant => IInv'
<1> SUFFICES ASSUME IInv, Grant PROVE IInv'
  OBVIOUS
<1>1. reserved' \in [Products -> Nat]
  BY DEF Grant, IInv, TypeOK
<1>2. TypeOK'
  BY <1>1 DEF Grant, IInv, TypeOK, tally, slots, handler, broker
<1>3. SlotsInOrder'
  BY DEF Grant, IInv, SlotsInOrder, MoreItems, slots, handler
<1> QED
  BY <1>2, <1>3 DEF IInv

LEMMA RouteKeepsIInv == RouteIInv /\ [RouteNext]_allVars => IInv'
<1>1. IInv /\ [Next]_vars => IInv'
  BY StepTypeOK, StepSlots DEF IInv
<1> QED
  BY <1>1, RouteStep, GrantIInv DEF RouteIInv

Labels == {"idle", "delayed", "looking", "finding", "reserving", "storing", "answering"}

\* The variables of the route alone.
RouteTypes ==
  /\ step \in [Calls -> Labels]
  /\ request \in [Calls -> Requests \cup {NoRequest}]
  /\ outcome \in [Calls -> Outcomes \cup {"none"}]
  /\ results \in [Requests -> Outcomes \cup {"none"}]
  /\ calls \in 0..MaxCalls
  /\ grants \in [Requests -> Nat]
  /\ told \in [Requests -> SUBSET Outcomes]
  /\ excused \subseteq Requests

\* Every step keeps the types and the order of the calls.
LEMMA StepRouteTypes ==
  RouteIInv /\ [RouteNext]_allVars => RouteTypes' /\ CallsInOrder'
<1> SUFFICES ASSUME RouteIInv, [RouteNext]_allVars PROVE RouteTypes' /\ CallsInOrder'
  OBVIOUS
<1>0. RouteTypes /\ CallsInOrder
  BY DEF RouteIInv, RouteTypeOK, RouteTypes, Labels
<1> USE <1>0, RequestTypes
    DEF RouteTypes, CallsInOrder, Labels, Outcomes, history, Advance, Conclude, Excuse, Leave
<1>1. CASE UNCHANGED route
  BY <1>1 DEF route
<1>2. ASSUME NEW c \in Calls, NEW r \in Requests, receive(c, r)
      PROVE  RouteTypes' /\ CallsInOrder'
  BY <1>2 DEF receive
<1>3. ASSUME NEW c \in Calls, maybeApplyGremlinLatency(c) PROVE RouteTypes' /\ CallsInOrder'
  BY <1>3 DEF maybeApplyGremlinLatency
<1>4. ASSUME NEW c \in Calls, getProcessedRequest(c) PROVE RouteTypes' /\ CallsInOrder'
  BY <1>4 DEF getProcessedRequest
<1>5. ASSUME NEW c \in Calls, findProduct(c) PROVE RouteTypes' /\ CallsInOrder'
  BY <1>5 DEF findProduct, AfterReserve
<1>6. ASSUME NEW c \in Calls, reserve(c) PROVE RouteTypes' /\ CallsInOrder'
  BY <1>6 DEF reserve, Reserve, AfterReserve
<1>7. ASSUME NEW c \in Calls, maybeSchrodingerCrash(c) PROVE RouteTypes' /\ CallsInOrder'
  BY <1>7 DEF maybeSchrodingerCrash, Reserve
<1>8. ASSUME NEW c \in Calls, processEventIdempotently(c) PROVE RouteTypes' /\ CallsInOrder'
  BY <1>8 DEF processEventIdempotently
<1>9. ASSUME NEW c \in Calls, answer(c) PROVE RouteTypes' /\ CallsInOrder'
  <2>1. request[c] \in Requests /\ told' = [told EXCEPT ![request[c]] = @ \cup {outcome[c]}]
    BY <1>9 DEF answer
  <2>2. outcome[c] \in Outcomes => told' \in [Requests -> SUBSET Outcomes]
    BY <2>1
  <2> QED
    BY <1>9, <2>2 DEF answer
<1>10. ASSUME NEW c \in Calls, abandon(c) PROVE RouteTypes' /\ CallsInOrder'
  BY <1>10 DEF abandon
<1>11. ASSUME NEW r \in Requests, expireResult(r) PROVE RouteTypes' /\ CallsInOrder'
  BY <1>11 DEF expireResult
<1>12. CASE UNCHANGED allVars
  BY <1>1, <1>12 DEF allVars
<1> QED
  BY <1>1, <1>2, <1>3, <1>4, <1>5, <1>6, <1>7, <1>8, <1>9, <1>10, <1>11, <1>12
     DEF RouteNext, Route

\* What the other calls know stays as it is.
OthersKeep(c) ==
  \A b \in Calls \ {c} : step'[b] = step[b] /\ request'[b] = request[b] /\ outcome'[b] = outcome[b]

\* A call for one request does not touch the story of another.
LEMMA Elsewhere ==
  ASSUME RouteIInv, RouteTypes', NEW c \in Calls, OthersKeep(c), NEW r \in Requests,
         OneStory(r), request[c] # r, request'[c] # r,
         results'[r] = results[r], grants'[r] = grants[r], told'[r] = told[r]
  PROVE  OneStory(r)'
<1>1. \A b \in Calls : request'[b] = r <=> request[b] = r
  BY DEF OthersKeep
<1>2. \A b \in Calls : request[b] = r =>
        step'[b] = step[b] /\ request'[b] = request[b] /\ outcome'[b] = outcome[b]
  BY DEF OthersKeep
<1>3. Alone(r)'
  BY <1>1 DEF OneStory, Alone
<1>4. \A b \in Calls : request'[b] = r => InHand(b)'
  BY <1>1, <1>2 DEF OneStory, InHand
<1>5. \A b \in Calls : Storing(b, r) => Storing(b, r)'
  BY <1>1, <1>2 DEF Storing
<1> QED
  BY <1>3, <1>4, <1>5 DEF OneStory

\* A call that has the request to itself carries its story on.
LEMMA Here ==
  ASSUME RouteIInv, RouteTypes', NEW c \in Calls, OthersKeep(c), NEW r \in Requests,
         OneStory(r), request[c] = r, request'[c] \in {r, NoRequest},
         grants'[r] <= 1, told'[r] \subseteq {results'[r]},
         results'[r] # "none" => (results'[r] = "granted" <=> grants'[r] = 1),
         results'[r] = "none" /\ grants'[r] = 1 => Storing(c, r)',
         request'[c] = r => InHand(c)'
  PROVE  OneStory(r)'
<1>1. \A b \in Calls : request'[b] = r => b = c
  BY DEF OthersKeep, OneStory, Alone
<1> QED
  BY <1>1 DEF OneStory, Alone

\* Every step keeps the stories.
LEMMA StepStories == RouteIInv /\ [RouteNext]_allVars => Stories'
<1> SUFFICES ASSUME RouteIInv, [RouteNext]_allVars, NEW r \in Identified \ excused'
             PROVE  OneStory(r)'
  BY DEF Stories
<1>1. /\ RouteTypes /\ RouteTypes' /\ CallsInOrder /\ r \in Requests /\ r \in Identified
      /\ r # NoRequest /\ Identified \subseteq Requests
  BY StepRouteTypes, RequestTypes DEF RouteIInv, RouteTypeOK, RouteTypes, Labels
<1>2. ASSUME r \notin excused PROVE OneStory(r)
  BY <1>2 DEF RouteIInv, Stories
<1>3. ASSUME UNCHANGED route PROVE OneStory(r)'
  <2>1. r \notin excused
    BY <1>3 DEF route, history
  <2> QED
    BY <1>2, <1>3, <2>1 DEF route, history, OneStory, Alone, InHand, Storing
<1> USE DEF Advance, Conclude, Excuse, Leave, history
<1>4. ASSUME NEW c \in Calls, NEW q \in Requests, receive(c, q) PROVE OneStory(r)'
  <2>1. /\ step[c] = "idle" /\ OthersKeep(c) /\ request'[c] = q /\ step'[c] = "delayed"
        /\ UNCHANGED <<results, grants, told>>
        /\ r \notin excused
        /\ r = q => \A b \in Calls : request[b] # r
    BY <1>1, <1>4 DEF receive, RouteTypes, OthersKeep
  <2>2. OneStory(r)
    BY <1>2, <2>1
  <2>3. CASE r # q
    <3>1. CASE request[c] # r
      BY <1>1, <2>1, <2>2, <2>3, <3>1, Elsewhere
    <3>2. CASE request[c] = r
      <4>1. ~Storing(c, r)
        BY <2>1 DEF Storing
      <4>2. \A b \in Calls : request'[b] # r
        BY <2>1, <2>2, <2>3, <3>2 DEF OthersKeep, OneStory, Alone
      <4>3. \A b \in Calls : ~Storing(b, r)
        BY <2>2, <3>2, <4>1 DEF OneStory, Alone, Storing
      <4> QED
        BY <2>1, <2>2, <4>2, <4>3 DEF OneStory, Alone
    <3> QED
      BY <3>1, <3>2
  <2>4. CASE r = q
    <3>1. \A b \in Calls : request'[b] = r => b = c
      BY <2>1, <2>4 DEF OthersKeep
    <3>2. \A b \in Calls : ~Storing(b, r)
      BY <2>1, <2>4 DEF Storing
    <3>3. InHand(c)'
      BY <2>1 DEF InHand
    <3> QED
      BY <2>1, <2>2, <3>1, <3>2, <3>3 DEF OneStory, Alone
  <2> QED
    BY <2>3, <2>4
<1>5. ASSUME NEW c \in Calls, maybeApplyGremlinLatency(c) PROVE OneStory(r)'
  <2>1. /\ OthersKeep(c) /\ UNCHANGED <<request, results, grants, told, excused>>
        /\ step[c] = "delayed" /\ request[c] = r => step'[c] = "looking"
    BY <1>1, <1>5 DEF maybeApplyGremlinLatency, RouteTypes, OthersKeep
  <2>2. OneStory(r)
    BY <1>2, <2>1
  <2>3. CASE request[c] # r
    BY <1>1, <2>1, <2>2, <2>3, Elsewhere
  <2>4. CASE request[c] = r
    <3>1. InHand(c)'
      BY <1>5, <2>1, <2>4 DEF InHand, maybeApplyGremlinLatency
    <3>2. ~Storing(c, r) /\ \A b \in Calls : ~Storing(b, r)
      BY <1>5, <2>2, <2>4 DEF OneStory, Alone, Storing, maybeApplyGremlinLatency
    <3>3. /\ grants'[r] <= 1 /\ told'[r] \subseteq {results'[r]}
          /\ results'[r] # "none" => (results'[r] = "granted" <=> grants'[r] = 1)
          /\ ~(results'[r] = "none" /\ grants'[r] = 1)
          /\ request'[c] = r
      BY <2>1, <2>2, <2>4, <3>2 DEF OneStory
    <3> QED
      BY <1>1, <2>1, <2>2, <2>4, <3>1, <3>3, Here
  <2> QED
    BY <2>3, <2>4
<1>6. ASSUME NEW c \in Calls, getProcessedRequest(c) PROVE OneStory(r)'
  <2>1. /\ OthersKeep(c) /\ UNCHANGED <<request, results, grants, told, excused>>
        /\ step[c] = "looking"
        /\ \/ /\ results[request[c]] # "none" /\ step'[c] = "answering"
              /\ outcome'[c] = results[request[c]]
           \/ results[request[c]] = "none" /\ step'[c] = "finding"
    BY <1>1, <1>6 DEF getProcessedRequest, RouteTypes, OthersKeep
  <2>2. OneStory(r)
    BY <1>2, <2>1
  <2>3. CASE request[c] # r
    BY <1>1, <2>1, <2>2, <2>3, Elsewhere
  <2>4. CASE request[c] = r
    <3>1. \A b \in Calls : ~Storing(b, r)
      BY <2>1, <2>2, <2>4 DEF OneStory, Alone, Storing
    <3>2. /\ grants[r] <= 1 /\ told[r] \subseteq {results[r]}
          /\ results[r] # "none" => (results[r] = "granted" <=> grants[r] = 1)
          /\ ~(results[r] = "none" /\ grants[r] = 1)
      BY <2>2, <3>1 DEF OneStory
    <3>3. results[r] = "none" => grants[r] = 0
      BY <1>1, <3>2 DEF RouteTypes
    <3>4. InHand(c)'
      BY <2>1, <2>4, <3>3 DEF InHand
    <3> QED
      BY <1>1, <2>1, <2>2, <2>4, <3>2, <3>4, Here
  <2> QED
    BY <2>3, <2>4
<1>7. ASSUME NEW c \in Calls, findProduct(c) PROVE OneStory(r)'
  <2>1. /\ OthersKeep(c) /\ UNCHANGED <<request, results, grants, told, excused>>
        /\ step[c] = "finding"
        /\ \/ step'[c] = "reserving"
           \/ /\ request[c] = r => step'[c] = "storing"
              /\ outcome'[c] = "refused"
    BY <1>1, <1>7 DEF findProduct, AfterReserve, RouteTypes, OthersKeep
  <2>2. OneStory(r)
    BY <1>2, <2>1
  <2>3. CASE request[c] # r
    BY <1>1, <2>1, <2>2, <2>3, Elsewhere
  <2>4. CASE request[c] = r
    <3>1. results[r] = "none" /\ grants[r] = 0 /\ told[r] \subseteq {results[r]}
      BY <2>1, <2>2, <2>4 DEF OneStory, InHand
    <3>2. InHand(c)'
      BY <2>1, <2>4, <3>1 DEF InHand
    <3> QED
      BY <1>1, <2>1, <2>2, <2>4, <3>1, <3>2, Here
  <2> QED
    BY <2>3, <2>4
<1>8. ASSUME NEW c \in Calls, reserve(c) PROVE OneStory(r)'
  <2>1. /\ OthersKeep(c) /\ UNCHANGED <<request, results, told, excused>>
        /\ step[c] = "reserving"
        /\ request[c] = r => step'[c] = "storing"
        /\ \/ outcome'[c] = "granted" /\ grants' = [grants EXCEPT ![request[c]] = @ + 1]
           \/ outcome'[c] = "refused" /\ grants' = grants
    BY <1>1, <1>8 DEF reserve, Reserve, AfterReserve, RouteTypes, OthersKeep
  <2>2. OneStory(r) /\ request[c] \in Requests
    BY <1>1, <1>2, <2>1 DEF CallsInOrder
  <2>3. CASE request[c] # r
    <3>1. grants'[r] = grants[r]
      BY <1>1, <2>1, <2>2, <2>3 DEF RouteTypes
    <3> QED
      BY <1>1, <2>1, <2>2, <2>3, <3>1, Elsewhere
  <2>4. CASE request[c] = r
    <3>1. results[r] = "none" /\ grants[r] = 0 /\ told[r] \subseteq {results[r]}
      BY <2>1, <2>2, <2>4 DEF OneStory, InHand
    <3>2. \/ grants'[r] = 1 /\ outcome'[c] = "granted"
          \/ grants'[r] = 0 /\ outcome'[c] = "refused"
      BY <1>1, <2>1, <2>4, <3>1 DEF RouteTypes
    <3>3. InHand(c)' /\ Storing(c, r)' /\ grants'[r] <= 1
      BY <2>1, <2>4, <3>1, <3>2 DEF InHand, Storing
    <3> QED
      BY <1>1, <2>1, <2>2, <2>4, <3>1, <3>3, Here
  <2> QED
    BY <2>3, <2>4
<1>9. ASSUME NEW c \in Calls, request[c] # r, OthersKeep(c), request'[c] # r,
             results'[r] = results[r], grants'[r] = grants[r], told'[r] = told[r],
             r \notin excused
      PROVE  OneStory(r)'
  BY <1>1, <1>2, <1>9, Elsewhere
<1>10. ASSUME NEW c \in Calls, maybeSchrodingerCrash(c) PROVE OneStory(r)'
  <2>1. /\ OthersKeep(c) /\ UNCHANGED <<results, told>> /\ request'[c] = NoRequest
        /\ grants' = [grants EXCEPT ![request[c]] = @ + 1]
        /\ r \notin excused /\ request[c] # r /\ request[c] \in Requests
    BY <1>1, <1>10 DEF maybeSchrodingerCrash, Reserve, RouteTypes, CallsInOrder, OthersKeep
  <2>2. grants'[r] = grants[r]
    BY <1>1, <2>1 DEF RouteTypes
  <2> QED
    BY <1>1, <1>9, <2>1, <2>2
<1>11. ASSUME NEW c \in Calls, processEventIdempotently(c) PROVE OneStory(r)'
  <2>1. /\ OthersKeep(c) /\ UNCHANGED <<request, outcome, grants, told>>
        /\ step[c] = "storing" /\ step'[c] = "answering" /\ request[c] \in Requests
        /\ \/ /\ results' = [results EXCEPT ![request[c]] = IF @ = "none" THEN outcome[c] ELSE @]
              /\ UNCHANGED excused
           \/ excused' = excused \cup {request[c]} /\ UNCHANGED results
        /\ r \notin excused
    BY <1>1, <1>11 DEF processEventIdempotently, RouteTypes, CallsInOrder, OthersKeep
  <2>2. OneStory(r)
    BY <1>2, <2>1
  <2>3. CASE request[c] # r
    <3>1. results'[r] = results[r]
      BY <1>1, <2>1, <2>3 DEF RouteTypes
    <3> QED
      BY <1>9, <2>1, <2>3, <3>1
  <2>4. CASE request[c] = r
    <3>1. /\ results[r] = "none" /\ grants[r] <= 1 /\ told[r] \subseteq {results[r]}
          /\ outcome[c] = "granted" <=> grants[r] = 1
          /\ outcome[c] \in Outcomes
      BY <1>1, <2>1, <2>2, <2>4 DEF OneStory, InHand, RouteTypes, CallsInOrder
    <3>2. told[r] = {}
      BY <1>1, <3>1 DEF RouteTypes, Outcomes
    <3>3. results'[r] = outcome[c]
      BY <1>1, <2>1, <2>4, <3>1 DEF RouteTypes
    <3>4. InHand(c)'
      BY <2>1, <2>4, <3>3 DEF InHand
    <3> QED
      BY <1>1, <2>1, <2>2, <2>4, <3>1, <3>2, <3>3, <3>4, Here DEF Outcomes
  <2> QED
    BY <2>3, <2>4
<1>12. ASSUME NEW c \in Calls, answer(c) PROVE OneStory(r)'
  <2>1. /\ OthersKeep(c) /\ UNCHANGED <<results, grants, excused>> /\ request'[c] = NoRequest
        /\ told' = [told EXCEPT ![request[c]] = @ \cup {outcome[c]}]
        /\ step[c] = "answering" /\ request[c] \in Requests
    BY <1>1, <1>12 DEF answer, RouteTypes, CallsInOrder, OthersKeep
  <2>2. OneStory(r) /\ r \notin excused
    BY <1>2, <2>1
  <2>3. CASE request[c] # r
    <3>1. told'[r] = told[r]
      BY <1>1, <2>1, <2>3 DEF RouteTypes
    <3> QED
      BY <1>1, <1>9, <2>1, <2>2, <2>3, <3>1
  <2>4. CASE request[c] = r
    <3>1. /\ outcome[c] = results[r] /\ outcome[c] # "none" /\ grants[r] <= 1
          /\ told[r] \subseteq {results[r]}
          /\ results[r] = "granted" <=> grants[r] = 1
      BY <1>1, <2>1, <2>2, <2>4 DEF OneStory, InHand, CallsInOrder
    <3>2. told'[r] \subseteq {results[r]}
      BY <1>1, <2>1, <2>4, <3>1 DEF RouteTypes
    <3> QED
      BY <1>1, <2>1, <2>2, <2>4, <3>1, <3>2, Here
  <2> QED
    BY <2>3, <2>4
<1>13. ASSUME NEW c \in Calls, abandon(c) PROVE OneStory(r)'
  <2>1. /\ OthersKeep(c) /\ UNCHANGED <<results, grants, told>> /\ request'[c] = NoRequest
        /\ r \notin excused
        /\ request[c] = r => step[c] # "storing"
    BY <1>1, <1>13 DEF abandon, RouteTypes, CallsInOrder, OthersKeep
  <2>2. OneStory(r)
    BY <1>2, <2>1
  <2>3. CASE request[c] # r
    BY <1>1, <1>9, <2>1, <2>3
  <2>4. CASE request[c] = r
    <3>1. \A b \in Calls : ~Storing(b, r)
      BY <2>1, <2>2, <2>4 DEF OneStory, Alone, Storing
    <3>2. /\ grants[r] <= 1 /\ told[r] \subseteq {results[r]}
          /\ results[r] # "none" => (results[r] = "granted" <=> grants[r] = 1)
          /\ ~(results[r] = "none" /\ grants[r] = 1)
      BY <2>2, <3>1 DEF OneStory
    <3> QED
      BY <1>1, <2>1, <2>2, <2>4, <3>2, Here
  <2> QED
    BY <2>3, <2>4
<1>14. ASSUME NEW q \in Requests, expireResult(q) PROVE OneStory(r)'
  <2>1. /\ UNCHANGED <<step, request, outcome, grants, told>>
        /\ r \notin excused /\ r # q /\ results'[r] = results[r]
    BY <1>1, <1>14 DEF expireResult, RouteTypes
  <2>2. OneStory(r)
    BY <1>2, <2>1
  <2>3. \A b \in Calls : request[b] = r => InHand(b)'
    BY <2>1, <2>2 DEF OneStory, InHand
  <2> QED
    BY <2>1, <2>2, <2>3 DEF OneStory, Alone, Storing
<1>15. CASE UNCHANGED allVars
  BY <1>3, <1>15 DEF allVars
<1> QED
  BY <1>3, <1>4, <1>5, <1>6, <1>7, <1>8, <1>10, <1>11, <1>12, <1>13, <1>14, <1>15
     DEF RouteNext, Route

LEMMA AlwaysRouteIInv == RouteSpec => []RouteIInv
<1>1. RouteIInv /\ [RouteNext]_allVars => RouteIInv'
  <2> SUFFICES ASSUME RouteIInv, [RouteNext]_allVars PROVE RouteIInv'
    OBVIOUS
  <2>1. IInv' /\ RouteTypes' /\ CallsInOrder' /\ Stories'
    BY RouteKeepsIInv, StepRouteTypes, StepStories
  <2> QED
    BY <2>1 DEF RouteIInv, RouteTypeOK, RouteTypes, Labels, IInv
<1> QED
  BY InitRouteIInv, <1>1, PTL DEF RouteSpec

\* Consumer and route together keep the types of their variables.
THEOREM RouteKeepsTypes == RouteSpec => []RouteTypeOK
  BY AlwaysRouteIInv, PTL DEF RouteIInv

\* Calls that repeat a request reserve at most once and get the same answer,
\* which tells whether stock is reserved: for any number of callers, requests
\* and products, beside any number of handlers of order events.
THEOREM RouteRetriesAgree == RouteSpec => []RetriesAgree
<1>1. RouteIInv => RetriesAgree
  <2> SUFFICES ASSUME RouteIInv, NEW r \in Identified \ excused
               PROVE  /\ grants[r] <= 1
                      /\ "granted" \in told[r] => grants[r] = 1
                      /\ "refused" \in told[r] => grants[r] = 0
    BY DEF RetriesAgree
  <2>1. OneStory(r) /\ grants[r] \in Nat
    BY RequestTypes DEF RouteIInv, Stories, RouteTypeOK
  <2> QED
    BY <2>1 DEF OneStory
<1> QED
  BY <1>1, AlwaysRouteIInv, PTL

\* The reservations of consumer and route together never exceed the stock on
\* hand at the time they are made.
THEOREM RouteNeverOversold == RouteSpec => NeverOversold
<1> DEFINE Grows == \A p \in Products : reserved'[p] > reserved[p] => reserved'[p] <= quantity'[p]
<1>1. IInv /\ Grant => Grows
  BY DEF Grant, IInv, TypeOK
<1>2. IInv /\ [Next]_vars => Grows
  BY StepOversold
<1>3. RouteIInv /\ [RouteNext]_allVars => [Grows]_vars
  BY <1>1, <1>2, RouteStep DEF RouteIInv
<1> QED
  BY <1>3, AlwaysRouteIInv, PTL DEF RouteSpec, NeverOversold

\* The route loses no message of the consumer.
THEOREM RouteAccounted == RouteSpec => []MessagesAccounted
<1>1. RouteInit => MessagesAccounted
  BY InitAccounted DEF RouteInit
<1>2. Grant /\ MessagesAccounted => MessagesAccounted'
  BY DEF Grant, MessagesAccounted, Holders, slots, handler, broker
<1>3. RouteIInv /\ MessagesAccounted /\ [RouteNext]_allVars => MessagesAccounted'
  BY <1>2, RouteStep, StepAccounted DEF RouteIInv
<1> QED
  BY <1>1, <1>3, AlwaysRouteIInv, PTL DEF RouteSpec

\* Beside the route, too, no line of an event changes the stock twice.
THEOREM RouteAppliedOnce == RouteSpec => []AppliedOnce
<1>1. RouteInit => OnceEach
  BY InitOnce DEF RouteInit
<1>2. Grant /\ OnceEach => OnceEach'
  BY DEF Grant, OnceEach, Once, Recorded, HalfDone, Working, tally, slots, handler
<1>3. RouteIInv /\ OnceEach /\ [RouteNext]_allVars => OnceEach'
  BY <1>2, RouteStep, StepOnce DEF RouteIInv
<1>4. RouteIInv /\ OnceEach => AppliedOnce
  BY OnceApplied DEF RouteIInv
<1> QED
  BY <1>1, <1>3, <1>4, AlwaysRouteIInv, PTL DEF RouteSpec
=============================================================================
