-------------------------- MODULE OutboxWorkerProofs --------------------------
(***************************************************************************)
(* Safety of the outbox for any number of workers and events, and, for a   *)
(* single worker, that no event is stranded and that the outbox implements *)
(* ReliableRelay.                                                          *)
(***************************************************************************)
EXTENDS OutboxWorker, TLAPS

\* Where a worker has an event in hand.
Holding(w) ==
  pc[w] \in {"publishing", "marking", "failed", "burying", "fallback"}

\* What a worker has in hand agrees with where it is, and its copy of the
\* attempts is never ahead of the row.
InHand ==
  \A w \in Workers :
    /\ pc[w] \in {"polling", "down"} => event[w] = NoEvent
    /\ Holding(w) => event[w] # NoEvent
    /\ event[w] # NoEvent => /\ seen[w] <= attempts[event[w]]
                             /\ status[event[w]] # "absent"
    /\ pc[w] = "marking" => sent[event[w]] > 0
    /\ pc[w] = "burying" => filed[event[w]] > 0 /\ shouldFail(w)
    /\ pc[w] = "fallback" => shouldFail(w)

IInv == TypeOK /\ InHand /\ Accounted /\ DeadLetterAfterRetries

\* The inductive invariant holds before any worker starts.
LEMMA InitIInv == Init => IInv
  BY OutboxAssumption
     DEF Init, IInv, TypeOK, InHand, Accounted, DeadLetterAfterRetries,
         Events, NoEvent, shouldFail, Holding

LEMMA NoEventOutside == NoEvent \notin Events
  BY OutboxAssumption DEF NoEvent, Events

LEMMA HeldEvent ==
  TypeOK /\ InHand => \A w \in Workers : Holding(w) => event[w] \in Events
  BY DEF TypeOK, InHand, Holding

\* Every step keeps the types.
LEMMA StepTypeOK == TypeOK /\ InHand /\ [Next]_vars => TypeOK'
<1> SUFFICES ASSUME TypeOK /\ InHand, [Next]_vars PROVE TypeOK'
  OBVIOUS
<1>1. \A w \in Workers : Holding(w) => event[w] \in Events
  BY HeldEvent
<1> USE OutboxAssumption, NoEventOutside
    DEF TypeOK,
        row, task, worker, outside, Goto, Fault, Unlock, Mark, Drop, BackToLoop, Exists
<1>2. ASSUME NEW e \in Events, CommitEvent(e) PROVE TypeOK'
  BY <1>2 DEF CommitEvent
<1>3. ASSUME NEW e \in Events, expire(e) PROVE TypeOK'
  BY <1>3 DEF expire
<1>4. ASSUME NEW w \in Workers, startOutboxWorker(w) PROVE TypeOK'
  BY <1>4 DEF startOutboxWorker
<1>5. ASSUME NEW w \in Workers, connected(w) PROVE TypeOK'
  BY <1>5 DEF connected
<1>6. ASSUME NEW w \in Workers, publish(w) PROVE TypeOK'
  BY <1>6, <1>1 DEF publish, Holding
<1>7. ASSUME NEW w \in Workers, publishThrows(w) PROVE TypeOK'
  BY <1>7 DEF publishThrows, canTry, isMaxRetriesExceeded, nextDelay
<1>8. ASSUME NEW w \in Workers, giveUp(w) PROVE TypeOK'
  BY <1>8 DEF giveUp
<1>9. ASSUME NEW w \in Workers, markPublished(w) PROVE TypeOK'
  BY <1>9, <1>1 DEF markPublished, Holding
<1>10. ASSUME NEW w \in Workers, requeue(w) PROVE TypeOK'
  BY <1>10, <1>1 DEF requeue, Holding
<1>11. ASSUME NEW w \in Workers, createDeadLetter(w) PROVE TypeOK'
  BY <1>11, <1>1 DEF createDeadLetter, Holding
<1>12. ASSUME NEW w \in Workers, deleteEvent(w) PROVE TypeOK'
  BY <1>12, <1>1 DEF deleteEvent, Holding
<1>13. ASSUME NEW w \in Workers, markFailed(w) PROVE TypeOK'
  BY <1>13, <1>1 DEF markFailed, Holding
<1>14. ASSUME NEW w \in Workers, exit(w) PROVE TypeOK'
  BY <1>14 DEF exit, Halt
<1>15. ASSUME NEW w \in Workers, connectionLost(w) PROVE TypeOK'
  BY <1>15 DEF connectionLost
<1>16. ASSUME NEW w \in Workers, markFails(w) PROVE TypeOK'
  BY <1>16, <1>1 DEF markFails, Holding
<1>17. ASSUME NEW w \in Workers, requeueFails(w) PROVE TypeOK'
  BY <1>17 DEF requeueFails
<1>18. ASSUME NEW w \in Workers, createFails(w) PROVE TypeOK'
  BY <1>18, <1>1 DEF createFails, Holding
<1>25. ASSUME NEW w \in Workers, deleteFails(w) PROVE TypeOK'
  BY <1>25, <1>1 DEF deleteFails, Holding
<1>19. ASSUME NEW w \in Workers, markFailedFails(w) PROVE TypeOK'
  BY <1>19 DEF markFailedFails
<1>20. ASSUME NEW w \in Workers, stopOutboxWorker(w) PROVE TypeOK'
  BY <1>20 DEF stopOutboxWorker
<1>21. ASSUME NEW w \in Workers, crash(w) PROVE TypeOK'
  BY <1>21 DEF crash, Halt
<1>22. ASSUME NEW w \in Workers, NEW e \in Events, acquireLease(w, e) PROVE TypeOK'
  BY <1>22 DEF acquireLease, available
<1>23. CASE Tick
  BY <1>23 DEF Tick, Less
<1>24. CASE UNCHANGED vars
  BY <1>24 DEF vars
<1> QED
  BY <1>2, <1>3, <1>4, <1>5, <1>6, <1>7, <1>8, <1>9, <1>10, <1>11, <1>12, <1>13, <1>14, <1>15, <1>16, <1>17, <1>18, <1>19, <1>20, <1>21, <1>22, <1>23, <1>24, <1>25
     DEF Next, Work, Disturb

\* Every step keeps what the workers have in hand in agreement.
LEMMA StepInHand == TypeOK /\ InHand /\ [Next]_vars => InHand'
<1> SUFFICES ASSUME TypeOK /\ InHand, [Next]_vars PROVE InHand'
  OBVIOUS
<1>1. \A w \in Workers : Holding(w) => event[w] \in Events
  BY HeldEvent
<1> USE OutboxAssumption, NoEventOutside
    DEF TypeOK, InHand, Holding, shouldFail,
        row, task, worker, outside, Goto, Fault, Unlock, Mark, Drop, BackToLoop, Exists
<1>2. ASSUME NEW e \in Events, CommitEvent(e) PROVE InHand'
  BY <1>2 DEF CommitEvent
<1>3. ASSUME NEW e \in Events, expire(e) PROVE InHand'
  BY <1>3 DEF expire
<1>4. ASSUME NEW w \in Workers, startOutboxWorker(w) PROVE InHand'
  BY <1>4 DEF startOutboxWorker
<1>5. ASSUME NEW w \in Workers, connected(w) PROVE InHand'
  BY <1>5 DEF connected
<1>6. ASSUME NEW w \in Workers, publish(w) PROVE InHand'
  BY <1>6, <1>1 DEF publish, Holding
<1>7. ASSUME NEW w \in Workers, publishThrows(w) PROVE InHand'
  BY <1>7 DEF publishThrows, canTry, nextDelay
<1>8. ASSUME NEW w \in Workers, giveUp(w) PROVE InHand'
  BY <1>8 DEF giveUp
<1>9. ASSUME NEW w \in Workers, markPublished(w) PROVE InHand'
  BY <1>9, <1>1 DEF markPublished, Holding
<1>10. ASSUME NEW w \in Workers, requeue(w) PROVE InHand'
  BY <1>10, <1>1 DEF requeue, Holding
<1>11. ASSUME NEW w \in Workers, createDeadLetter(w) PROVE InHand'
  BY <1>11, <1>1 DEF createDeadLetter, Holding
<1>12. ASSUME NEW w \in Workers, deleteEvent(w) PROVE InHand'
  BY <1>12, <1>1 DEF deleteEvent, Holding
<1>13. ASSUME NEW w \in Workers, markFailed(w) PROVE InHand'
  BY <1>13, <1>1 DEF markFailed, Holding
<1>14. ASSUME NEW w \in Workers, exit(w) PROVE InHand'
  BY <1>14 DEF exit, Halt
<1>15. ASSUME NEW w \in Workers, connectionLost(w) PROVE InHand'
  BY <1>15 DEF connectionLost
<1>16. ASSUME NEW w \in Workers, markFails(w) PROVE InHand'
  BY <1>16, <1>1 DEF markFails, Holding
<1>17. ASSUME NEW w \in Workers, requeueFails(w) PROVE InHand'
  BY <1>17 DEF requeueFails
<1>18. ASSUME NEW w \in Workers, createFails(w) PROVE InHand'
  BY <1>18, <1>1 DEF createFails, Holding
<1>25. ASSUME NEW w \in Workers, deleteFails(w) PROVE InHand'
  BY <1>25, <1>1 DEF deleteFails, Holding
<1>19. ASSUME NEW w \in Workers, markFailedFails(w) PROVE InHand'
  BY <1>19 DEF markFailedFails
<1>20. ASSUME NEW w \in Workers, stopOutboxWorker(w) PROVE InHand'
  BY <1>20 DEF stopOutboxWorker
<1>21. ASSUME NEW w \in Workers, crash(w) PROVE InHand'
  BY <1>21 DEF crash, Halt
<1>22. ASSUME NEW w \in Workers, NEW e \in Events, acquireLease(w, e) PROVE InHand'
  BY <1>22 DEF acquireLease, available
<1>23. CASE Tick
  BY <1>23 DEF Tick, Less
<1>24. CASE UNCHANGED vars
  BY <1>24 DEF vars
<1> QED
  BY <1>2, <1>3, <1>4, <1>5, <1>6, <1>7, <1>8, <1>9, <1>10, <1>11, <1>12, <1>13, <1>14, <1>15, <1>16, <1>17, <1>18, <1>19, <1>20, <1>21, <1>22, <1>23, <1>24, <1>25
     DEF Next, Work, Disturb

\* Every step keeps the events accounted for.
LEMMA StepAccounted == TypeOK /\ InHand /\ Accounted /\ [Next]_vars => Accounted'
<1> SUFFICES ASSUME TypeOK /\ InHand /\ Accounted, [Next]_vars PROVE Accounted'
  OBVIOUS
<1>1. \A w \in Workers : Holding(w) => event[w] \in Events
  BY HeldEvent
<1> USE OutboxAssumption, NoEventOutside
    DEF TypeOK, InHand, Holding, Accounted,
        row, task, worker, outside, Goto, Fault, Unlock, Mark, Drop, BackToLoop, Exists
<1>2. ASSUME NEW e \in Events, CommitEvent(e) PROVE Accounted'
  BY <1>2 DEF CommitEvent
<1>3. ASSUME NEW e \in Events, expire(e) PROVE Accounted'
  BY <1>3 DEF expire
<1>4. ASSUME NEW w \in Workers, startOutboxWorker(w) PROVE Accounted'
  BY <1>4 DEF startOutboxWorker
<1>5. ASSUME NEW w \in Workers, connected(w) PROVE Accounted'
  BY <1>5 DEF connected
<1>6. ASSUME NEW w \in Workers, publish(w) PROVE Accounted'
  BY <1>6, <1>1 DEF publish, Holding
<1>7. ASSUME NEW w \in Workers, publishThrows(w) PROVE Accounted'
  BY <1>7 DEF publishThrows, canTry, nextDelay
<1>8. ASSUME NEW w \in Workers, giveUp(w) PROVE Accounted'
  BY <1>8 DEF giveUp
<1>9. ASSUME NEW w \in Workers, markPublished(w) PROVE Accounted'
  BY <1>9, <1>1 DEF markPublished, Holding
<1>10. ASSUME NEW w \in Workers, requeue(w) PROVE Accounted'
  BY <1>10, <1>1 DEF requeue, Holding
<1>11. ASSUME NEW w \in Workers, createDeadLetter(w) PROVE Accounted'
  BY <1>11, <1>1 DEF createDeadLetter, Holding
<1>12. ASSUME NEW w \in Workers, deleteEvent(w) PROVE Accounted'
  BY <1>12, <1>1 DEF deleteEvent, Holding
<1>13. ASSUME NEW w \in Workers, markFailed(w) PROVE Accounted'
  BY <1>13, <1>1 DEF markFailed, Holding
<1>14. ASSUME NEW w \in Workers, exit(w) PROVE Accounted'
  BY <1>14 DEF exit, Halt
<1>15. ASSUME NEW w \in Workers, connectionLost(w) PROVE Accounted'
  BY <1>15 DEF connectionLost
<1>16. ASSUME NEW w \in Workers, markFails(w) PROVE Accounted'
  BY <1>16, <1>1 DEF markFails, Holding
<1>17. ASSUME NEW w \in Workers, requeueFails(w) PROVE Accounted'
  BY <1>17 DEF requeueFails
<1>18. ASSUME NEW w \in Workers, createFails(w) PROVE Accounted'
  BY <1>18, <1>1 DEF createFails, Holding
<1>25. ASSUME NEW w \in Workers, deleteFails(w) PROVE Accounted'
  BY <1>25, <1>1 DEF deleteFails, Holding
<1>19. ASSUME NEW w \in Workers, markFailedFails(w) PROVE Accounted'
  BY <1>19 DEF markFailedFails
<1>20. ASSUME NEW w \in Workers, stopOutboxWorker(w) PROVE Accounted'
  BY <1>20 DEF stopOutboxWorker
<1>21. ASSUME NEW w \in Workers, crash(w) PROVE Accounted'
  BY <1>21 DEF crash, Halt
<1>22. ASSUME NEW w \in Workers, NEW e \in Events, acquireLease(w, e) PROVE Accounted'
  BY <1>22 DEF acquireLease, available
<1>23. CASE Tick
  BY <1>23 DEF Tick, Less
<1>24. CASE UNCHANGED vars
  BY <1>24 DEF vars
<1> QED
  BY <1>2, <1>3, <1>4, <1>5, <1>6, <1>7, <1>8, <1>9, <1>10, <1>11, <1>12, <1>13, <1>14, <1>15, <1>16, <1>17, <1>18, <1>19, <1>20, <1>21, <1>22, <1>23, <1>24, <1>25
     DEF Next, Work, Disturb

\* Every step puts aside worn-out events only.
LEMMA StepPoison == TypeOK /\ InHand /\ DeadLetterAfterRetries /\ [Next]_vars => DeadLetterAfterRetries'
<1> SUFFICES ASSUME TypeOK /\ InHand /\ DeadLetterAfterRetries, [Next]_vars PROVE DeadLetterAfterRetries'
  OBVIOUS
<1>1. \A w \in Workers : Holding(w) => event[w] \in Events
  BY HeldEvent
<1> USE OutboxAssumption, NoEventOutside
    DEF TypeOK, InHand, Holding, DeadLetterAfterRetries, shouldFail,
        row, task, worker, outside, Goto, Fault, Unlock, Mark, Drop, BackToLoop, Exists
<1>2. ASSUME NEW e \in Events, CommitEvent(e) PROVE DeadLetterAfterRetries'
  BY <1>2 DEF CommitEvent
<1>3. ASSUME NEW e \in Events, expire(e) PROVE DeadLetterAfterRetries'
  BY <1>3 DEF expire
<1>4. ASSUME NEW w \in Workers, startOutboxWorker(w) PROVE DeadLetterAfterRetries'
  BY <1>4 DEF startOutboxWorker
<1>5. ASSUME NEW w \in Workers, connected(w) PROVE DeadLetterAfterRetries'
  BY <1>5 DEF connected
<1>6. ASSUME NEW w \in Workers, publish(w) PROVE DeadLetterAfterRetries'
  BY <1>6, <1>1 DEF publish, Holding
<1>7. ASSUME NEW w \in Workers, publishThrows(w) PROVE DeadLetterAfterRetries'
  BY <1>7 DEF publishThrows, canTry, nextDelay
<1>8. ASSUME NEW w \in Workers, giveUp(w) PROVE DeadLetterAfterRetries'
  BY <1>8 DEF giveUp
<1>9. ASSUME NEW w \in Workers, markPublished(w) PROVE DeadLetterAfterRetries'
  BY <1>9, <1>1 DEF markPublished, Holding
<1>10. ASSUME NEW w \in Workers, requeue(w) PROVE DeadLetterAfterRetries'
  BY <1>10, <1>1 DEF requeue, Holding
<1>11. ASSUME NEW w \in Workers, createDeadLetter(w) PROVE DeadLetterAfterRetries'
  BY <1>11, <1>1 DEF createDeadLetter, Holding
<1>12. ASSUME NEW w \in Workers, deleteEvent(w) PROVE DeadLetterAfterRetries'
  BY <1>12, <1>1 DEF deleteEvent, Holding
<1>13. ASSUME NEW w \in Workers, markFailed(w) PROVE DeadLetterAfterRetries'
  BY <1>13, <1>1 DEF markFailed, Holding
<1>14. ASSUME NEW w \in Workers, exit(w) PROVE DeadLetterAfterRetries'
  BY <1>14 DEF exit, Halt
<1>15. ASSUME NEW w \in Workers, connectionLost(w) PROVE DeadLetterAfterRetries'
  BY <1>15 DEF connectionLost
<1>16. ASSUME NEW w \in Workers, markFails(w) PROVE DeadLetterAfterRetries'
  BY <1>16, <1>1 DEF markFails, Holding
<1>17. ASSUME NEW w \in Workers, requeueFails(w) PROVE DeadLetterAfterRetries'
  BY <1>17 DEF requeueFails
<1>18. ASSUME NEW w \in Workers, createFails(w) PROVE DeadLetterAfterRetries'
  BY <1>18, <1>1 DEF createFails, Holding
<1>25. ASSUME NEW w \in Workers, deleteFails(w) PROVE DeadLetterAfterRetries'
  BY <1>25, <1>1 DEF deleteFails, Holding
<1>19. ASSUME NEW w \in Workers, markFailedFails(w) PROVE DeadLetterAfterRetries'
  BY <1>19 DEF markFailedFails
<1>20. ASSUME NEW w \in Workers, stopOutboxWorker(w) PROVE DeadLetterAfterRetries'
  BY <1>20 DEF stopOutboxWorker
<1>21. ASSUME NEW w \in Workers, crash(w) PROVE DeadLetterAfterRetries'
  BY <1>21 DEF crash, Halt
<1>22. ASSUME NEW w \in Workers, NEW e \in Events, acquireLease(w, e) PROVE DeadLetterAfterRetries'
  BY <1>22 DEF acquireLease, available
<1>23. CASE Tick
  BY <1>23 DEF Tick, Less
<1>24. CASE UNCHANGED vars
  BY <1>24 DEF vars
<1> QED
  BY <1>2, <1>3, <1>4, <1>5, <1>6, <1>7, <1>8, <1>9, <1>10, <1>11, <1>12, <1>13, <1>14, <1>15, <1>16, <1>17, <1>18, <1>19, <1>20, <1>21, <1>22, <1>23, <1>24, <1>25
     DEF Next, Work, Disturb

LEMMA StepIInv == IInv /\ [Next]_vars => IInv'
  BY StepTypeOK, StepInHand, StepAccounted, StepPoison DEF IInv

LEMMA AlwaysIInv == Spec => []IInv
  BY InitIInv, StepIInv, PTL DEF Spec

\* The variables of the outbox keep their types.
THEOREM OutboxTypeOK == Spec => []TypeOK
  BY AlwaysIInv, PTL DEF IInv

\* No event is lost, with any number of workers and any faults.
THEOREM OutboxAccounted == Spec => []Accounted
  BY AlwaysIInv, PTL DEF IInv

\* No event is put aside before its retries are used up, with any number of
\* workers.
THEOREM OutboxPoison == Spec => []DeadLetterAfterRetries
  BY AlwaysIInv, PTL DEF IInv
-----------------------------------------------------------------------------
\* With one worker nobody else touches the row of the event in hand, so the
\* copy the worker works from stays exact.
OneWorker == \A v, w \in Workers : v = w

CopyExact ==
  /\ \A w \in Workers : event[w] # NoEvent =>
       /\ attempts[event[w]] = seen[w]
       /\ \/ status[event[w]] = "pending"
          \/ /\ pc[w] \in {"failed", "burying", "fallback"}
             /\ status[event[w]] \in {"published", "expired"}
          \/ pc[w] = "fallback" /\ status[event[w]] = "removed"
  /\ \A e \in Events : status[e] = "absent" => attempts[e] = 0

SoloInv == IInv /\ CopyExact /\ NotStranded

\* Every step of a lone worker keeps its copy exact and strands nothing.
LEMMA StepSolo ==
  ASSUME OneWorker
  PROVE  TypeOK /\ InHand /\ CopyExact /\ NotStranded /\ [Next]_vars
           => (CopyExact /\ NotStranded)'
<1> SUFFICES ASSUME TypeOK, InHand, CopyExact, NotStranded, [Next]_vars
             PROVE (CopyExact /\ NotStranded)'
  OBVIOUS
<1>1. \A w \in Workers : Holding(w) => event[w] \in Events
  BY HeldEvent
<1> USE OutboxAssumption, NoEventOutside
    DEF OneWorker, TypeOK, InHand, Holding, CopyExact, NotStranded, shouldFail,
        row, task, worker, outside, Goto, Fault, Unlock, Mark, Drop, BackToLoop, Exists
<1>2. ASSUME NEW e \in Events, CommitEvent(e) PROVE (CopyExact /\ NotStranded)'
  BY <1>2 DEF CommitEvent
<1>3. ASSUME NEW e \in Events, expire(e) PROVE (CopyExact /\ NotStranded)'
  BY <1>3 DEF expire
<1>4. ASSUME NEW w \in Workers, startOutboxWorker(w) PROVE (CopyExact /\ NotStranded)'
  BY <1>4 DEF startOutboxWorker
<1>5. ASSUME NEW w \in Workers, connected(w) PROVE (CopyExact /\ NotStranded)'
  BY <1>5 DEF connected
<1>6. ASSUME NEW w \in Workers, publish(w) PROVE (CopyExact /\ NotStranded)'
  BY <1>6, <1>1 DEF publish
<1>7. ASSUME NEW w \in Workers, publishThrows(w) PROVE (CopyExact /\ NotStranded)'
  BY <1>7 DEF publishThrows, canTry, nextDelay
<1>8. ASSUME NEW w \in Workers, giveUp(w) PROVE (CopyExact /\ NotStranded)'
  BY <1>8 DEF giveUp
<1>9. ASSUME NEW w \in Workers, markPublished(w) PROVE (CopyExact /\ NotStranded)'
  BY <1>9, <1>1 DEF markPublished
<1>10. ASSUME NEW w \in Workers, requeue(w) PROVE (CopyExact /\ NotStranded)'
  BY <1>10, <1>1 DEF requeue
<1>11. ASSUME NEW w \in Workers, createDeadLetter(w) PROVE (CopyExact /\ NotStranded)'
  BY <1>11, <1>1 DEF createDeadLetter
<1>12. ASSUME NEW w \in Workers, deleteEvent(w) PROVE (CopyExact /\ NotStranded)'
  BY <1>12, <1>1 DEF deleteEvent
<1>13. ASSUME NEW w \in Workers, markFailed(w) PROVE (CopyExact /\ NotStranded)'
  BY <1>13, <1>1 DEF markFailed
<1>14. ASSUME NEW w \in Workers, exit(w) PROVE (CopyExact /\ NotStranded)'
  BY <1>14 DEF exit, Halt
<1>15. ASSUME NEW w \in Workers, connectionLost(w) PROVE (CopyExact /\ NotStranded)'
  BY <1>15 DEF connectionLost
<1>16. ASSUME NEW w \in Workers, markFails(w) PROVE (CopyExact /\ NotStranded)'
  BY <1>16, <1>1 DEF markFails, Holding
<1>17. ASSUME NEW w \in Workers, requeueFails(w) PROVE (CopyExact /\ NotStranded)'
  BY <1>17 DEF requeueFails
<1>18. ASSUME NEW w \in Workers, createFails(w) PROVE (CopyExact /\ NotStranded)'
  BY <1>18, <1>1 DEF createFails, Holding
<1>25. ASSUME NEW w \in Workers, deleteFails(w) PROVE (CopyExact /\ NotStranded)'
  BY <1>25, <1>1 DEF deleteFails, Holding
<1>19. ASSUME NEW w \in Workers, markFailedFails(w) PROVE (CopyExact /\ NotStranded)'
  BY <1>19 DEF markFailedFails
<1>20. ASSUME NEW w \in Workers, stopOutboxWorker(w) PROVE (CopyExact /\ NotStranded)'
  BY <1>20 DEF stopOutboxWorker
<1>21. ASSUME NEW w \in Workers, crash(w) PROVE (CopyExact /\ NotStranded)'
  BY <1>21 DEF crash, Halt
<1>22. ASSUME NEW w \in Workers, NEW e \in Events, acquireLease(w, e) PROVE (CopyExact /\ NotStranded)'
  BY <1>22 DEF acquireLease, available
<1>23. CASE Tick
  BY <1>23 DEF Tick, Less
<1>24. CASE UNCHANGED vars
  BY <1>24 DEF vars
<1> QED
  BY <1>2, <1>3, <1>4, <1>5, <1>6, <1>7, <1>8, <1>9, <1>10, <1>11, <1>12, <1>13, <1>14, <1>15, <1>16, <1>17, <1>18, <1>19, <1>20, <1>21, <1>22, <1>23, <1>24, <1>25
     DEF Next, Work, Disturb

LEMMA InitSolo == Init => SoloInv
  BY InitIInv, OutboxAssumption
     DEF Init, SoloInv, CopyExact, NotStranded, NoEvent

LEMMA AlwaysSolo == ASSUME OneWorker PROVE Spec => []SoloInv
<1>1. SoloInv /\ [Next]_vars => SoloInv'
  BY StepIInv, StepSolo DEF SoloInv, IInv
<1> QED
  BY InitSolo, <1>1, PTL DEF Spec

\* A lone worker leaves no pending row behind that it can never lease again.
THEOREM OutboxNotStranded == ASSUME OneWorker PROVE Spec => []NotStranded
  BY AlwaysSolo, PTL DEF SoloInv

\* What the rows and a lone worker say of each event's fate.
FateOf(w, x) ==
  CASE status[x] = "pending" -> "owed"
    [] status[x] \in {"published", "expired"} ->
         IF event[w] = x /\ pc[w] \in {"failed", "burying", "fallback"}
         THEN "owed" ELSE "done"
    [] status[x] = "removed" -> "buried"
    [] OTHER -> status[x]

LEMMA SoloFate ==
  ASSUME OneWorker, NEW w \in Workers
  PROVE  \A x \in Events : fate[x] = FateOf(w, x) /\ fate'[x] = FateOf(w, x)'
<1>1. \A x : inDoubt(x) <=> event[w] = x /\ pc[w] \in {"failed", "burying", "fallback"}
  BY DEF OneWorker, inDoubt
<1>2. \A x : inDoubt(x)' <=> event'[w] = x /\ pc'[w] \in {"failed", "burying", "fallback"}
  BY DEF OneWorker, inDoubt
<1> QED
  BY <1>1, <1>2 DEF fate, FateOf

LEMMA OneFate ==
  ASSUME NEW e \in Events, NEW f, fate'[e] = f,
         \A x \in Events : x # e => fate'[x] = fate[x]
  PROVE  fate' = [fate EXCEPT ![e] = f]
  BY DEF fate

LEMMA SameFate ==
  ASSUME \A x \in Events : fate'[x] = fate[x]
  PROVE  fate' = fate
  BY DEF fate

\* What a lone worker does to the event it has in hand, the relay does too.
LEMMA WorkRelay ==
  ASSUME OneWorker, SoloInv, NEW w \in Workers, NEW e \in Events, e = event[w],
         \/ publish(w) \/ giveUp(w) \/ markPublished(w) \/ markFails(w)
         \/ requeue(w) \/ requeueFails(w)
         \/ createDeadLetter(w) \/ createFails(w)
         \/ deleteEvent(w) \/ deleteFails(w)
         \/ markFailed(w) \/ markFailedFails(w) \/ crash(w)
  PROVE  Relay!Next \/ UNCHANGED Relay!vars
<1>1. \A x \in Events : fate[x] = FateOf(w, x) /\ fate'[x] = FateOf(w, x)'
  BY SoloFate
<1>2. TypeOK /\ InHand /\ CopyExact /\ Accounted
  BY DEF SoloInv, IInv
<1>3. /\ Relay!Send(e) \/ Relay!File(e) \/ Relay!Settle(e) \/ Relay!Bury(e)
           \/ Relay!Fail(e) => Relay!Next
      /\ fate' = fate /\ UNCHANGED <<sent, filed>> => UNCHANGED Relay!vars
  BY DEF Relay!Next, Relay!Resolve, Relay!vars
<1>4. e # NoEvent
  BY NoEventOutside
<1> DEFINE Others == \A x \in Events : x # e => fate'[x] = fate[x]
<1> USE OutboxAssumption, NoEventOutside
    DEF TypeOK, Holding, InHand, CopyExact, FateOf,
        row, task, worker, outside, Goto, Fault, Unlock, Mark, Drop, BackToLoop, Exists
<1>6. CASE publish(w)
  <2>1. fate[e] = "owed" /\ fate' = fate
    BY <1>1, <1>2, <1>6, SameFate DEF publish
  <2> QED
    BY <2>1, <1>3, <1>6 DEF publish, Relay!Send
<1>7. CASE giveUp(w)
  BY <1>1, <1>2, <1>3, <1>7, SameFate DEF giveUp
<1>8. CASE markPublished(w)
  <2>0. status[e] = "pending" /\ sent[e] > 0
    BY <1>2, <1>4, <1>8 DEF markPublished
  <2>1. Others /\ fate[e] = "owed" /\ fate'[e] = "done" /\ sent[e] > 0
    BY <2>0, <1>1, <1>2, <1>4, <1>8 DEF markPublished
  <2> QED
    BY <2>1, <1>3, <1>8, OneFate DEF markPublished, Relay!Settle, Relay!Become
<1>9. CASE markFails(w)
  BY <1>1, <1>2, <1>3, <1>9, SameFate DEF markFails
<1>10. CASE requeue(w) \/ requeueFails(w) \/ markFailedFails(w) \/ crash(w)
  <2>1. UNCHANGED <<status, sent, filed>> /\ Others
    BY <1>1, <1>2, <1>4, <1>10 DEF requeue, requeueFails, markFailedFails, crash, Halt
  <2>2. CASE status[e] \in {"published", "expired"}
    <3>1. fate[e] = "owed" /\ fate'[e] = "done" /\ sent[e] > 0
      BY <1>1, <1>2, <1>4, <1>10, <2>1, <2>2
         DEF requeue, requeueFails, markFailedFails, crash, Halt, Accounted
    <3> QED
      BY <3>1, <2>1, <1>3, OneFate DEF Relay!Settle, Relay!Become
  <2>3. CASE status[e] \notin {"published", "expired"}
    <3>1. fate'[e] = fate[e]
      BY <1>1, <2>1, <2>3
    <3> QED
      BY <3>1, <2>1, <1>3, SameFate
  <2> QED
    BY <2>2, <2>3
<1>11. CASE createDeadLetter(w) \/ createFails(w)
  <2>1. fate[e] = "owed" /\ fate' = fate
    BY <1>1, <1>2, <1>11, SameFate DEF createDeadLetter, createFails
  <2> QED
    BY <2>1, <1>3, <1>11 DEF createDeadLetter, createFails, Relay!File
<1>12. CASE deleteEvent(w) \/ deleteFails(w)
  <2>1. /\ Others
        /\ UNCHANGED <<sent, filed>>
        /\ filed[e] > 0
        /\ fate[e] = "owed"
    BY <1>1, <1>2, <1>4, <1>12 DEF deleteEvent, deleteFails
  <2>2. fate'[e] = "owed" \/ fate'[e] = "buried" \/ (fate'[e] = "done" /\ sent[e] > 0)
    <3>1. CASE status[e] \in {"pending", "published"}
      <4>1. CASE status'[e] = "removed"
        BY <4>1, <1>1
      <4>2. CASE status'[e] # "removed"
        <5>1. deleteFails(w) /\ status'[e] = status[e]
          BY <4>2, <3>1, <1>2, <1>12 DEF deleteEvent, deleteFails
        <5>2. event'[w] = e /\ pc'[w] = "fallback"
          BY <5>1, <1>2 DEF deleteFails
        <5> QED
          BY <5>1, <5>2, <3>1, <1>1
      <4> QED
        BY <4>1, <4>2
    <3>2. CASE status[e] = "expired"
      <4>1. sent[e] > 0 /\ status'[e] = "expired"
        BY <3>2, <1>2, <1>12 DEF Accounted, deleteEvent, deleteFails
      <4> QED
        BY <4>1, <1>1
    <3> QED
      BY <3>1, <3>2, <1>2, <1>4, <1>12 DEF deleteEvent, deleteFails
  <2>3. CASE fate'[e] = "owed"
    BY <2>1, <2>3, <1>3, SameFate
  <2>4. CASE fate'[e] = "buried"
    BY <2>1, <2>4, <1>3, OneFate DEF Relay!Bury, Relay!Become
  <2>5. CASE fate'[e] = "done" /\ sent[e] > 0
    BY <2>1, <2>5, <1>3, OneFate DEF Relay!Settle, Relay!Become
  <2> QED
    BY <2>2, <2>3, <2>4, <2>5
<1>13. CASE markFailed(w)
  <2>1. Others /\ UNCHANGED <<sent, filed>>
    BY <1>1, <1>2, <1>4, <1>13 DEF markFailed
  <2>2. \/ fate'[e] = fate[e]
        \/ fate[e] = "owed" /\ fate'[e] = "failed"
        \/ fate[e] = "owed" /\ fate'[e] = "done" /\ sent[e] > 0
    BY <1>1, <1>2, <1>4, <1>13 DEF markFailed, Accounted
  <2>3. CASE fate'[e] = fate[e]
    BY <2>1, <2>3, <1>3, SameFate
  <2>4. CASE fate[e] = "owed" /\ fate'[e] = "failed"
    BY <2>1, <2>4, <1>3, OneFate DEF Relay!Fail, Relay!Become
  <2>5. CASE fate[e] = "owed" /\ fate'[e] = "done" /\ sent[e] > 0
    BY <2>1, <2>5, <1>3, OneFate DEF Relay!Settle, Relay!Become
  <2> QED
    BY <2>2, <2>3, <2>4, <2>5
<1> QED
  BY <1>6, <1>7, <1>8, <1>9, <1>10, <1>11, <1>12, <1>13

\* A step of the outbox is a step of the relay or leaves the relay alone.
LEMMA StepRelay ==
  ASSUME OneWorker
  PROVE  SoloInv /\ [Next]_vars => [Relay!Next]_(Relay!vars)
<1> SUFFICES ASSUME SoloInv, [Next]_vars PROVE Relay!Next \/ UNCHANGED Relay!vars
  OBVIOUS
<1>1. TypeOK /\ InHand /\ CopyExact
  BY DEF SoloInv, IInv
<1> USE OutboxAssumption, NoEventOutside
    DEF TypeOK, InHand, Holding, CopyExact, FateOf, fate, inDoubt, Relay!vars,
        row, task, worker, outside, Goto, Fault, Unlock, Drop, BackToLoop, Exists
<1>2. ASSUME NEW e \in Events, CommitEvent(e) PROVE Relay!Next
  <2>1. Relay!Accept(e)
    BY <1>1, <1>2 DEF CommitEvent, Relay!Accept, Relay!Become
  <2> QED
    BY <2>1 DEF Relay!Next
<1>3. ASSUME NEW e \in Events, expire(e) PROVE UNCHANGED Relay!vars
  BY <1>1, <1>3 DEF expire
<1>4. CASE Tick \/ UNCHANGED vars
  BY <1>4 DEF Tick, vars
<1>5. ASSUME NEW w \in Workers, Work(w) \/ Disturb(w), event[w] \in Events
      PROVE  Relay!Next \/ UNCHANGED Relay!vars
  <2>1. CASE startOutboxWorker(w) \/ connected(w) \/ publishThrows(w)
               \/ connectionLost(w) \/ stopOutboxWorker(w)
    <3>1. UNCHANGED <<status, event, sent, filed>>
      BY <2>1 DEF startOutboxWorker, connected, publishThrows, connectionLost, stopOutboxWorker
    <3>2. \A v \in Workers : pc'[v] \in {"failed", "burying", "fallback"}
                               <=> pc[v] \in {"failed", "burying", "fallback"}
      BY <1>1, <2>1 DEF startOutboxWorker, connected, publishThrows, connectionLost, stopOutboxWorker
    <3> QED
      BY <3>1, <3>2
  <2>2. ~exit(w) /\ \A e \in Events : ~acquireLease(w, e)
    BY <1>1, <1>5 DEF exit, acquireLease
  <2> QED
    BY <2>1, <2>2, <1>5, WorkRelay DEF Work, Disturb
<1>6. ASSUME NEW w \in Workers, Work(w) \/ Disturb(w), event[w] \notin Events
      PROVE  UNCHANGED Relay!vars
  <2>1. ~Holding(w)
    BY <1>1, <1>6
  <2>2. UNCHANGED <<status, sent, filed>>
    BY <1>1, <1>6, <2>1
       DEF Work, Disturb, startOutboxWorker, connected, acquireLease, publish,
           publishThrows, giveUp, markPublished, requeue, createDeadLetter,
           deleteEvent, markFailed, exit, Halt, connectionLost, markFails,
           requeueFails, createFails, deleteFails, markFailedFails,
           stopOutboxWorker, crash
  <2>3. pc'[w] \notin {"failed", "burying", "fallback"}
    BY <1>1, <1>6, <2>1
       DEF Work, Disturb, startOutboxWorker, connected, acquireLease, publish,
           publishThrows, giveUp, markPublished, requeue, createDeadLetter,
           deleteEvent, markFailed, exit, Halt, connectionLost, markFails,
           requeueFails, createFails, deleteFails, markFailedFails,
           stopOutboxWorker, crash
  <2>4. \A x \in Events : fate[x] = FateOf(w, x) /\ fate'[x] = FateOf(w, x)'
    BY SoloFate
  <2>5. \A x \in Events : fate'[x] = fate[x]
    BY <2>1, <2>2, <2>3, <2>4
  <2> QED
    BY <2>2, <2>5, SameFate
<1> QED
  BY <1>2, <1>3, <1>4, <1>5, <1>6 DEF Next

\* The outbox with one worker implements ReliableRelay.
THEOREM OutboxImplementsRelay == ASSUME OneWorker PROVE Spec => RelaySpec
<1>1. Init => Relay!Init
  BY DEF Init, Relay!Init, fate
<1> QED
  BY <1>1, StepRelay, AlwaysSolo, PTL DEF Spec, RelaySpec, Relay!Spec
=============================================================================
