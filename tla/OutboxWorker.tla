----------------------------- MODULE OutboxWorker -----------------------------
(***************************************************************************)
(* The transactional outbox of the order service: rows of the outbox       *)
(* collection (models/outbox.ts), the workers that lease them, publish     *)
(* them to RabbitMQ and mark them (workers/outbox.worker.ts), one worker   *)
(* per running process, and the dead letter collection.                    *)
(*                                                                         *)
(* Each await of the code is a step of its own; between two of them the    *)
(* other workers run, the clock moves and the process may die.  Events are *)
(* numbered in the order of createdAt; their transactions may commit in    *)
(* another order.  lease and wait are what is left of lockedUntil and of   *)
(* nextAttemptAt.                                                          *)
(***************************************************************************)
EXTENDS Integers, FiniteSets

CONSTANTS
  NumEvents,      \* events are 1..NumEvents
  Workers,
  NoWorker,       \* lockedBy = null
  MaxRetries,     \* failed attempts before an event is poison
  LocalRetries,   \* publish() calls within one attempt
  LeaseDuration,  \* ticks
  MaxDelay,       \* longest wait between two attempts, in ticks
  MaxFaults       \* bound on crashes, shutdowns and database errors

ASSUME OutboxAssumption ==
  /\ NoWorker \notin Workers
  /\ NumEvents \in Nat
  /\ MaxRetries \in Nat \ {0}
  /\ LocalRetries \in Nat \ {0}
  /\ LeaseDuration \in Nat \ {0}
  /\ MaxDelay \in Nat \ {0}
  /\ MaxFaults \in Nat

Events == 1..NumEvents
NoEvent == 0

VARIABLES
  status, attempts, lockedBy, lease, wait,      \* the outbox rows
  pc, running, link, event, seen, tries,        \* the workers
  sent, filed,                                  \* broker, dead letters
  faults

row == <<status, attempts, lockedBy, lease, wait>>
task == <<event, seen, tries>>
worker == <<pc, running, link, task>>
outside == <<sent, filed>>
vars == <<row, worker, outside, faults>>

Init ==
  /\ status = [e \in Events |-> "absent"]
  /\ attempts = [e \in Events |-> 0]
  /\ lockedBy = [e \in Events |-> NoWorker]
  /\ lease = [e \in Events |-> 0]
  /\ wait = [e \in Events |-> 0]
  /\ pc = [w \in Workers |-> "down"]
  /\ running = [w \in Workers |-> FALSE]
  /\ link = [w \in Workers |-> FALSE]
  /\ event = [w \in Workers |-> NoEvent]
  /\ seen = [w \in Workers |-> 0]
  /\ tries = [w \in Workers |-> 0]
  /\ sent = [e \in Events |-> 0]
  /\ filed = [e \in Events |-> 0]
  /\ faults = 0

Goto(w, label) == pc' = [pc EXCEPT ![w] = label]
Fault == faults < MaxFaults /\ faults' = faults + 1

\* A row an update by _id still matches.
Exists(e) == status[e] \in {"pending", "published", "failed"}

Unlock(e) ==
  /\ lockedBy' = [lockedBy EXCEPT ![e] = NoWorker]
  /\ lease' = [lease EXCEPT ![e] = 0]

\* updateOne and deleteOne by _id: they do not ask who holds the lease.
Mark(e, s) ==
  /\ status' = [status EXCEPT ![e] = IF Exists(e) THEN s ELSE @]
  /\ Unlock(e)

\* The worker goes back to the loop with nothing in hand.
Drop(w) ==
  /\ event' = [event EXCEPT ![w] = NoEvent]
  /\ seen' = [seen EXCEPT ![w] = 0]
  /\ tries' = [tries EXCEPT ![w] = 0]

BackToLoop(w) == Goto(w, "polling") /\ Drop(w) /\ UNCHANGED <<running, link>>
-----------------------------------------------------------------------------
\* A transaction of the order service commits a pending row.
CommitEvent(e) ==
  /\ status[e] = "absent"
  /\ status' = [status EXCEPT ![e] = "pending"]
  /\ UNCHANGED <<attempts, lockedBy, lease, wait, worker, outside, faults>>

startOutboxWorker(w) ==
  /\ pc[w] = "down"
  /\ Goto(w, "connecting")
  /\ running' = [running EXCEPT ![w] = TRUE]
  /\ UNCHANGED <<row, link, task, outside, faults>>

\* connectWithBackoff tries until it succeeds or the worker is stopped.
connected(w) ==
  /\ pc[w] = "connecting"
  /\ \/ running[w] /\ link' = [link EXCEPT ![w] = TRUE]
     \/ ~running[w] /\ UNCHANGED link
  /\ Goto(w, IF event[w] = NoEvent THEN "polling" ELSE "publishing")
  /\ UNCHANGED <<row, running, task, outside, faults>>

connectionLost(w) ==
  /\ link[w]
  /\ link' = [link EXCEPT ![w] = FALSE]
  /\ UNCHANGED <<row, pc, running, task, outside, faults>>

Wrong_NoReclaim(e) ==
  /\ status[e] = "pending"
  /\ wait[e] = 0
  /\ attempts[e] < MaxRetries
  /\ lockedBy[e] = NoWorker

available(e) ==
  /\ status[e] = "pending"
  /\ wait[e] = 0
  /\ attempts[e] < MaxRetries
  /\ lockedBy[e] = NoWorker \/ lease[e] = 0

\* findOneAndUpdate of pollLoop: lease the oldest available event; the
\* document it returns is all the worker will know of the row.
acquireLease(w, e) ==
  /\ pc[w] = "polling"
  /\ running[w]
  /\ available(e)
  /\ \A older \in Events : older < e => ~available(older)
  /\ lockedBy' = [lockedBy EXCEPT ![e] = w]
  /\ lease' = [lease EXCEPT ![e] = LeaseDuration]
  /\ event' = [event EXCEPT ![w] = e]
  /\ seen' = [seen EXCEPT ![w] = attempts[e]]
  /\ tries' = [tries EXCEPT ![w] = 0]
  /\ Goto(w, IF link[w] THEN "publishing" ELSE "connecting")
  /\ UNCHANGED <<status, attempts, wait, running, link, outside, faults>>

\* The BackoffTracker of one attempt to publish.
nextDelay(w) == tries' = [tries EXCEPT ![w] = @ + 1]
isMaxRetriesExceeded(w) == tries[w] >= LocalRetries

canTry(w) == ~isMaxRetriesExceeded(w) /\ running[w]

publish(w) ==
  /\ pc[w] = "publishing"
  /\ canTry(w)
  /\ link[w]
  /\ sent' = [sent EXCEPT ![event[w]] = @ + 1]
  /\ Goto(w, "marking")
  /\ UNCHANGED <<row, running, link, task, filed, faults>>

\* No channel, or one that is closing.
publishThrows(w) ==
  /\ pc[w] = "publishing"
  /\ canTry(w)
  /\ nextDelay(w)
  /\ Goto(w, IF link[w] THEN "publishing" ELSE "connecting")
  /\ UNCHANGED <<row, running, link, event, seen, outside, faults>>

Wrong_GiveUpSilently(w) ==
  /\ pc[w] = "publishing"
  /\ ~canTry(w)
  /\ Goto(w, "marking")
  /\ UNCHANGED <<row, running, link, task, outside, faults>>

\* "Failed to publish after max retries", also when the worker is stopping.
giveUp(w) ==
  /\ pc[w] = "publishing"
  /\ ~canTry(w)
  /\ Goto(w, "failed")
  /\ UNCHANGED <<row, running, link, task, outside, faults>>

markPublished(w) ==
  /\ pc[w] = "marking"
  /\ Mark(event[w], "published")
  /\ BackToLoop(w)
  /\ UNCHANGED <<attempts, wait, outside, faults>>

\* The update throws: processEvent treats it as a failed publish.  Here and
\* below a write that throws may have been applied all the same.
markFails(w) ==
  /\ pc[w] = "marking"
  /\ Fault
  /\ \/ Mark(event[w], "published")
     \/ UNCHANGED <<status, lockedBy, lease>>
  /\ Goto(w, "failed")
  /\ UNCHANGED <<attempts, wait, running, link, task, outside>>

Wrong_CountOld(w) == seen[w] >= MaxRetries
Wrong_CountTwice(w) == seen[w] + 2 >= MaxRetries

shouldFail(w) == seen[w] + 1 >= MaxRetries

\* Release the row for a later attempt; nextDelay is any delay up to MaxDelay.
requeue(w) ==
  /\ pc[w] = "failed"
  /\ ~shouldFail(w)
  /\ LET e == event[w] IN
       /\ attempts' = [attempts EXCEPT ![e] = IF Exists(e) THEN @ + 1 ELSE @]
       /\ \E delay \in 1..MaxDelay : wait' = [wait EXCEPT ![e] = delay]
       /\ Unlock(e)
  /\ BackToLoop(w)
  /\ UNCHANGED <<status, outside, faults>>

\* The error leaves processEvent; pollLoop logs it and goes on.  (An update
\* that throws although it was applied ends as requeue does.)
requeueFails(w) ==
  /\ pc[w] = "failed"
  /\ ~shouldFail(w)
  /\ Fault
  /\ BackToLoop(w)
  /\ UNCHANGED <<row, outside>>

\* handlePoisonEvent, its three writes.
createDeadLetter(w) ==
  /\ pc[w] = "failed"
  /\ shouldFail(w)
  /\ filed' = [filed EXCEPT ![event[w]] = @ + 1]
  /\ Goto(w, "burying")
  /\ UNCHANGED <<row, running, link, task, sent, faults>>

deleteEvent(w) ==
  /\ pc[w] = "burying"
  /\ Mark(event[w], "removed")
  /\ BackToLoop(w)
  /\ UNCHANGED <<attempts, wait, outside, faults>>

createFails(w) ==
  /\ pc[w] = "failed"
  /\ shouldFail(w)
  /\ Fault
  /\ \/ filed' = [filed EXCEPT ![event[w]] = @ + 1]
     \/ UNCHANGED filed
  /\ Goto(w, "fallback")
  /\ UNCHANGED <<row, running, link, task, sent>>

deleteFails(w) ==
  /\ pc[w] = "burying"
  /\ Fault
  /\ \/ Mark(event[w], "removed")
     \/ UNCHANGED <<status, lockedBy, lease>>
  /\ Goto(w, "fallback")
  /\ UNCHANGED <<attempts, wait, running, link, task, outside>>

markFailed(w) ==
  /\ pc[w] = "fallback"
  /\ LET e == event[w] IN
       /\ Mark(e, "failed")
       /\ attempts' = [attempts EXCEPT ![e] = IF Exists(e) THEN @ + 1 ELSE @]
  /\ BackToLoop(w)
  /\ UNCHANGED <<wait, outside, faults>>

markFailedFails(w) ==
  /\ pc[w] = "fallback"
  /\ Fault
  /\ BackToLoop(w)
  /\ UNCHANGED <<row, outside>>

\* SIGTERM: the loop ends after the event in hand; then the process exits.
stopOutboxWorker(w) ==
  /\ running[w]
  /\ Fault
  /\ running' = [running EXCEPT ![w] = FALSE]
  /\ UNCHANGED <<row, pc, link, task, outside>>

Halt(w) ==
  /\ Goto(w, "down")
  /\ running' = [running EXCEPT ![w] = FALSE]
  /\ link' = [link EXCEPT ![w] = FALSE]
  /\ Drop(w)
  /\ UNCHANGED <<row, outside>>

exit(w) == pc[w] = "polling" /\ ~running[w] /\ Halt(w) /\ UNCHANGED faults
crash(w) == pc[w] # "down" /\ Fault /\ Halt(w)

\* The TTL index of published rows.
expire(e) ==
  /\ status[e] = "published"
  /\ status' = [status EXCEPT ![e] = "expired"]
  /\ UNCHANGED <<attempts, lockedBy, lease, wait, worker, outside, faults>>

Less(f) == [x \in DOMAIN f |-> IF f[x] > 0 THEN f[x] - 1 ELSE 0]

Tick ==
  /\ lease' = Less(lease)
  /\ wait' = Less(wait)
  /\ UNCHANGED <<status, attempts, lockedBy, pc, running, link, event, seen,
                 tries, outside, faults>>

\* What a worker does of its own accord.
Work(w) ==
  \/ startOutboxWorker(w) \/ connected(w)
  \/ \E e \in Events : acquireLease(w, e)
  \/ publish(w) \/ publishThrows(w) \/ giveUp(w)
  \/ markPublished(w) \/ requeue(w)
  \/ createDeadLetter(w) \/ deleteEvent(w) \/ markFailed(w)
  \/ exit(w)

\* What happens to it.
Disturb(w) ==
  \/ connectionLost(w)
  \/ markFails(w) \/ requeueFails(w)
  \/ createFails(w) \/ deleteFails(w) \/ markFailedFails(w)
  \/ stopOutboxWorker(w) \/ crash(w)

Next ==
  \/ \E w \in Workers : Work(w) \/ Disturb(w)
  \/ \E e \in Events : CommitEvent(e) \/ expire(e)
  \/ Tick

Spec == Init /\ [][Next]_vars

(***************************************************************************)
(* Workers keep running and are restarted when they end, a connection      *)
(* attempt that is repeated for ever succeeds some time, and time passes.  *)
(***************************************************************************)
FairSpec ==
  Spec /\ WF_vars(Tick) /\ \A w \in Workers : WF_vars(Work(w))
-----------------------------------------------------------------------------
TypeOK ==
  /\ status \in [Events ->
       {"absent", "pending", "published", "failed", "removed", "expired"}]
  /\ attempts \in [Events -> Nat]
  /\ lockedBy \in [Events -> Workers \cup {NoWorker}]
  /\ lease \in [Events -> 0..LeaseDuration]
  /\ wait \in [Events -> 0..MaxDelay]
  /\ pc \in [Workers -> {"down", "connecting", "polling", "publishing",
                         "marking", "failed", "burying", "fallback"}]
  /\ running \in [Workers -> BOOLEAN]
  /\ link \in [Workers -> BOOLEAN]
  /\ event \in [Workers -> Events \cup {NoEvent}]
  /\ seen \in [Workers -> 0..(MaxRetries - 1)]
  /\ tries \in [Workers -> 0..LocalRetries]
  /\ sent \in [Events -> Nat]
  /\ filed \in [Events -> Nat]
  /\ faults \in 0..MaxFaults

\* No event of a committed order is lost, whichever step of whichever worker
\* a crash or a database error hits: a row is marked published only if the
\* event reached the channel, and it disappears only once it was published
\* or once a dead letter holds its payload.
Accounted ==
  \A e \in Events :
    /\ status[e] \in {"published", "expired"} => sent[e] > 0
    /\ status[e] = "removed" => filed[e] > 0

\* Poison means worn out: no event is copied to the dead letters, and no row
\* is marked failed, before MaxRetries - 1 earlier attempts were counted on
\* the row, stale as the copy of the worker that decides may be.
DeadLetterAfterRetries ==
  \A e \in Events :
    filed[e] > 0 \/ status[e] = "failed" => attempts[e] >= MaxRetries - 1

\* A pending row can still be leased.  A row whose attempts reach MaxRetries
\* while it is pending matches no query of the code any more.
NotStranded ==
  \A e \in Events : status[e] = "pending" => attempts[e] < MaxRetries

\* A worker that was told its update failed may still put aside an event
\* that is marked as published.
inDoubt(e) ==
  \E w \in Workers : event[w] = e /\ pc[w] \in {"failed", "burying", "fallback"}

fate == [e \in Events |->
  CASE status[e] = "pending" -> "owed"
    [] status[e] \in {"published", "expired"} ->
         IF inDoubt(e) THEN "owed" ELSE "done"
    [] status[e] = "removed" -> "buried"
    [] OTHER -> status[e]]

\* One worker implements the relay an outbox stands for.
Relay == INSTANCE ReliableRelay
         WITH Events <- Events, fate <- fate, sent <- sent, filed <- filed
RelaySpec == Relay!Spec
RelayFairSpec == Relay!FairSpec
=============================================================================
