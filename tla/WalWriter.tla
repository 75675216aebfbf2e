------------------------------ MODULE WalWriter ------------------------------
(***************************************************************************)
(* The WAL writer of packages/backup: a change stream whose handlers take  *)
(* a number from a counter in the database, a list of pending entries, and *)
(* batches of them on their way to the _wal_entries collection. A process  *)
(* has one current writer; when start() throws, startBackupWithRetry makes *)
(* another one and forgets the first. A change is known by its place in    *)
(* the order in which the database made the changes; a stream is opened    *)
(* without a resume token, so it begins with the next change.              *)
(***************************************************************************)
EXTENDS Naturals, Sequences, FiniteSets

CONSTANTS
  MaxWriters,   \* bound on the writer objects, each used by one call of start()
  MaxChanges,   \* bound on the changes of the watched collections
  BatchSize,    \* batchSize
  MaxFaults     \* bound on lost answers, failing inserts and stream errors

ASSUME BoundsAssumption ==
  MaxWriters \in Nat /\ MaxChanges \in Nat /\ BatchSize \in Nat \ {0} /\ MaxFaults \in Nat

VARIABLES
  committed,  \* changes the database has made
  counter,    \* the document of _sequence_counters
  log,        \* the collection _wal_entries
  current,    \* the module's walWriter
  phase,      \* where start() or stop() of a writer is
  feed,       \* its change stream, the flags and the timers
  numbering,  \* changes whose handler waits for a number
  numbered,   \* entries whose handler has its number and goes on
  pending,    \* pendingEntries
  flights,    \* batches given to insertMany
  faults

database == <<committed, counter, log>>
memory == <<numbering, numbered, pending, flights>>
vars == <<database, current, phase, feed, memory, faults>>

Writers == 1..MaxWriters
NoWriter == 0
Changes == 1..MaxChanges
Entries == [number : Nat, change : Changes]
Contents(batch) == {batch[i] : i \in 1..Len(batch)}

\* What a writer holds in memory under a number it was given.
Held(w) == numbered[w] \union Contents(pending[w]) \union UNION {Contents(b) : b \in flights[w]}

\* The unique index on sequenceNumber has this number already.
Recorded(n) == \E e \in log : e.number = n

Dead == [stream |-> "none", closes |-> FALSE, position |-> 1, running |-> FALSE,
         timer |-> FALSE, retrying |-> "no", last |-> <<>>]

Init ==
  /\ committed = 0 /\ counter = 0 /\ log = {}
  /\ current = NoWriter
  /\ phase = [w \in Writers |-> "new"]
  /\ feed = [w \in Writers |-> Dead]
  /\ numbering = [w \in Writers |-> {}]
  /\ numbered = [w \in Writers |-> {}]
  /\ pending = [w \in Writers |-> <<>>]
  /\ flights = [w \in Writers |-> {}]
  /\ faults = 0

Goto(w, p) == phase' = [phase EXCEPT ![w] = p]
Fault == faults < MaxFaults /\ faults' = faults + 1

-----------------------------------------------------------------------------
\* A change of a watched collection.
commit ==
  /\ committed < MaxChanges
  /\ committed' = committed + 1
  /\ UNCHANGED <<counter, log, current, phase, feed, memory, faults>>

\* Mutant: a second call makes a second writer whatever became of the first.
Wrong_create(w) ==
  /\ phase[w] = "new" /\ \A v \in 1..(w - 1) : phase[v] # "new"
  /\ current' = w
  /\ Goto(w, "waiting")
  /\ UNCHANGED <<database, feed, memory, faults>>

\* startBackupWorker: a new writer, at first or after start() of the last one threw.
create(w) ==
  /\ phase[w] = "new" /\ \A v \in 1..(w - 1) : phase[v] # "new"
  /\ current \in {NoWriter} \union {v \in Writers : phase[v] = "threw"}
  /\ current' = w
  /\ Goto(w, "waiting")
  /\ UNCHANGED <<database, feed, memory, faults>>

\* start(): connected, the stream is watched, the timer set.
start(w) ==
  /\ phase[w] = "waiting"
  /\ Goto(w, "reading")
  /\ feed' = [feed EXCEPT ![w].stream = "open", ![w].closes = TRUE,
                          ![w].position = committed + 1,
                          ![w].running = TRUE, ![w].timer = TRUE]
  /\ UNCHANGED <<database, current, memory, faults>>

\* start(): no connection within 30 seconds.
startTimesOut(w) ==
  /\ phase[w] = "waiting"
  /\ Goto(w, "threw")
  /\ UNCHANGED <<database, current, feed, memory, faults>>

\* start(): the counter was read for the statistics.
started(w) ==
  /\ phase[w] = "reading"
  /\ Goto(w, "started")
  /\ UNCHANGED <<database, current, feed, memory, faults>>

\* start(): that read failed; stream, timer and handlers stay.
startThrows(w) ==
  /\ phase[w] = "reading"
  /\ Fault
  /\ Goto(w, "threw")
  /\ UNCHANGED <<database, current, feed, memory>>

-----------------------------------------------------------------------------
\* The stream emits a change: its handler asks for a number and waits.
handleChange(w) ==
  /\ feed[w].stream = "open" /\ feed[w].position <= committed
  /\ numbering' = [numbering EXCEPT ![w] = @ \union {feed[w].position}]
  /\ feed' = [feed EXCEPT ![w].position = @ + 1]
  /\ UNCHANGED <<database, current, phase, numbered, pending, flights, faults>>

\* The database gives the handler of change c the next number.
getNextSequenceNumber(w, c) ==
  /\ c \in numbering[w]
  /\ counter' = counter + 1
  /\ numbering' = [numbering EXCEPT ![w] = @ \ {c}]
  /\ numbered' = [numbered EXCEPT ![w] = @ \union {[number |-> counter + 1, change |-> c]}]
  /\ UNCHANGED <<committed, log, current, phase, feed, pending, flights, faults>>

\* The call throws, before or after the counter was incremented: the change is dropped.
numberFails(w, c) ==
  /\ c \in numbering[w]
  /\ Fault
  /\ counter' \in {counter, counter + 1}
  /\ numbering' = [numbering EXCEPT ![w] = @ \ {c}]
  /\ UNCHANGED <<committed, log, current, phase, feed, numbered, pending, flights>>

\* handleChange goes on: the entry becomes pending, and a full batch is flushed.
push(w, e) ==
  /\ e \in numbered[w]
  /\ numbered' = [numbered EXCEPT ![w] = @ \ {e}]
  /\ LET entries == Append(pending[w], e)
         full == Len(entries) >= BatchSize
     IN  /\ pending' = [pending EXCEPT ![w] = IF full THEN <<>> ELSE entries]
         /\ flights' = [flights EXCEPT ![w] = IF full THEN @ \union {entries} ELSE @]
  /\ UNCHANGED <<database, current, phase, feed, numbering, faults>>

\* flush(): the timer takes all pending entries.
flush(w) ==
  /\ feed[w].timer /\ pending[w] # <<>>
  /\ pending' = [pending EXCEPT ![w] = <<>>]
  /\ flights' = [flights EXCEPT ![w] = @ \union {pending[w]}]
  /\ UNCHANGED <<database, current, phase, feed, numbering, numbered, faults>>

\* What becomes of stop() when the batch b it waits for is done.
Awaited(w, b, p) ==
  IF phase[w] = "flushing" /\ feed[w].last = b THEN Goto(w, p) ELSE UNCHANGED phase

inserted(w, b) ==
  /\ b \in flights[w]
  /\ \A e \in Contents(b) : ~Recorded(e.number)
  /\ log' = log \union Contents(b)
  /\ flights' = [flights EXCEPT ![w] = @ \ {b}]
  /\ Awaited(w, b, "closing")
  /\ UNCHANGED <<committed, counter, current, feed, numbering, numbered, pending, faults>>

\* Mutant: a batch that fails is forgotten.
Wrong_PutBack(w, b, k) ==
  /\ b \in flights[w]
  /\ \A i \in 1..k : ~Recorded(b[i].number)
  /\ log' = log \union {b[i] : i \in 1..k}
  /\ flights' = [flights EXCEPT ![w] = @ \ {b}]
  /\ Awaited(w, b, "stopThrew")
  /\ UNCHANGED <<committed, counter, current, feed, numbering, numbered, pending>>

\* insertMany throws after its first k entries: all of b goes back to the front.
PutBack(w, b, k) ==
  /\ b \in flights[w]
  /\ \A i \in 1..k : ~Recorded(b[i].number)
  /\ log' = log \union {b[i] : i \in 1..k}
  /\ flights' = [flights EXCEPT ![w] = @ \ {b}]
  /\ pending' = [pending EXCEPT ![w] = b \o @]
  /\ Awaited(w, b, "stopThrew")
  /\ UNCHANGED <<committed, counter, current, feed, numbering, numbered>>

\* The connection fails under insertMany, or the server refuses an entry.
insertFails(w, b, k) ==
  /\ Fault
  /\ PutBack(w, b, k)

\* The unique index refuses the entry behind the first k.
duplicateKey(w, b, k) ==
  /\ k < Len(b) /\ Recorded(b[k + 1].number)
  /\ PutBack(w, b, k)
  /\ UNCHANGED faults

-----------------------------------------------------------------------------
\* The stream fails: an "error" event, and a "close" event that follows.
streamError(w) ==
  /\ feed[w].stream = "open"
  /\ Fault
  /\ feed' = [feed EXCEPT ![w].stream = "failed", ![w].retrying = "waits"]
  /\ UNCHANGED <<database, current, phase, memory>>

\* Only the first stream of a writer has a handler for "close".
streamClosed(w) ==
  /\ feed[w].stream = "failed" /\ feed[w].closes
  /\ feed' = [feed EXCEPT ![w].closes = FALSE, ![w].running = FALSE]
  /\ UNCHANGED <<database, current, phase, memory, faults>>

\* handleStreamError, five seconds later: a writer that is not running stays as it is.
abandonStream(w) ==
  /\ feed[w].retrying = "waits" /\ ~feed[w].running
  /\ feed' = [feed EXCEPT ![w].retrying = "no"]
  /\ UNCHANGED <<database, current, phase, memory, faults>>

\* The stream that failed is being closed; whether the writer runs is not looked
\* at again.
closeFailed(w) ==
  /\ feed[w].retrying = "waits" /\ feed[w].running /\ feed[w].stream = "failed"
  /\ feed' = [feed EXCEPT ![w].retrying = "closes"]
  /\ UNCHANGED <<database, current, phase, memory, faults>>

\* It is closed, or there is none, and its "close" handler has run if it is the first.
Reopened(w, s, next) ==
  /\ \/ feed[w].retrying = "closes"
     \/ feed[w].retrying = "waits" /\ feed[w].running /\ feed[w].stream = "none"
  /\ feed' = [feed EXCEPT ![w].stream = s, ![w].closes = FALSE,
                          ![w].running = @ /\ ~feed[w].closes, ![w].retrying = next,
                          ![w].position = IF s = "open" THEN committed + 1 ELSE @]
  /\ UNCHANGED <<database, current, phase, memory>>

restartStream(w) == Reopened(w, "open", "no") /\ UNCHANGED faults
noDatabase(w) == Reopened(w, "none", "no") /\ UNCHANGED faults
restartThrows(w) == Reopened(w, "none", "waits") /\ UNCHANGED faults

-----------------------------------------------------------------------------
\* Mutant: the flush is not awaited.
Wrong_stop(w) ==
  /\ w = current /\ phase[w] \in {"reading", "started", "threw"}
  /\ feed' = [feed EXCEPT ![w].timer = FALSE, ![w].last = pending[w]]
  /\ Goto(w, "closing")
  /\ pending' = [pending EXCEPT ![w] = <<>>]
  /\ flights' = [flights EXCEPT ![w] = IF pending[w] = <<>> THEN @ ELSE @ \union {pending[w]}]
  /\ UNCHANGED <<database, current, numbering, numbered, faults>>

\* stopBackupWorker on SIGTERM: the timer is cleared and what is pending flushed.
stop(w) ==
  /\ w = current /\ phase[w] \in {"reading", "started", "threw"}
  /\ feed' = [feed EXCEPT ![w].timer = FALSE, ![w].last = pending[w]]
  /\ Goto(w, IF pending[w] = <<>> THEN "closing" ELSE "flushing")
  /\ pending' = [pending EXCEPT ![w] = <<>>]
  /\ flights' = [flights EXCEPT ![w] = IF pending[w] = <<>> THEN @ ELSE @ \union {pending[w]}]
  /\ UNCHANGED <<database, current, numbering, numbered, faults>>

closeStream(w) ==
  /\ phase[w] = "closing"
  /\ Goto(w, "stopped")
  /\ feed' = [feed EXCEPT ![w].stream = "none", ![w].closes = FALSE, ![w].running = FALSE]
  /\ UNCHANGED <<database, current, memory, faults>>

\* The process is gone with all its writers; a writer it did not use is for the next one.
ProcessEnds ==
  /\ current' = NoWriter
  /\ phase' = [w \in Writers |-> IF phase[w] = "new" THEN "new" ELSE "dead"]
  /\ feed' = [w \in Writers |-> Dead]
  /\ numbering' = [w \in Writers |-> {}]
  /\ numbered' = [w \in Writers |-> {}]
  /\ pending' = [w \in Writers |-> <<>>]
  /\ flights' = [w \in Writers |-> {}]
  /\ UNCHANGED database

\* Mutant: a stop() that threw leaves the process running.
Wrong_exit ==
  /\ current # NoWriter /\ phase[current] = "stopped"
  /\ ProcessEnds
  /\ UNCHANGED faults

\* process.exit(0), or an unhandled rejection when stop() threw.
exit ==
  /\ current # NoWriter /\ phase[current] \in {"stopped", "stopThrew"}
  /\ ProcessEnds
  /\ UNCHANGED faults

crash ==
  /\ current # NoWriter
  /\ Fault
  /\ ProcessEnds

-----------------------------------------------------------------------------
Start(w) == create(w) \/ start(w) \/ startTimesOut(w) \/ started(w) \/ startThrows(w)

Capture(w) ==
  \/ handleChange(w)
  \/ \E c \in numbering[w] : getNextSequenceNumber(w, c) \/ numberFails(w, c)
  \/ \E e \in numbered[w] : push(w, e)

Write(w) ==
  \/ flush(w)
  \/ \E b \in flights[w] :
       \/ inserted(w, b)
       \/ \E k \in 0..Len(b) : insertFails(w, b, k) \/ duplicateKey(w, b, k)

Restart(w) ==
  \/ streamError(w) \/ streamClosed(w) \/ abandonStream(w)
  \/ closeFailed(w) \/ restartStream(w) \/ noDatabase(w) \/ restartThrows(w)

Stop(w) == stop(w) \/ closeStream(w)

Next ==
  \/ commit \/ exit \/ crash
  \/ \E w \in Writers : Start(w) \/ Capture(w) \/ Write(w) \/ Restart(w) \/ Stop(w)

Spec == Init /\ [][Next]_vars

\* The event loop runs every handler and timer that is due, and the database
\* answers; nothing makes the writer start, stop or fail.
FairSpec ==
  /\ Spec
  /\ WF_vars(exit)
  /\ \A w \in Writers :
       /\ WF_vars(flush(w)) /\ WF_vars(closeStream(w))
       /\ WF_vars(\E c \in numbering[w] : getNextSequenceNumber(w, c))
       /\ WF_vars(\E e \in numbered[w] : push(w, e))
       /\ WF_vars(\E b \in flights[w] : inserted(w, b))
       /\ WF_vars(\E b \in flights[w] : \E k \in 0..Len(b) : duplicateKey(w, b, k))

-----------------------------------------------------------------------------
TypeOK ==
  /\ committed \in 0..MaxChanges
  /\ counter \in Nat
  /\ log \subseteq Entries
  /\ current \in Writers \union {NoWriter}
  /\ phase \in [Writers -> {"new", "waiting", "reading", "started", "threw",
                            "flushing", "closing", "stopped", "stopThrew", "dead"}]
  /\ feed \in [Writers -> [stream : {"none", "open", "failed"}, closes : BOOLEAN,
                           position : 1..(MaxChanges + 1), running : BOOLEAN,
                           timer : BOOLEAN, retrying : {"no", "waits", "closes"},
                           last : Seq(Entries)]]
  /\ numbering \in [Writers -> SUBSET Changes]
  /\ numbered \in [Writers -> SUBSET Entries]
  /\ pending \in [Writers -> Seq(Entries)]
  /\ flights \in [Writers -> SUBSET Seq(Entries)]
  /\ faults \in 0..MaxFaults

\* stop() goes on to close the stream only when all that was pending at its
\* call is in the log.
StopFlushes ==
  \A w \in Writers :
    phase[w] \in {"closing", "stopped"} => Contents(feed[w].last) \subseteq log

Captured == {e.change : e \in log \union UNION {Held(w) : w \in Writers}}

\* A change is captured a second time only when there is a writer whose start()
\* threw after its stream was opened, which nobody stopped: reopened streams and
\* new processes repeat nothing.
RepeatedOnlyByLeak ==
  [][\A w \in Writers : \A c \in (numbering[w])' \ numbering[w] :
       c \in Captured =>
         \E v \in Writers : phase[v] = "threw" /\ feed'[v].position > c]_vars

\* The writer keeps the promise of ChangeLog: what a handler has a number for is
\* owed until it is in the log, through failing and repeated inserts and any
\* order of batches, and only the end of the process drops it.
Log == INSTANCE ChangeLog WITH
         issued <- counter, owed <- (UNION {Held(w) : w \in Writers}) \ log, recorded <- log
LogSpec == Log!Spec

\* What a failing insertMany left behind: entries to insert that the log has.
Stalled(w) ==
  \E e \in Contents(pending[w]) \union UNION {Contents(b) : b \in flights[w]} : Recorded(e.number)

\* What is pending reaches the log, or the process ends, unless a batch that was
\* inserted in part was put back: the unique index refuses it for ever, and with
\* it all that comes behind.
Drains ==
  \A w \in Writers :
    (pending[w] # <<>> \/ flights[w] # {}) ~>
      ((pending[w] = <<>> /\ flights[w] = {}) \/ Stalled(w))
=============================================================================
