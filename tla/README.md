# Verification of the order pipeline and its backup

TLA+ models, TLC runs and TLAPS proofs for the e-commerce services of this
repository: Bun/TypeScript services over MongoDB and RabbitMQ that take orders,
relay their events through a transactional outbox, adjust stock, tell other
services, and back their database up; and the parts of the web shop that talk
to them.

## 1. Inventory of the system

| Component | State it keeps | Operations | What is hard |
|---|---|---|---|
| order service (`order-service/src/services/order.service.ts`, `models/`) | orders, outbox rows, idempotency keys (MongoDB) | createOrder, shipOrder, cancelOrder | overlapping calls on one key, partial failure after the commit, crash between claim and order |
| circuit breaker (`lib/circuit-breaker.ts`) | state, counters, time of the last failure (memory) | execute, forceOpen, forceClose, getState | calls that overlap a transition, timer against answer, recovery |
| inventory client (`services/inventory.client.ts`) | the breaker | checkInventory | fetches that outlive their call |
| outbox worker (`workers/outbox.worker.ts`, `lib/backoff.ts`) | leases and attempts in the outbox rows, one event in hand | lease, publish with retries, mark, requeue, dead-letter | lease that runs out during the work, stale copy of a row, crash at every await |
| RabbitMQ client (`packages/rabbitmq/src/connection.ts`) | connection, channel | connect, publish, consume, disconnect | failures between the steps of connect, waiters, late events of old connections |
| inventory service (`inventory-service/src/services/inventory.service.ts`, `models/inventory.ts`) | stock documents, processed events | reserve, confirm, release, create, update | read-then-update of stock, idempotency record written after the change |
| its consumer (`consumers/order.consumer.ts`, `index.ts`) | deliveries in hand, subscription | handle created, handle shipped | redelivery, two consumers on one queue, up to 10 handlers at once |
| its routes (`routes/inventory.ts`, `lib/gremlin.ts`) | stored results | reserve, release, create | retries with one adjustmentRequestId, failure after the commit |
| payment, notification, analytics services | queue and bindings at the broker, counters | handle created, handle shipped | redelivered work, connections that nobody reopens |
| WAL writer (`packages/backup/src/wal-writer.ts`) | change stream, pending entries; counter and log (MongoDB) | start, capture, number, flush, restart, stop | parallel handlers, inserts that fail half way, leaked writers |
| backup service (`backup-service.ts`) | snapshots and their data, marks on the log | createSnapshot, runDailyBackup, cleanup | snapshots that are not atomic, overlapping backups, cleanup by age |
| restore service (`restore-service.ts`) | none | restore from a snapshot, to a point in time, from a package | fuzzy snapshots, missing and altered data, calls that fail half way |
| storage providers, backup worker (`providers/`, `workers/backup.worker.ts`, `routes/backup.ts`) | files, time of the last upload, timer | schedule, trigger, upload, list, delete | overlapping uploads, restarts, failures between two files |
| gateway (`middleware/proxy.ts`) | none | forward with a timeout | gives up while the service goes on |
| auth service (`services/auth.ts`, `middlewares/auth-guard.ts`) | accounts; tokens in cookies | register, login, profile, logout, rolling of tokens | tokens that expire between requests |
| web shop (`contexts/`, `hooks/api/`, pages) | session, cart, submissions | sign in and out, edit the cart, place orders | answers that arrive late, repeated presses |
| telemetry, common helpers, UI, scripts | counters, layout | | no state that two actors race for |

Interactions: the shop calls the gateway, which forwards to the services.
createOrder asks the inventory service for stock through the breaker and commits
an order together with an outbox row; the worker leases the row and publishes it
to the topic exchange `orders.exchange`, which copies it to the queues bound to
its key; the inventory service changes stock, records the event and acks; the
small services do their work and ack. Beside that the WAL writer follows the
change stream of the order database, and the backup worker makes a snapshot and
a package every day. Retries exist at every joint, so every joint must stand
duplicates, and every process may die at every await (`restart: unless-stopped`
in docker-compose starts it again).

What makes each part correct: the breaker's counters agree with its state and it
recovers; no committed event is lost or buried early and none is stuck; a key
creates one order and a 202 names a real one; stock reserved is covered; no copy
of a message disappears and work is repeated only with a reason; what the log
took over reaches it, a snapshot covers the log it claims, and a restore gives
what was written; the shop shows who signed in and loses nothing from a cart.

## 2. Modules

| Module | Models |
|---|---|
| `CircuitBreaker` | the breaker with overlapping calls and discrete time |
| `InventoryClient` | checkInventory; extends `CircuitBreaker`, whose steps its own refine |
| `ReliableRelay` | abstract: what an outbox promises for an event |
| `OutboxWorker` | rows, workers, broker hand-over, dead letters; implements `ReliableRelay` |
| `OrderService` | createOrder with idempotency keys, shipOrder, cancelOrder |
| `InventoryConsumer` | queue, consumers, stock, processed events, routes that change stock |
| `ReserveRoute` | the reserve route and its retries; extends `InventoryConsumer`, so both compete for one stock |
| `RabbitClient` | one client, its users, connections and channels on both sides |
| `OrderFanout` | exchange, queues and bindings, and the three small services |
| `ChangeLog` | abstract: what a write-ahead log promises |
| `WalWriter` | writers, change stream, counter, log; implements `ChangeLog` |
| `ChangeHistory` | documents as the changes that made them, used by the next two |
| `BackupService` | snapshots, daily backups, marks, cleanup |
| `RestoreService` | the three restores |
| `BackupWorker` | schedule, triggers, both providers |
| `Checkout` | cart, submissions, gateway, as one customer sees them |
| `Session` | one tab, its cookies, the auth service |
| `*Proofs` | the TLAPS proofs |
| `MC*` + `.cfg` | instances for TLC |

Actions carry the names of the functions they model; a function with several
awaits is several actions, one per await, joined by a program counter. Operators
called `Wrong_...` are plausible mistakes: put in place of the operator after
them, each makes some property fail, which shows that the property can fail.
Variables under "History" record what a property speaks of; no guard reads them.

**CircuitBreaker, InventoryClient.** A request slot is a call of `execute()`:
`Admit`/`FailFast` is its head, `Respond`, `Reject` and `TimeOut` the race in
`executeWithTimeout`, `onSuccess` and `onFailure` the counting. `since` is the
age of `lastFailureTime` and stops at `ResetTimeout`, `failures` stops at its
threshold: the code compares them only with these. `Timeout < ResetTimeout` holds
of the client's configuration; `ProbationStartsClean` rests on it. In the client
a timeout ends the call but not its fetch (`left`), which is answered at any later
time and finds its promise settled (`lateAnswer`). `tests` is history: the calls
let through in the latest probation.

**OutboxWorker.** Rows have `status`, `attempts`, `lockedBy` and what is left of
`lockedUntil` (`lease`) and `nextAttemptAt` (`wait`). A worker holds the copy of
a row that `findOneAndUpdate` gave it (`seen` is its `attempts`), so it can be
stale. The final updates match by `_id` alone, as in the code: a worker whose
lease has run out still writes. This is not far-fetched: five local retries sleep
1+2+4+8+16 seconds, one more than the lease. A write that throws may have been
applied all the same. A delay is any delay from 1 to `MaxDelay`. `batchSize`
(processing is sequential) and statistics are left out. For `ReliableRelay` an
event is done when its row is published, but owed while a worker that was told the
update failed still has it in hand (`inDoubt`): that worker may yet bury it.

**OrderService.** One MongoDB transaction is one action, and `commitOrder` may or
may not be acknowledged. The cached response of a key always names the order
whose id is the key, so a key is the hash it was claimed with. The body of a
request is what `hashRequest` tells apart. The stock check is an input: it
passes, or finds an item short; a check that fails is passed over as in the code.

**InventoryConsumer, ReserveRoute.** A slot is one delivery at work; several
slots stand for the prefetch of one process and for several processes. `deliver`
chooses the operation freely, because both `consume()` calls name the same queue.
`startConsumer` may give up, and nobody subscribes again after a lost connection,
so a slot may stay deaf until `crash`, which restarts the process. `settle` is
ack and reject alike, since a reject does not requeue. `Unique` states what the
two unique indexes allow. `applied`, `twice` and `unsure` are history: the lines
that changed the stock, the events with a line that did so twice, and the events
of which the code does not keep this apart. An event gets among the last when two
slots have it together, when its handler ends between change and record, or when
the record is refused or expires; because of the `sparse` index (section 4) every
later event of an operation whose record is refused after a change is one of them.
A call of the reserve route is delayed or not, looks
for a stored result, finds the product, reserves, may be failed by
`maybeSchrodingerCrash` after the reservation, stores the result and answers; a
caller repeats its request with the same id at any time.

**RabbitClient.** `link` and `pipe` are the broker's side of connection and
channel: they close first, and the event that tells the client comes later, to
handlers that `connect()` sets last of all. `connect()` goes on with the
connection it dialled, whatever a late event makes of the client's field. Callers
connect while the client says that it is not connected. `disconnect()` may be
called at any moment.

**OrderFanout.** Every service has one queue; each of its keys is a `consume()`
call with a handler of its own, and the broker gives a message to either. A lost
connection leaves handlers without a channel (`orphans`) that still do their
work, and a process that never consumes again ("deaf") until it is restarted; a
shutdown does the same and then exits. Messages are counted, not ordered.

**WalWriter, ChangeLog.** A change is known by its place in the order of the
database. Handlers run in parallel: they wait for a number (`numbering`), have it
(`numbered`), push the entry (`pending`); batches are in `flights`. `inserted`
and `duplicateKey` are the answers of `insertMany`, which inserts in order and
stops at a number it has; a failed batch goes back in front. A restart waits, closes
the failed stream (`closeFailed`) and watches again, and does not look a second time
whether the writer still runs. A start that throws
leaves its writer running, and `startBackupWithRetry` makes another.

**BackupService, RestoreService, ChangeHistory.** The state of a document is the
place of the change that wrote it, so a collection is one number and a snapshot
one number per collection. The log is the one `WalWriter` keeps when nothing
fails: number n for change n. `snapshot.last` is read (`countEntries`) before the
snapshot is inserted and the collections are copied one by one. The return of
`storeSnapshotData` without a connection (`backup-service.ts:413`) is left out:
`createSnapshot` has just found one, and nothing in the program closes it. Age is
counted in days. A restore reads a snapshot's data and an entry's document once,
so they are chosen when they are read, among all that the two other modules can
have written: fuzzy copies, documents looked up after a later change, altered or
missing data. The database starts as any past state, and the second call starts
from what the first one left.

**BackupWorker.** The scheduled and triggered calls of `runDailyBackup`, seen from
the clock and the provider. Provider and process memory (timer, time of the last
upload, the mock's storage) are lost in a restart, files are not; the filesystem
provider writes the data, then the metadata, then notes the time, then deletes.
The directory is a set of files, each with its place in the order of writes, which
is what `mtime` tells the cleanup. The code writes the data two or three times; a
file counts from its last write, and only that one is a step. The cleanup deletes
a file and, if that succeeded, its metadata (`unlink`, `unlinkMeta`). A backup is
named by the place of its data. A write that fails leaves a part of the file or
nothing, a deletion that fails is passed over.

**Checkout.** A submission is one press of "Place Order"; it validates, sends,
and is answered by the gateway, which may give up while the order service goes on
(`forward`, `createOrder`). The cart is in the memory of the tab. The button is
disabled while the submission that the page sent last is under way; a page that is
mounted anew knows of none (`here`).

**Session.** The cookies age through five stages (both tokens valid; access token
expired; only the refresh cookie left; expired too; gone). A request takes the
cookies when it is sent; an answer that rolls them may arrive after its request
was cancelled (`strays`). Effects run after the change that triggers them.

## 3. Runs

| Run | Instance | Shows |
|---|---|---|
| `breaker` | 3 checks, thresholds 2, timeout 1, reset 2; fair | counters match the state, probation starts clean and is earned by its own calls, checks return, the circuit recovers |
| `outbox_solo` | 1 worker, 2 events, 2 retries, 2 local retries, 2 faults; fair | nothing lost, poison only after the retries, nothing stranded, implements `ReliableRelay` with its fairness, so every event is settled |
| `order_safety` | 3 calls, 1 key, 2 bodies | outbox matches orders, a key is a lock, a 202 names an order |
| `inventory` | 1 order of 2 lines, 1 loss; either 2 handlers of both its events at once, or 2 calls of the reserve route with one id beside 1 handler of one event; fair | no message lost, a line changes the stock twice only in the cases named, retries agree, reservations covered, the queue drains |
| `wal` | 2 writers, 2 changes, batches of 2, 1 fault; fair | implements `ChangeLog`, changes repeated only by a leaked writer, stop flushes, what is pending drains |
| `backup` | 2 backups, 2 collections, 2 changes, 2 days | snapshots cover the log, only covered entries marked and pruned, the newest can be replayed from |
| `restore` | 1 snapshot, 2 collections, 3 changes, 2 calls, 1 fault | never older than the snapshot, exact at the present |
| `backup_worker` | 2 calls, days of 2 ticks, 3 ticks, 5 files kept, 7 written | one chain of schedules, one upload a day, the backup described last stays complete |
| `rabbit` | 2 callers, 3 faults; fair | one dial, losses noticed, connected again |
| `checkout` | 2 products of stock 2, 3 submissions, 3 edits | nothing lost, nothing ordered twice after a success |
| `session` | 2 users; fair | the user shown is known, the splash screen ends |
| `fanout` | payment and notification, 3 events, 2 faults; fair | copies accounted for, effects justified, queues drain |

**Bounds.** Thresholds and retry limits of 2 tell "first", "last" and "between"
apart. Timeout 1 and reset 2 leave room for a call that is older and one that is
younger than the last failure. Three calls of createOrder are the owner of a key,
the loser of the race and a retry after either; three submissions are a success
between two that failed or overlap. Two calls of the reserve route with one id are
a request and its retry, and a third competitor for the stock is the event
handler. Two handlers and a loss are an event delivered again while its first
handler still works on it, or after; two lines of one product let a handler end
between them. More handlers beside the calls are too many states, so that the run
has either; the theorems hold for any number of both. Two writers are a leaked one
and its successor; two changes in batches of two make a batch that fails after its
first entry. Two overlapping backups with retentions of a day reach cleanup beside
a copy; three changes of two collections are the shortest history in which an
update's document is deleted and written anew. Five files are the fewest that two
calls need to keep: with four the run fails, as a cleanup can delete every
complete backup. Seven written let it delete two. Payment has one consumer on its
queue, notification two; analytics is bound like notification. `MaxFaults`,
`MaxLosses` count crashes and errors, `MaxCopies` the times an event is published;
a redelivery after a loss comes on top. `MaxConnections` is above what the faults
can use up. `CHECK_DEADLOCK FALSE` is set where a bounded system comes to its end:
all calls answered, all writers stopped, the last day over, the client
disconnected.

**Fairness.** *Breaker*: the event loop runs due timers and promise reactions (WF
of `TimeOut`, `onSuccess`, `onFailure`); time goes on, stated as: no call waits
for ever while the clock stands still, unless a timer that is due holds the clock
up; callers keep calling, without which a circuit cannot recover since only a call
ends its wait. `Respond` is not fair: the service may hang. *Outbox*: WF of
`Work(w)`, the worker's own steps; docker restarts the process, and
`connectWithBackoff` repeats until it succeeds; database errors, crashes and lost
connections have no fairness. *Inventory, fan-out*: the broker pushes what is
queued (WF of `Deliver`), the awaits of a handler return. `QueueDrains` and
`QueuesDrain` presuppose somebody who stays subscribed, for the code promises no
more. *WAL*: the flush timer, the handlers and the database go on; stream errors,
failing inserts, starts and stops have no fairness, only the last exit has: the
process ends once it was told to. *Rabbit*: amqplib answers and events arrive,
and a caller that is not connected tries again, as the outbox worker does.
*Session*: effects and retry timers run and the gateway answers in the end, if
only with its timeout.

## 4. Where code and comments part

The models contain these behaviours. Where a comment promises otherwise, it is
quoted; the properties above are stated so that they say what does hold.

Orders and events
- Two outbox workers with overlapping leases count attempts from stale copies
  while `$inc` works on the row: `attempts` reaches `maxRetries` without anyone
  handling the poison event, and no query selects the row again
  (`outbox.worker.ts:249`; "Handle poison events", :280). `NotStranded` therefore
  holds for one worker.
- The loser of the race for a key answers 202 without comparing hashes
  (`order.service.ts:90`; "Validate request hash matches", :53).
- An error after the commit deletes the key of an order that exists, and the
  retry fails on the unique order id (`order.service.ts:231`; "Clean up
  idempotency key on failure to allow retry", :229). A refusal for want of stock
  leaves the key behind for 24 hours (:123).
- A half-open circuit lets every caller through (`circuit-breaker.ts:64`; "HALF_OPEN:
  Allow one test request to check if service recovered", :10). `ProbationIsEarned`
  says what holds for the calls let through.
- Two deliveries of an event that overlap both change the stock, as does one that
  follows a handler that ended between change and record
  (`inventory.service.ts:242`; "Process an event idempotently", :217), up to ten
  being at work in one process (`rabbitmq/src/connection.ts:17`). `AppliedOnce` says
  when it can happen, and that it happens in no other case.
- `sparse` does not exempt documents that have an `operationType`: the second
  event of an operation is refused after its stock changed
  (`models/inventory.ts:96`). Redelivered, it changes the stock again.
- A shipment deducts whatever is reserved, also when nothing was reserved for its
  order (`inventory.service.ts:171`). A cancelled order's event goes to
  `inventory.release`, which no queue is bound to (`order.service.ts:362`).
- The reserve route repeats a stored failure with status 200, ignores an error
  while storing, and reserves again for a retry that overlaps or follows the
  injected crash: the exceptions of `RetriesAgree`.
- `calculateBackoffDelay` adds its jitter after the cap and in twice the width of
  its comment (`backoff.ts:38`).
- A message for created orders may reach the handler of shipped ones; a payment is
  taken again when its channel closes meanwhile; events published before a
  service's first start are lost for it.
- `connect()` that fails after the channel was opened leaves the client connected
  without handlers for good (`Unhandled`); the close event of an old connection
  clears the new one (`connection.ts:61`), which is then dialled once more.

Backup
- Handlers may get their numbers out of the order of their changes
  (`models/wal-entry.ts:13`: "Unique sequence number for ordering").
- A batch that failed half way is put back whole and then meets its own numbers:
  nothing behind it is ever flushed (`Stalled`). A stream that closes on an error
  clears `isRunning`, so that its restart is given up (`wal-writer.ts:154`); a
  reopened stream has no resume token and misses what happened meanwhile.
- A start that throws leaves a running writer behind, and every change is
  captured twice. A graceful stop loses entries that are still being numbered.
- Snapshots are kept 30 days and entries 7: a restore to a point between an old
  snapshot and the oldest entry succeeds with a hole. `fromSnapshotId` accepts a
  failed snapshot and reports success with collections missing.
- The package is hashed with an empty `checksum` field and verified without the
  field (`backup-service.ts:472`, `restore-service.ts:501`): no restore from a
  package with verification on succeeds (`restore-service.ts:92` lists it). With
  verification off, ObjectIds come back as text, beside the documents they were.
- Metadata files count as backups, so half of `maxBackups` is kept; two uploads
  that overlap both pass the daily limit, which a restart forgets; the day after a
  late upload is refused.
- The cleanup keeps the newest files, complete or not. After an upload during which
  others wrote data that was never described, the files left may hold no complete
  backup, not even the one just made; with `maxBackups` at 30, up to ten calls at a
  time cannot bring it about.

Shop
- Every press of "Place Order" makes a new key; after the gateway's timeout the
  message is "Please try again" though the order may exist (`page.tsx:82`, :109).
  What is put into the cart during a submission is cleared with it.
- After a logout the effect asks for the profile, is refused, and `refetch()`
  hands back the cached profile: the user is shown again. `ShownIsKnown` says what
  is left. A logout with lapsed tokens is refused.

## 5. Proofs

All constants are arbitrary within the named assumptions; workers, calls, jobs,
services and slots are any sets (slots finite, since holders are counted). The
assumptions say that bounds are numbers and that values standing for "none" are
not among the others; those that say more are quoted below.

- `ClientProofs`. *Breaker*: `BreakerTypeOK`, `BreakerCounters`,
  `BreakerProbation`. Counters and types are inductive together.
  `ProbationStartsClean` is not: the invariant needs `OldCallsOnly`, that a call
  in flight while the circuit is open is at least as old as the last failure. With
  `Timeout < ResetTimeout` no such call is left when the wait ends.
  *Inventory client*: `ClientImplementsBreaker`, every step of the client is one
  of the breaker or a stutter, which carries `BreakerCounters` over to it
  (`ClientCounters`). `ClientProbationIsEarned` rests on `CInv`, that every call in
  flight under a half-open circuit was let through in its probation, and that rests
  on `BreakerProbation`.
  *RabbitMQ client*: `RabbitKeepsTypes`, `RabbitOneDial`, `RabbitGoneIsNoticed`
  for any number of callers. A client that takes a lost connection for a working
  one would have handlers without what they watch; `HandledIsWhole` excludes it,
  and needs to know of `connect()` that it sets its handlers last, on the
  connection it dialled and with the channel of that connection (`OnTheWay`,
  `HandledAreMade`), also when late events of older connections come between.
- `OutboxWorkerProofs`: `OutboxTypeOK`, `OutboxAccounted`, `OutboxPoison` for any
  number of workers; `OutboxNotStranded` and `OutboxImplementsRelay` for one
  worker. The invariant ties what a worker has in hand to the row: an event in
  hand was committed, one being marked was sent, one being buried was filed, and
  the attempts a worker saw are a lower bound of those on the row. With one
  worker they are equal, and a row in hand is pending, or published or removed by
  an update that threw; the two theorems about one worker need that.
- `OrderProofs`. *Order service*: `OrderTypeOK`, `OrderOutbox`, `OrderKeyLock`,
  `OrderAccepted`. The strengthening says which calls own a key and that a call
  past its commit has its order.
  *Fan-out*: `FanoutKeepsTypes`, `FanoutAccounted`, `FanoutEffectsJustified`.
  A message that is waiting, in hand, orphaned or done came by a key of the
  service, and done and orphaned together never exceed what was acknowledged or
  taken back: an orphan is what the broker has taken back and somebody still works
  on. The lemmas about `Both` say how one handler's count moves the sum of two.
- `InventoryConsumerProofs`. *Consumer*: `InventoryTypeOK` (in particular no
  quantity is ever negative), `InventoryNeverOversold`, `InventoryAccounted` and
  `InventoryAppliedOnce`, for any number of handlers. `SlotsInOrder` says that a
  handler at work has an event, and that one about to reserve stands at a line of
  its order; without it the line it reserves for need not exist. `OnceEach` says of
  every event that nothing excuses that one handler at most has it, that it applied
  only lines before the one it stands at, and that an event applied in part is
  recorded or at work.
  *Reserve route*: the same four beside any number of calls of the route
  (`RouteKeepsTypes`, `RouteNeverOversold`, `RouteAccounted`,
  `RouteAppliedOnce`), and `RouteRetriesAgree`. Its invariant tells one story
  of every identified request that nothing excuses (`Stories`): the stored result
  says whether stock is reserved, every answer is that result, and stock reserved
  without a result has a call that is about to store it.
- `WalWriterProofs`: `WalTypeOK`, `WalStopFlushes`, `WalImplementsChangeLog`,
  `WalRepeatedOnlyByLeak`, for any number of writers. `FourKinds` sorts the steps
  by what they do to counter, memories and log: nothing, one entry gets a number,
  a batch is written, a process ends. The refinement of `ChangeLog` then needs
  only `Numbered`, that no number is in use that the counter did not give out.
  `WalRepeatedOnlyByLeak` rests on `Untwined`, whose heart is `Overtaken`: a
  change that lies ahead of an open stream and is known already is behind another
  writer that may still read, and of those all but the current one were left by a
  start that threw.
- `BackupServiceProofs`: `BackupTypeOK`, `BackupSnapshotCoversLog`,
  `BackupMarkedIsCovered`, `BackupPrunedIsCovered`, `BackupNewestIsReplayable`, for
  any number of collections, changes and overlapping backups. `AtStage` says what
  a snapshot holds at each stage of its job, down to the collections copied so
  far. That cleanup harms nobody is an argument about age: a snapshot reaches every
  entry numbered before it began (`Reaches`), what is found too old is out of use
  (`OldIsOver`), no entry behind a running job is pruned (`NotOvertaken`), and a
  finished snapshot that cannot be replayed from has a younger one (`Superseded`).
  `RetentionAssumption` is `JobDays <= WalDays <=
  SnapshotDays`: a job is no longer than the 7 days of the log, and those no longer
  than the 30 of the snapshots.
- `BackupRestoreProofs`. *Backup worker*: `WorkerOneSchedule`, `WorkerOnePerDay`
  for any number of overlapping calls. The first needs that a process that ended
  makes no calls; the second that the time noted last is that of the newest upload
  (`Noted`), and that a call on its way to write passed the limit for every upload
  it saw (`Passed`).
  *Its files*: `WorkerKeepsTypes` without further assumptions, and
  `WorkerLatestDownloadable` under `EnoughKept`: a call is done within a day, the
  calls are finitely many, and `MaxBackups` is more than three files for each call
  less two, which 30 (`backup.worker.ts:78`) is for up to ten. It is an argument
  about numbers. While data waits for its description, only calls that have theirs
  to describe can add files, one each; any other would write data that is newer
  (`NewestKept`). Once it is described, each of the other calls at work may add
  two, and nobody joins them as long as a call is to list: that call noted its
  upload less than a day ago, and the limit holds (`ListersBar`). So fewer than
  `MaxBackups` files are newer than the backup when a cleanup lists (`LatestKept`),
  and what no cleanup at work has doomed stays. With two calls the bound is the
  least: TLC refutes the property for `MaxBackups = 4`.
  *Restore service*: `RestoreKeepsTypes`, `RestoreNotOlder`, `RestoreExact`, for
  any history, collections, snapshots and entries. While entries are replayed,
  everything is as it was at some place of the log, except (`ReplayedTo`) that an
  update may have been applied to another document than its own; then a delete
  follows, and clears it. That is why the present is restored exactly although
  snapshots are fuzzy and updates carry documents of a later time.
- `ShopProofs`. *Session*: `SessionKeepsTypes`, `SessionShowsKnown`. Live cookies
  and the answers that roll them belong to somebody (`SomebodyNamed`), and the
  query keeps only what it received.
  *Checkout*: `CheckoutTypeOK`, `CheckoutNothingLost`, `CheckoutOrderedOnce`, for any
  products, stocks and submissions. What a submission under way took is still in
  the cart or the cart is empty (`TakenIsInCart`); what is in the cart after a
  success was put there in a later round (`RoundsGoOn`); and two submissions that
  share a round are a repetition (`BegunApart`).

The invariants were checked by TLC on the instances of section 3 before they were
proved. That a document has a last change, which both backup and restore rest on,
follows from the well-foundedness of the natural numbers.

Only model-checked: everything under fairness (`CallsReturn`, `Recovers`,
`RelayFairSpec`, `QueueDrains`, `QueuesDrain`, `Drains`, `Reconnects`,
`SplashEnds`), because liveness proofs need ENABLED, which the prover does not
handle. Of these, `CallsReturn` and `Recovers` were also checked with a failure
threshold and a reset timeout of 3, `RelayFairSpec` with 3 retries and 3 faults,
and `QueuesDrain` with 3 faults; those instances are the kept ones with larger
numbers, and too slow to run each time.

## 6. Not modelled

Reads, formatting, telemetry and layout change no state two actors race for.
`updateOrderStatus`, `confirmInventoryDeduction`, `failInventoryAdjustment`, the
client's `reserveStock`, `retryWithBackoff` and the backoff iterator have no
caller; the restore service has none in the repository either, but is what the
backup is for. The gateway's rate limiter and health aggregation, the endpoints
that pay by hand or reset statistics, and the profile update of the shop, whose
route the auth service does not have, are left out. The arithmetic of delays is:
no property depends on their length.

## 7. Plan

1. Done: the modules above; every safety property that the runs check, and every
   refinement without its fairness, is a theorem.
2. Next: larger instances where time allows: two slots beside two calls of the reserve
   route, two snapshots for a restore. Liveness stays with TLC.
