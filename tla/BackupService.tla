---------------------------- MODULE BackupService ----------------------------
(***************************************************************************)
(* The backup service of packages/backup: snapshots that copy one          *)
(* collection after another while the application goes on writing, the     *)
(* daily package for the external provider, the marking of the log entries *)
(* it covers, and the cleanup by age. The log is the one WalWriter keeps   *)
(* on its good days: change n has number n, is numbered some time after it *)
(* was made and recorded some time after that.                             *)
(***************************************************************************)
EXTENDS ChangeHistory, FiniteSets

CONSTANTS
  Collections,
  Snapshots,      \* snapshot ids: every call of createSnapshot makes a new one
  MaxChanges,     \* bound on the changes
  MaxClock,       \* bound on the clock, in days
  WalDays,        \* walRetentionDays
  SnapshotDays,   \* snapshotRetentionDays
  JobDays         \* no snapshot or backup takes longer

ASSUME RetentionAssumption ==
  WalDays \in Nat /\ SnapshotDays \in Nat /\ JobDays \in Nat
  /\ JobDays <= WalDays /\ WalDays <= SnapshotDays
ASSUME BoundAssumption == MaxChanges \in Nat /\ MaxClock \in Nat

VARIABLES
  history,    \* the changes of the database, in order
  stamp,      \* when each of the numbered changes got its number
  recorded,   \* numbers that were inserted into _wal_entries
  backedUp,   \* those with backedUp set
  pruned,     \* those that cleanup deleted
  clock,
  snapshot,   \* the collection _snapshots
  data,       \* the collection _snapshot_data
  job,        \* the call that makes each snapshot, and the backup around it
  vault       \* what the external provider keeps

wal == <<stamp, recorded, backedUp, pruned>>
snapshots == <<snapshot, data>>
vars == <<history, wal, clock, snapshots, job, vault>>

Now(c) == ValueAt(history, c, Len(history))
issued == Len(stamp)             \* the sequence counter
Entries == recorded \ pruned     \* the collection _wal_entries

Finished == {"completed", "backed_up"}
NoSnapshot == [status |-> "none", createdAt |-> 0, last |-> 0, external |-> FALSE]
Idle == [pc |-> "idle", backup |-> FALSE, found |-> {}, old |-> {}]
Active(s) == job[s].pc \notin {"idle", "ended"}

Init ==
  /\ history = <<>>
  /\ stamp = <<>> /\ recorded = {} /\ backedUp = {} /\ pruned = {}
  /\ clock = 0
  /\ snapshot = [s \in Snapshots |-> NoSnapshot]
  /\ data = [s \in Snapshots |-> <<>>]
  /\ job = [s \in Snapshots |-> Idle]
  /\ vault = {}

Goto(s, p) == job' = [job EXCEPT ![s].pc = p]
End(s) == job' = [job EXCEPT ![s] = [Idle EXCEPT !.pc = "ended"]]

-----------------------------------------------------------------------------
\* The application inserts, replaces or deletes the document of a collection.
change(c, delete) ==
  /\ Len(history) < MaxChanges
  /\ delete => Now(c) # 0
  /\ history' = Append(history, [collection |-> c, delete |-> delete])
  /\ UNCHANGED <<wal, clock, snapshots, job, vault>>

\* The WAL writer has a number for the next change.
number ==
  /\ issued < Len(history)
  /\ stamp' = Append(stamp, clock)
  /\ UNCHANGED <<history, recorded, backedUp, pruned, clock, snapshots, job, vault>>

\* A flush of the WAL writer, of any of its batches.
record(n) ==
  /\ n \in (1..issued) \ recorded
  /\ recorded' = recorded \union {n}
  /\ UNCHANGED <<history, stamp, backedUp, pruned, clock, snapshots, job, vault>>

Tick ==
  /\ clock < MaxClock
  /\ \A s \in Snapshots : Active(s) => clock < snapshot[s].createdAt + JobDays
  /\ clock' = clock + 1
  /\ UNCHANGED <<history, wal, snapshots, job, vault>>

-----------------------------------------------------------------------------
\* createSnapshot takes the time, for POST /backup/snapshot or for a backup.
createSnapshot(s, backup) ==
  /\ job[s].pc = "idle"
  /\ job' = [job EXCEPT ![s].pc = "counting", ![s].backup = backup]
  /\ snapshot' = [snapshot EXCEPT ![s].createdAt = clock]
  /\ UNCHANGED <<history, wal, clock, data, vault>>

\* It reads the sequence counter for the snapshot to be.
countEntries(s) ==
  /\ job[s].pc = "counting"
  /\ snapshot' = [snapshot EXCEPT ![s].last = issued]
  /\ Goto(s, "inserting")
  /\ UNCHANGED <<history, wal, clock, data, vault>>

\* The snapshot is inserted, after the server was asked for its version.
insertSnapshot(s) ==
  /\ job[s].pc = "inserting"
  /\ snapshot' = [snapshot EXCEPT ![s].status = "in_progress"]
  /\ Goto(s, "copying")
  /\ UNCHANGED <<history, wal, clock, data, vault>>

\* It reads the documents of one more collection and stores them. The return
\* without a connection is left out: createSnapshot has just found one, and
\* nothing in the program closes it.
storeSnapshotData(s, c) ==
  /\ job[s].pc = "copying" /\ c \notin DOMAIN data[s]
  /\ data' = [data EXCEPT ![s] =
       [d \in DOMAIN @ \union {c} |-> IF d = c THEN Now(c) ELSE @[d]]]
  /\ UNCHANGED <<history, wal, clock, snapshot, job, vault>>

\* Mutant: the counter is read when the copy is done.
Wrong_countLate(s) ==
  /\ job[s].pc = "copying" /\ DOMAIN data[s] = Collections
  /\ snapshot' = [snapshot EXCEPT ![s].status = "completed", ![s].last = issued]
  /\ IF job[s].backup THEN Goto(s, "finding") ELSE End(s)
  /\ UNCHANGED <<history, wal, clock, data, vault>>

completeSnapshot(s) ==
  /\ job[s].pc = "copying" /\ DOMAIN data[s] = Collections
  /\ snapshot' = [snapshot EXCEPT ![s].status = "completed"]
  /\ IF job[s].backup THEN Goto(s, "finding") ELSE End(s)
  /\ UNCHANGED <<history, wal, clock, data, vault>>

\* A read or an insert throws: what was copied stays.
snapshotFails(s) ==
  /\ job[s].pc = "copying"
  /\ snapshot' = [snapshot EXCEPT ![s].status = "failed"]
  /\ End(s)
  /\ UNCHANGED <<history, wal, clock, data, vault>>

-----------------------------------------------------------------------------
\* runDailyBackup finds the entries that no backup has covered.
findEntries(s) ==
  /\ job[s].pc = "finding"
  /\ job' = [job EXCEPT ![s].pc = "uploading",
                        ![s].found = {n \in Entries \ backedUp : n <= snapshot[s].last}]
  /\ UNCHANGED <<history, wal, clock, snapshots, vault>>

\* packageBackupData and upload.
upload(s) ==
  /\ job[s].pc = "uploading"
  /\ vault' = vault \union {[last |-> snapshot[s].last, data |-> data[s], entries |-> job[s].found]}
  /\ job' = [job EXCEPT ![s].pc = "marking", ![s].found = {}]
  /\ UNCHANGED <<history, wal, clock, snapshots>>

\* Mutants: a refused upload is logged and the job goes on, or cleans up at least.
Wrong_markAnyway(s) ==
  /\ job[s].pc = "uploading"
  /\ Goto(s, "marking")
  /\ UNCHANGED <<history, wal, clock, snapshots, vault>>

Wrong_cleanAnyway(s) ==
  /\ job[s].pc = "uploading"
  /\ Goto(s, "cleaning")
  /\ UNCHANGED <<history, wal, clock, snapshots, vault>>

\* The provider refuses, or is not available: the snapshot stays "completed".
uploadFails(s) ==
  /\ job[s].pc = "uploading"
  /\ End(s)
  /\ UNCHANGED <<history, wal, clock, snapshots, vault>>

markSnapshot(s) ==
  /\ job[s].pc = "marking"
  /\ snapshot' = [snapshot EXCEPT ![s].status = "backed_up", ![s].external = TRUE]
  /\ Goto(s, "markingEntries")
  /\ UNCHANGED <<history, wal, clock, data, vault>>

markEntries(s) ==
  /\ job[s].pc = "markingEntries"
  /\ backedUp' = backedUp \union {n \in Entries : n <= snapshot[s].last}
  /\ Goto(s, "cleaning")
  /\ UNCHANGED <<history, stamp, recorded, pruned, clock, snapshots, vault>>

\* Mutant: cleanup of every snapshot the provider has.
Wrong_anyAge == {s \in Snapshots : snapshot[s].external}

\* The entries that cleanup deletes, and the snapshots it finds.
OldEntries == {n \in Entries \intersect backedUp : stamp[n] + WalDays < clock}
OldSnapshots == {s \in Snapshots : snapshot[s].external /\ snapshot[s].createdAt + SnapshotDays < clock}

pruneEntries(s) ==
  /\ job[s].pc = "cleaning"
  /\ pruned' = pruned \union OldEntries
  /\ Goto(s, "listing")
  /\ UNCHANGED <<history, stamp, recorded, backedUp, clock, snapshots, vault>>

listOldSnapshots(s) ==
  /\ job[s].pc = "listing"
  /\ IF OldSnapshots = {} THEN End(s)
     ELSE job' = [job EXCEPT ![s].pc = "pruning", ![s].old = OldSnapshots]
  /\ UNCHANGED <<history, wal, clock, snapshots, vault>>

pruneData(s, v) ==
  /\ job[s].pc = "pruning" /\ v \in job[s].old /\ data[v] # <<>>
  /\ data' = [data EXCEPT ![v] = <<>>]
  /\ UNCHANGED <<history, wal, clock, snapshot, job, vault>>

pruneSnapshot(s, v) ==
  /\ job[s].pc = "pruning" /\ v \in job[s].old /\ data[v] = <<>>
  /\ snapshot' = [snapshot EXCEPT ![v] = NoSnapshot]
  /\ IF job[s].old = {v} THEN End(s) ELSE job' = [job EXCEPT ![s].old = @ \ {v}]
  /\ UNCHANGED <<history, wal, clock, data, vault>>

\* The process ends, or a call to the database throws, anywhere in a job.
abort(s) ==
  /\ Active(s)
  /\ End(s)
  /\ UNCHANGED <<history, wal, clock, snapshots, vault>>

-----------------------------------------------------------------------------
Work(s) ==
  \/ \E backup \in BOOLEAN : createSnapshot(s, backup)
  \/ countEntries(s) \/ insertSnapshot(s)
  \/ completeSnapshot(s) \/ snapshotFails(s)
  \/ \E c \in Collections : storeSnapshotData(s, c)
  \/ findEntries(s) \/ upload(s) \/ uploadFails(s)
  \/ markSnapshot(s) \/ markEntries(s)
  \/ pruneEntries(s) \/ listOldSnapshots(s)
  \/ \E v \in Snapshots : pruneData(s, v) \/ pruneSnapshot(s, v)
  \/ abort(s)

Database ==
  \/ \E c \in Collections, delete \in BOOLEAN : change(c, delete)
  \/ number
  \/ \E n \in 1..issued : record(n)

Next == Database \/ Tick \/ \E s \in Snapshots : Work(s)

Spec == Init /\ [][Next]_vars

-----------------------------------------------------------------------------
TypeOK ==
  /\ history \in Seq([collection : Collections, delete : BOOLEAN])
  /\ Len(history) <= MaxChanges
  /\ stamp \in Seq(Nat)
  /\ recorded \subseteq Nat /\ backedUp \subseteq recorded /\ pruned \subseteq backedUp
  /\ clock \in Nat
  /\ snapshot \in [Snapshots ->
       [status : {"none", "in_progress", "completed", "failed", "backed_up"},
        createdAt : Nat, last : Nat, external : BOOLEAN]]
  /\ data \in [Snapshots -> UNION {[C -> 0..MaxChanges] : C \in SUBSET Collections}]
  /\ job \in [Snapshots ->
       [pc : {"idle", "counting", "inserting", "copying", "finding", "uploading", "marking",
              "markingEntries", "cleaning", "listing", "pruning", "ended"},
        backup : BOOLEAN, found : SUBSET Nat, old : SUBSET Snapshots]]
  /\ \A p \in vault : p.last \in Nat /\ p.entries \subseteq 1..p.last

\* All of the data of a snapshot that claims the log up to l: no collection is
\* older than that.
Covers(d, l) == DOMAIN d = Collections /\ \A c \in Collections : d[c] \in Since(history, c, l)

\* A finished snapshot holds every collection as it was when the log had the
\* number it records, or newer, though the collections were copied one after
\* another while the application wrote: replaying what comes behind that number
\* misses nothing. A record that lost its data to a cleanup is the exception.
SnapshotCoversLog ==
  \A s \in Snapshots :
    snapshot[s].status \in Finished /\ data[s] # <<>> => Covers(data[s], snapshot[s].last)

\* An entry is marked as backed up only when the provider has a package whose
\* snapshot contains it, also when it was flushed after the package was made.
MarkedIsCovered ==
  \A n \in backedUp : \E p \in vault : n <= p.last /\ Covers(p.data, p.last)

\* An entry that cleanup deleted is in a snapshot that is still here, with its data.
PrunedIsCovered ==
  \A n \in pruned : \E s \in Snapshots :
    snapshot[s].status = "backed_up" /\ n <= snapshot[s].last /\ Covers(data[s], snapshot[s].last)

Newest(s) ==
  /\ snapshot[s].status \in Finished
  /\ \A v \in Snapshots : snapshot[v].status \in Finished =>
       snapshot[v].createdAt <= snapshot[s].createdAt

\* The newest snapshot, where recovery to the present starts, has its data, and
\* cleanup has deleted no entry behind it, whatever other backups ran beside it.
NewestIsReplayable ==
  \A s \in Snapshots : Newest(s) =>
    DOMAIN data[s] = Collections /\ \A n \in pruned : n <= snapshot[s].last
=============================================================================
