----------------------------- MODULE BackupWorker -----------------------------
(***************************************************************************)
(* The backup worker of the order service: the daily schedule of           *)
(* BackupService, POST /backup/trigger, and the two external providers,    *)
(* which accept one upload in 24 hours. The filesystem provider checks     *)
(* the limit, writes its files and then notes the time; the mock provider  *)
(* does all of it in one turn. Both note it in the memory of the process.  *)
(* What a backup does to the database is BackupService's.                  *)
(***************************************************************************)
EXTENDS Naturals, Sequences, FiniteSets

CONSTANTS
  Jobs,           \* calls of runDailyBackup, scheduled or triggered
  Day,            \* 24 hours in ticks; the backup hour is the first of the day
  JobTime,        \* no call takes longer
  MaxClock,       \* bound on the clock
  MaxBackups,     \* maxBackups: files that cleanupOldBackups leaves
  StorageLimit,   \* packages that fit into the mock's storage
  MaxWritten      \* bound on the files written

ASSUME TimeAssumption == Day \in Nat \ {0} /\ JobTime \in Nat /\ MaxClock \in Nat
ASSUME SizeAssumption == MaxBackups \in Nat /\ StorageLimit \in Nat /\ MaxWritten \in Nat

VARIABLES
  provider,     \* externalProvider: "mock" or "filesystem"
  process,      \* "down", "running", or "stopping" on SIGTERM
  clock,
  timer,        \* when dailyBackupTimer fires
  job,
  lastUpload,   \* lastUploadTime
  used,         \* packages in the mock's storage
  files,        \* the files of backupDir, each with its place in the order of writes
  written,      \* files written so far
  \* History:
  newest,       \* the backup whose data was written last
  latest,       \* the backup described last, or 0 if newer data came in between
  uploads       \* uploads that this process had accepted

memory == <<timer, lastUpload, used>>
disk == <<files, written, newest, latest>>
vars == <<provider, process, clock, memory, job, disk, uploads>>

None == MaxClock + Day + 1
Idle == [pc |-> "idle", scheduled |-> FALSE, began |-> 0, seen |-> 0, id |-> 0, doomed |-> {}]
Active(j) == job[j].pc # "idle"

\* A backup is known by the place of its data, so its other files are metadata.
Data(b) == [backup |-> b, at |-> b]
Meta(b) == {f \in files : f.backup = b /\ f.at # b}

Init ==
  /\ provider \in {"mock", "filesystem"}
  /\ process = "down"
  /\ clock = 0
  /\ timer = None
  /\ job = [j \in Jobs |-> Idle]
  /\ lastUpload = None /\ used = 0
  /\ files = {} /\ written = 0 /\ newest = 0 /\ latest = 0
  /\ uploads = <<>>

\* The first backup hour after now.
NextHour == (clock \div Day + 1) * Day

\* Mutant: the schedule goes on in a service that was stopped.
Wrong_Return(j) ==
  /\ job' = [job EXCEPT ![j] = Idle]
  /\ timer' = IF job[j].scheduled THEN NextHour ELSE timer

\* A call returns or throws; the timer's callback sets the next timer in any case.
Return(j) ==
  /\ job' = [job EXCEPT ![j] = Idle]
  /\ timer' = IF job[j].scheduled /\ process = "running" THEN NextHour ELSE timer

Allowed == lastUpload = None \/ clock >= lastUpload + Day

-----------------------------------------------------------------------------
\* startBackupWorker, with a new provider.
start ==
  /\ process = "down"
  /\ process' = "running"
  /\ timer' = NextHour
  /\ UNCHANGED <<provider, clock, lastUpload, used, job, disk, uploads>>

\* stopBackupWorker; a call that is running goes on.
stop ==
  /\ process = "running"
  /\ process' = "stopping"
  /\ timer' = None
  /\ UNCHANGED <<provider, clock, lastUpload, used, job, disk, uploads>>

\* The process ends, by exit or a crash: its memory, and the mock's storage, are gone.
exit ==
  /\ process # "down"
  /\ process' = "down"
  /\ timer' = None /\ lastUpload' = None /\ used' = 0 /\ uploads' = <<>>
  /\ job' = [j \in Jobs |-> Idle]
  /\ UNCHANGED <<provider, clock, disk>>

\* The timer fires on time.
Tick ==
  /\ clock < MaxClock
  /\ clock # timer
  /\ \A j \in Jobs : Active(j) => clock < job[j].began + JobTime
  /\ clock' = clock + 1
  /\ UNCHANGED <<provider, process, memory, job, disk, uploads>>

Begin(j, scheduled) ==
  /\ ~Active(j)
  /\ job' = [job EXCEPT ![j].pc = "packaging", ![j].scheduled = scheduled, ![j].began = clock]

runDailyBackup(j) ==
  /\ timer = clock
  /\ Begin(j, TRUE)
  /\ timer' = None
  /\ UNCHANGED <<provider, process, clock, lastUpload, used, disk, uploads>>

\* POST /backup/trigger: 503 without a service, 429 from the mock's statistics.
triggerManualBackup(j) ==
  /\ process = "running" /\ (provider = "mock" => Allowed)
  /\ Begin(j, FALSE)
  /\ UNCHANGED <<provider, process, clock, memory, disk, uploads>>

\* The snapshot is made and packaged, upload() is called.
packaged(j) ==
  /\ job[j].pc = "packaging"
  /\ job' = [job EXCEPT ![j].pc = "uploading"]
  /\ UNCHANGED <<provider, process, clock, memory, disk, uploads>>

\* The snapshot, the latency or the provider's availability: the call throws.
fails(j) ==
  /\ job[j].pc \in {"packaging", "uploading"}
  /\ Return(j)
  /\ UNCHANGED <<provider, process, clock, lastUpload, used, disk, uploads>>

\* "Rate limit exceeded"
refuse(j) ==
  /\ job[j].pc = "uploading" /\ ~Allowed
  /\ Return(j)
  /\ UNCHANGED <<provider, process, clock, lastUpload, used, disk, uploads>>

-----------------------------------------------------------------------------
Accepted(seen) ==
  /\ lastUpload' = clock
  /\ uploads' = Append(uploads, [at |-> clock, seen |-> seen])

\* The mock stores the package.
store(j) ==
  /\ provider = "mock" /\ job[j].pc = "uploading" /\ Allowed
  /\ used < StorageLimit
  /\ Accepted(Len(uploads))
  /\ used' = used + 1
  /\ Return(j)
  /\ UNCHANGED <<provider, process, clock, disk>>

\* "Storage quota exceeded": nothing in the storage is ever deleted.
quotaExceeded(j) ==
  /\ provider = "mock" /\ job[j].pc = "uploading" /\ Allowed
  /\ used >= StorageLimit
  /\ Return(j)
  /\ UNCHANGED <<provider, process, clock, lastUpload, used, disk, uploads>>

\* Mutant: the check of the limit is dropped.
Wrong_check(j) ==
  /\ provider = "filesystem" /\ job[j].pc = "uploading"
  /\ job' = [job EXCEPT ![j].pc = "writing", ![j].seen = Len(uploads)]
  /\ UNCHANGED <<provider, process, clock, memory, disk, uploads>>

\* The filesystem provider has checked the limit and goes to write.
check(j) ==
  /\ provider = "filesystem" /\ job[j].pc = "uploading" /\ Allowed
  /\ job' = [job EXCEPT ![j].pc = "writing", ![j].seen = Len(uploads)]
  /\ UNCHANGED <<provider, process, clock, memory, disk, uploads>>

\* A file of backup b is written; its first is its data.
Write(b) ==
  /\ written < MaxWritten
  /\ written' = written + 1
  /\ files' = files \union {[backup |-> b, at |-> written + 1]}
  /\ newest' = IF b = written + 1 THEN b ELSE newest

\* The data is written twice, or three times if compressed; the file is listed
\* by its last write, and only that one is a step of its own.
writeData(j) ==
  /\ job[j].pc = "writing"
  /\ Write(written + 1)
  /\ job' = [job EXCEPT ![j].pc = "describing", ![j].id = written + 1]
  /\ UNCHANGED <<provider, process, clock, memory, latest, uploads>>

writeMeta(j) ==
  /\ job[j].pc = "describing"
  /\ Write(job[j].id)
  /\ latest' = IF newest = job[j].id THEN newest ELSE 0
  /\ Accepted(job[j].seen)
  /\ job' = [job EXCEPT ![j].pc = "listing"]
  /\ UNCHANGED <<provider, process, clock, timer, used>>

\* The disk refuses a write: what was written before stays, a part of the file too.
writeFails(j) ==
  /\ job[j].pc \in {"writing", "describing"}
  /\ Return(j)
  /\ \/ Write(IF job[j].pc = "writing" THEN written + 1 ELSE job[j].id)
     \/ UNCHANGED <<files, written, newest>>
  /\ UNCHANGED <<provider, process, clock, lastUpload, used, latest, uploads>>

\* Mutant: sorted the other way round.
Wrong_Beyond(n) == {f \in files : Cardinality({g \in files : g.at < f.at}) >= n}

\* The files behind the n newest; a metadata file is a file of its own.
Beyond(n) == {f \in files : Cardinality({g \in files : g.at > f.at}) >= n}

\* download() finds the file.
Downloadable(b) == Data(b) \in files

listBackups(j) ==
  /\ job[j].pc = "listing"
  /\ IF Beyond(MaxBackups) = {} THEN Return(j)
     ELSE /\ job' = [job EXCEPT ![j].pc = "deleting", ![j].doomed = Beyond(MaxBackups)]
          /\ UNCHANGED timer
  /\ UNCHANGED <<provider, process, clock, lastUpload, used, disk, uploads>>

\* Another call deletes a file between readdir and stat: upload() throws, though
\* the backup is there.
listFails(j) ==
  /\ job[j].pc = "listing" /\ \E i \in Jobs : job[i].pc \in {"deleting", "sweeping"}
  /\ Return(j)
  /\ UNCHANGED <<provider, process, clock, lastUpload, used, disk, uploads>>

\* The file whose turn it is: the newest of those that are left.
Turn(j, f) == \A g \in job[j].doomed : g.at <= f.at

\* That file is dealt with: the next one, or the call returns.
Dealt(j, f) ==
  IF job[j].doomed = {f} THEN Return(j)
  ELSE /\ job' = [job EXCEPT ![j].pc = "deleting", ![j].doomed = @ \ {f}]
       /\ UNCHANGED timer

\* If the file is deleted its metadata is next; if not, the next file.
unlink(j) ==
  /\ job[j].pc = "deleting"
  /\ \E f \in job[j].doomed :
       /\ Turn(j, f)
       /\ \/ /\ f \in files /\ files' = files \ {f}
             /\ job' = [job EXCEPT ![j].pc = "sweeping"] /\ UNCHANGED timer
          \/ files' = files /\ Dealt(j, f)
  /\ UNCHANGED <<provider, process, clock, lastUpload, used, written, newest, latest, uploads>>

\* The name made from that of a metadata file is no file's.
Described(f) == IF f = Data(f.backup) THEN Meta(f.backup) ELSE {}

unlinkMeta(j) ==
  /\ job[j].pc = "sweeping"
  /\ \E f \in job[j].doomed :
       /\ Turn(j, f)
       /\ files' = files \/ files' = files \ Described(f)
       /\ Dealt(j, f)
  /\ UNCHANGED <<provider, process, clock, lastUpload, used, written, newest, latest, uploads>>

-----------------------------------------------------------------------------
Process == start \/ stop \/ exit

Backup(j) ==
  \/ runDailyBackup(j) \/ triggerManualBackup(j)
  \/ packaged(j) \/ fails(j) \/ refuse(j)

Upload(j) ==
  \/ store(j) \/ quotaExceeded(j)
  \/ check(j) \/ writeData(j) \/ writeMeta(j) \/ writeFails(j)
  \/ listBackups(j) \/ listFails(j) \/ unlink(j) \/ unlinkMeta(j)

Next == Process \/ Tick \/ \E j \in Jobs : Backup(j) \/ Upload(j)

Spec == Init /\ [][Next]_vars

-----------------------------------------------------------------------------
TypeOK ==
  /\ provider \in {"mock", "filesystem"}
  /\ process \in {"down", "running", "stopping"}
  /\ clock \in 0..MaxClock
  /\ timer \in Nat /\ lastUpload \in (0..MaxClock) \union {None}
  /\ used \in 0..StorageLimit
  /\ written \in 0..MaxWritten /\ newest \in 0..written /\ latest \in 0..newest
  /\ files \subseteq [backup : 1..newest, at : 1..written]
  /\ job \in [Jobs ->
       [pc : {"idle", "packaging", "uploading", "writing", "describing", "listing", "deleting",
              "sweeping"},
        scheduled : BOOLEAN, began : 0..MaxClock, seen : Nat, id : 0..newest,
        doomed : SUBSET [backup : 1..newest, at : 1..written]]]
  /\ uploads \in Seq([at : 0..MaxClock, seen : Nat])

\* A running service has one chain of daily backups, a timer or the call it
\* made, whatever calls fail or overlap; a stopped one sets no timer.
OneSchedule ==
  LET scheduled == {j \in Jobs : Active(j) /\ job[j].scheduled} IN
  /\ process = "running" => (timer = None) = (scheduled # {})
  /\ process # "running" => timer = None
  /\ \A i, j \in scheduled : i = j

\* Uploads of one process are 24 hours apart, unless they overlapped at the
\* filesystem provider, which had checked the limit for both before it noted
\* the first.
OnePerDay ==
  \A k \in 1..Len(uploads) : \A i \in 1..(k - 1) :
    \/ uploads[k].at >= uploads[i].at + Day
    \/ provider = "filesystem" /\ uploads[k].seen < i

\* The backup that was described last can be downloaded, and its description is
\* there, whichever cleanups were interrupted or run beside other uploads, unless
\* another's data was written between its data and its description.
LatestDownloadable == latest # 0 => Downloadable(latest) /\ Meta(latest) # {}
=============================================================================
