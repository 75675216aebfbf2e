-------------------------- MODULE BackupServiceProofs --------------------------
(***************************************************************************)
(* Proofs about BackupService: what the snapshots, the external packages   *)
(* and the cleanup leave for a recovery to start from.                     *)
(***************************************************************************)
EXTENDS BackupService, WellFoundedInduction, TLAPS

\* A bounded set of numbers has a last one.
LEMMA LastExists ==
  ASSUME NEW i \in Nat, NEW S \in SUBSET (1..i), S # {}
  PROVE  LastOf(S) \in S /\ \A k \in S : k <= LastOf(S)
<1> DEFINE R == OpToRel(<, Nat)
           T == {i - j : j \in S}
<1>1. T \subseteq Nat /\ T # {}
  <2>1. \A j \in S : j \in 1..i
    OBVIOUS
  <2>2. \A j \in 1..i : i - j \in Nat
    OBVIOUS
  <2> QED
    BY <2>1, <2>2
<1>2. PICK x \in T : \A y \in T : ~(<<y, x>> \in R)
  BY <1>1, WFMin, NatLessThanWellFounded
<1>3. \A y \in T : ~(y < x)
  BY <1>1, <1>2 DEF OpToRel
<1>4. PICK j \in S : x = i - j
  OBVIOUS
<1>5. ASSUME NEW k \in S PROVE k <= j
  <2>1. ~(i - k < i - j)
    BY <1>3, <1>4
  <2>2. i \in Int /\ j \in Int /\ k \in Int
    OBVIOUS
  <2> HIDE DEF T, R
  <2> QED
    BY <2>1, <2>2
<1> QED
  BY <1>5 DEF LastOf

History == Seq([collection : Collections, delete : BOOLEAN])

LEMMA ValueType ==
  ASSUME NEW h \in History, NEW c, NEW i \in Nat
  PROVE  ValueAt(h, c, i) \in 0..i
<1>1. Writes(h, c, i) \in SUBSET (1..i)
  BY DEF Writes
<1>2. CASE Writes(h, c, i) = {}
  BY <1>2 DEF ValueAt
<1>3. CASE Writes(h, c, i) # {}
  <2>1. LastOf(Writes(h, c, i)) \in 1..i
    BY <1>1, <1>3, LastExists
  <2> QED
    BY <1>3, <2>1 DEF ValueAt
<1> QED
  BY <1>2, <1>3

\* What a document was does not change when the history goes on.
LEMMA PastStays ==
  ASSUME NEW h \in History, NEW e \in [collection : Collections, delete : BOOLEAN],
         NEW c, NEW i \in 0..Len(h)
  PROVE  ValueAt(Append(h, e), c, i) = ValueAt(h, c, i)
<1>1. \A j \in 1..i : Append(h, e)[j] = h[j]
  BY DEF History
<1>2. Writes(Append(h, e), c, i) = Writes(h, c, i)
  BY <1>1 DEF Writes
<1>3. Writes(h, c, i) \in SUBSET (1..i) /\ i \in Nat
  BY DEF Writes, History
<1>4. Writes(h, c, i) # {} => LastOf(Writes(h, c, i)) \in 1..i
  BY <1>3, LastExists
<1> QED
  BY <1>1, <1>2, <1>4 DEF ValueAt

LEMMA SinceGrows ==
  ASSUME NEW h \in History, NEW e \in [collection : Collections, delete : BOOLEAN],
         NEW c, NEW i \in Nat
  PROVE  Since(h, c, i) \subseteq Since(Append(h, e), c, i)
<1>1. Len(Append(h, e)) = Len(h) + 1 /\ Len(h) \in Nat
  BY DEF History
<1>2. ASSUME NEW j \in i..Len(h)
      PROVE  j \in i..Len(Append(h, e)) /\ ValueAt(Append(h, e), c, j) = ValueAt(h, c, j)
  BY <1>1, PastStays
<1> QED
  BY <1>2 DEF Since

LEMMA NowIsSince ==
  ASSUME NEW h \in History, NEW c, NEW i \in 0..Len(h)
  PROVE  ValueAt(h, c, Len(h)) \in Since(h, c, i)
<1>1. Len(h) \in i..Len(h)
  BY DEF History
<1> QED
  BY <1>1 DEF Since
-----------------------------------------------------------------------------
\* The numbers, the log and the clock keep their bounds.
Bounded ==
  /\ issued <= Len(history) /\ recorded \subseteq 1..issued
  /\ \A n \in 1..issued : stamp[n] <= clock
  /\ \A s \in Snapshots : snapshot[s].createdAt <= clock /\ snapshot[s].last <= issued
  /\ \A s \in Snapshots : Active(s) => clock <= snapshot[s].createdAt + JobDays

\* A snapshot at each stage of the job that makes it.
Stages(s) ==
  /\ job[s].pc \in {"idle", "counting", "inserting"} => snapshot[s].status = "none" /\ data[s] = <<>>
  /\ job[s].pc = "copying" =>
       /\ snapshot[s].status = "in_progress"
       /\ \A c \in DOMAIN data[s] : data[s][c] \in Since(history, c, snapshot[s].last)
  /\ job[s].pc \in {"finding", "uploading", "marking"} =>
       snapshot[s].status = "completed" /\ Covers(data[s], snapshot[s].last)
  /\ job[s].pc \in {"markingEntries", "cleaning", "listing", "pruning"} =>
       snapshot[s].status = "backed_up" /\ Covers(data[s], snapshot[s].last)
  /\ job[s].pc = "uploading" => job[s].found \subseteq 1..snapshot[s].last
  /\ job[s].pc \in {"marking", "markingEntries"} =>
       \E p \in vault : p.last = snapshot[s].last /\ Covers(p.data, p.last)
  /\ snapshot[s].external <=> snapshot[s].status = "backed_up"
  /\ snapshot[s].status \in Finished /\ data[s] # <<>> => Covers(data[s], snapshot[s].last)
AtStage == \A s \in Snapshots : Stages(s)

\* What a job found too old is out of use, and was backed up.
OldIsOver ==
  \A s \in Snapshots : \A v \in job[s].old :
    /\ job[v].pc = "ended"
    /\ snapshot[v].status = "none" \/ snapshot[v].createdAt + SnapshotDays < clock

\* The call has read the counter, so the snapshot has its last number.
Counted(s) == snapshot[s].status # "none" \/ job[s].pc = "inserting"

\* A snapshot has every entry that was numbered before it began.
Reaches ==
  \A s \in Snapshots : Counted(s) =>
    \A n \in 1..issued : stamp[n] < snapshot[s].createdAt => n <= snapshot[s].last

\* No cleanup overtakes a snapshot that is still at work.
NotOvertaken ==
  \A s \in Snapshots : Active(s) /\ Counted(s) =>
    \A n \in pruned : n <= snapshot[s].last

\* A finished snapshot can be replayed from, or a newer one is there.
Replayable(v) == DOMAIN data[v] = Collections /\ \A n \in pruned : n <= snapshot[v].last
Superseded ==
  \A v \in Snapshots : snapshot[v].status \in Finished =>
    \/ Replayable(v)
    \/ \E s \in Snapshots :
         snapshot[s].status \in Finished /\ snapshot[s].createdAt > snapshot[v].createdAt

IInv ==
  /\ TypeOK /\ Bounded /\ AtStage /\ OldIsOver /\ Reaches /\ NotOvertaken
  /\ MarkedIsCovered /\ PrunedIsCovered /\ Superseded
-----------------------------------------------------------------------------
Statuses == {"none", "in_progress", "completed", "failed", "backed_up"}
Stops == {"idle", "counting", "inserting", "copying", "finding", "uploading", "marking",
          "markingEntries", "cleaning", "listing", "pruning", "ended"}
SnapshotRecords == [status : Statuses, createdAt : Nat, last : Nat, external : BOOLEAN]
Jobs == [pc : Stops, backup : BOOLEAN, found : SUBSET Nat, old : SUBSET Snapshots]
Copies == UNION {[C -> 0..MaxChanges] : C \in SUBSET Collections}
Ended == [pc |-> "ended", backup |-> FALSE, found |-> {}, old |-> {}]

LEMMA TypeFacts ==
  TypeOK => /\ history \in History /\ Len(history) \in Nat
            /\ clock \in Nat /\ issued \in Nat
            /\ snapshot \in [Snapshots -> SnapshotRecords]
            /\ data \in [Snapshots -> Copies]
            /\ job \in [Snapshots -> Jobs]
            /\ \A p \in vault : p.last \in Nat
            /\ \A n \in 1..issued : stamp[n] \in Nat
<1> SUFFICES ASSUME TypeOK
             PROVE  /\ history \in History /\ Len(history) \in Nat
                    /\ clock \in Nat /\ issued \in Nat
                    /\ snapshot \in [Snapshots -> SnapshotRecords]
                    /\ data \in [Snapshots -> Copies]
                    /\ job \in [Snapshots -> Jobs]
                    /\ \A p \in vault : p.last \in Nat
                    /\ \A n \in 1..issued : stamp[n] \in Nat
  OBVIOUS
<1>1. history \in History /\ Len(history) \in Nat
  BY DEF TypeOK, History
<1>2. stamp \in Seq(Nat)
  BY DEF TypeOK
<1>3. issued \in Nat /\ \A n \in 1..issued : stamp[n] \in Nat
  BY <1>2 DEF issued
<1>4. /\ snapshot \in [Snapshots -> SnapshotRecords]
      /\ data \in [Snapshots -> Copies]
      /\ job \in [Snapshots -> Jobs]
  BY DEF TypeOK, SnapshotRecords, Statuses, Copies, Jobs, Stops
<1> QED
  BY <1>1, <1>3, <1>4 DEF TypeOK

LEMMA EndIs ==
  ASSUME NEW s
  PROVE  End(s) <=> job' = [job EXCEPT ![s] = Ended]
<1>1. [Idle EXCEPT !.pc = "ended"] = Ended
  <2>1. Idle \in Jobs
    BY DEF Idle, Jobs, Stops
  <2>2. \A r \in Jobs : [r EXCEPT !.pc = "ended"] =
          [pc |-> "ended", backup |-> r.backup, found |-> r.found, old |-> r.old]
    BY DEF Jobs
  <2> QED
    BY <2>1, <2>2 DEF Idle, Ended
<1> QED
  BY <1>1 DEF End

LEMMA EndedJob == Ended \in Jobs
  BY DEF Ended, Jobs, Stops

\* Only change touches the history, and it goes on.
LEMMA HistoryGrows ==
  TypeOK /\ [Next]_vars =>
    \/ history' = history
    \/ \E e \in [collection : Collections, delete : BOOLEAN] : history' = Append(history, e)
<1> SUFFICES ASSUME TypeOK, [Next]_vars
             PROVE  \/ history' = history
                    \/ \E e \in [collection : Collections, delete : BOOLEAN] :
                         history' = Append(history, e)
  OBVIOUS
<1>1. ASSUME NEW s \in Snapshots, Work(s) PROVE history' = history
  BY <1>1 DEF Work, createSnapshot, countEntries, insertSnapshot, storeSnapshotData, completeSnapshot,
     snapshotFails, findEntries, upload, uploadFails, markSnapshot, markEntries, pruneEntries,
     listOldSnapshots, pruneData, pruneSnapshot, abort
<1>2. ASSUME NEW c \in Collections, NEW delete \in BOOLEAN, change(c, delete)
      PROVE  \E e \in [collection : Collections, delete : BOOLEAN] :
               history' = Append(history, e)
  BY <1>2 DEF change
<1> QED
  BY <1>1, <1>2 DEF Next, Database, number, record, Tick, vars

LEMMA SinceStays ==
  TypeOK /\ [Next]_vars =>
    \A c \in Collections, l \in Nat : Since(history, c, l) \subseteq Since(history', c, l)
<1> SUFFICES ASSUME TypeOK, [Next]_vars, NEW c \in Collections, NEW l \in Nat
             PROVE  Since(history, c, l) \subseteq Since(history', c, l)
  OBVIOUS
<1>1. CASE history' = history
  BY <1>1
<1>2. ASSUME NEW e \in [collection : Collections, delete : BOOLEAN],
             history' = Append(history, e)
      PROVE  Since(history, c, l) \subseteq Since(history', c, l)
  BY <1>2, TypeFacts, SinceGrows
<1> QED
  BY <1>1, <1>2, HistoryGrows

\* A copy keeps covering the log up to a number.
LEMMA CoversStays ==
  TypeOK /\ [Next]_vars =>
    \A d, l : l \in Nat /\ Covers(d, l) =>
      DOMAIN d = Collections /\ \A c \in Collections : d[c] \in Since(history', c, l)
  BY SinceStays DEF Covers

\* What each step of a job does, record by record.
OthersJobs(s) == \A u \in Snapshots \ {s} : job'[u] = job[u]
OthersSnapshots(s) == \A u \in Snapshots \ {s} : snapshot'[u] = snapshot[u]
OthersData(s) == \A u \in Snapshots \ {s} : data'[u] = data[u]

LEMMA CreateSnapshotIs ==
  ASSUME TypeOK, NEW s \in Snapshots, NEW backup \in BOOLEAN, createSnapshot(s, backup)
  PROVE  /\ job[s].pc = "idle"
         /\ job'[s].pc = "counting" /\ job'[s].old = job[s].old
         /\ OthersJobs(s)
         /\ snapshot'[s].createdAt = clock /\ snapshot'[s].status = snapshot[s].status
         /\ snapshot'[s].last = snapshot[s].last /\ snapshot'[s].external = snapshot[s].external
         /\ OthersSnapshots(s)
         /\ UNCHANGED <<history, stamp, recorded, backedUp, pruned, clock, data, vault>>
<1>1. job \in [Snapshots -> Jobs] /\ snapshot \in [Snapshots -> SnapshotRecords]
      /\ data \in [Snapshots -> Copies]
  BY TypeFacts
<1> QED
  BY <1>1
     DEF createSnapshot, Jobs, SnapshotRecords, Stops, Statuses, OthersJobs,
         OthersSnapshots, OthersData, wal, snapshots

LEMMA CountEntriesIs ==
  ASSUME TypeOK, NEW s \in Snapshots, countEntries(s)
  PROVE  /\ job[s].pc = "counting"
         /\ job'[s].pc = "inserting" /\ job'[s].old = job[s].old
         /\ OthersJobs(s)
         /\ snapshot'[s].createdAt = snapshot[s].createdAt /\ snapshot'[s].status = snapshot[s].status
         /\ snapshot'[s].last = issued /\ snapshot'[s].external = snapshot[s].external
         /\ OthersSnapshots(s)
         /\ UNCHANGED <<history, stamp, recorded, backedUp, pruned, clock, data, vault>>
<1>1. job \in [Snapshots -> Jobs] /\ snapshot \in [Snapshots -> SnapshotRecords]
      /\ data \in [Snapshots -> Copies]
  BY TypeFacts
<1> QED
  BY <1>1
     DEF countEntries, Goto, Jobs, SnapshotRecords, Stops, Statuses, OthersJobs,
         OthersSnapshots, OthersData, wal, snapshots

LEMMA InsertSnapshotIs ==
  ASSUME TypeOK, NEW s \in Snapshots, insertSnapshot(s)
  PROVE  /\ job[s].pc = "inserting"
         /\ job'[s].pc = "copying" /\ job'[s].old = job[s].old
         /\ OthersJobs(s)
         /\ snapshot'[s].createdAt = snapshot[s].createdAt /\ snapshot'[s].status = "in_progress"
         /\ snapshot'[s].last = snapshot[s].last /\ snapshot'[s].external = snapshot[s].external
         /\ OthersSnapshots(s)
         /\ UNCHANGED <<history, stamp, recorded, backedUp, pruned, clock, data, vault>>
<1>1. job \in [Snapshots -> Jobs] /\ snapshot \in [Snapshots -> SnapshotRecords]
      /\ data \in [Snapshots -> Copies]
  BY TypeFacts
<1> QED
  BY <1>1
     DEF insertSnapshot, Goto, Jobs, SnapshotRecords, Stops, Statuses, OthersJobs,
         OthersSnapshots, OthersData, wal, snapshots

LEMMA SnapshotFailsIs ==
  ASSUME TypeOK, NEW s \in Snapshots, snapshotFails(s)
  PROVE  /\ job[s].pc = "copying"
         /\ job'[s] = Ended
         /\ OthersJobs(s)
         /\ snapshot'[s].createdAt = snapshot[s].createdAt /\ snapshot'[s].status = "failed"
         /\ snapshot'[s].last = snapshot[s].last /\ snapshot'[s].external = snapshot[s].external
         /\ OthersSnapshots(s)
         /\ UNCHANGED <<history, stamp, recorded, backedUp, pruned, clock, data, vault>>
<1>1. job \in [Snapshots -> Jobs] /\ snapshot \in [Snapshots -> SnapshotRecords]
      /\ data \in [Snapshots -> Copies]
  BY TypeFacts
<1> QED
  BY <1>1, EndIs
     DEF snapshotFails, Goto, Jobs, SnapshotRecords, Stops, Statuses, OthersJobs,
         OthersSnapshots, OthersData, wal, snapshots

LEMMA CompleteSnapshotIs ==
  ASSUME TypeOK, NEW s \in Snapshots, completeSnapshot(s)
  PROVE  /\ job[s].pc = "copying" /\ DOMAIN data[s] = Collections
         /\ \/ job'[s] = Ended
            \/ job'[s].pc = "finding" /\ job'[s].old = job[s].old
         /\ OthersJobs(s)
         /\ snapshot'[s].createdAt = snapshot[s].createdAt /\ snapshot'[s].status = "completed"
         /\ snapshot'[s].last = snapshot[s].last /\ snapshot'[s].external = snapshot[s].external
         /\ OthersSnapshots(s)
         /\ UNCHANGED <<history, stamp, recorded, backedUp, pruned, clock, data, vault>>
<1>1. job \in [Snapshots -> Jobs] /\ snapshot \in [Snapshots -> SnapshotRecords]
      /\ data \in [Snapshots -> Copies]
  BY TypeFacts
<1> QED
  BY <1>1, EndIs
     DEF completeSnapshot, Goto, Jobs, SnapshotRecords, Stops, Statuses, OthersJobs,
         OthersSnapshots, OthersData, wal, snapshots

LEMMA StoreSnapshotDataIs ==
  ASSUME TypeOK, NEW s \in Snapshots, NEW c \in Collections, storeSnapshotData(s, c)
  PROVE  /\ job[s].pc = "copying"
         /\ DOMAIN data'[s] = DOMAIN data[s] \union {c}
         /\ data'[s][c] = Now(c) /\ \A d \in DOMAIN data[s] : data'[s][d] \in {data[s][d], Now(d)}
         /\ OthersData(s)
         /\ UNCHANGED <<history, stamp, recorded, backedUp, pruned, clock, snapshot, job, vault>>
<1>1. job \in [Snapshots -> Jobs] /\ snapshot \in [Snapshots -> SnapshotRecords]
      /\ data \in [Snapshots -> Copies]
  BY TypeFacts
<1> QED
  BY <1>1
     DEF storeSnapshotData, Jobs, SnapshotRecords, Stops, Statuses, OthersJobs,
         OthersSnapshots, OthersData, wal, snapshots

LEMMA FindEntriesIs ==
  ASSUME TypeOK, NEW s \in Snapshots, findEntries(s)
  PROVE  /\ job[s].pc = "finding"
         /\ job'[s].pc = "uploading" /\ job'[s].old = job[s].old
         /\ job'[s].found = {n \in Entries \ backedUp : n <= snapshot[s].last}
         /\ OthersJobs(s)
         /\ UNCHANGED <<history, stamp, recorded, backedUp, pruned, clock, snapshot, data, vault>>
<1>1. job \in [Snapshots -> Jobs] /\ snapshot \in [Snapshots -> SnapshotRecords]
      /\ data \in [Snapshots -> Copies]
  BY TypeFacts
<1> QED
  BY <1>1
     DEF findEntries, Jobs, SnapshotRecords, Stops, Statuses, OthersJobs, OthersSnapshots,
         OthersData, wal, snapshots

LEMMA UploadIs ==
  ASSUME TypeOK, NEW s \in Snapshots, upload(s)
  PROVE  /\ job[s].pc = "uploading"
         /\ job'[s].pc = "marking" /\ job'[s].old = job[s].old
         /\ OthersJobs(s)
         /\ vault' = vault \union {[last |-> snapshot[s].last, data |-> data[s], entries |-> job[s].found]}
         /\ UNCHANGED <<history, stamp, recorded, backedUp, pruned, clock, snapshot, data>>
<1>1. job \in [Snapshots -> Jobs] /\ snapshot \in [Snapshots -> SnapshotRecords]
      /\ data \in [Snapshots -> Copies]
  BY TypeFacts
<1> QED
  BY <1>1
     DEF upload, Jobs, SnapshotRecords, Stops, Statuses, OthersJobs, OthersSnapshots,
         OthersData, wal, snapshots

LEMMA UploadFailsIs ==
  ASSUME TypeOK, NEW s \in Snapshots, uploadFails(s)
  PROVE  /\ job[s].pc = "uploading"
         /\ job'[s] = Ended
         /\ OthersJobs(s)
         /\ UNCHANGED <<history, stamp, recorded, backedUp, pruned, clock, snapshot, data, vault>>
<1>1. job \in [Snapshots -> Jobs] /\ snapshot \in [Snapshots -> SnapshotRecords]
      /\ data \in [Snapshots -> Copies]
  BY TypeFacts
<1> QED
  BY <1>1, EndIs
     DEF uploadFails, Jobs, SnapshotRecords, Stops, Statuses, OthersJobs, OthersSnapshots,
         OthersData, wal, snapshots

LEMMA AbortIs ==
  ASSUME TypeOK, NEW s \in Snapshots, abort(s)
  PROVE  /\ Active(s)
         /\ job'[s] = Ended
         /\ OthersJobs(s)
         /\ UNCHANGED <<history, stamp, recorded, backedUp, pruned, clock, snapshot, data, vault>>
<1>1. job \in [Snapshots -> Jobs] /\ snapshot \in [Snapshots -> SnapshotRecords]
      /\ data \in [Snapshots -> Copies]
  BY TypeFacts
<1> QED
  BY <1>1, EndIs
     DEF abort, Jobs, SnapshotRecords, Stops, Statuses, OthersJobs, OthersSnapshots,
         OthersData, wal, snapshots

LEMMA MarkSnapshotIs ==
  ASSUME TypeOK, NEW s \in Snapshots, markSnapshot(s)
  PROVE  /\ job[s].pc = "marking"
         /\ job'[s].pc = "markingEntries" /\ job'[s].old = job[s].old
         /\ OthersJobs(s)
         /\ snapshot'[s].createdAt = snapshot[s].createdAt /\ snapshot'[s].status = "backed_up"
         /\ snapshot'[s].last = snapshot[s].last /\ snapshot'[s].external = TRUE
         /\ OthersSnapshots(s)
         /\ UNCHANGED <<history, stamp, recorded, backedUp, pruned, clock, data, vault>>
<1>1. job \in [Snapshots -> Jobs] /\ snapshot \in [Snapshots -> SnapshotRecords]
      /\ data \in [Snapshots -> Copies]
  BY TypeFacts
<1> QED
  BY <1>1
     DEF markSnapshot, Goto, Jobs, SnapshotRecords, Stops, Statuses, OthersJobs,
         OthersSnapshots, OthersData, wal, snapshots

LEMMA MarkEntriesIs ==
  ASSUME TypeOK, NEW s \in Snapshots, markEntries(s)
  PROVE  /\ job[s].pc = "markingEntries"
         /\ job'[s].pc = "cleaning" /\ job'[s].old = job[s].old
         /\ OthersJobs(s)
         /\ backedUp' = backedUp \union {n \in Entries : n <= snapshot[s].last}
         /\ UNCHANGED <<history, stamp, recorded, pruned, clock, snapshot, data, vault>>
<1>1. job \in [Snapshots -> Jobs] /\ snapshot \in [Snapshots -> SnapshotRecords]
      /\ data \in [Snapshots -> Copies]
  BY TypeFacts
<1> QED
  BY <1>1
     DEF markEntries, Goto, Jobs, SnapshotRecords, Stops, Statuses, OthersJobs,
         OthersSnapshots, OthersData, wal, snapshots

LEMMA PruneEntriesIs ==
  ASSUME TypeOK, NEW s \in Snapshots, pruneEntries(s)
  PROVE  /\ job[s].pc = "cleaning"
         /\ job'[s].pc = "listing" /\ job'[s].old = job[s].old
         /\ OthersJobs(s)
         /\ pruned' = pruned \union OldEntries
         /\ UNCHANGED <<history, stamp, recorded, backedUp, clock, snapshot, data, vault>>
<1>1. job \in [Snapshots -> Jobs] /\ snapshot \in [Snapshots -> SnapshotRecords]
      /\ data \in [Snapshots -> Copies]
  BY TypeFacts
<1> QED
  BY <1>1
     DEF pruneEntries, Goto, Jobs, SnapshotRecords, Stops, Statuses, OthersJobs,
         OthersSnapshots, OthersData, wal, snapshots

LEMMA ListOldSnapshotsIs ==
  ASSUME TypeOK, NEW s \in Snapshots, listOldSnapshots(s)
  PROVE  /\ job[s].pc = "listing"
         /\ \/ job'[s] = Ended
            \/ job'[s].pc = "pruning" /\ job'[s].old = OldSnapshots
         /\ OthersJobs(s)
         /\ UNCHANGED <<history, stamp, recorded, backedUp, pruned, clock, snapshot, data, vault>>
<1>1. job \in [Snapshots -> Jobs] /\ snapshot \in [Snapshots -> SnapshotRecords]
      /\ data \in [Snapshots -> Copies]
  BY TypeFacts
<1> QED
  BY <1>1, EndIs
     DEF listOldSnapshots, Goto, Jobs, SnapshotRecords, Stops, Statuses, OthersJobs,
         OthersSnapshots, OthersData, wal, snapshots

LEMMA PruneDataIs ==
  ASSUME TypeOK, NEW s \in Snapshots, NEW v \in Snapshots, pruneData(s, v)
  PROVE  /\ job[s].pc = "pruning" /\ v \in job[s].old
         /\ data'[v] = <<>>
         /\ OthersData(v)
         /\ UNCHANGED <<history, stamp, recorded, backedUp, pruned, clock, snapshot, job, vault>>
<1>1. job \in [Snapshots -> Jobs] /\ snapshot \in [Snapshots -> SnapshotRecords]
      /\ data \in [Snapshots -> Copies]
  BY TypeFacts
<1> QED
  BY <1>1
     DEF pruneData, Jobs, SnapshotRecords, Stops, Statuses, OthersJobs, OthersSnapshots,
         OthersData, wal, snapshots

LEMMA PruneSnapshotIs ==
  ASSUME TypeOK, NEW s \in Snapshots, NEW v \in Snapshots, pruneSnapshot(s, v)
  PROVE  /\ job[s].pc = "pruning" /\ v \in job[s].old /\ data[v] = <<>>
         /\ \/ job'[s] = Ended
            \/ job'[s].pc = "pruning" /\ job'[s].old = job[s].old \ {v}
         /\ OthersJobs(s)
         /\ snapshot'[v] = NoSnapshot
         /\ OthersSnapshots(v)
         /\ UNCHANGED <<history, stamp, recorded, backedUp, pruned, clock, data, vault>>
<1>1. job \in [Snapshots -> Jobs] /\ snapshot \in [Snapshots -> SnapshotRecords]
      /\ data \in [Snapshots -> Copies]
  BY TypeFacts
<1> QED
  BY <1>1, EndIs
     DEF pruneSnapshot, Goto, Jobs, SnapshotRecords, Stops, Statuses, OthersJobs,
         OthersSnapshots, OthersData, wal, snapshots
-----------------------------------------------------------------------------
\* What work may do to the jobs and the snapshots, the one at work and others.
Effect ==
  /\ UNCHANGED <<history, stamp, recorded, clock>>
  /\ \A n \in pruned' \ pruned : n \in recorded /\ stamp[n] + WalDays < clock
  /\ \A v \in Snapshots :
       /\ Active(v)' =>
            \/ Active(v) /\ snapshot'[v].createdAt = snapshot[v].createdAt
            \/ snapshot'[v].createdAt = clock
       /\ snapshot'[v].createdAt \in {snapshot[v].createdAt, clock, 0}
       /\ snapshot'[v].last \in {snapshot[v].last, issued, 0}
       /\ Counted(v)' =>
            \/ /\ Counted(v) /\ snapshot'[v].last = snapshot[v].last
               /\ snapshot'[v].createdAt = snapshot[v].createdAt
               /\ Active(v)' => Active(v)
            \/ snapshot'[v].last = issued
       /\ job'[v].old \subseteq job[v].old \union OldSnapshots
       /\ job[v].pc = "ended" =>
            /\ job'[v].pc = "ended"
            /\ snapshot'[v] = snapshot[v] \/ snapshot'[v].status = "none"

LEMMA WorkEffect ==
  ASSUME TypeOK, AtStage, OldIsOver, NEW s \in Snapshots, Work(s)
  PROVE  Effect
<1>0. /\ job \in [Snapshots -> Jobs] /\ snapshot \in [Snapshots -> SnapshotRecords]
      /\ pruned \subseteq recorded /\ backedUp \subseteq recorded
  BY TypeFacts DEF TypeOK
<1>j. ASSUME UNCHANGED <<history, stamp, recorded, pruned, clock, snapshot>>, OthersJobs(s),
             Active(s), job'[s].pc # "inserting",
             job'[s] = Ended \/ job'[s].old = job[s].old
      PROVE  Effect
  BY <1>j DEF Effect, Counted, OthersJobs, Active, Ended
<1>1. ASSUME NEW backup \in BOOLEAN, createSnapshot(s, backup) PROVE Effect
  BY <1>0, <1>1, CreateSnapshotIs DEF Effect, Counted, AtStage, Stages, OthersJobs, OthersSnapshots, Active
<1>16. CASE countEntries(s)
  BY <1>0, <1>16, CountEntriesIs DEF Effect, Counted, OthersJobs, OthersSnapshots, Active
<1>2. CASE insertSnapshot(s)
  BY <1>0, <1>2, InsertSnapshotIs DEF Effect, Counted, OthersJobs, OthersSnapshots, Active
<1>3. CASE snapshotFails(s)
  BY <1>0, <1>3, SnapshotFailsIs
     DEF Effect, Counted, AtStage, Stages, OthersJobs, OthersSnapshots, Active, Ended
<1>4. CASE completeSnapshot(s)
  BY <1>0, <1>4, CompleteSnapshotIs
     DEF Effect, Counted, AtStage, Stages, OthersJobs, OthersSnapshots, Active, Ended
<1>5. ASSUME NEW c \in Collections, storeSnapshotData(s, c) PROVE Effect
  BY <1>0, <1>5, StoreSnapshotDataIs DEF Effect, Counted, Active
<1>6. CASE findEntries(s)
  BY <1>j, <1>6, FindEntriesIs DEF Active, Ended
<1>7. CASE upload(s)
  BY <1>j, <1>7, UploadIs DEF Active, Ended
<1>8. CASE uploadFails(s)
  BY <1>j, <1>8, UploadFailsIs DEF Active, Ended
<1>9. CASE abort(s)
  BY <1>j, <1>9, AbortIs DEF Active, Ended
<1>10. CASE markSnapshot(s)
  BY <1>0, <1>10, MarkSnapshotIs
     DEF Effect, Counted, AtStage, Stages, OthersJobs, OthersSnapshots, Active
<1>11. CASE markEntries(s)
  BY <1>j, <1>11, MarkEntriesIs DEF Active, Ended
<1>12. CASE pruneEntries(s)
  <2>1. \A n \in pruned' \ pruned : n \in recorded /\ stamp[n] + WalDays < clock
    BY <1>0, <1>12, PruneEntriesIs DEF OldEntries, Entries
  <2> QED
    BY <1>0, <1>12, <2>1, PruneEntriesIs DEF Effect, Counted, OthersJobs, Active
<1>13. CASE listOldSnapshots(s)
  BY <1>0, <1>13, ListOldSnapshotsIs DEF Effect, Counted, OthersJobs, Active, Ended
<1>14. ASSUME NEW v \in Snapshots, pruneData(s, v) PROVE Effect
  BY <1>0, <1>14, PruneDataIs DEF Effect, Counted, Active
<1>15. ASSUME NEW v \in Snapshots, pruneSnapshot(s, v) PROVE Effect
  <2>1. job[v].pc = "ended" /\ v # s
    BY <1>15, PruneSnapshotIs DEF OldIsOver
  <2>2. NoSnapshot.status = "none" /\ NoSnapshot.createdAt = 0 /\ NoSnapshot.last = 0
    BY DEF NoSnapshot
  <2> QED
    BY <1>0, <1>15, <2>1, <2>2, PruneSnapshotIs
       DEF Effect, Counted, OthersJobs, OthersSnapshots, Active, Ended
<1> QED
  BY <1>1, <1>2, <1>3, <1>4, <1>5, <1>6, <1>7, <1>8, <1>9, <1>10, <1>11, <1>12, <1>13, <1>14,
     <1>15, <1>16 DEF Work

\* The three steps of the database and the tick, beside which jobs and snapshots rest.
LEMMA OutsideIs ==
  ASSUME TypeOK, Database \/ Tick \/ UNCHANGED vars
  PROVE  /\ UNCHANGED <<snapshot, data, job, vault, backedUp, pruned>>
         /\ recorded \subseteq recorded'
         /\ \/ stamp' = stamp /\ clock' \in {clock, clock + 1}
            \/ issued < Len(history) /\ stamp' = Append(stamp, clock)
               /\ UNCHANGED <<history, recorded, clock>>
  BY DEF Database, change, number, record, Tick, vars, wal, snapshots

LEMMA StepBounded == IInv /\ [Next]_vars => Bounded'
<1> SUFFICES ASSUME IInv, [Next]_vars PROVE Bounded'
  OBVIOUS
<1>0. /\ history \in History /\ Len(history) \in Nat /\ clock \in Nat /\ issued \in Nat
      /\ snapshot \in [Snapshots -> SnapshotRecords] /\ stamp \in Seq(Nat)
      /\ recorded \subseteq 1..issued /\ issued <= Len(history)
      /\ \A n \in 1..issued : stamp[n] <= clock /\ stamp[n] \in Nat
  BY TypeFacts DEF IInv, Bounded, TypeOK
<1>1. ASSUME Effect PROVE Bounded'
  <2>1. issued' = issued /\ UNCHANGED <<history, stamp, recorded, clock>>
    BY <1>1 DEF Effect, issued
  <2>2. \A v \in Snapshots : snapshot[v].createdAt <= clock /\ snapshot[v].last <= issued
                               /\ (Active(v) => clock <= snapshot[v].createdAt + JobDays)
    BY DEF IInv, Bounded
  <2>3. \A v \in Snapshots : snapshot'[v].createdAt <= clock /\ snapshot'[v].last <= issued
    BY <1>0, <1>1, <2>2 DEF Effect
  <2>4. \A v \in Snapshots : Active(v)' => clock <= snapshot'[v].createdAt + JobDays
    BY <1>0, <1>1, <2>2, RetentionAssumption DEF Effect
  <2> QED
    BY <1>0, <2>1, <2>3, <2>4 DEF Bounded
<1>2. ASSUME UNCHANGED <<snapshot, job>>, clock' = clock, issued <= issued',
             issued' \in Nat, issued' <= Len(history'), recorded' \subseteq 1..issued',
             \A n \in 1..issued' : stamp'[n] <= clock
      PROVE  Bounded'
  <2>1. \A v \in Snapshots : snapshot[v].last \in Nat /\ snapshot[v].last <= issued
    BY <1>0 DEF IInv, Bounded, SnapshotRecords
  <2>2. \A v \in Snapshots : snapshot'[v].createdAt <= clock' /\ snapshot'[v].last <= issued'
    BY <1>0, <1>2, <2>1 DEF IInv, Bounded
  <2>3. \A v \in Snapshots : Active(v)' => clock' <= snapshot'[v].createdAt + JobDays
    BY <1>2 DEF IInv, Bounded, Active
  <2> QED
    BY <1>2, <2>2, <2>3 DEF Bounded
<1>3. CASE \E c \in Collections, delete \in BOOLEAN : change(c, delete)
  <2>1. PICK e : history' = Append(history, e)
    BY <1>3 DEF change
  <2>2. Len(history') = Len(history) + 1
    BY <1>0, <2>1 DEF History
  <2>3. issued' = issued /\ UNCHANGED <<snapshot, job, clock, recorded, stamp>>
    BY <1>3 DEF change, issued, wal, snapshots
  <2> QED
    BY <1>0, <1>2, <2>2, <2>3
<1>4. CASE number
  <2>1. issued' = issued + 1 /\ \A n \in 1..(issued + 1) : stamp'[n] <= clock
    BY <1>0, <1>4 DEF number, issued
  <2>2. UNCHANGED <<snapshot, job, clock, recorded, history>> /\ issued < Len(history)
    BY <1>4 DEF number, snapshots
  <2> QED
    BY <1>0, <1>2, <2>1, <2>2
<1>5. ASSUME NEW n \in 1..issued, record(n) PROVE Bounded'
  <2>1. issued' = issued /\ recorded' = recorded \union {n}
    BY <1>5 DEF record, issued
  <2>2. UNCHANGED <<snapshot, job, clock, stamp, history>>
    BY <1>5 DEF record, snapshots
  <2> QED
    BY <1>0, <1>2, <2>1, <2>2
<1>6. CASE Tick
  <2>1. /\ issued' = issued /\ UNCHANGED <<snapshot, job, stamp, history, recorded>>
        /\ clock' = clock + 1
        /\ \A v \in Snapshots : Active(v) => clock < snapshot[v].createdAt + JobDays
    BY <1>6 DEF Tick, issued, wal, snapshots
  <2>2. \A v \in Snapshots : Active(v)' => Active(v)
    BY <2>1 DEF Active
  <2>3. \A v \in Snapshots : snapshot[v].createdAt \in Nat
    BY <1>0 DEF SnapshotRecords
  <2>4. \A v \in Snapshots : clock + 1 <= snapshot[v].createdAt + JobDays \/ ~Active(v)'
    BY <1>0, <2>1, <2>2, <2>3, RetentionAssumption
  <2>5. \A v \in Snapshots : snapshot[v].createdAt <= clock + 1 /\ snapshot[v].last <= issued
    BY <1>0, <2>3 DEF IInv, Bounded
  <2>6. \A n \in 1..issued : stamp[n] <= clock + 1
    BY <1>0
  <2> QED
    BY <1>0, <2>1, <2>4, <2>5, <2>6 DEF Bounded
<1>7. CASE UNCHANGED vars
  BY <1>0, <1>2, <1>7 DEF vars, wal, snapshots, issued
<1> QED
  BY <1>1, <1>3, <1>4, <1>5, <1>6, <1>7, WorkEffect DEF IInv, Next, Database

LEMMA StepReaches == IInv /\ [Next]_vars => Reaches'
<1> SUFFICES ASSUME IInv, [Next]_vars PROVE Reaches'
  OBVIOUS
<1>0. /\ clock \in Nat /\ issued \in Nat /\ stamp \in Seq(Nat)
      /\ snapshot \in [Snapshots -> SnapshotRecords]
      /\ \A v \in Snapshots : snapshot[v].createdAt \in Nat /\ snapshot[v].createdAt <= clock
  BY TypeFacts DEF IInv, Bounded, TypeOK, SnapshotRecords
<1>1. ASSUME Effect PROVE Reaches'
  <2>1. stamp' = stamp /\ issued' = issued
    BY <1>1 DEF Effect, issued
  <2>2. ASSUME NEW v \in Snapshots, Counted(v)', NEW n \in 1..issued,
               stamp[n] < snapshot'[v].createdAt
        PROVE  n <= snapshot'[v].last
    BY <1>0, <1>1, <2>2 DEF Effect, IInv, Reaches
  <2> QED
    BY <2>1, <2>2 DEF Reaches
<1>2. ASSUME Database \/ Tick \/ UNCHANGED vars PROVE Reaches'
  <2>1. snapshot' = snapshot /\ job' = job
    BY <1>2, OutsideIs DEF IInv
  <2>2. CASE stamp' = stamp
    BY <2>1, <2>2 DEF Counted, IInv, Reaches, issued
  <2>3. CASE stamp' = Append(stamp, clock)
    <3>1. /\ issued' = issued + 1 /\ stamp'[issued + 1] = clock
          /\ \A n \in 1..issued : stamp'[n] = stamp[n]
      BY <1>0, <2>3 DEF issued
    <3>2. \A n \in 1..issued' : n \in 1..issued \/ n = issued + 1
      BY <1>0, <3>1
    <3>3. ASSUME NEW v \in Snapshots, Counted(v), NEW n \in 1..issued',
                 stamp'[n] < snapshot[v].createdAt
          PROVE  n <= snapshot[v].last
      <4>1. n # issued + 1
        BY <1>0, <3>1, <3>3
      <4>2. n \in 1..issued /\ stamp[n] < snapshot[v].createdAt
        BY <3>1, <3>2, <3>3, <4>1
      <4> QED
        BY <3>3, <4>2 DEF IInv, Reaches
    <3> QED
      BY <2>1, <3>3 DEF Counted, Reaches
  <2> QED
    BY <1>2, <2>2, <2>3, OutsideIs DEF IInv
<1> QED
  BY <1>1, <1>2, WorkEffect DEF IInv, Next

LEMMA StepNotOvertaken == IInv /\ Bounded' /\ Reaches' /\ [Next]_vars => NotOvertaken'
<1> SUFFICES ASSUME IInv, Bounded', Reaches', [Next]_vars PROVE NotOvertaken'
  OBVIOUS
<1>1. ASSUME Effect PROVE NotOvertaken'
  <2>0. /\ UNCHANGED <<stamp, clock>> /\ issued' = issued /\ issued \in Nat /\ clock \in Nat
        /\ \A n \in 1..issued : stamp[n] \in Nat
        /\ pruned \subseteq recorded /\ recorded \subseteq 1..issued
    BY <1>1, TypeFacts DEF Effect, issued, IInv, TypeOK, Bounded
  <2>1. ASSUME NEW v \in Snapshots, Active(v)', Counted(v)', NEW n \in pruned'
        PROVE  n <= snapshot'[v].last
    <3>1. CASE n \in pruned
      <4>1. n \in 1..issued
        BY <2>0, <3>1
      <4> QED
        BY <1>1, <2>0, <2>1, <3>1, <4>1 DEF Effect, IInv, NotOvertaken
    <3>2. CASE n \notin pruned
      <4>1. n \in 1..issued /\ stamp[n] + WalDays < clock
        BY <1>1, <2>0, <2>1, <3>2 DEF Effect
      <4>2. clock <= snapshot'[v].createdAt + JobDays
        BY <2>0, <2>1 DEF Bounded
      <4>3. snapshot'[v].createdAt \in Nat
        BY <1>1, <2>0, TypeFacts DEF Effect, IInv, SnapshotRecords
      <4>4. stamp[n] < snapshot'[v].createdAt
        BY <2>0, <4>1, <4>2, <4>3, RetentionAssumption
      <4> QED
        BY <2>0, <2>1, <4>1, <4>4 DEF Reaches
    <3> QED
      BY <3>1, <3>2
  <2> QED
    BY <2>1 DEF NotOvertaken
<1>2. ASSUME Database \/ Tick \/ UNCHANGED vars PROVE NotOvertaken'
  BY <1>2, OutsideIs DEF Counted, IInv, NotOvertaken, Active
<1> QED
  BY <1>1, <1>2, WorkEffect DEF IInv, Next

LEMMA StepOldIsOver == IInv /\ [Next]_vars => OldIsOver'
<1> SUFFICES ASSUME IInv, [Next]_vars PROVE OldIsOver'
  OBVIOUS
<1>0. /\ clock \in Nat /\ \A v \in Snapshots : snapshot[v].createdAt \in Nat
      /\ job \in [Snapshots -> Jobs]
  BY TypeFacts DEF IInv, SnapshotRecords
<1>1. \A v \in OldSnapshots :
        v \in Snapshots /\ job[v].pc = "ended" /\ snapshot[v].createdAt + SnapshotDays < clock
  <2> SUFFICES ASSUME NEW v \in OldSnapshots
               PROVE  v \in Snapshots /\ job[v].pc = "ended"
                        /\ snapshot[v].createdAt + SnapshotDays < clock
    OBVIOUS
  <2>1. v \in Snapshots /\ snapshot[v].external /\ snapshot[v].createdAt + SnapshotDays < clock
    BY DEF OldSnapshots
  <2>2. job[v].pc # "idle"
    BY <2>1 DEF IInv, AtStage, Stages
  <2>3. ~Active(v)
    BY <1>0, <2>1, RetentionAssumption DEF IInv, Bounded
  <2> QED
    BY <2>1, <2>2, <2>3 DEF Active
<1>2. ASSUME Effect PROVE OldIsOver'
  <2>1. ASSUME NEW u \in Snapshots, NEW v \in job'[u].old
        PROVE  /\ job'[v].pc = "ended"
               /\ snapshot'[v].status = "none" \/ snapshot'[v].createdAt + SnapshotDays < clock
    <3>1. v \in job[u].old \/ v \in OldSnapshots
      BY <1>2, <2>1 DEF Effect
    <3>2. v \in Snapshots
      BY <1>0, <1>1, <3>1 DEF Jobs
    <3>3. /\ job[v].pc = "ended"
          /\ snapshot[v].status = "none" \/ snapshot[v].createdAt + SnapshotDays < clock
      BY <1>1, <3>1 DEF IInv, OldIsOver
    <3> QED
      BY <1>2, <3>2, <3>3 DEF Effect
  <2> QED
    BY <1>2, <2>1 DEF Effect, OldIsOver
<1>3. ASSUME Database \/ Tick \/ UNCHANGED vars PROVE OldIsOver'
  <2>1. UNCHANGED <<snapshot, job>> /\ clock' \in {clock, clock + 1}
    BY <1>3, OutsideIs DEF IInv
  <2>2. \A u \in Snapshots : \A v \in job[u].old : v \in Snapshots
    BY <1>0 DEF Jobs
  <2> QED
    BY <1>0, <2>1, <2>2, RetentionAssumption DEF IInv, OldIsOver
<1> QED
  BY <1>2, <1>3, WorkEffect DEF IInv, Next
-----------------------------------------------------------------------------
LEMMA StagesKept ==
  ASSUME TypeOK, [Next]_vars, NEW v \in Snapshots, Stages(v), vault \subseteq vault',
         job'[v] = job[v], snapshot'[v] = snapshot[v], data'[v] = data[v]
  PROVE  Stages(v)'
<1>0. snapshot[v].last \in Nat /\ \A p \in vault : p.last \in Nat
  BY TypeFacts DEF SnapshotRecords
<1>1. Covers(data[v], snapshot[v].last) => Covers(data[v], snapshot[v].last)'
  BY <1>0, CoversStays DEF Covers
<1>2. \A p \in vault : Covers(p.data, p.last) => Covers(p.data, p.last)'
  BY <1>0, CoversStays DEF Covers
<1>3. job[v].pc = "copying" =>
        \A c \in DOMAIN data[v] : data[v][c] \in Since(history', c, snapshot[v].last)
  <2>1. DOMAIN data[v] \subseteq Collections
    BY TypeFacts DEF Copies
  <2> QED
    BY <1>0, <2>1, SinceStays DEF Stages
<1> QED
  BY <1>1, <1>2, <1>3 DEF Stages

LEMMA StepAtStage == IInv /\ [Next]_vars => AtStage'
<1> SUFFICES ASSUME IInv, [Next]_vars PROVE AtStage'
  OBVIOUS
<1>0. /\ snapshot \in [Snapshots -> SnapshotRecords] /\ job \in [Snapshots -> Jobs]
      /\ data \in [Snapshots -> Copies] /\ history \in History
      /\ recorded \subseteq 1..issued /\ issued <= Len(history) /\ issued \in Nat
      /\ TypeOK /\ \A v \in Snapshots : Stages(v)
  BY TypeFacts DEF IInv, Bounded, AtStage
<1>1. ASSUME NEW s \in Snapshots, vault \subseteq vault', OthersJobs(s), OthersSnapshots(s),
             OthersData(s), Stages(s)'
      PROVE  AtStage'
  <2>1. ASSUME NEW v \in Snapshots, v # s PROVE Stages(v)'
    BY <1>0, <1>1, <2>1, StagesKept DEF OthersJobs, OthersSnapshots, OthersData
  <2> QED
    BY <1>1, <2>1 DEF AtStage
<1>j. ASSUME NEW s \in Snapshots, Active(s), job'[s] = Ended,
             snapshot'[s] = snapshot[s], data'[s] = data[s]
      PROVE  Stages(s)'
  <2>1. snapshot[s].last \in Nat
    BY <1>0 DEF SnapshotRecords
  <2>2. Covers(data[s], snapshot[s].last) => Covers(data[s], snapshot[s].last)'
    BY <1>0, <1>j, <2>1, CoversStays DEF Covers
  <2>3. job'[s].pc = "ended"
    BY <1>j DEF Ended
  <2>4. /\ snapshot[s].external <=> snapshot[s].status = "backed_up"
        /\ snapshot[s].status \in Finished /\ data[s] # <<>> => Covers(data[s], snapshot[s].last)
    BY <1>0 DEF Stages
  <2> QED
    BY <1>j, <2>2, <2>3, <2>4 DEF Stages
<1>2. ASSUME NEW s \in Snapshots, NEW backup \in BOOLEAN, createSnapshot(s, backup)
      PROVE  AtStage'
  <2>1. Stages(s)'
    BY <1>0, <1>2, CreateSnapshotIs DEF Stages, Finished
  <2> QED
    BY <1>0, <1>1, <1>2, <2>1, CreateSnapshotIs DEF OthersData
<1>c. ASSUME NEW s \in Snapshots, countEntries(s) PROVE AtStage'
  <2>1. Stages(s)'
    BY <1>0, <1>c, CountEntriesIs DEF Stages, Finished
  <2> QED
    BY <1>0, <1>1, <1>c, <2>1, CountEntriesIs DEF OthersData
<1>3. ASSUME NEW s \in Snapshots, insertSnapshot(s) PROVE AtStage'
  <2>1. DOMAIN data[s] = {}
    BY <1>0, <1>3, InsertSnapshotIs DEF Stages
  <2>2. Stages(s)'
    BY <1>0, <1>3, <2>1, InsertSnapshotIs DEF Stages, Finished
  <2> QED
    BY <1>0, <1>1, <1>3, <2>2, InsertSnapshotIs DEF OthersData
<1>4. ASSUME NEW s \in Snapshots, snapshotFails(s) PROVE AtStage'
  <2>1. Stages(s)'
    BY <1>0, <1>4, SnapshotFailsIs DEF Stages, Finished, Ended
  <2> QED
    BY <1>0, <1>1, <1>4, <2>1, SnapshotFailsIs DEF OthersData
<1>5. ASSUME NEW s \in Snapshots, completeSnapshot(s) PROVE AtStage'
  <2>1. Covers(data[s], snapshot[s].last)'
    BY <1>0, <1>5, CompleteSnapshotIs DEF Stages, Covers
  <2>2. Stages(s)'
    BY <1>0, <1>5, <2>1, CompleteSnapshotIs DEF Stages, Finished, Ended
  <2> QED
    BY <1>0, <1>1, <1>5, <2>2, CompleteSnapshotIs DEF OthersData
<1>6. ASSUME NEW s \in Snapshots, NEW c \in Collections, storeSnapshotData(s, c)
      PROVE  AtStage'
  <2>0. snapshot[s].last \in 0..Len(history)
    BY <1>0 DEF SnapshotRecords, IInv, Bounded, History
  <2>1. DOMAIN data[s] \subseteq Collections
    BY <1>0 DEF Copies
  <2>2. \A d \in Collections : Now(d) \in Since(history, d, snapshot[s].last)
    BY <1>0, <2>0, NowIsSince DEF Now
  <2>3. \A d \in DOMAIN data'[s] : data'[s][d] \in Since(history, d, snapshot[s].last)
    BY <1>0, <1>6, <2>1, <2>2, StoreSnapshotDataIs DEF Stages
  <2>4. Stages(s)'
    BY <1>0, <1>6, <2>3, StoreSnapshotDataIs DEF Stages, Finished
  <2> QED
    BY <1>0, <1>1, <1>6, <2>4, StoreSnapshotDataIs DEF OthersJobs, OthersSnapshots
<1>7. ASSUME NEW s \in Snapshots, findEntries(s) PROVE AtStage'
  <2>1. job'[s].found \subseteq 1..snapshot[s].last
    BY <1>0, <1>7, FindEntriesIs DEF Entries, SnapshotRecords
  <2>2. Stages(s)'
    BY <1>0, <1>7, <2>1, FindEntriesIs DEF Stages, Finished, Covers
  <2> QED
    BY <1>0, <1>1, <1>7, <2>2, FindEntriesIs DEF OthersData, OthersSnapshots
<1>8. ASSUME NEW s \in Snapshots, upload(s) PROVE AtStage'
  <2>1. \E p \in vault' : p.last = snapshot[s].last /\ p.data = data[s]
    <3> DEFINE package ==
          [last |-> snapshot[s].last, data |-> data[s], entries |-> job[s].found]
    <3>0. vault' = vault \union {package}
      BY <1>8 DEF upload
    <3>1. package \in vault'
      BY <3>0
    <3>2. package.last = snapshot[s].last /\ package.data = data[s]
      OBVIOUS
    <3> QED
      BY <3>1, <3>2
  <2>2. Covers(data[s], snapshot[s].last)
    BY <1>0, <1>8, UploadIs DEF Stages
  <2>3. Stages(s)'
    BY <1>0, <1>8, <2>1, <2>2, UploadIs DEF Stages, Finished, Covers
  <2> QED
    BY <1>0, <1>1, <1>8, <2>3, UploadIs DEF OthersData, OthersSnapshots
<1>9. ASSUME NEW s \in Snapshots, uploadFails(s) \/ abort(s) PROVE AtStage'
  <2>1. Stages(s)'
    BY <1>0, <1>j, <1>9, UploadFailsIs, AbortIs DEF Active
  <2> QED
    BY <1>0, <1>1, <1>9, <2>1, UploadFailsIs, AbortIs DEF OthersData, OthersSnapshots
<1>10. ASSUME NEW s \in Snapshots, markSnapshot(s) PROVE AtStage'
  <2>1. Covers(data[s], snapshot[s].last)'
    BY <1>0, <1>10, MarkSnapshotIs DEF Stages, Covers
  <2>0. /\ job[s].pc = "marking" /\ snapshot'[s].last = snapshot[s].last
        /\ vault' = vault /\ history' = history
    BY <1>0, <1>10, MarkSnapshotIs
  <2>4. PICK p \in vault : p.last = snapshot[s].last /\ Covers(p.data, p.last)
    BY <1>0, <2>0 DEF Stages
  <2>2. p \in vault' /\ p.last = snapshot'[s].last /\ Covers(p.data, p.last)'
    BY <2>0, <2>4 DEF Covers
  <2>3. Stages(s)'
    BY <1>0, <1>10, <2>1, <2>2, MarkSnapshotIs DEF Stages, Finished
  <2> QED
    BY <1>0, <1>1, <1>10, <2>3, MarkSnapshotIs DEF OthersData
<1>11. ASSUME NEW s \in Snapshots, markEntries(s) \/ pruneEntries(s) PROVE AtStage'
  <2>1. Stages(s)'
    BY <1>0, <1>11, MarkEntriesIs, PruneEntriesIs DEF Stages, Finished, Covers
  <2> QED
    BY <1>0, <1>1, <1>11, <2>1, MarkEntriesIs, PruneEntriesIs DEF OthersData, OthersSnapshots
<1>12. ASSUME NEW s \in Snapshots, listOldSnapshots(s) PROVE AtStage'
  <2>1. CASE job'[s] = Ended
    <3>1. Stages(s)'
      BY <1>0, <1>j, <1>12, <2>1, ListOldSnapshotsIs DEF Active
    <3> QED
      BY <1>0, <1>1, <1>12, <3>1, ListOldSnapshotsIs DEF OthersData, OthersSnapshots
  <2>2. CASE job'[s].pc = "pruning"
    <3>1. Stages(s)'
      BY <1>0, <1>12, <2>2, ListOldSnapshotsIs DEF Stages, Finished, Covers
    <3> QED
      BY <1>0, <1>1, <1>12, <3>1, ListOldSnapshotsIs DEF OthersData, OthersSnapshots
  <2> QED
    BY <1>0, <1>12, <2>1, <2>2, ListOldSnapshotsIs
<1>13. ASSUME NEW s \in Snapshots, NEW v \in Snapshots, pruneData(s, v) PROVE AtStage'
  <2>1. job[v].pc = "ended"
    BY <1>0, <1>13, PruneDataIs DEF IInv, OldIsOver
  <2>2. Stages(v)'
    BY <1>0, <1>13, <2>1, PruneDataIs DEF Stages, Finished
  <2> QED
    BY <1>0, <1>1, <1>13, <2>2, PruneDataIs DEF OthersJobs, OthersSnapshots
<1>14. ASSUME NEW s \in Snapshots, NEW v \in Snapshots, pruneSnapshot(s, v) PROVE AtStage'
  <2>1. job[v].pc = "ended" /\ v # s
    BY <1>0, <1>14, PruneSnapshotIs DEF IInv, OldIsOver
  <2>2. Stages(v)'
    BY <1>0, <1>14, <2>1, PruneSnapshotIs DEF Stages, Finished, NoSnapshot, OthersJobs
  <2>3. Stages(s)'
    <3>1. CASE job'[s] = Ended
      BY <1>0, <1>j, <1>14, <2>1, <3>1, PruneSnapshotIs DEF Active, OthersSnapshots
    <3>2. CASE job'[s].pc = "pruning"
      BY <1>0, <1>14, <2>1, <3>2, PruneSnapshotIs DEF Stages, Finished, Covers, OthersSnapshots
    <3> QED
      BY <1>0, <1>14, <3>1, <3>2, PruneSnapshotIs
  <2>4. ASSUME NEW u \in Snapshots, u # s, u # v PROVE Stages(u)'
    BY <1>0, <1>14, <2>4, PruneSnapshotIs, StagesKept DEF OthersJobs, OthersSnapshots
  <2> QED
    BY <2>2, <2>3, <2>4 DEF AtStage
<1>15. ASSUME Database \/ Tick \/ UNCHANGED vars PROVE AtStage'
  <2>1. ASSUME NEW v \in Snapshots PROVE Stages(v)'
    BY <1>0, <1>15, OutsideIs, StagesKept
  <2> QED
    BY <2>1 DEF AtStage
<1> QED
  BY <1>c, <1>2, <1>3, <1>4, <1>5, <1>6, <1>7, <1>8, <1>9, <1>10, <1>11, <1>12, <1>13, <1>14, <1>15
     DEF Next, Work
-----------------------------------------------------------------------------
LEMMA StepMarkedIsCovered == IInv /\ [Next]_vars => MarkedIsCovered'
<1> SUFFICES ASSUME IInv, [Next]_vars PROVE MarkedIsCovered'
  OBVIOUS
<1>0. TypeOK /\ \A p \in vault : p.last \in Nat
  BY TypeFacts DEF IInv
<1>1. ASSUME vault \subseteq vault',
             \A n \in backedUp' \ backedUp : \E p \in vault : n <= p.last /\ Covers(p.data, p.last)
      PROVE  MarkedIsCovered'
  <2>1. \A p \in vault : Covers(p.data, p.last) => Covers(p.data, p.last)'
    BY <1>0, CoversStays DEF Covers
  <2>2. \A n \in backedUp' : \E p \in vault : n <= p.last /\ Covers(p.data, p.last)
    BY <1>1 DEF IInv, MarkedIsCovered
  <2> QED
    BY <1>1, <2>1, <2>2 DEF MarkedIsCovered
<1>2. ASSUME NEW s \in Snapshots, markEntries(s) PROVE MarkedIsCovered'
  <2>1. \E p \in vault : p.last = snapshot[s].last /\ Covers(p.data, p.last)
    BY <1>0, <1>2, MarkEntriesIs DEF IInv, AtStage, Stages
  <2> QED
    BY <1>0, <1>1, <1>2, <2>1, MarkEntriesIs
<1>3. ASSUME NEW s \in Snapshots, Work(s), ~markEntries(s)
      PROVE  backedUp' = backedUp /\ vault \subseteq vault'
  BY <1>3 DEF Work, createSnapshot, countEntries, insertSnapshot, storeSnapshotData, completeSnapshot,
     snapshotFails, findEntries, upload, uploadFails, markSnapshot, pruneEntries,
     listOldSnapshots, pruneData, pruneSnapshot, abort, wal
<1>4. ASSUME Database \/ Tick \/ UNCHANGED vars
      PROVE  backedUp' = backedUp /\ vault \subseteq vault'
  BY <1>0, <1>4, OutsideIs
<1> QED
  BY <1>1, <1>2, <1>3, <1>4 DEF Next

\* What a step leaves of the snapshots that are finished.
Kept(v) == snapshot'[v].status \in Finished /\ snapshot'[v].last = snapshot[v].last
             /\ snapshot'[v].createdAt = snapshot[v].createdAt
             /\ data'[v] = data[v]
             /\ (snapshot[v].status = "backed_up" => snapshot'[v].status = "backed_up")

\* Only cleanup takes anything from a finished snapshot, and only cleanup
\* deletes entries.
LEMMA OnlyCleanup ==
  ASSUME TypeOK, AtStage, NEW s \in Snapshots, Work(s),
         ~pruneEntries(s), \A v \in Snapshots : ~pruneData(s, v) /\ ~pruneSnapshot(s, v)
  PROVE  /\ pruned' = pruned
         /\ \A v \in Snapshots : snapshot[v].status \in Finished => Kept(v)
         /\ \A v \in Snapshots : snapshot'[v].status \in Finished =>
              \/ snapshot[v].status \in Finished
              \/ /\ v = s /\ completeSnapshot(s)
<1> DEFINE Goal == /\ pruned' = pruned
                   /\ \A v \in Snapshots : snapshot[v].status \in Finished => Kept(v)
                   /\ \A v \in Snapshots : snapshot'[v].status \in Finished =>
                        \/ snapshot[v].status \in Finished
                        \/ /\ v = s /\ completeSnapshot(s)
<1>0. Stages(s)
  BY DEF AtStage
<1>1. ASSUME NEW backup \in BOOLEAN, createSnapshot(s, backup) PROVE Goal
  BY <1>0, <1>1, CreateSnapshotIs DEF Stages, Kept, Finished, OthersSnapshots
<1>c. CASE countEntries(s)
  BY <1>0, <1>c, CountEntriesIs DEF Stages, Kept, Finished, OthersSnapshots
<1>2. CASE insertSnapshot(s)
  BY <1>0, <1>2, InsertSnapshotIs DEF Stages, Kept, Finished, OthersSnapshots
<1>3. CASE snapshotFails(s)
  BY <1>0, <1>3, SnapshotFailsIs DEF Stages, Kept, Finished, OthersSnapshots
<1>4. CASE completeSnapshot(s)
  BY <1>0, <1>4, CompleteSnapshotIs DEF Stages, Kept, Finished, OthersSnapshots
<1>5. ASSUME NEW c \in Collections, storeSnapshotData(s, c) PROVE Goal
  BY <1>0, <1>5, StoreSnapshotDataIs DEF Stages, Kept, Finished, OthersData
<1>6. CASE markSnapshot(s)
  BY <1>0, <1>6, MarkSnapshotIs DEF Stages, Kept, Finished, OthersSnapshots
<1>7. ASSUME UNCHANGED <<pruned, snapshot, data>> PROVE Goal
  BY <1>7 DEF Kept
<1>8. CASE findEntries(s) \/ upload(s) \/ uploadFails(s) \/ abort(s) \/ markEntries(s)
             \/ listOldSnapshots(s)
  BY <1>7, <1>8, FindEntriesIs, UploadIs, UploadFailsIs, AbortIs, MarkEntriesIs,
     ListOldSnapshotsIs
<1> QED
  BY <1>1, <1>c, <1>2, <1>3, <1>4, <1>5, <1>6, <1>8 DEF Work

\* A job at work is the witness for all that cleanup takes away from others.
LEMMA StepPrunedIsCovered == IInv /\ [Next]_vars => PrunedIsCovered'
<1> SUFFICES ASSUME IInv, [Next]_vars PROVE PrunedIsCovered'
  OBVIOUS
<1>0. /\ TypeOK /\ AtStage /\ snapshot \in [Snapshots -> SnapshotRecords]
      /\ \A v \in Snapshots : snapshot[v].last \in Nat
      /\ clock \in Nat /\ issued \in Nat /\ \A n \in 1..issued : stamp[n] \in Nat
      /\ recorded \subseteq 1..issued
  BY TypeFacts DEF IInv, SnapshotRecords, Bounded
<1>1. \A v \in Snapshots :
        Covers(data[v], snapshot[v].last) => Covers(data[v], snapshot[v].last)' \/
          data'[v] # data[v] \/ snapshot'[v].last # snapshot[v].last
  BY <1>0, CoversStays DEF Covers
<1>2. ASSUME pruned' = pruned,
             \A v \in Snapshots : snapshot[v].status \in Finished => Kept(v)
      PROVE  PrunedIsCovered'
  BY <1>1, <1>2 DEF IInv, PrunedIsCovered, Kept, Finished
<1>3. ASSUME NEW s \in Snapshots, job[s].pc \in {"cleaning", "pruning"},
             snapshot'[s] = snapshot[s], data'[s] = data[s],
             \A n \in pruned' : n <= snapshot[s].last
      PROVE  PrunedIsCovered'
  <2>1. snapshot[s].status = "backed_up" /\ Covers(data[s], snapshot[s].last)
    BY <1>0, <1>3 DEF AtStage, Stages
  <2> QED
    BY <1>1, <1>3, <2>1 DEF PrunedIsCovered
<1>4. ASSUME NEW s \in Snapshots, job[s].pc \in {"cleaning", "pruning"}
      PROVE  \A n \in pruned : n <= snapshot[s].last
  BY <1>0, <1>4 DEF Counted, IInv, NotOvertaken, Active, AtStage, Stages
<1>5. ASSUME NEW s \in Snapshots, pruneEntries(s) PROVE PrunedIsCovered'
  <2>1. ASSUME NEW n \in OldEntries PROVE n <= snapshot[s].last
    <3>1. n \in 1..issued /\ stamp[n] + WalDays < clock
      BY <1>0 DEF OldEntries, Entries
    <3>2. Active(s) /\ snapshot[s].status # "none"
      BY <1>0, <1>5, PruneEntriesIs DEF Active, AtStage, Stages
    <3>3. clock <= snapshot[s].createdAt + JobDays /\ snapshot[s].createdAt \in Nat
      BY <1>0, <3>2 DEF IInv, Bounded, SnapshotRecords
    <3>4. stamp[n] < snapshot[s].createdAt
      BY <1>0, <3>1, <3>3, RetentionAssumption
    <3> QED
      BY <3>1, <3>2, <3>4 DEF Counted, IInv, Reaches
  <2> QED
    BY <1>0, <1>3, <1>4, <1>5, <2>1, PruneEntriesIs
<1>6. ASSUME NEW s \in Snapshots, NEW v \in Snapshots, pruneData(s, v) PROVE PrunedIsCovered'
  <2>1. v # s
    BY <1>0, <1>6, PruneDataIs DEF IInv, OldIsOver
  <2> QED
    BY <1>0, <1>3, <1>4, <1>6, <2>1, PruneDataIs DEF OthersData
<1>7. ASSUME NEW s \in Snapshots, NEW v \in Snapshots, pruneSnapshot(s, v)
      PROVE  PrunedIsCovered'
  <2>1. v # s
    BY <1>0, <1>7, PruneSnapshotIs DEF IInv, OldIsOver
  <2> QED
    BY <1>0, <1>3, <1>4, <1>7, <2>1, PruneSnapshotIs DEF OthersSnapshots
<1>8. ASSUME Database \/ Tick \/ UNCHANGED vars PROVE PrunedIsCovered'
  BY <1>0, <1>2, <1>8, OutsideIs DEF Kept
<1> QED
  BY <1>0, <1>2, <1>5, <1>6, <1>7, <1>8, OnlyCleanup DEF Next

LEMMA StepSuperseded == IInv /\ [Next]_vars => Superseded'
<1> SUFFICES ASSUME IInv, [Next]_vars PROVE Superseded'
  OBVIOUS
<1>0. /\ TypeOK /\ AtStage
      /\ \A v \in Snapshots : snapshot[v].last \in Nat /\ snapshot[v].createdAt \in Nat
      /\ clock \in Nat /\ issued \in Nat /\ \A n \in 1..issued : stamp[n] \in Nat
      /\ recorded \subseteq 1..issued
  BY TypeFacts DEF IInv, SnapshotRecords, Bounded
<1>1. ASSUME pruned' = pruned,
             \A v \in Snapshots : snapshot[v].status \in Finished => Kept(v),
             \A v \in Snapshots : snapshot'[v].status \in Finished =>
               snapshot[v].status \in Finished \/ Replayable(v)'
      PROVE  Superseded'
  BY <1>1 DEF IInv, Superseded, Kept, Replayable
<1>2. ASSUME NEW s \in Snapshots, Active(s), snapshot[s].status \in Finished,
             NEW n \in pruned' \ pruned, n \in 1..issued, stamp[n] + WalDays < clock
      PROVE  stamp[n] < snapshot[s].createdAt
  BY <1>0, <1>2, RetentionAssumption DEF IInv, Bounded
<1>3. ASSUME NEW s \in Snapshots, Work(s), ~pruneEntries(s),
             \A v \in Snapshots : ~pruneData(s, v) /\ ~pruneSnapshot(s, v)
      PROVE  Superseded'
  <2>1. ASSUME completeSnapshot(s) PROVE Replayable(s)'
    <3>1. Active(s) /\ snapshot[s].status # "none"
      BY <1>0, <2>1, CompleteSnapshotIs DEF Active, AtStage, Stages
    <3> QED
      BY <1>0, <2>1, <3>1, CompleteSnapshotIs DEF Counted, Replayable, IInv, NotOvertaken
  <2> QED
    BY <1>0, <1>1, <1>3, <2>1, OnlyCleanup
<1>4. ASSUME NEW s \in Snapshots, job[s].pc \in {"cleaning", "pruning"}
      PROVE  /\ Active(s) /\ snapshot[s].status \in Finished
             /\ clock <= snapshot[s].createdAt + JobDays
  BY <1>0, <1>4 DEF Active, AtStage, Stages, Finished, IInv, Bounded
<1>5. ASSUME NEW s \in Snapshots, pruneEntries(s) PROVE Superseded'
  <2>0. /\ job[s].pc = "cleaning" /\ pruned' = pruned \union OldEntries
        /\ UNCHANGED <<stamp, snapshot, data>>
    BY <1>0, <1>5, PruneEntriesIs
  <2>1. ASSUME NEW v \in Snapshots, snapshot[v].status \in Finished, Replayable(v),
               snapshot[s].createdAt <= snapshot[v].createdAt
        PROVE  Replayable(v)'
    <3>1. ASSUME NEW n \in OldEntries PROVE n <= snapshot[v].last
      <4>1. n \in 1..issued /\ stamp[n] + WalDays < clock
        BY <1>0 DEF OldEntries, Entries
      <4>2. stamp[n] < snapshot[v].createdAt
        BY <1>0, <1>4, <2>0, <2>1, <4>1, RetentionAssumption
      <4> QED
        BY <2>1, <4>1, <4>2 DEF Counted, IInv, Reaches, Finished
    <3> QED
      BY <2>0, <2>1, <3>1 DEF Replayable
  <2>2. snapshot[s].status \in Finished
    BY <1>4, <2>0
  <2>3. ASSUME NEW v \in Snapshots, snapshot[v].status \in Finished
        PROVE  \/ Replayable(v)'
               \/ \E u \in Snapshots :
                    snapshot[u].status \in Finished /\ snapshot[u].createdAt > snapshot[v].createdAt
    BY <1>0, <2>1, <2>2, <2>3 DEF IInv, Superseded
  <2> QED
    BY <2>0, <2>3 DEF Superseded
<1>6. ASSUME NEW s \in Snapshots, NEW v \in Snapshots, v \in job[s].old,
             job[s].pc = "pruning", snapshot[v].status # "none"
      PROVE  snapshot[s].createdAt > snapshot[v].createdAt
  BY <1>0, <1>4, <1>6, RetentionAssumption DEF IInv, OldIsOver
<1>7. ASSUME NEW s \in Snapshots, NEW v \in Snapshots, pruneData(s, v) PROVE Superseded'
  <2>0. /\ job[s].pc = "pruning" /\ v \in job[s].old
        /\ UNCHANGED <<pruned, snapshot>> /\ OthersData(v)
    BY <1>0, <1>7, PruneDataIs
  <2>1. snapshot[s].status \in Finished
    BY <1>4, <2>0
  <2>2. snapshot[v].status \in Finished => snapshot[s].createdAt > snapshot[v].createdAt
    BY <1>6, <2>0 DEF Finished
  <2> QED
    BY <2>0, <2>1, <2>2 DEF IInv, Superseded, Replayable, OthersData
<1>8. ASSUME NEW s \in Snapshots, NEW v \in Snapshots, pruneSnapshot(s, v) PROVE Superseded'
  <2>0. /\ job[s].pc = "pruning" /\ v \in job[s].old
        /\ UNCHANGED <<pruned, data>> /\ OthersSnapshots(v) /\ snapshot'[v] = NoSnapshot
    BY <1>0, <1>8, PruneSnapshotIs
  <2>1. snapshot[s].status \in Finished /\ v # s
    BY <1>0, <1>4, <1>8, <2>0, PruneSnapshotIs DEF IInv, OldIsOver
  <2>2. snapshot[v].status \in Finished => snapshot[s].createdAt > snapshot[v].createdAt
    BY <1>6, <2>0 DEF Finished
  <2>3. snapshot'[v].status \notin Finished
    BY <2>0 DEF NoSnapshot, Finished
  <2>4. ASSUME NEW u \in Snapshots, u # v, snapshot[u].status \in Finished
        PROVE  \/ Replayable(u)'
               \/ \E t \in Snapshots \ {v} :
                    snapshot[t].status \in Finished /\ snapshot[t].createdAt > snapshot[u].createdAt
    <3>1. CASE Replayable(u)
      BY <2>0, <2>4, <3>1 DEF Replayable, OthersSnapshots
    <3>2. CASE ~Replayable(u)
      <4>1. PICK t \in Snapshots :
              snapshot[t].status \in Finished /\ snapshot[t].createdAt > snapshot[u].createdAt
        BY <2>4, <3>2 DEF IInv, Superseded
      <4>2. CASE t = v
        BY <1>0, <2>1, <2>2, <4>1, <4>2
      <4> QED
        BY <4>1, <4>2
    <3> QED
      BY <3>1, <3>2
  <2> QED
    BY <2>0, <2>3, <2>4 DEF Superseded, OthersSnapshots
<1>9. ASSUME Database \/ Tick \/ UNCHANGED vars PROVE Superseded'
  BY <1>0, <1>1, <1>9, OutsideIs DEF Kept
<1> QED
  BY <1>3, <1>5, <1>7, <1>8, <1>9 DEF Next
-----------------------------------------------------------------------------
LEMMA CopiesType ==
  ASSUME NEW d, DOMAIN d \subseteq Collections, d \in [DOMAIN d -> 0..MaxChanges]
  PROVE  d \in Copies
  BY DEF Copies

LEMMA EmptyCopy == <<>> \in Copies
<1>1. DOMAIN <<>> = {}
  OBVIOUS
<1>2. <<>> = [c \in {} |-> 0]
  OBVIOUS
<1>3. [c \in {} |-> 0] \in [{} -> 0..MaxChanges]
  OBVIOUS
<1> QED
  BY <1>1, <1>2, <1>3 DEF Copies

LEMMA JobsClosed ==
  ASSUME NEW r \in Jobs, NEW p \in Stops, NEW backup \in BOOLEAN, NEW found \in SUBSET Nat
  PROVE  /\ [r EXCEPT !.pc = p, !.backup = backup] \in Jobs
         /\ [r EXCEPT !.pc = p, !.found = found] \in Jobs
<1>1. [r EXCEPT !.pc = p, !.backup = backup] \in Jobs
  BY DEF Jobs
<1>2. [r EXCEPT !.pc = p, !.found = found] \in Jobs
  BY DEF Jobs
<1> QED
  BY <1>1, <1>2

LEMMA StepTypeOK == IInv /\ [Next]_vars => TypeOK'
<1> SUFFICES ASSUME IInv, [Next]_vars PROVE TypeOK'
  OBVIOUS
<1>0. /\ TypeOK /\ AtStage
      /\ job \in [Snapshots -> Jobs] /\ snapshot \in [Snapshots -> SnapshotRecords]
      /\ data \in [Snapshots -> Copies] /\ clock \in Nat /\ issued \in Nat
      /\ stamp \in Seq(Nat) /\ history \in History /\ Len(history) <= MaxChanges
      /\ recorded \subseteq Nat /\ backedUp \subseteq recorded /\ pruned \subseteq backedUp
      /\ \A p \in vault : p.last \in Nat /\ p.entries \subseteq 1..p.last
  BY TypeFacts DEF IInv, TypeOK
<1>t. ASSUME job' \in [Snapshots -> Jobs], snapshot' \in [Snapshots -> SnapshotRecords],
             data' \in [Snapshots -> Copies], clock' \in Nat,
             stamp' \in Seq(Nat), history' \in History, Len(history') <= MaxChanges,
             recorded' \subseteq Nat, backedUp' \subseteq recorded', pruned' \subseteq backedUp',
             \A p \in vault' : p.last \in Nat /\ p.entries \subseteq 1..p.last
      PROVE  TypeOK'
  BY <1>t DEF TypeOK, History, Jobs, Stops, SnapshotRecords, Statuses, Copies
<1>j. ASSUME NEW s \in Snapshots,
             \/ \E p \in Stops : job' = [job EXCEPT ![s].pc = p]
             \/ job' = [job EXCEPT ![s] = Ended]
      PROVE  job' \in [Snapshots -> Jobs]
  <2>1. ASSUME NEW r \in Jobs, job' = [job EXCEPT ![s] = r] PROVE job' \in [Snapshots -> Jobs]
    BY <1>0, <2>1
  <2>2. ASSUME NEW p \in Stops, job' = [job EXCEPT ![s].pc = p]
        PROVE  job' \in [Snapshots -> Jobs]
    <3>1. job[s] \in Jobs
      BY <1>0
    <3>2. [job[s] EXCEPT !.pc = p] \in Jobs
      BY <3>1 DEF Jobs
    <3> QED
      BY <2>1, <2>2, <3>2
  <2> QED
    BY <1>j, <2>1, <2>2, EndedJob
<1>1. ASSUME NEW s \in Snapshots, NEW backup \in BOOLEAN, createSnapshot(s, backup)
      PROVE  TypeOK'
  <2>1. job' \in [Snapshots -> Jobs]
    BY <1>0, <1>1, JobsClosed DEF createSnapshot, Stops
  <2>2. snapshot' \in [Snapshots -> SnapshotRecords]
    BY <1>0, <1>1 DEF createSnapshot, SnapshotRecords
  <2> QED
    BY <1>0, <1>1, <1>t, <2>1, <2>2, CreateSnapshotIs
<1>c. ASSUME NEW s \in Snapshots, countEntries(s) PROVE TypeOK'
  <2>1. job' \in [Snapshots -> Jobs]
    BY <1>c, <1>j DEF countEntries, Goto, Stops
  <2>2. snapshot' \in [Snapshots -> SnapshotRecords]
    BY <1>0, <1>c DEF countEntries, SnapshotRecords, Statuses
  <2> QED
    BY <1>0, <1>c, <1>t, <2>1, <2>2, CountEntriesIs
<1>2. ASSUME NEW s \in Snapshots, insertSnapshot(s) PROVE TypeOK'
  <2>1. job' \in [Snapshots -> Jobs]
    BY <1>2, <1>j DEF insertSnapshot, Goto, Stops
  <2>2. snapshot' \in [Snapshots -> SnapshotRecords]
    BY <1>0, <1>2 DEF insertSnapshot, SnapshotRecords, Statuses
  <2> QED
    BY <1>0, <1>2, <1>t, <2>1, <2>2, InsertSnapshotIs
<1>3. ASSUME NEW s \in Snapshots, snapshotFails(s) PROVE TypeOK'
  <2>1. job' \in [Snapshots -> Jobs]
    BY <1>3, <1>j, EndIs DEF snapshotFails
  <2>2. snapshot' \in [Snapshots -> SnapshotRecords]
    BY <1>0, <1>3 DEF snapshotFails, SnapshotRecords, Statuses
  <2> QED
    BY <1>0, <1>3, <1>t, <2>1, <2>2, SnapshotFailsIs
<1>4. ASSUME NEW s \in Snapshots, completeSnapshot(s) PROVE TypeOK'
  <2>1. job' \in [Snapshots -> Jobs]
    BY <1>4, <1>j, EndIs DEF completeSnapshot, Goto, Stops
  <2>2. snapshot' \in [Snapshots -> SnapshotRecords]
    BY <1>0, <1>4 DEF completeSnapshot, SnapshotRecords, Statuses
  <2> QED
    BY <1>0, <1>4, <1>t, <2>1, <2>2, CompleteSnapshotIs
<1>5. ASSUME NEW s \in Snapshots, NEW c \in Collections, storeSnapshotData(s, c)
      PROVE  TypeOK'
  <2>1. Now(c) \in 0..MaxChanges
    <3>1. Len(history) \in Nat
      BY <1>0, TypeFacts
    <3>2. ValueAt(history, c, Len(history)) \in 0..Len(history)
      BY <1>0, <3>1, ValueType
    <3> QED
      BY <1>0, <3>1, <3>2, BoundAssumption DEF Now
  <2>2. DOMAIN data[s] \subseteq Collections /\ data[s] \in [DOMAIN data[s] -> 0..MaxChanges]
    BY <1>0 DEF Copies
  <2> DEFINE copy == [d \in DOMAIN data[s] \union {c} |-> IF d = c THEN Now(c) ELSE data[s][d]]
  <2>3. copy \in Copies
    BY <2>1, <2>2, CopiesType
  <2>4. data' = [data EXCEPT ![s] = copy]
    BY <1>5 DEF storeSnapshotData
  <2> HIDE DEF copy
  <2>5. data' \in [Snapshots -> Copies]
    BY <1>0, <2>3, <2>4
  <2> QED
    BY <1>0, <1>5, <1>t, <2>5, StoreSnapshotDataIs
<1>6. ASSUME NEW s \in Snapshots, findEntries(s) PROVE TypeOK'
  <2>1. {n \in Entries \ backedUp : n <= snapshot[s].last} \subseteq Nat
    BY <1>0 DEF Entries
  <2>2. job' \in [Snapshots -> Jobs]
    BY <1>0, <1>6, <2>1, JobsClosed DEF findEntries, Stops
  <2> QED
    BY <1>0, <1>6, <1>t, <2>2, FindEntriesIs
<1>7. ASSUME NEW s \in Snapshots, upload(s) PROVE TypeOK'
  <2>1. job' \in [Snapshots -> Jobs]
    BY <1>0, <1>7, JobsClosed DEF upload, Stops
  <2>2. snapshot[s].last \in Nat /\ job[s].found \subseteq 1..snapshot[s].last
    BY <1>0, <1>7, UploadIs DEF AtStage, Stages, SnapshotRecords
  <2>3. \A p \in vault' : p.last \in Nat /\ p.entries \subseteq 1..p.last
    BY <1>0, <1>7, <2>2 DEF upload
  <2> QED
    BY <1>0, <1>7, <1>t, <2>1, <2>3, UploadIs
<1>8. ASSUME NEW s \in Snapshots, uploadFails(s) \/ abort(s) PROVE TypeOK'
  <2>1. job' \in [Snapshots -> Jobs]
    BY <1>8, <1>j, EndIs DEF uploadFails, abort
  <2> QED
    BY <1>0, <1>8, <1>t, <2>1, UploadFailsIs, AbortIs
<1>9. ASSUME NEW s \in Snapshots, markSnapshot(s) PROVE TypeOK'
  <2>1. job' \in [Snapshots -> Jobs]
    BY <1>9, <1>j DEF markSnapshot, Goto, Stops
  <2>2. snapshot' \in [Snapshots -> SnapshotRecords]
    BY <1>0, <1>9 DEF markSnapshot, SnapshotRecords, Statuses
  <2> QED
    BY <1>0, <1>9, <1>t, <2>1, <2>2, MarkSnapshotIs
<1>10. ASSUME NEW s \in Snapshots, markEntries(s) PROVE TypeOK'
  <2>1. job' \in [Snapshots -> Jobs]
    BY <1>10, <1>j DEF markEntries, Goto, Stops
  <2>2. backedUp' \subseteq recorded /\ pruned \subseteq backedUp'
    BY <1>0, <1>10, MarkEntriesIs DEF Entries
  <2> QED
    BY <1>0, <1>10, <1>t, <2>1, <2>2, MarkEntriesIs
<1>11. ASSUME NEW s \in Snapshots, pruneEntries(s) PROVE TypeOK'
  <2>1. job' \in [Snapshots -> Jobs]
    BY <1>11, <1>j DEF pruneEntries, Goto, Stops
  <2>2. pruned' \subseteq backedUp
    BY <1>0, <1>11, PruneEntriesIs DEF OldEntries
  <2> QED
    BY <1>0, <1>11, <1>t, <2>1, <2>2, PruneEntriesIs
<1>12. ASSUME NEW s \in Snapshots, listOldSnapshots(s) PROVE TypeOK'
  <2>1. OldSnapshots \subseteq Snapshots
    BY DEF OldSnapshots
  <2>2. job' = [job EXCEPT ![s] = Ended]
          \/ job' = [job EXCEPT ![s].pc = "pruning", ![s].old = OldSnapshots]
    BY <1>12, EndIs DEF listOldSnapshots
  <2>3. job' \in [Snapshots -> Jobs]
    <3>1. job[s] \in Jobs /\ "pruning" \in Stops
      BY <1>0 DEF Stops
    <3>2. [job[s] EXCEPT !.pc = "pruning", !.old = OldSnapshots] \in Jobs
      BY <2>1, <3>1 DEF Jobs
    <3>3. CASE job' = [job EXCEPT ![s].pc = "pruning", ![s].old = OldSnapshots]
      BY <1>0, <3>2, <3>3
    <3> QED
      BY <1>j, <2>2, <3>3
  <2> QED
    BY <1>0, <1>12, <1>t, <2>3, ListOldSnapshotsIs
<1>13. ASSUME NEW s \in Snapshots, NEW v \in Snapshots, pruneData(s, v) PROVE TypeOK'
  <2>2. data' \in [Snapshots -> Copies]
    BY <1>0, <1>13, EmptyCopy DEF pruneData
  <2> QED
    BY <1>0, <1>13, <1>t, <2>2, PruneDataIs
<1>14. ASSUME NEW s \in Snapshots, NEW v \in Snapshots, pruneSnapshot(s, v) PROVE TypeOK'
  <2>1. job' = [job EXCEPT ![s] = Ended] \/ job' = [job EXCEPT ![s].old = @ \ {v}]
    BY <1>14, EndIs DEF pruneSnapshot
  <2>2. job' \in [Snapshots -> Jobs]
    <3>1. job[s] \in Jobs
      BY <1>0
    <3>2. [job[s] EXCEPT !.old = @ \ {v}] \in Jobs
      BY <3>1 DEF Jobs
    <3>3. CASE job' = [job EXCEPT ![s].old = @ \ {v}]
      BY <1>0, <3>2, <3>3
    <3> QED
      BY <1>j, <2>1, <3>3
  <2>3. snapshot' \in [Snapshots -> SnapshotRecords]
    BY <1>0, <1>14 DEF pruneSnapshot, NoSnapshot, SnapshotRecords, Statuses
  <2> QED
    BY <1>0, <1>14, <1>t, <2>2, <2>3, PruneSnapshotIs
<1>15. ASSUME NEW c \in Collections, NEW delete \in BOOLEAN, change(c, delete) PROVE TypeOK'
  <2>1. /\ history' = Append(history, [collection |-> c, delete |-> delete])
        /\ Len(history) < MaxChanges
        /\ UNCHANGED <<stamp, recorded, backedUp, pruned, clock, snapshot, data, job, vault>>
    BY <1>15 DEF change, wal, snapshots
  <2>2. history' \in History /\ Len(history') <= MaxChanges
    BY <1>0, <2>1, BoundAssumption DEF History
  <2> QED
    BY <1>0, <1>t, <2>1, <2>2
<1>16. CASE number
  <2>1. /\ stamp' = Append(stamp, clock)
        /\ UNCHANGED <<history, recorded, backedUp, pruned, clock, snapshot, data, job, vault>>
    BY <1>16 DEF number, snapshots
  <2>2. stamp' \in Seq(Nat)
    BY <1>0, <2>1
  <2> QED
    BY <1>0, <1>t, <2>1, <2>2
<1>17. ASSUME NEW n \in 1..issued, record(n) PROVE TypeOK'
  <2>1. /\ recorded' = recorded \union {n}
        /\ UNCHANGED <<history, stamp, backedUp, pruned, clock, snapshot, data, job, vault>>
    BY <1>17 DEF record, snapshots
  <2> QED
    BY <1>0, <1>t, <2>1
<1>18. CASE Tick
  <2>1. /\ clock' = clock + 1
        /\ UNCHANGED <<history, stamp, recorded, backedUp, pruned, snapshot, data, job, vault>>
    BY <1>18 DEF Tick, wal, snapshots
  <2> QED
    BY <1>0, <1>t, <2>1
<1>19. CASE UNCHANGED vars
  BY <1>0, <1>t, <1>19 DEF vars, wal, snapshots
<1> QED
  BY <1>1, <1>c, <1>2, <1>3, <1>4, <1>5, <1>6, <1>7, <1>8, <1>9, <1>10, <1>11, <1>12, <1>13, <1>14,
     <1>15, <1>16, <1>17, <1>18, <1>19 DEF Next, Work, Database
-----------------------------------------------------------------------------
LEMMA InitIInv == Init => IInv
<1> SUFFICES ASSUME Init PROVE IInv
  OBVIOUS
<1>1. <<>> \in Copies /\ <<>> \in History /\ <<>> \in Seq(Nat)
  BY EmptyCopy DEF History
<1>2. TypeOK
  <2>1. /\ snapshot \in [Snapshots -> SnapshotRecords] /\ job \in [Snapshots -> Jobs]
    BY DEF Init, NoSnapshot, Idle, SnapshotRecords, Statuses, Jobs, Stops
  <2>2. data \in [Snapshots -> Copies]
    BY <1>1 DEF Init
  <2>3. history \in History /\ Len(history) = 0 /\ stamp \in Seq(Nat)
    BY <1>1 DEF Init
  <2> QED
    <3>1. recorded = {} /\ backedUp = {} /\ pruned = {} /\ clock = 0 /\ vault = {}
      BY DEF Init
    <3>2. /\ history \in Seq([collection : Collections, delete : BOOLEAN])
          /\ Len(history) <= MaxChanges
      BY <2>3, BoundAssumption DEF History
    <3>3. /\ snapshot \in [Snapshots ->
               [status : {"none", "in_progress", "completed", "failed", "backed_up"},
                createdAt : Nat, last : Nat, external : BOOLEAN]]
          /\ data \in [Snapshots -> UNION {[C -> 0..MaxChanges] : C \in SUBSET Collections}]
      BY <2>1, <2>2 DEF SnapshotRecords, Statuses, Copies
    <3>4. job \in [Snapshots ->
            [pc : {"idle", "counting", "inserting", "copying", "finding", "uploading", "marking",
                   "markingEntries", "cleaning", "listing", "pruning", "ended"},
             backup : BOOLEAN, found : SUBSET Nat, old : SUBSET Snapshots]]
      BY <2>1 DEF Jobs, Stops
    <3> QED
      BY <2>3, <3>1, <3>2, <3>3, <3>4 DEF TypeOK
<1>3. Bounded
  BY DEF Init, Bounded, issued, NoSnapshot, Idle, Active
<1>4. AtStage
  BY DEF Init, AtStage, Stages, NoSnapshot, Idle, Finished
<1>5. OldIsOver /\ Reaches /\ NotOvertaken /\ MarkedIsCovered /\ PrunedIsCovered /\ Superseded
  BY DEF Init, Counted, OldIsOver, Reaches, NotOvertaken, MarkedIsCovered, PrunedIsCovered, Superseded,
     NoSnapshot, Idle, Finished
<1> QED
  BY <1>2, <1>3, <1>4, <1>5 DEF IInv

LEMMA BackupIInv == Spec => []IInv
<1>1. IInv /\ [Next]_vars => IInv'
  BY StepTypeOK, StepBounded, StepAtStage, StepOldIsOver, StepReaches, StepNotOvertaken,
     StepMarkedIsCovered, StepPrunedIsCovered, StepSuperseded DEF IInv
<1> QED
  BY <1>1, InitIInv, PTL DEF Spec

\* Jobs, snapshots, log and packages have their types.
THEOREM BackupTypeOK == Spec => []TypeOK
<1>1. IInv => TypeOK
  BY DEF IInv
<1> QED
  BY <1>1, BackupIInv, PTL

\* No collection of a finished snapshot is older than the number it records.
THEOREM BackupSnapshotCoversLog == Spec => []SnapshotCoversLog
<1>1. IInv => SnapshotCoversLog
  BY DEF IInv, AtStage, Stages, SnapshotCoversLog
<1> QED
  BY <1>1, BackupIInv, PTL

\* What is marked as backed up is in a package of the provider.
THEOREM BackupMarkedIsCovered == Spec => []MarkedIsCovered
<1>1. IInv => MarkedIsCovered
  BY DEF IInv
<1> QED
  BY <1>1, BackupIInv, PTL

\* What cleanup deleted from the log is in a snapshot that still has its data.
THEOREM BackupPrunedIsCovered == Spec => []PrunedIsCovered
<1>1. IInv => PrunedIsCovered
  BY DEF IInv
<1> QED
  BY <1>1, BackupIInv, PTL

\* The newest finished snapshot has its data and all of the log behind it.
THEOREM BackupNewestIsReplayable == Spec => []NewestIsReplayable
<1>1. IInv => NewestIsReplayable
  <2> SUFFICES ASSUME IInv, NEW s \in Snapshots, Newest(s)
               PROVE  DOMAIN data[s] = Collections /\ \A n \in pruned : n <= snapshot[s].last
    BY DEF NewestIsReplayable
  <2>1. \A v \in Snapshots : snapshot[v].createdAt \in Nat
    BY TypeFacts DEF IInv, SnapshotRecords
  <2>2. Replayable(s)
    BY <2>1 DEF IInv, Superseded, Newest
  <2> QED
    BY <2>2 DEF Replayable
<1> QED
  BY <1>1, BackupIInv, PTL
=============================================================================
