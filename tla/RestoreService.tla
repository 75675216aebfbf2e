--------------------------- MODULE RestoreService ---------------------------
(***************************************************************************)
(* The restore service of packages/backup: one call on a database that is  *)
(* intact, or has lost or spoiled documents, while the application and the *)
(* WAL writer are stopped. Time is counted in log entries: entry n is the  *)
(* change n and has the timestamp n. What a call reads only once (a        *)
(* snapshot's data, an entry's document) is chosen when it is read, among  *)
(* what BackupService and WalWriter can have written there.                *)
(***************************************************************************)
EXTENDS ChangeHistory, FiniteSets

CONSTANTS
  Collections,
  Snapshots,
  MaxChanges,   \* bound on the changes
  MaxCalls,     \* bound on the calls, made one after another
  MaxFaults     \* bound on failing calls, missing and altered data

ASSUME BoundsAssumption == MaxChanges \in Nat /\ MaxCalls \in Nat /\ MaxFaults \in Nat

VARIABLES
  history,    \* the changes the database went through
  snapshot,   \* the collection _snapshots
  db,         \* the documents under their own ids
  text,       \* documents under the text of an id
  call,       \* the call of the service and how far it is
  calls,
  faults

kept == <<history, snapshot>>
restoreVars == <<kept, db, text, call, calls, faults>>

Absent == 0
Altered == MaxChanges + 1   \* a document that is not what was written
Mixed == MaxChanges + 2     \* an update applied to another document than it was made for
Documents == 0..(MaxChanges + 2)

Now(c) == ValueAt(history, c, Len(history))
Times == 0..Len(history)
NoSnapshot == [createdAt |-> 0, last |-> 0, status |-> "none"]
NoCall == [kind |-> "none", pc |-> "idle", whole |-> TRUE, verify |-> TRUE, clear |-> FALSE, scope |-> {},
           target |-> 0, last |-> 0, todo |-> {}, entries |-> {}, complete |-> FALSE,
           success |-> TRUE, tampered |-> FALSE, before |-> [c \in Collections |-> Absent]]

\* Only a document that is there is deleted.
Possible(h) ==
  \A i \in 1..Len(h) : h[i].delete => ValueAt(h, h[i].collection, i - 1) # Absent

RestoreInit ==
  /\ history \in {h \in [1..MaxChanges -> [collection : Collections, delete : BOOLEAN]] : Possible(h)}
  /\ snapshot \in [Snapshots -> {NoSnapshot}
       \union {[createdAt |-> a, last |-> l, status |-> "finished"] : a, l \in 0..MaxChanges}
       \union {[createdAt |-> 0, last |-> l, status |-> "partial"] : l \in 0..MaxChanges}]
  /\ \A s \in Snapshots : snapshot[s].createdAt <= snapshot[s].last
  /\ \E i \in 0..MaxChanges : db = [c \in Collections |-> ValueAt(history, c, i)]
  /\ text = [c \in Collections |-> Absent]
  /\ call = NoCall
  /\ calls = 0
  /\ faults = 0

Fault == faults < MaxFaults /\ faults' = faults + 1

\* Of a call that failed, or used a package, only its answer is kept.
End ==
  call' = IF call.success /\ call.kind # "external" THEN [call EXCEPT !.pc = "ended"]
          ELSE [NoCall EXCEPT !.kind = call.kind, !.pc = "ended", !.scope = call.scope,
                              !.success = call.success]

-----------------------------------------------------------------------------
Ready == call.pc \in {"idle", "ended"} /\ calls < MaxCalls /\ calls' = calls + 1

Finished(s) == snapshot[s].status = "finished"

\* A service with some configuration is made and called. A snapshot that failed,
\* or is not done, has the data of the collections it got to, if any.
BeginCall(kind, pc, s, target) ==
  /\ Ready
  /\ \E verify, clear \in BOOLEAN, scope \in (SUBSET Collections) \ {{}} :
       \E copied \in IF Finished(s) THEN {scope} ELSE SUBSET scope :
         call' = [NoCall EXCEPT !.kind = kind, !.pc = pc, !.whole = Finished(s),
                    !.verify = verify, !.clear = clear, !.scope = scope,
                    !.target = target, !.last = snapshot[s].last,
                    !.todo = IF pc = "collections" THEN copied ELSE {},
                    !.success = copied # {} \/ scope # Collections, !.before = db]
  /\ UNCHANGED <<kept, db, text, faults>>

\* There is no such snapshot, or none before the target: "success" is false.
Refuse(kind) ==
  /\ Ready
  /\ call' = [NoCall EXCEPT !.kind = kind, !.pc = "ended", !.success = FALSE]
  /\ UNCHANGED <<kept, db, text, faults>>

restoreFromSnapshot(s) ==
  IF snapshot[s].status = "none" THEN Refuse("snapshot") ELSE BeginCall("snapshot", "collections", s, 0)

\* The newest snapshot that is not younger than the target.
Best(s, target) ==
  /\ Finished(s) /\ snapshot[s].createdAt <= target
  /\ \A v \in Snapshots : Finished(v) /\ snapshot[v].createdAt <= target =>
       snapshot[v].createdAt <= snapshot[s].createdAt

pointInTimeRestore(target) ==
  \/ \E s \in Snapshots : Best(s, target) /\ BeginCall("point", "collections", s, target)
  \/ (\A s \in Snapshots : ~Best(s, target)) /\ Refuse("point")

\* With fromSnapshotId any snapshot is taken, also one that failed.
restoreFromChosen(s, target) ==
  snapshot[s].status # "none" /\ BeginCall("point", "collections", s, target)

\* The package of a snapshot, or an answer that there is none.
restoreFromExternal(s) ==
  IF Finished(s) THEN BeginCall("external", "package", s, snapshot[s].last)
  ELSE Refuse("external")

-----------------------------------------------------------------------------
\* The data of the snapshot was deleted by a cleanup that did not finish.
noSnapshotData ==
  /\ call.pc = "collections" /\ call.kind # "external" /\ call.todo = call.scope
  /\ Fault
  /\ call' = [call EXCEPT !.todo = {}, !.success = FALSE]
  /\ UNCHANGED <<kept, db, text, calls>>

\* A document is written where the filter on _id finds it: a package that went
\* through JSON has the text of the ids.
Put(c, d) ==
  IF call.kind = "external"
    THEN text' = [text EXCEPT ![c] = d]
         /\ db' = IF call.clear THEN [db EXCEPT ![c] = Absent] ELSE db
    ELSE db' = [db EXCEPT ![c] = d] /\ UNCHANGED text

\* One collection: cleared if so configured, then its documents are upserted.
restoreCollection(c) ==
  /\ call.pc = "collections" /\ c \in call.todo
  /\ \E d \in Since(history, c, call.last) :
       IF d = Absent
         THEN db' = [db EXCEPT ![c] = IF call.clear THEN Absent ELSE @] /\ UNCHANGED text
         ELSE Put(c, d)
  /\ call' = [call EXCEPT !.todo = @ \ {c}]
  /\ UNCHANGED <<kept, calls, faults>>

\* Mutant: a mismatch is printed and the collection left as it is.
Wrong_alteredCollection(c) ==
  /\ call.pc = "collections" /\ c \in call.todo /\ call.kind # "external"
  /\ Fault
  /\ call' = [call EXCEPT !.todo = @ \ {c}] /\ Put(c, Altered)
  /\ UNCHANGED <<kept, calls>>

\* The data is not what was stored: the checksum of the collection tells, which
\* a snapshot has when it is finished.
alteredCollection(c) ==
  /\ call.pc = "collections" /\ c \in call.todo /\ call.kind # "external"
  /\ Fault
  /\ IF call.verify /\ call.whole
       THEN call' = [call EXCEPT !.todo = @ \ {c}, !.success = FALSE] /\ UNCHANGED <<db, text>>
       ELSE call' = [call EXCEPT !.todo = @ \ {c}] /\ Put(c, Altered)
  /\ UNCHANGED <<kept, calls>>

\* A call to the database throws, before or after the collection was cleared.
collectionFails(c) ==
  /\ call.pc = "collections" /\ c \in call.todo
  /\ Fault
  /\ db' \in {db} \union IF call.clear THEN {[db EXCEPT ![c] = Absent]} ELSE {}
  /\ call' = [call EXCEPT !.todo = @ \ {c}, !.success = FALSE]
  /\ UNCHANGED <<kept, text, calls>>

\* Mutant: the entry behind the snapshot is not replayed.
Wrong_WantedBut ==
  {n \in 1..Len(history) :
     IF call.kind = "external" THEN n <= call.last ELSE n > call.last + 1 /\ n <= call.target}

\* Entries between the base and the target, in the log or in the package.
Wanted ==
  {n \in 1..Len(history) :
     IF call.kind = "external" THEN n <= call.last ELSE n > call.last /\ n <= call.target}

findEntries ==
  /\ call.pc = "collections" /\ call.todo = {}
  /\ IF call.kind = "snapshot" THEN End /\ UNCHANGED faults
     ELSE \E missing \in SUBSET Wanted :
            /\ missing # {} /\ call.kind # "external" => faults < MaxFaults
            /\ faults' = IF missing = {} \/ call.kind = "external" THEN faults ELSE faults + 1
            /\ call' = [call EXCEPT !.pc = "entries", !.entries = Wanted \ missing,
                                    !.complete = missing = {}]
  /\ UNCHANGED <<kept, db, text, calls>>

Next1(n) == call.pc = "entries" /\ n \in call.entries /\ \A m \in call.entries : n <= m
Skipped(n) == history[n].collection \notin call.scope
Replayed(n) == call' = [call EXCEPT !.entries = @ \ {n}]

skipEntry(n) ==
  /\ Next1(n) /\ Skipped(n)
  /\ Replayed(n)
  /\ UNCHANGED <<kept, db, text, calls, faults>>

\* What the writer looked up for change n: the document it wrote, when that was
\* an insert; for an update the document as it was when the lookup ran.
Lookups(n) ==
  IF ValueAt(history, history[n].collection, n - 1) = Absent THEN {n}
  ELSE Since(history, history[n].collection, n)

\* An update whose document was gone when it was looked up: only a document
\* that is there gets its fields.
Updated(d, n) ==
  CASE d = Absent -> Absent
    [] d \in {n, ValueAt(history, history[n].collection, n - 1)} -> n
    [] OTHER -> Mixed

replayWrite(n) ==
  /\ Next1(n) /\ ~Skipped(n) /\ ~history[n].delete
  /\ LET c == history[n].collection IN
       \E d \in Lookups(n) :
         IF call.kind = "external"
           THEN text' = [text EXCEPT ![c] = IF d = Absent THEN @ ELSE d] /\ UNCHANGED db
           ELSE db' = [db EXCEPT ![c] = IF d = Absent THEN Updated(@, n) ELSE d] /\ UNCHANGED text
  /\ Replayed(n)
  /\ UNCHANGED <<kept, calls, faults>>

\* The checksum of an entry does not reach into its document.
replayAltered(n) ==
  /\ Next1(n) /\ ~Skipped(n) /\ ~history[n].delete /\ call.kind # "external"
  /\ Fault
  /\ db' = [db EXCEPT ![history[n].collection] = Altered]
  /\ call' = [call EXCEPT !.entries = @ \ {n}, !.tampered = TRUE]
  /\ UNCHANGED <<kept, text, calls>>

\* A delete goes by the ObjectId.
replayDelete(n) ==
  /\ Next1(n) /\ ~Skipped(n) /\ history[n].delete
  /\ db' = [db EXCEPT ![history[n].collection] = Absent]
  /\ Replayed(n)
  /\ UNCHANGED <<kept, text, calls, faults>>

\* A failing or mismatching entry is noted and the next one tried.
replayFails(n) ==
  /\ Next1(n) /\ ~Skipped(n)
  /\ Fault
  /\ call' = [call EXCEPT !.entries = @ \ {n}, !.success = FALSE]
  /\ UNCHANGED <<kept, db, text, calls>>

finish ==
  /\ call.pc = "entries" /\ call.entries = {}
  /\ End
  /\ UNCHANGED <<kept, db, text, calls, faults>>

-----------------------------------------------------------------------------
\* The checksum was taken of the package with an empty checksum field, and is
\* compared with that of the package without the field.
Sealed(package) == [content |-> package, checksum |-> <<"">>]
Opened(package) == [content |-> package, checksum |-> <<>>]
Verified == ~call.verify \/ Sealed(call.last) = Opened(call.last)

verifyPackage ==
  /\ call.pc = "package"
  /\ call' = IF Verified THEN [call EXCEPT !.pc = "collections", !.todo = call.scope]
             ELSE [call EXCEPT !.pc = "ended", !.success = FALSE]
  /\ UNCHANGED <<kept, db, text, calls, faults>>

downloadFails ==
  /\ call.pc = "package"
  /\ Fault
  /\ call' = [call EXCEPT !.pc = "ended", !.success = FALSE]
  /\ UNCHANGED <<kept, db, text, calls>>

-----------------------------------------------------------------------------
Call ==
  \/ \E s \in Snapshots : restoreFromSnapshot(s) \/ restoreFromExternal(s)
  \/ \E t \in Times : pointInTimeRestore(t) \/ \E s \in Snapshots : restoreFromChosen(s, t)

RestoreData ==
  \/ noSnapshotData
  \/ \E c \in Collections : restoreCollection(c) \/ alteredCollection(c) \/ collectionFails(c)

Replay ==
  \/ findEntries \/ finish
  \/ \E n \in 1..Len(history) :
       \/ skipEntry(n) \/ replayWrite(n) \/ replayAltered(n) \/ replayDelete(n) \/ replayFails(n)

RestoreNext == Call \/ verifyPackage \/ downloadFails \/ RestoreData \/ Replay

RestoreSpec == RestoreInit /\ [][RestoreNext]_restoreVars

-----------------------------------------------------------------------------
RestoreTypeOK ==
  /\ snapshot \in [Snapshots -> [createdAt : Nat, last : Nat, status : {"none", "partial", "finished"}]]
  /\ db \in [Collections -> Documents] /\ text \in [Collections -> Documents]
  /\ call \in [kind : {"none", "snapshot", "point", "external"},
               pc : {"idle", "package", "collections", "entries", "ended"},
               whole : BOOLEAN, verify : BOOLEAN, clear : BOOLEAN, scope : SUBSET Collections,
               target : Nat, last : Nat, todo : SUBSET call.scope,
               entries : SUBSET (1..Len(history)), complete : BOOLEAN,
               success : BOOLEAN, tampered : BOOLEAN, before : [Collections -> Documents]]
  /\ calls \in 0..MaxCalls /\ faults \in 0..MaxFaults

\* A restore from a finished snapshot of the local database that reports success,
\* whose data was as it was written.
Restored == call.pc = "ended" /\ call.success /\ call.kind \in {"snapshot", "point"}
Genuine == call.whole /\ call.verify /\ ~call.tampered

\* Collection c is in one of the states S; without clearExistingData a document
\* that none of them has stays.
Left(c, S) == db[c] \in S \/ (~call.clear /\ Absent \in S /\ db[c] = call.before[c])

\* No collection in the scope is left older than the snapshot's place in the
\* log, or with data that the checksums tell is spoiled, whatever an earlier call
\* left there and whichever entries are missing.
NotOlderThanSnapshot ==
  Restored /\ Genuine =>
    \A c \in call.scope : Left(c, Since(history, c, call.last) \union {Mixed})

\* A restore to the present restores the present: the snapshot may be newer than
\* its place in the log and hold each collection at another time, updates may
\* carry documents from after the update, and a call before may have failed
\* halfway.
ExactAtPresent ==
  Restored /\ Genuine /\ call.kind = "point" /\ call.complete /\ call.target = Len(history) =>
    \A c \in call.scope : Left(c, {Now(c)})
=============================================================================
