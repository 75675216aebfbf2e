-------------------------- MODULE BackupRestoreProofs --------------------------
(***************************************************************************)
(* Proofs about BackupWorker, the daily schedule, the limit of one upload  *)
(* a day and the files that the cleanup leaves, and about RestoreService,  *)
(* what a restore that reports success has restored.                       *)
(***************************************************************************)
EXTENDS BackupWorker, RestoreService, SequenceTheorems, WellFoundedInduction,
        FiniteSetTheorems, TLAPS

\* The fields of a job's record.
Fields == {"pc", "scheduled", "began", "seen", "id", "doomed"}

\* What the proofs need of the types; the files are left out.
Shape ==
  /\ DOMAIN job = Jobs
  /\ \A j \in Jobs : DOMAIN job[j] = Fields /\ job[j].scheduled \in BOOLEAN
  /\ clock \in 0..MaxClock /\ timer \in Nat

\* A process that ended makes no calls.
DownIsIdle == process = "down" => \A j \in Jobs : ~Active(j)

\* The invariant of the schedule.
ScheduleInv == Shape /\ DownIsIdle /\ OneSchedule

\* The next backup hour is a time, not the value that stands for no timer.
LEMMA NextHourType ==
  ASSUME clock \in 0..MaxClock
  PROVE  NextHour \in Nat /\ NextHour # None
<1>1. NextHour \in Nat /\ NextHour <= clock + Day
  BY TimeAssumption DEF NextHour
<1> QED
  BY <1>1, TimeAssumption DEF None

\* The calls of the chain that OneSchedule speaks of.
Scheduled == {j \in Jobs : Active(j) /\ job[j].scheduled}

\* A step that neither begins nor ends a call.
LEMMA GoesOn ==
  ASSUME ScheduleInv, Shape', UNCHANGED <<process, clock, timer>>,
         \A i \in Jobs : Active(i)' = Active(i) /\ (job[i].scheduled)' = job[i].scheduled
  PROVE  ScheduleInv'
<1>1. Scheduled' = Scheduled
  BY DEF Scheduled
<1> QED
  BY <1>1 DEF ScheduleInv, DownIsIdle, OneSchedule, Scheduled, None

\* Only the fields given by new change, in call j, which goes on.
LEMMA StepOn ==
  ASSUME ScheduleInv, NEW j \in Jobs, Active(j), UNCHANGED <<process, clock, timer>>,
         DOMAIN job' = Jobs, DOMAIN job'[j] = Fields, job'[j].pc # "idle",
         job'[j].scheduled = job[j].scheduled,
         \A i \in Jobs : i # j => job'[i] = job[i]
  PROVE  ScheduleInv'
<1>1. Shape'
  BY DEF Shape, ScheduleInv
<1>2. \A i \in Jobs : Active(i)' = Active(i) /\ (job[i].scheduled)' = job[i].scheduled
  BY DEF Active
<1> QED
  BY <1>1, <1>2, GoesOn

LEMMA IdleShape == DOMAIN Idle = Fields /\ Idle.scheduled = FALSE /\ Idle.pc = "idle"
  BY DEF Idle, Fields

\* A call that ends: the chain goes on with the timer it sets.
LEMMA ReturnOn ==
  ASSUME ScheduleInv, NEW j \in Jobs, Active(j), Return(j), UNCHANGED <<process, clock>>
  PROVE  ScheduleInv'
<1>1. /\ DOMAIN job' = Jobs /\ job'[j] = Idle
      /\ \A i \in Jobs : i # j => job'[i] = job[i]
  BY DEF ScheduleInv, Shape, Return
<1>2. NextHour \in Nat /\ NextHour # None
  BY NextHourType DEF ScheduleInv, Shape
<1>3. Shape'
  BY <1>1, <1>2, IdleShape DEF Return, ScheduleInv, Shape
<1>4. ~Active(j)' /\ \A i \in Jobs : i # j => Active(i)' = Active(i)
  BY <1>1, IdleShape DEF Active
<1>5. Scheduled' = Scheduled \ {j}
  BY <1>1, <1>4 DEF Scheduled
<1>6. DownIsIdle'
  BY <1>4 DEF ScheduleInv, DownIsIdle
<1>7. None' = None
  BY DEF None
<1>8. CASE job[j].scheduled /\ process = "running"
  <2>1. timer' = NextHour
    BY <1>8 DEF Return
  <2>2. Scheduled' = {}
    BY <1>5, <1>8 DEF Scheduled, ScheduleInv, OneSchedule
  <2>3. OneSchedule'
    BY <2>1, <2>2, <1>2, <1>7, <1>8 DEF OneSchedule, Scheduled
  <2> QED
    BY <2>3, <1>3, <1>6 DEF ScheduleInv
<1>9. CASE ~(job[j].scheduled /\ process = "running")
  <2>1. timer' = timer
    BY <1>9 DEF Return
  <2>2. process = "running" => Scheduled' = Scheduled
    BY <1>5, <1>9 DEF Scheduled
  <2>3. OneSchedule'
    BY <2>1, <2>2, <1>5, <1>7 DEF OneSchedule, Scheduled, ScheduleInv
  <2> QED
    BY <2>3, <1>3, <1>6 DEF ScheduleInv
<1> QED
  BY <1>8, <1>9

\* What the beginning of a call sets, and that it leaves other calls alone.
LEMMA BeginShape ==
  ASSUME Shape, NEW j \in Jobs, NEW scheduled \in BOOLEAN, Begin(j, scheduled),
         UNCHANGED clock, timer' \in Nat
  PROVE  /\ Shape' /\ Active(j)' /\ job'[j].scheduled = scheduled
         /\ \A i \in Jobs : i # j => job'[i] = job[i]
  BY DEF Shape, Begin, Active, Fields

\* The timer makes the scheduled call.
LEMMA ScheduledStep ==
  ASSUME ScheduleInv, NEW j \in Jobs, runDailyBackup(j)
  PROVE  ScheduleInv'
<1>1. timer = clock /\ timer' = None /\ None \in Nat /\ timer # None
  BY TimeAssumption DEF runDailyBackup, ScheduleInv, Shape, None
<1>2. /\ Shape' /\ Active(j)' /\ job'[j].scheduled = TRUE
      /\ \A i \in Jobs : i # j => job'[i] = job[i]
  BY <1>1, BeginShape DEF runDailyBackup, ScheduleInv
<1>3. process = "running" /\ process' = "running"
  BY <1>1 DEF runDailyBackup, ScheduleInv, OneSchedule
<1>4. Scheduled = {}
  BY <1>1, <1>3 DEF ScheduleInv, OneSchedule, Scheduled
<1>5. Scheduled' = {j}
  BY <1>2, <1>4 DEF Scheduled, Active
<1>6. OneSchedule'
  BY <1>1, <1>3, <1>5 DEF OneSchedule, Scheduled, None
<1> QED
  BY <1>2, <1>3, <1>6 DEF ScheduleInv, DownIsIdle

\* A triggered call is no part of the chain.
LEMMA TriggeredStep ==
  ASSUME ScheduleInv, NEW j \in Jobs, triggerManualBackup(j)
  PROVE  ScheduleInv'
<1>1. process = "running" /\ UNCHANGED <<process, clock, timer>> /\ ~Active(j)
  BY DEF triggerManualBackup, memory, Begin
<1>2. /\ Shape' /\ Active(j)' /\ job'[j].scheduled = FALSE
      /\ \A i \in Jobs : i # j => job'[i] = job[i]
  BY <1>1, BeginShape DEF triggerManualBackup, ScheduleInv, Shape
<1>3. Scheduled' = Scheduled
  BY <1>1, <1>2 DEF Scheduled, Active
<1>4. OneSchedule'
  BY <1>1, <1>3 DEF OneSchedule, Scheduled, ScheduleInv, None
<1> QED
  BY <1>1, <1>2, <1>4 DEF ScheduleInv, DownIsIdle

\* Every step keeps the chain one: action by action, a call that began it, goes on
\* or ends it, or the process that starts and stops.
LEMMA StepSchedule == ScheduleInv /\ [Next]_vars => ScheduleInv'
<1> SUFFICES ASSUME ScheduleInv, [Next]_vars PROVE ScheduleInv'
  OBVIOUS
<1>0. NextHour \in Nat /\ NextHour # None /\ None \in Nat
  BY NextHourType, TimeAssumption DEF ScheduleInv, Shape, None
<1>1. CASE start
  <2>1. Scheduled = {} /\ Scheduled' = {} /\ Shape' /\ DownIsIdle'
    BY <1>0, <1>1 DEF start, ScheduleInv, Shape, DownIsIdle, Scheduled, Active
  <2>2. OneSchedule'
    BY <1>0, <1>1, <2>1 DEF start, OneSchedule, Scheduled, None
  <2> QED
    BY <2>1, <2>2 DEF ScheduleInv
<1>2. CASE stop
  <2>1. Scheduled' = Scheduled /\ Shape' /\ DownIsIdle'
    BY <1>0, <1>2 DEF stop, ScheduleInv, Shape, DownIsIdle, Scheduled, Active
  <2>2. OneSchedule'
    BY <1>2, <2>1 DEF stop, ScheduleInv, OneSchedule, Scheduled, None
  <2> QED
    BY <2>1, <2>2 DEF ScheduleInv
<1>3. CASE exit
  <2>1. Scheduled' = {} /\ Shape' /\ DownIsIdle'
    BY <1>0, <1>3, IdleShape DEF exit, ScheduleInv, Shape, DownIsIdle, Scheduled, Active
  <2>2. OneSchedule'
    BY <1>3, <2>1 DEF exit, OneSchedule, Scheduled, None
  <2> QED
    BY <2>1, <2>2 DEF ScheduleInv
<1>4. CASE Tick
  <2>1. UNCHANGED <<process, timer, job>> /\ clock' \in 0..MaxClock
    BY <1>4, TimeAssumption DEF Tick, memory, ScheduleInv, Shape
  <2> QED
    BY <2>1 DEF ScheduleInv, Shape, DownIsIdle, OneSchedule, Active, None
<1>5. ASSUME NEW j \in Jobs, Backup(j) PROVE ScheduleInv'
  <2>1. CASE packaged(j)
    <3>1. /\ Active(j) /\ UNCHANGED <<process, clock, timer>> /\ DOMAIN job' = Jobs
          /\ DOMAIN job'[j] = Fields /\ job'[j].pc # "idle" /\ job'[j].scheduled = job[j].scheduled
          /\ \A i \in Jobs : i # j => job'[i] = job[i]
      BY <2>1 DEF packaged, ScheduleInv, Shape, Active, Fields, memory
    <3> QED
      BY <3>1, StepOn
  <2>2. CASE fails(j)
    <3>1. Active(j) /\ Return(j) /\ UNCHANGED <<process, clock>>
      BY <2>2 DEF fails, Active
    <3> QED
      BY <3>1, ReturnOn
  <2>3. CASE refuse(j)
    <3>1. Active(j) /\ Return(j) /\ UNCHANGED <<process, clock>>
      BY <2>3 DEF refuse, Active
    <3> QED
      BY <3>1, ReturnOn
  <2> QED
    BY <1>5, <2>1, <2>2, <2>3, ScheduledStep, TriggeredStep DEF Backup
<1>6. ASSUME NEW j \in Jobs, Upload(j) PROVE ScheduleInv'
  <2>1. ASSUME Return(j), Active(j), UNCHANGED <<process, clock>> PROVE ScheduleInv'
    BY <2>1, ReturnOn
  <2>2. CASE store(j) \/ quotaExceeded(j) \/ writeFails(j) \/ listFails(j)
    BY <2>1, <2>2 DEF store, quotaExceeded, writeFails, listFails, Active
  <2>3. ASSUME Active(j), job'[j].pc # "idle",
               UNCHANGED <<process, clock, timer>>,
               DOMAIN job' = Jobs, DOMAIN job'[j] = Fields,
               job'[j].scheduled = job[j].scheduled, \A i \in Jobs : i # j => job'[i] = job[i]
        PROVE  ScheduleInv'
    BY <2>3, StepOn
  <2>4. CASE check(j)
    BY <2>3, <2>4 DEF check, ScheduleInv, Shape, Active, Fields, memory
  <2>5. CASE writeData(j)
    BY <2>3, <2>5 DEF writeData, ScheduleInv, Shape, Active, Fields, memory
  <2>6. CASE writeMeta(j)
    BY <2>3, <2>6 DEF writeMeta, ScheduleInv, Shape, Active, Fields
  <2>7. CASE listBackups(j)
    <3>1. CASE Beyond(MaxBackups) = {}
      BY <2>1, <2>7, <3>1 DEF listBackups, Active
    <3>2. CASE Beyond(MaxBackups) # {}
      BY <2>3, <2>7, <3>2 DEF listBackups, ScheduleInv, Shape, Active, Fields
    <3> QED
      BY <3>1, <3>2
  <2>8. CASE unlink(j) \/ unlinkMeta(j)
    <3>1. CASE Return(j)
      BY <2>1, <2>8, <3>1 DEF unlink, unlinkMeta, Active
    <3>2. ASSUME NEW f, job' = [job EXCEPT ![j].pc = "deleting", ![j].doomed = @ \ {f}],
                 UNCHANGED timer
          PROVE  ScheduleInv'
      BY <2>3, <2>8, <3>2 DEF unlink, unlinkMeta, ScheduleInv, Shape, Active, Fields
    <3>3. ASSUME job' = [job EXCEPT ![j].pc = "sweeping"], UNCHANGED timer
          PROVE  ScheduleInv'
      BY <2>3, <2>8, <3>3 DEF unlink, unlinkMeta, ScheduleInv, Shape, Active, Fields
    <3> QED
      BY <2>8, <3>1, <3>2, <3>3 DEF unlink, unlinkMeta, Dealt
  <2> QED
    BY <1>6, <2>2, <2>4, <2>5, <2>6, <2>7, <2>8 DEF Upload
<1>7. CASE UNCHANGED vars
  BY <1>7 DEF vars, memory, ScheduleInv, Shape, DownIsIdle, OneSchedule, Active, None
<1> QED
  BY <1>1, <1>2, <1>3, <1>4, <1>5, <1>6, <1>7 DEF Next, Process

LEMMA InitSchedule == Init => ScheduleInv
<1> SUFFICES ASSUME Init PROVE ScheduleInv
  OBVIOUS
<1>1. DOMAIN job = Jobs /\ (\A j \in Jobs : job[j] = Idle) /\ clock = 0 /\ timer = None
  BY DEF Init
<1>2. None \in Nat /\ 0 \in 0..MaxClock
  BY TimeAssumption DEF None
<1>3. Shape /\ Scheduled = {} /\ DownIsIdle
  BY <1>1, <1>2, IdleShape DEF Shape, Scheduled, Active, DownIsIdle
<1> QED
  BY <1>1, <1>3 DEF Init, ScheduleInv, OneSchedule, Scheduled

\* The daily backups form one chain.
THEOREM WorkerOneSchedule == Spec => []OneSchedule
<1>1. ScheduleInv => OneSchedule
  BY DEF ScheduleInv
<1> QED
  BY <1>1, InitSchedule, StepSchedule, PTL DEF Spec

-----------------------------------------------------------------------------
\* The entries of the list of uploads, without a bound on their time.
UploadEntry == [at : Nat, seen : Nat]

\* The time noted last is that of the newest upload, and a call on its way to
\* write passed the limit for all uploads that it saw.
Noted ==
  /\ uploads \in Seq(UploadEntry)
  /\ uploads # <<>> => lastUpload \in 0..clock /\ \A k \in 1..Len(uploads) : uploads[k].at <= lastUpload

\* A call between the check of the limit and the noting of its upload.
Writing(j) == job[j].pc \in {"writing", "describing"}

\* What j saw when it checked is a day old by now.
Passed(j) ==
  /\ provider = "filesystem" /\ job[j].seen \in 0..Len(uploads)
  /\ \A i \in 1..job[j].seen : uploads[i].at + Day <= clock

\* The invariant of the daily limit.
UploadInv == Noted /\ (\A j \in Jobs : Writing(j) => Passed(j)) /\ OnePerDay

\* Nothing is uploaded, and no call passes the check.
LEMMA NoUpload ==
  ASSUME UploadInv, UNCHANGED <<provider, clock, lastUpload, uploads>>,
         \A i \in Jobs : Writing(i)' => Writing(i) /\ job'[i].seen = job[i].seen
  PROVE  UploadInv'
<1>1. Noted' /\ OnePerDay'
  BY DEF UploadInv, Noted, OnePerDay
<1>2. \A i \in Jobs : Writing(i)' => Passed(i)'
  BY DEF UploadInv, Passed
<1> QED
  BY <1>1, <1>2 DEF UploadInv

\* The same for a step of one call.
LEMMA NoUploadStep ==
  ASSUME UploadInv, NEW j \in Jobs, UNCHANGED <<provider, clock, lastUpload, uploads>>,
         \A i \in Jobs : i # j => job'[i] = job[i],
         Writing(j)' => Writing(j) /\ job'[j].seen = job[j].seen
  PROVE  UploadInv'
  BY NoUpload DEF Writing

\* Lengths and times are numbers.
LEMMA UploadFacts ==
  ASSUME uploads \in Seq(UploadEntry)
  PROVE  /\ Len(uploads) \in Nat /\ (Len(uploads) > 0 => uploads # <<>>)
         /\ \A k \in 1..Len(uploads) : uploads[k].at \in Nat /\ uploads[k].seen \in Nat
<1>1. \A k \in 1..Len(uploads) : uploads[k] \in UploadEntry
  OBVIOUS
<1> QED
  BY <1>1 DEF UploadEntry

\* All uploads that the check sees are a day old.
LEMMA AllowedIsOld ==
  ASSUME Shape, Noted, Allowed, NEW k \in 1..Len(uploads)
  PROVE  uploads[k].at + Day <= clock
<1>1. uploads # <<>> /\ uploads[k].at \in Nat
  BY UploadFacts DEF Noted
<1>2. lastUpload \in 0..clock /\ lastUpload # None /\ clock >= lastUpload + Day
  BY <1>1, TimeAssumption DEF Noted, Allowed, Shape, None
<1> QED
  BY <1>1, <1>2, TimeAssumption DEF Noted, Shape

\* An upload is noted that passed the limit for the first of them.
LEMMA NoteUpload ==
  ASSUME UploadInv, Shape, UNCHANGED <<provider, clock>>,
         NEW seen \in 0..Len(uploads), Accepted(seen),
         \A i \in 1..seen : uploads[i].at + Day <= clock,
         seen < Len(uploads) => provider = "filesystem",
         \A i \in Jobs : Writing(i)' => Writing(i) /\ job'[i].seen = job[i].seen
  PROVE  UploadInv'
<1> DEFINE n == Len(uploads) + 1
<1>0. /\ uploads \in Seq(UploadEntry) /\ lastUpload' = clock /\ clock \in Nat
      /\ uploads' = Append(uploads, [at |-> clock, seen |-> seen])
  BY DEF UploadInv, Noted, Accepted, Shape
<1>1. /\ uploads' \in Seq(UploadEntry) /\ Len(uploads') = n /\ n \in Nat
      /\ uploads'[n].at = clock /\ uploads'[n].seen = seen
      /\ \A i \in 1..Len(uploads) : uploads'[i] = uploads[i] /\ uploads[i].at \in Nat
      /\ Len(uploads) \in Nat /\ n = Len(uploads) + 1
  <2>1. Len(uploads) \in Nat /\ [at |-> clock, seen |-> seen] \in UploadEntry
    BY <1>0 DEF UploadEntry
  <2>2. uploads' \in Seq(UploadEntry) /\ Len(uploads') = n
    BY <1>0, <2>1
  <2>3. uploads'[n] = [at |-> clock, seen |-> seen] /\ \A i \in 1..Len(uploads) : uploads'[i] = uploads[i]
    BY <1>0, <2>1
  <2> QED
    BY <1>0, <2>1, <2>2, <2>3, UploadFacts
<1> HIDE DEF n
<1>2. \A i \in 1..Len(uploads) : uploads[i].at <= clock
  <2> SUFFICES ASSUME NEW i \in 1..Len(uploads) PROVE uploads[i].at <= clock
    OBVIOUS
  <2>1. lastUpload \in 0..clock /\ uploads[i].at <= lastUpload
    BY <1>0, UploadFacts DEF UploadInv, Noted
  <2> QED
    BY <1>0, <1>1, <2>1
<1>3. Noted'
  <2>1. \A k \in 1..n : k = n \/ k \in 1..Len(uploads)
    BY <1>1
  <2>2. \A k \in 1..n : uploads'[k].at <= lastUpload'
    BY <1>0, <1>1, <1>2, <2>1
  <2> QED
    BY <1>0, <1>1, <2>2 DEF Noted
<1>4. \A i \in Jobs : Writing(i)' => Passed(i)'
  <2> SUFFICES ASSUME NEW i \in Jobs, Writing(i)' PROVE Passed(i)'
    OBVIOUS
  <2>1. Passed(i) /\ job'[i].seen = job[i].seen
    BY DEF UploadInv
  <2>2. job[i].seen \in 0..n /\ \A u \in 1..job[i].seen : u \in 1..Len(uploads)
    BY <1>1, <2>1 DEF Passed
  <2> QED
    BY <1>1, <2>1, <2>2 DEF Passed
<1>5. ASSUME NEW k \in 1..n, NEW i \in 1..(k - 1)
      PROVE  \/ uploads'[k].at >= uploads'[i].at + Day
             \/ provider' = "filesystem" /\ uploads'[k].seen < i
  <2>1. CASE k = n
    <3>1. i \in 1..Len(uploads) /\ uploads'[k].at = clock /\ uploads'[k].seen = seen
      BY <1>1, <2>1
    <3>2. CASE i <= seen
      <4>1. i \in 1..seen /\ uploads'[i].at = uploads[i].at /\ uploads[i].at \in Nat
        BY <1>1, <3>1, <3>2
      <4>2. uploads[i].at + Day <= clock
        BY <4>1
      <4> QED
        BY <1>0, <3>1, <4>1, <4>2, TimeAssumption
    <3>3. CASE seen < i
      BY <1>1, <3>1, <3>3
    <3> QED
      BY <3>1, <3>2, <3>3
  <2>2. CASE k # n
    <3>1. /\ k \in 1..Len(uploads) /\ i \in 1..Len(uploads)
          /\ uploads'[k] = uploads[k] /\ uploads'[i] = uploads[i]
      <4>1. k \in 1..Len(uploads)
        BY <1>1, <2>2
      <4>2. i \in 1..Len(uploads)
        BY <1>1, <4>1
      <4> QED
        BY <1>1, <4>1, <4>2
    <3> QED
      BY <3>1 DEF UploadInv, OnePerDay
  <2> QED
    BY <2>1, <2>2
<1>6. OnePerDay'
  BY <1>1, <1>5 DEF OnePerDay
<1> QED
  BY <1>3, <1>4, <1>6 DEF UploadInv

\* Every step keeps uploads apart: only store and writeMeta add one.
LEMMA StepUpload == ScheduleInv /\ UploadInv /\ [Next]_vars => UploadInv'
<1> SUFFICES ASSUME ScheduleInv, UploadInv, [Next]_vars PROVE UploadInv'
  OBVIOUS
<1>0. Shape /\ Noted /\ uploads \in Seq(UploadEntry)
  BY DEF ScheduleInv, UploadInv, Noted
<1>1. CASE start \/ stop
  BY <1>1, NoUpload DEF start, stop, Writing
<1>2. CASE exit
  <2>1. uploads' = <<>> /\ \A j \in Jobs : ~Writing(j)'
    BY <1>2, IdleShape DEF exit, Writing
  <2> QED
    BY <2>1 DEF UploadInv, Noted, OnePerDay
<1>3. CASE Tick
  <2>1. UNCHANGED <<provider, lastUpload, uploads, job>> /\ clock \in Nat /\ clock' = clock + 1
    BY <1>0, <1>3 DEF Tick, memory, Shape
  <2>2. Noted'
    BY <1>0, <2>1 DEF Noted
  <2>3. \A j \in Jobs : Writing(j)' => Passed(j)'
    <3> SUFFICES ASSUME NEW j \in Jobs, Writing(j), Passed(j) PROVE Passed(j)'
      BY <2>1 DEF UploadInv, Writing
    <3>1. \A i \in 1..job[j].seen : uploads[i].at \in Nat /\ uploads[i].at + Day <= clock
      BY <1>0, UploadFacts DEF Passed
    <3> QED
      BY <2>1, <3>1, TimeAssumption DEF Passed
  <2> QED
    BY <2>1, <2>2, <2>3 DEF UploadInv, OnePerDay
<1>4. ASSUME NEW j \in Jobs, Backup(j) PROVE UploadInv'
  <2>1. UNCHANGED <<provider, clock, lastUpload, uploads>>
    BY <1>4 DEF Backup, runDailyBackup, triggerManualBackup, packaged, fails, refuse, memory
  <2>2. (\A i \in Jobs : i # j => job'[i] = job[i]) /\ ~Writing(j)'
    BY <1>0, <1>4, IdleShape
       DEF Backup, runDailyBackup, triggerManualBackup, packaged, fails, refuse, Begin, Return,
           Writing, Shape, Fields
  <2> QED
    BY <2>1, <2>2, NoUploadStep
<1>5. ASSUME NEW j \in Jobs, Upload(j) PROVE UploadInv'
  <2>1. ASSUME Return(j)
        PROVE  (\A i \in Jobs : i # j => job'[i] = job[i]) /\ ~Writing(j)'
    BY <1>0, <2>1, IdleShape DEF Return, Writing, Shape
  <2>2. CASE store(j)
    <3>1. Accepted(Len(uploads)) /\ UNCHANGED <<provider, clock>> /\ Return(j) /\ Allowed
      BY <2>2 DEF store
    <3>2. Len(uploads) \in 0..Len(uploads) /\ \A i \in 1..Len(uploads) : uploads[i].at + Day <= clock
      BY <1>0, <3>1, AllowedIsOld, UploadFacts
    <3>3. \A i \in Jobs : Writing(i)' => Writing(i) /\ job'[i].seen = job[i].seen
      BY <2>1, <3>1 DEF Writing
    <3> QED
      BY <1>0, <3>1, <3>2, <3>3, NoteUpload, UploadFacts
  <2>3. CASE quotaExceeded(j) \/ writeFails(j) \/ listFails(j)
    <3>1. Return(j) /\ UNCHANGED <<provider, clock, lastUpload, uploads>>
      BY <2>3 DEF quotaExceeded, writeFails, listFails
    <3> QED
      BY <2>1, <3>1, NoUploadStep
  <2>4. CASE check(j)
    <3>1. /\ UNCHANGED <<provider, clock, lastUpload, uploads>> /\ provider = "filesystem" /\ Allowed
          /\ job'[j].seen = Len(uploads) /\ \A i \in Jobs : i # j => job'[i] = job[i]
      BY <1>0, <2>4 DEF check, memory, Shape, Fields
    <3>2. Len(uploads) \in 0..Len(uploads) /\ \A i \in 1..Len(uploads) : uploads[i].at + Day <= clock
      BY <1>0, <3>1, AllowedIsOld, UploadFacts
    <3>3. Noted' /\ OnePerDay'
      BY <3>1 DEF UploadInv, Noted, OnePerDay
    <3>4. Passed(j)'
      BY <3>1, <3>2 DEF Passed
    <3>5. \A i \in Jobs : i # j /\ Writing(i)' => Passed(i)'
      BY <3>1 DEF UploadInv, Writing, Passed
    <3> QED
      BY <3>3, <3>4, <3>5 DEF UploadInv
  <2>5. CASE writeData(j)
    <3>1. /\ UNCHANGED <<provider, clock, lastUpload, uploads>> /\ Writing(j)
          /\ job'[j].seen = job[j].seen /\ \A i \in Jobs : i # j => job'[i] = job[i]
      BY <1>0, <2>5 DEF writeData, memory, Shape, Fields, Writing
    <3> QED
      BY <3>1, NoUploadStep
  <2>6. CASE writeMeta(j)
    <3>1. /\ Accepted(job[j].seen) /\ UNCHANGED <<provider, clock>> /\ Writing(j)
          /\ job'[j].pc = "listing" /\ \A i \in Jobs : i # j => job'[i] = job[i]
      BY <1>0, <2>6 DEF writeMeta, Shape, Fields, Writing
    <3>2. Passed(j)
      BY <3>1 DEF UploadInv
    <3>3. \A i \in Jobs : Writing(i)' => Writing(i) /\ job'[i].seen = job[i].seen
      BY <3>1 DEF Writing
    <3> QED
      BY <1>0, <3>1, <3>2, <3>3, NoteUpload DEF Passed
  <2>7. CASE listBackups(j) \/ unlink(j) \/ unlinkMeta(j)
    <3>1. UNCHANGED <<provider, clock, lastUpload, uploads>>
      BY <2>7 DEF listBackups, unlink, unlinkMeta
    <3>2. /\ job[j].pc \in {"listing", "deleting", "sweeping"}
          /\ \A i \in Jobs : i # j => job'[i] = job[i]
          /\ job'[j].pc \in {"idle", "deleting", "sweeping"}
      <4>1. CASE listBackups(j)
        BY <1>0, <4>1, IdleShape DEF listBackups, Return, Shape, Fields
      <4>2. CASE unlink(j) \/ unlinkMeta(j)
        BY <1>0, <4>2, IdleShape DEF unlink, unlinkMeta, Dealt, Return, Shape, Fields
      <4> QED
        BY <2>7, <4>1, <4>2
    <3> QED
      BY <3>1, <3>2, NoUploadStep DEF Writing
  <2> QED
    BY <1>5, <2>2, <2>3, <2>4, <2>5, <2>6, <2>7 DEF Upload
<1>6. CASE UNCHANGED vars
  BY <1>6, NoUpload DEF vars, memory, Writing
<1> QED
  BY <1>1, <1>2, <1>3, <1>4, <1>5, <1>6 DEF Next, Process

LEMMA InitUpload == Init => UploadInv
<1> SUFFICES ASSUME Init PROVE UploadInv
  OBVIOUS
<1>1. uploads = <<>> /\ \A j \in Jobs : ~Writing(j)
  BY IdleShape DEF Init, Writing
<1> QED
  BY <1>1 DEF UploadInv, Noted, OnePerDay

\* Uploads of one process are a day apart, but for those that overlapped.
THEOREM WorkerOnePerDay == Spec => []OnePerDay
<1>1. UploadInv => OnePerDay
  BY DEF UploadInv
<1> QED
  BY <1>1, InitSchedule, StepSchedule, InitUpload, StepUpload, PTL DEF Spec

-----------------------------------------------------------------------------
(* The files of the backups.                                                *)

\* What WorkerLatestDownloadable rests on: a call is done within a day, and of
\* maxBackups files there is room for three of each call but two.
EnoughKept ==
  /\ JobTime < Day
  /\ IsFiniteSet(Jobs)
  /\ MaxBackups > 3 * Cardinality(Jobs) - 2

Writers == {j \in Jobs : job[j].pc = "writing"}
Describers == {j \in Jobs : job[j].pc = "describing"}
Listers == {j \in Jobs : job[j].pc = "listing"}
Newer(n) == {f \in files : f.at > n}

\* A call that is to describe its data has written it.
Numbered == \A j \in Describers : job[j].id # 0

\* A call at work is young, and one that lists has noted the time of its upload.
Young ==
  \A j \in Jobs : Active(j) =>
    /\ job[j].began <= clock /\ clock <= job[j].began + JobTime
    /\ j \in Listers => lastUpload # None /\ job[j].began <= lastUpload

\* The data is there, and no cleanup at work is going to delete it.
Kept(b) == Data(b) \in files /\ \A j \in Jobs : Data(b) \notin job[j].doomed

\* While the newest data waits for its description, only calls that were to
\* describe theirs add files, one each.
Waits == \E i \in Describers : job[i].id = newest
NewestKept ==
  Waits => Kept(newest) /\ Cardinality(Newer(newest)) + Cardinality(Describers) <= Cardinality(Jobs)

\* Once it is described, calls that have passed the limit may add two files, until
\* there is nobody left who lists.
LatestKept ==
  latest # 0 =>
    /\ Kept(latest)
    /\ \E f \in Meta(latest) : f.at > latest /\ \A j \in Jobs : f \notin job[j].doomed
    /\ Listers # {} =>
         Cardinality(Newer(latest)) + Cardinality(Describers) + 2 * Cardinality(Writers)
           <= 3 * Cardinality(Jobs) - 2

FilesInv == TypeOK /\ Numbered /\ IsFiniteSet(files) /\ Young /\ NewestKept /\ LatestKept
-----------------------------------------------------------------------------
(* The types.                                                               *)

Steps == {"idle", "packaging", "uploading", "writing", "describing", "listing", "deleting",
          "sweeping"}
Files(n, w) == [backup : 1..n, at : 1..w]
JobRecords(n, w) ==
  [pc : Steps, scheduled : BOOLEAN, began : 0..MaxClock, seen : Nat, id : 0..n,
   doomed : SUBSET Files(n, w)]

\* What a job may know grows with what was written.
LEMMA RecordsGrow ==
  ASSUME NEW n \in Nat, NEW w \in Nat, NEW m \in Nat, NEW v \in Nat, n <= m, w <= v
  PROVE  Files(n, w) \subseteq Files(m, v) /\ JobRecords(n, w) \subseteq JobRecords(m, v)
<1>1. Files(n, w) \subseteq Files(m, v)
  BY DEF Files
<1> QED
  BY <1>1 DEF JobRecords

LEMMA JobTypes ==
  ASSUME TypeOK
  PROVE  /\ job \in [Jobs -> JobRecords(newest, written)] /\ files \subseteq Files(newest, written)
         /\ newest \in Nat /\ written \in Nat /\ latest \in Nat /\ newest <= written
         /\ clock \in Nat /\ clock <= MaxClock
  BY SizeAssumption, TimeAssumption DEF TypeOK, JobRecords, Files, Steps

LEMMA NoneType == ASSUME TypeOK PROVE None \in Nat /\ None > MaxClock /\ NextHour \in Nat
  BY JobTypes, TimeAssumption DEF None, NextHour

LEMMA IdleType ==
  ASSUME NEW n \in Nat, NEW w \in Nat
  PROVE  Idle \in JobRecords(n, w)
  BY TimeAssumption DEF Idle, JobRecords, Steps

\* The jobs of a step that changes the record of one and writes what it may write.
LEMMA JobsStay ==
  ASSUME TypeOK, NEW j \in Jobs, NEW n \in Nat, NEW w \in Nat, newest <= n, written <= w,
         NEW r \in JobRecords(n, w)
  PROVE  [job EXCEPT ![j] = r] \in [Jobs -> JobRecords(n, w)]
  BY JobTypes, RecordsGrow

LEMMA ReturnType ==
  ASSUME TypeOK, NEW j \in Jobs, NEW n \in Nat, NEW w \in Nat, newest <= n, written <= w, Return(j)
  PROVE  job' \in [Jobs -> JobRecords(n, w)] /\ timer' \in Nat
<1>1. timer' \in Nat
  BY NoneType DEF Return, TypeOK
<1> QED
  BY <1>1, IdleType, JobsStay DEF Return

\* Only the state of a job changes.
LEMMA PcType ==
  ASSUME TypeOK, NEW j \in Jobs, NEW n \in Nat, NEW w \in Nat, newest <= n, written <= w,
         NEW p \in Steps
  PROVE  [job EXCEPT ![j].pc = p] \in [Jobs -> JobRecords(n, w)]
<1>1. job[j] \in JobRecords(n, w)
  BY JobTypes, RecordsGrow
<1>2. [job[j] EXCEPT !.pc = p] \in JobRecords(n, w)
  BY <1>1 DEF JobRecords
<1> QED
  BY <1>2, JobsStay

LEMMA BeginType ==
  ASSUME TypeOK, NEW j \in Jobs, NEW scheduled \in BOOLEAN, Begin(j, scheduled)
  PROVE  job' \in [Jobs -> JobRecords(newest, written)]
<1>1. job[j] \in JobRecords(newest, written) /\ clock \in 0..MaxClock
  BY JobTypes DEF TypeOK
<1>2. [job[j] EXCEPT !.pc = "packaging", !.scheduled = scheduled, !.began = clock]
        \in JobRecords(newest, written)
  BY <1>1 DEF JobRecords, Steps
<1> QED
  BY <1>2, JobTypes, JobsStay DEF Begin

\* What a write adds has its type.
LEMMA WriteType ==
  ASSUME TypeOK, NEW b, b \in 1..newest \/ b = written + 1, Write(b)
  PROVE  /\ newest' \in Nat /\ written' \in Nat /\ newest <= newest' /\ written <= written'
         /\ written' = written + 1 /\ written' \in 0..MaxWritten /\ newest' \in 0..written'
         /\ latest \in 0..newest'
         /\ [backup |-> b, at |-> written + 1] \in Files(newest', written')
         /\ files' \subseteq Files(newest', written')
<1>1. /\ newest \in Nat /\ written \in Nat /\ newest <= written /\ MaxWritten \in Nat
      /\ written < MaxWritten /\ written' = written + 1
      /\ newest' = IF b = written + 1 THEN b ELSE newest
      /\ latest \in 0..newest
  BY JobTypes, SizeAssumption DEF Write, TypeOK
<1>2. [backup |-> b, at |-> written + 1] \in Files(newest', written')
  BY <1>1 DEF Files
<1>3. files \subseteq Files(newest', written')
  BY <1>1, JobTypes, RecordsGrow
<1> QED
  BY <1>1, <1>2, <1>3 DEF Write

LEMMA UploadsType ==
  ASSUME TypeOK, NEW n \in Nat, Accepted(n)
  PROVE  /\ lastUpload' \in (0..MaxClock) \union {None}
         /\ uploads' \in Seq([at : 0..MaxClock, seen : Nat])
<1>1. [at |-> clock, seen |-> n] \in [at : 0..MaxClock, seen : Nat]
  BY DEF TypeOK
<1> QED
  BY <1>1 DEF Accepted, TypeOK

\* The parts of TypeOK that most steps leave alone.
LEMMA TypeParts ==
  ASSUME job' \in [Jobs -> JobRecords(newest', written')], timer' \in Nat,
         files' \subseteq Files(newest', written'),
         /\ provider' \in {"mock", "filesystem"} /\ process' \in {"down", "running", "stopping"}
         /\ clock' \in 0..MaxClock /\ lastUpload' \in (0..MaxClock) \union {None}
         /\ used' \in 0..StorageLimit,
         /\ written' \in 0..MaxWritten /\ newest' \in 0..written' /\ latest' \in 0..newest'
         /\ uploads' \in Seq([at : 0..MaxClock, seen : Nat])
  PROVE  TypeOK'
  BY DEF TypeOK, JobRecords, Files, Steps, None

\* Every step keeps the types.
LEMMA StepWorkerTypes == TypeOK /\ Numbered /\ [Next]_vars => TypeOK'
<1> SUFFICES ASSUME TypeOK, Numbered, [Next]_vars PROVE TypeOK'
  OBVIOUS
<1>0. /\ job \in [Jobs -> JobRecords(newest, written)] /\ files \subseteq Files(newest, written)
      /\ newest \in Nat /\ written \in Nat /\ None \in Nat /\ NextHour \in Nat
  BY JobTypes, NoneType
<1>1. CASE start \/ stop
  BY <1>0, <1>1, TypeParts DEF start, stop, disk, TypeOK
<1>2. CASE exit
  <2>1. job' \in [Jobs -> JobRecords(newest, written)]
    BY <1>0, <1>2, IdleType DEF exit
  <2>2. used' \in 0..StorageLimit /\ uploads' \in Seq([at : 0..MaxClock, seen : Nat])
    BY <1>2, SizeAssumption DEF exit
  <2> QED
    BY <1>0, <1>2, <2>1, <2>2, TypeParts DEF exit, disk, TypeOK
<1>3. CASE Tick
  <2>1. clock' \in 0..MaxClock
    BY <1>3, TimeAssumption DEF Tick, TypeOK
  <2> QED
    BY <1>0, <1>3, <2>1, TypeParts DEF Tick, memory, disk, TypeOK
<1>4. ASSUME NEW j \in Jobs, Backup(j) PROVE TypeOK'
  <2>1. job' \in [Jobs -> JobRecords(newest, written)] /\ timer' \in Nat
    <3>1. CASE runDailyBackup(j) \/ triggerManualBackup(j)
      BY <1>0, <3>1, BeginType DEF runDailyBackup, triggerManualBackup, memory, TypeOK
    <3>2. CASE packaged(j)
      <4>0. "uploading" \in Steps
        BY DEF Steps
      <4>1. job' \in [Jobs -> JobRecords(newest, written)]
        BY <1>0, <3>2, <4>0, PcType DEF packaged
      <4> QED
        BY <3>2, <4>1 DEF packaged, memory, TypeOK
    <3>3. CASE fails(j) \/ refuse(j)
      BY <1>0, <3>3, ReturnType DEF fails, refuse
    <3> QED
      BY <1>4, <3>1, <3>2, <3>3 DEF Backup
  <2>2. UNCHANGED <<provider, process, clock, lastUpload, used, disk, uploads>>
    BY <1>4 DEF Backup, runDailyBackup, triggerManualBackup, packaged, fails, refuse, memory
  <2> QED
    BY <1>0, <2>1, <2>2, TypeParts DEF disk, TypeOK
<1>5. ASSUME NEW j \in Jobs, Upload(j) PROVE TypeOK'
  <2>0. job[j] \in JobRecords(newest, written) /\ Len(uploads) \in Nat
    BY <1>0 DEF TypeOK
  <2>1. CASE store(j)
    <3>1. job' \in [Jobs -> JobRecords(newest, written)] /\ timer' \in Nat
      BY <1>0, <2>1, ReturnType DEF store
    <3>2. /\ lastUpload' \in (0..MaxClock) \union {None}
          /\ uploads' \in Seq([at : 0..MaxClock, seen : Nat])
      BY <2>0, <2>1, UploadsType DEF store
    <3>3. used' \in 0..StorageLimit
      BY <2>1, SizeAssumption DEF store, TypeOK
    <3> QED
      BY <1>0, <2>1, <3>1, <3>2, <3>3, TypeParts DEF store, disk, TypeOK
  <2>2. CASE quotaExceeded(j) \/ listFails(j)
    <3>1. job' \in [Jobs -> JobRecords(newest, written)] /\ timer' \in Nat
      BY <1>0, <2>2, ReturnType DEF quotaExceeded, listFails
    <3> QED
      BY <1>0, <2>2, <3>1, TypeParts DEF quotaExceeded, listFails, disk, TypeOK
  <2>3. CASE check(j)
    <3>1. [job[j] EXCEPT !.pc = "writing", !.seen = Len(uploads)] \in JobRecords(newest, written)
      BY <2>0 DEF JobRecords, Steps
    <3>2. job' \in [Jobs -> JobRecords(newest, written)]
      BY <1>0, <2>3, <3>1, JobsStay DEF check
    <3> QED
      BY <1>0, <2>3, <3>2, TypeParts DEF check, memory, disk, TypeOK
  <2>4. CASE writeData(j)
    <3>1. /\ Write(written + 1) /\ written + 1 \in Nat
          /\ job' = [job EXCEPT ![j].pc = "describing", ![j].id = written + 1]
      BY <1>0, <2>4 DEF writeData
    <3>2. newest' = written + 1 /\ written' = written + 1
      BY <3>1 DEF Write
    <3>3. /\ newest' \in Nat /\ written' \in Nat /\ newest <= newest' /\ written <= written'
          /\ written + 1 \in 0..newest'
      BY <1>0, <3>2, JobTypes
    <3>4. job[j] \in JobRecords(newest', written')
      BY <1>0, <2>0, <3>3, RecordsGrow
    <3>5. [job[j] EXCEPT !.pc = "describing", !.id = written + 1] \in JobRecords(newest', written')
      BY <3>3, <3>4 DEF JobRecords, Steps
    <3>6. job' \in [Jobs -> JobRecords(newest', written')]
      <4> DEFINE r == [job[j] EXCEPT !.pc = "describing", !.id = written + 1]
      <4>1. job' = [job EXCEPT ![j] = r]
        BY <3>1
      <4> HIDE DEF r
      <4> QED
        BY <3>3, <3>5, <4>1, JobsStay DEF r
    <3>7. /\ written' \in 0..MaxWritten /\ newest' \in 0..written' /\ latest \in 0..newest'
          /\ files' \subseteq Files(newest', written')
      BY <3>1, WriteType
    <3> QED
      BY <2>4, <3>6, <3>7, TypeParts DEF writeData, memory, TypeOK
  <2>5. CASE writeMeta(j)
    <3>1. /\ Write(job[j].id) /\ job[j].id \in 1..newest
          /\ job' = [job EXCEPT ![j].pc = "listing"] /\ Accepted(job[j].seen) /\ job[j].seen \in Nat
      BY <2>0, <2>5 DEF writeMeta, JobRecords, Numbered, Describers
    <3>2. /\ newest' \in Nat /\ written' \in Nat /\ newest <= newest' /\ written <= written'
          /\ written' \in 0..MaxWritten /\ newest' \in 0..written'
          /\ files' \subseteq Files(newest', written')
      BY <3>1, WriteType
    <3>3. "listing" \in Steps
      BY DEF Steps
    <3>4. job' \in [Jobs -> JobRecords(newest', written')]
      BY <3>1, <3>2, <3>3, PcType
    <3>5. latest' \in 0..newest'
      BY <1>0, <2>5, <3>2 DEF writeMeta
    <3>6. /\ lastUpload' \in (0..MaxClock) \union {None}
          /\ uploads' \in Seq([at : 0..MaxClock, seen : Nat])
      BY <3>1, UploadsType
    <3> QED
      BY <2>5, <3>2, <3>4, <3>5, <3>6, TypeParts DEF writeMeta, TypeOK
  <2>6. CASE writeFails(j)
    <3>1. CASE UNCHANGED <<files, written, newest>>
      <4>1. job' \in [Jobs -> JobRecords(newest, written)] /\ timer' \in Nat
        BY <1>0, <2>6, ReturnType DEF writeFails
      <4> QED
        BY <1>0, <2>6, <3>1, <4>1, TypeParts DEF writeFails, TypeOK
    <3>2. ASSUME NEW b, b \in 1..newest \/ b = written + 1, Write(b) PROVE TypeOK'
      <4>1. /\ newest' \in Nat /\ written' \in Nat /\ newest <= newest' /\ written <= written'
            /\ written' \in 0..MaxWritten /\ newest' \in 0..written'
            /\ files' \subseteq Files(newest', written') /\ latest \in 0..newest'
        BY <3>2, WriteType
      <4>2. job' \in [Jobs -> JobRecords(newest', written')] /\ timer' \in Nat
        BY <2>6, <4>1, ReturnType DEF writeFails
      <4> QED
        BY <2>6, <4>1, <4>2, TypeParts DEF writeFails, TypeOK
    <3>3. job[j].pc = "describing" => job[j].id \in 1..newest
      BY <1>0, <2>0 DEF Numbered, Describers, JobRecords
    <3> QED
      BY <1>0, <2>6, <3>1, <3>2, <3>3 DEF writeFails
  <2>7. CASE listBackups(j)
    <3>1. job' \in [Jobs -> JobRecords(newest, written)] /\ timer' \in Nat
      <4>1. CASE Return(j)
        BY <1>0, <4>1, ReturnType
      <4>2. CASE UNCHANGED timer /\ job' = [job EXCEPT ![j].pc = "deleting", ![j].doomed = Beyond(MaxBackups)]
        <5>1. Beyond(MaxBackups) \in SUBSET Files(newest, written)
          BY <1>0 DEF Beyond
        <5>2. [job[j] EXCEPT !.pc = "deleting", !.doomed = Beyond(MaxBackups)] \in JobRecords(newest, written)
          BY <2>0, <5>1 DEF JobRecords, Steps
        <5> QED
          BY <1>0, <4>2, <5>2, JobsStay DEF TypeOK
      <4> QED
        BY <2>7, <4>1, <4>2 DEF listBackups
    <3> QED
      BY <1>0, <2>7, <3>1, TypeParts DEF listBackups, disk, TypeOK
  <2>8. CASE unlink(j) \/ unlinkMeta(j)
    <3>1. job' \in [Jobs -> JobRecords(newest, written)] /\ timer' \in Nat
      <4>1. CASE Return(j)
        BY <1>0, <4>1, ReturnType
      <4>2. ASSUME NEW f, UNCHANGED timer,
                   job' = [job EXCEPT ![j].pc = "deleting", ![j].doomed = @ \ {f}]
            PROVE  job' \in [Jobs -> JobRecords(newest, written)] /\ timer' \in Nat
        <5>1. [job[j] EXCEPT !.pc = "deleting", !.doomed = @ \ {f}]
                \in JobRecords(newest, written)
          BY <2>0 DEF JobRecords, Steps
        <5> QED
          BY <1>0, <4>2, <5>1, JobsStay DEF TypeOK
      <4>3. ASSUME job' = [job EXCEPT ![j].pc = "sweeping"], UNCHANGED timer
            PROVE  job' \in [Jobs -> JobRecords(newest, written)] /\ timer' \in Nat
        <5>1. [job[j] EXCEPT !.pc = "sweeping"] \in JobRecords(newest, written)
          BY <2>0 DEF JobRecords, Steps
        <5> QED
          BY <1>0, <4>3, <5>1, JobsStay DEF TypeOK
      <4> QED
        BY <2>8, <4>1, <4>2, <4>3 DEF unlink, unlinkMeta, Dealt
    <3>2. files' \subseteq files
      BY <2>8 DEF unlink, unlinkMeta
    <3> QED
      BY <1>0, <2>8, <3>1, <3>2, TypeParts DEF unlink, unlinkMeta, TypeOK
  <2> QED
    BY <1>5, <2>1, <2>2, <2>3, <2>4, <2>5, <2>6, <2>7, <2>8 DEF Upload
<1>6. CASE UNCHANGED vars
  BY <1>0, <1>6, TypeParts DEF vars, memory, disk, TypeOK
<1> QED
  BY <1>1, <1>2, <1>3, <1>4, <1>5, <1>6 DEF Next, Process

-----------------------------------------------------------------------------
\* A call that lists has noted its upload on this day, so nobody passes the limit.
LEMMA ListersBar ==
  ASSUME EnoughKept, TypeOK, Young, Listers # {}
  PROVE  ~Allowed
<1>1. PICK j \in Listers : TRUE
  OBVIOUS
<1>2. Active(j) /\ j \in Jobs /\ job[j].began \in Nat
  BY <1>1, JobTypes DEF Listers, Active, JobRecords
<1>3. /\ job[j].began <= lastUpload /\ clock <= job[j].began + JobTime
      /\ lastUpload # None
  BY <1>1, <1>2 DEF Young
<1>4. lastUpload \in Nat /\ clock \in Nat
  BY <1>3 DEF TypeOK
<1> QED
  BY <1>2, <1>3, <1>4, TimeAssumption DEF Allowed, EnoughKept

\* A step of one call that begins no call.
LEMMA YoungOn ==
  ASSUME TypeOK, Young, NEW j \in Jobs, Active(j), UNCHANGED <<clock, lastUpload>>,
         \A i \in Jobs : i # j => job'[i] = job[i],
         job'[j].pc # "idle" => job'[j].began = job[j].began,
         job'[j].pc # "listing"
  PROVE  Young'
  BY DEF Young, Active, Listers, None

LEMMA YoungReturn ==
  ASSUME TypeOK, Young, NEW j \in Jobs, Active(j), UNCHANGED <<clock, lastUpload>>, Return(j)
  PROVE  Young'
<1>1. job'[j] = Idle /\ Idle.pc = "idle" /\ \A i \in Jobs : i # j => job'[i] = job[i]
  BY JobTypes DEF Return, Idle
<1> QED
  BY <1>1, YoungOn

LEMMA StepYoung == TypeOK /\ Young /\ [Next]_vars => Young'
<1> SUFFICES ASSUME TypeOK, Young, [Next]_vars PROVE Young'
  OBVIOUS
<1>0. /\ DOMAIN job = Jobs /\ clock \in Nat /\ clock <= MaxClock
      /\ \A j \in Jobs : job[j] \in JobRecords(newest, written)
      /\ \A j \in Jobs : job[j].began \in Nat
  BY JobTypes DEF JobRecords
<1>1. CASE start \/ stop \/ UNCHANGED vars
  BY <1>1 DEF start, stop, vars, memory, Young, Active, Listers, None
<1>2. CASE exit
  BY <1>2 DEF exit, Young, Active, Idle
<1>3. CASE Tick
  <2>1. UNCHANGED <<job, lastUpload>> /\ clock' = clock + 1
    BY <1>3 DEF Tick, memory
  <2>2. \A j \in Jobs : Active(j) => clock < job[j].began + JobTime
    BY <1>3 DEF Tick
  <2>3. \A j \in Jobs : job[j].began \in Nat /\ job[j].began + JobTime \in Nat
    BY <1>0, TimeAssumption
  <2>4. \A j \in Jobs : Active(j)' => job'[j].began <= clock' /\ clock' <= job'[j].began + JobTime
    BY <1>0, <2>1, <2>2, <2>3 DEF Active, Young
  <2> QED
    BY <2>1, <2>4 DEF Young, Active, Listers, None
<1>4. ASSUME NEW j \in Jobs, Backup(j) PROVE Young'
  <2>1. CASE runDailyBackup(j) \/ triggerManualBackup(j)
    <3>1. /\ UNCHANGED <<clock, lastUpload>> /\ job'[j].pc = "packaging" /\ job'[j].began = clock
          /\ \A i \in Jobs : i # j => job'[i] = job[i]
      BY <1>0, <2>1 DEF runDailyBackup, triggerManualBackup, memory, Begin, JobRecords
    <3>2. clock <= clock + JobTime
      BY <1>0, TimeAssumption
    <3> QED
      BY <1>0, <3>1, <3>2 DEF Young, Active, Listers, None
  <2>2. CASE packaged(j)
    BY <1>0, <2>2, YoungOn DEF packaged, memory, Active, JobRecords
  <2>3. CASE fails(j) \/ refuse(j)
    BY <2>3, YoungReturn DEF fails, refuse, Active
  <2> QED
    BY <1>4, <2>1, <2>2, <2>3 DEF Backup
<1>5. ASSUME NEW j \in Jobs, Upload(j) PROVE Young'
  <2>1. ASSUME UNCHANGED clock, lastUpload' = clock, NEW p \in {"idle", "listing"},
               job'[j].pc = p, p # "idle" => Active(j) /\ job'[j].began = job[j].began,
               \A i \in Jobs : i # j => job'[i] = job[i]
        PROVE  Young'
    <3>1. lastUpload' # None'
      BY <1>0, <2>1, TimeAssumption DEF None
    <3> QED
      BY <1>0, <2>1, <3>1 DEF Young, Active, Listers
  <2>2. CASE store(j)
    BY <1>0, <2>1, <2>2 DEF store, Accepted, Return, Idle
  <2>3. CASE writeMeta(j)
    <3>1. /\ UNCHANGED clock /\ lastUpload' = clock /\ Active(j)
          /\ job'[j].pc = "listing" /\ job'[j].began = job[j].began
          /\ \A i \in Jobs : i # j => job'[i] = job[i]
      BY <1>0, <2>3 DEF writeMeta, Accepted, Active, JobRecords
    <3> QED
      BY <2>1, <3>1
  <2>4. CASE quotaExceeded(j) \/ writeFails(j) \/ listFails(j)
    BY <2>4, YoungReturn DEF quotaExceeded, writeFails, listFails, Active
  <2>5. CASE check(j) \/ writeData(j)
    BY <1>0, <2>5, YoungOn DEF check, writeData, memory, Active, JobRecords
  <2>6. CASE listBackups(j)
    <3>1. CASE Return(j)
      BY <2>6, <3>1, YoungReturn DEF listBackups, Active
    <3>2. CASE job' = [job EXCEPT ![j].pc = "deleting", ![j].doomed = Beyond(MaxBackups)]
      BY <1>0, <2>6, <3>2, YoungOn DEF listBackups, Active, JobRecords
    <3> QED
      BY <2>6, <3>1, <3>2 DEF listBackups
  <2>7. CASE unlink(j) \/ unlinkMeta(j)
    <3>1. CASE Return(j)
      BY <2>7, <3>1, YoungReturn DEF unlink, unlinkMeta, Active
    <3>2. ASSUME NEW f, job' = [job EXCEPT ![j].pc = "deleting", ![j].doomed = @ \ {f}]
          PROVE  Young'
      BY <1>0, <2>7, <3>2, YoungOn DEF unlink, unlinkMeta, Active, JobRecords
    <3>3. ASSUME job' = [job EXCEPT ![j].pc = "sweeping"] PROVE Young'
      BY <1>0, <2>7, <3>3, YoungOn DEF unlink, unlinkMeta, Active, JobRecords
    <3> QED
      BY <2>7, <3>1, <3>2, <3>3 DEF unlink, unlinkMeta, Dealt
  <2> QED
    BY <1>5, <2>2, <2>3, <2>4, <2>5, <2>6, <2>7 DEF Upload
<1> QED
  BY <1>1, <1>2, <1>3, <1>4, <1>5 DEF Next, Process

-----------------------------------------------------------------------------
LEMMA FilesParts ==
  ASSUME EnoughKept, IsFiniteSet(files), NEW n
  PROVE  /\ Cardinality(Jobs) \in Nat /\ Cardinality(Newer(n)) \in Nat
         /\ Cardinality(Describers) \in Nat /\ Cardinality(Writers) \in Nat
         /\ Cardinality(Describers) <= Cardinality(Jobs)
         /\ IsFiniteSet(Newer(n)) /\ IsFiniteSet(Describers) /\ IsFiniteSet(Writers)
<1>1. Newer(n) \in SUBSET files /\ Describers \in SUBSET Jobs /\ Writers \in SUBSET Jobs
  BY DEF Newer, Describers, Writers
<1>2. /\ IsFiniteSet(Jobs) /\ IsFiniteSet(Newer(n)) /\ IsFiniteSet(Describers) /\ IsFiniteSet(Writers)
      /\ Cardinality(Describers) <= Cardinality(Jobs)
  BY <1>1, FS_Subset DEF EnoughKept
<1> QED
  BY <1>2, FS_CardinalityType

\* A part of a set is no larger.
LEMMA Smaller ==
  ASSUME NEW S, IsFiniteSet(S), NEW T, T \subseteq S
  PROVE  /\ IsFiniteSet(T) /\ Cardinality(T) \in Nat /\ Cardinality(S) \in Nat
         /\ Cardinality(T) <= Cardinality(S)
  BY FS_Subset, FS_CardinalityType

\* One element more or less.
LEMMA OneLess ==
  ASSUME NEW S, IsFiniteSet(S), NEW x \in S, NEW T, T \subseteq S \ {x}
  PROVE  Cardinality(T) \in Nat /\ Cardinality(S) \in Nat /\ Cardinality(T) + 1 <= Cardinality(S)
<1>1. IsFiniteSet(S \ {x}) /\ Cardinality(S \ {x}) = Cardinality(S) - 1
  BY FS_RemoveElement
<1>2. Cardinality(T) \in Nat /\ Cardinality(S \ {x}) \in Nat /\ Cardinality(T) <= Cardinality(S \ {x})
  BY <1>1, Smaller
<1>3. Cardinality(S) \in Nat
  BY FS_CardinalityType
<1> QED
  BY <1>1, <1>2, <1>3

LEMMA OneMore ==
  ASSUME NEW S, IsFiniteSet(S), NEW x, NEW T, T \subseteq S \union {x}
  PROVE  Cardinality(T) \in Nat /\ Cardinality(S) \in Nat /\ Cardinality(T) <= Cardinality(S) + 1
<1>1. IsFiniteSet(S \union {x}) /\ Cardinality(S) \in Nat
      /\ Cardinality(S \union {x}) \in {Cardinality(S), Cardinality(S) + 1}
  BY FS_AddElement, FS_CardinalityType
<1>2. Cardinality(T) \in Nat /\ Cardinality(T) <= Cardinality(S \union {x})
  BY <1>1, Smaller
<1> QED
  BY <1>1, <1>2

\* A step that writes nothing, deletes what nobody keeps, and after which no more
\* calls write, describe or list, nor more files are doomed, leaves both backups
\* kept. Calls that go to write do not matter while nobody lists.
LEMMA Quiet ==
  ASSUME EnoughKept, IsFiniteSet(files), NewestKept, LatestKept,
         UNCHANGED <<newest, latest>>, files' \subseteq files,
         \A f \in files : (\A i \in Jobs : f \notin job[i].doomed) /\ Kept(f.backup) => f \in files',
         Listers' # {} => Writers' \subseteq Writers,
         Describers' \subseteq Describers, Listers' \subseteq Listers,
         \A i \in Describers' : job'[i].id = job[i].id,
         \A i \in Jobs : job'[i].doomed \subseteq job[i].doomed
  PROVE  IsFiniteSet(files') /\ NewestKept' /\ LatestKept'
<1>0. IsFiniteSet(files')
  BY Smaller
<1>1. /\ Cardinality(Describers') \in Nat /\ Cardinality(Describers') <= Cardinality(Describers)
      /\ Listers' # {} =>
           Cardinality(Writers') \in Nat /\ Cardinality(Writers') <= Cardinality(Writers)
  BY FilesParts, Smaller
<1>2. ASSUME NEW b, Kept(b)
      PROVE  /\ Data(b) \in files' /\ \A j \in Jobs : Data(b) \notin job'[j].doomed
             /\ Newer(b)' \subseteq Newer(b) /\ Cardinality(Newer(b)') \in Nat
             /\ Cardinality(Newer(b)') <= Cardinality(Newer(b))
  <2>1. Data(b) \in files /\ Data(b).backup = b /\ \A j \in Jobs : Data(b) \notin job[j].doomed
    BY <1>2 DEF Kept, Data
  <2>2. Newer(b)' \subseteq Newer(b)
    BY DEF Newer
  <2> QED
    BY <1>2, <2>1, <2>2, FilesParts, Smaller
<1>3. NewestKept'
  <2> SUFFICES ASSUME Waits'
               PROVE  /\ Kept(newest)'
                      /\ Cardinality(Newer(newest)') + Cardinality(Describers') <= Cardinality(Jobs)
    BY DEF NewestKept
  <2>1. Waits
    BY DEF Waits
  <2>2. Kept(newest) /\ Cardinality(Newer(newest)) + Cardinality(Describers) <= Cardinality(Jobs)
    BY <2>1 DEF NewestKept
  <2>3. Kept(newest)' /\ Newer(newest)' = {f \in files' : f.at > newest}
    BY <1>2, <2>2 DEF Kept, Data, Newer
  <2>4. Cardinality(Newer(newest)') \in Nat /\ Cardinality(Newer(newest)') <= Cardinality(Newer(newest))
    BY <2>3, FilesParts, Smaller DEF Newer
  <2> QED
    BY <1>1, <2>2, <2>3, <2>4, FilesParts
<1>4. LatestKept'
  <2> SUFFICES ASSUME latest # 0
               PROVE  /\ Kept(latest)'
                      /\ \E f \in Meta(latest)' :
                           f.at > latest /\ \A j \in Jobs : f \notin job'[j].doomed
                      /\ Listers' # {} =>
                           Cardinality(Newer(latest)') + Cardinality(Describers')
                             + 2 * Cardinality(Writers') <= 3 * Cardinality(Jobs) - 2
    BY DEF LatestKept
  <2>1. Kept(latest)
    BY DEF LatestKept
  <2>2. PICK f \in Meta(latest) : f.at > latest /\ \A j \in Jobs : f \notin job[j].doomed
    BY DEF LatestKept
  <2>3. f \in files' /\ f.backup = latest /\ f.at # latest
    BY <2>1, <2>2 DEF Meta
  <2>4. f \in Meta(latest)' /\ f.at > latest /\ \A j \in Jobs : f \notin job'[j].doomed
    BY <2>2, <2>3 DEF Meta
  <2>5. Kept(latest)'
    BY <1>2, <2>1 DEF Kept, Data
  <2>6. Cardinality(Newer(latest)') \in Nat /\ Cardinality(Newer(latest)') <= Cardinality(Newer(latest))
    BY FilesParts, Smaller DEF Newer
  <2>7. Listers' # {} =>
          Cardinality(Newer(latest)) + Cardinality(Describers) + 2 * Cardinality(Writers)
            <= 3 * Cardinality(Jobs) - 2
    BY DEF LatestKept
  <2> QED
    BY <1>1, <2>4, <2>5, <2>6, <2>7, FilesParts
<1> QED
  BY <1>0, <1>3, <1>4

\* A step of one call that neither writes, describes nor lists afterwards.
LEMMA Elsewhere ==
  ASSUME NEW j \in Jobs, \A i \in Jobs : i # j => job'[i] = job[i],
         job'[j].pc \notin {"writing", "describing", "listing"}
  PROVE  /\ Writers' \subseteq Writers \ {j} /\ Describers' \subseteq Describers \ {j}
         /\ Listers' \subseteq Listers \ {j}
         /\ \A i \in Describers' : job'[i].id = job[i].id
         /\ job'[j].doomed \subseteq job[j].doomed => \A i \in Jobs : job'[i].doomed \subseteq job[i].doomed
  BY DEF Writers, Describers, Listers

LEMMA Returned ==
  ASSUME TypeOK, NEW j \in Jobs, Return(j)
  PROVE  /\ \A i \in Jobs : i # j => job'[i] = job[i]
         /\ job'[j].pc \notin {"writing", "describing", "listing"}
         /\ job'[j].doomed \subseteq job[j].doomed
  BY JobTypes DEF Return, Idle

\* A step of one call that writes nothing and goes neither to list nor to doom files.
LEMMA QuietCall ==
  ASSUME EnoughKept, FilesInv, NEW j \in Jobs, UNCHANGED disk,
         \A i \in Jobs : i # j => job'[i] = job[i],
         job'[j].pc \notin {"writing", "describing", "listing"},
         job'[j].doomed \subseteq job[j].doomed
  PROVE  IsFiniteSet(files') /\ NewestKept' /\ LatestKept'
<1>1. /\ Writers' \subseteq Writers /\ Describers' \subseteq Describers /\ Listers' \subseteq Listers
      /\ \A i \in Describers' : job'[i].id = job[i].id
      /\ \A i \in Jobs : job'[i].doomed \subseteq job[i].doomed
  BY Elsewhere
<1>2. UNCHANGED <<newest, latest>> /\ files' = files
  BY DEF disk
<1> QED
  BY <1>1, <1>2, Quiet DEF FilesInv

LEMMA QuietReturn ==
  ASSUME EnoughKept, FilesInv, NEW j \in Jobs, UNCHANGED disk, Return(j)
  PROVE  IsFiniteSet(files') /\ NewestKept' /\ LatestKept'
<1>1. TypeOK
  BY DEF FilesInv
<1> QED
  BY <1>1, Returned, QuietCall

-----------------------------------------------------------------------------
\* A file that is written is new: nobody dooms it, and it is newer than all others.
LEMMA NewFile ==
  ASSUME TypeOK, IsFiniteSet(files), NEW b, Write(b),
         NEW f, f = [backup |-> b, at |-> written + 1]
  PROVE  /\ files' = files \union {f} /\ f.backup = b /\ f.at = written + 1
         /\ \A g \in files : g.at <= written
         /\ \A i \in Jobs : f \notin job[i].doomed
         /\ IsFiniteSet(files')
         /\ \A n : Cardinality(Newer(n)) \in Nat
<1>1. /\ files' = files \union {f} /\ f.backup = b /\ f.at = written + 1
      /\ \A g \in files : g.at <= written
  BY JobTypes DEF Write, Files
<1>2. ASSUME NEW i \in Jobs PROVE f \notin job[i].doomed
  <2>1. job[i].doomed \subseteq Files(newest, written)
    BY JobTypes DEF JobRecords
  <2> QED
    BY <1>1, <2>1, JobTypes DEF Files
<1>3. IsFiniteSet(files')
  BY <1>1, FS_AddElement
<1>4. \A n : Cardinality(Newer(n)) \in Nat
  BY Smaller DEF Newer
<1> QED
  BY <1>1, <1>2, <1>3, <1>4

\* What is kept stays so, and there is one newer file at most.
LEMMA WriteKeeps ==
  ASSUME TypeOK, IsFiniteSet(files), NEW b, Write(b),
         \A i \in Jobs : job'[i].doomed \subseteq job[i].doomed,
         NEW n, Kept(n)
  PROVE  /\ Data(n) \in files' /\ \A j \in Jobs : Data(n) \notin job'[j].doomed
         /\ Cardinality({f \in files' : f.at > n}) \in Nat
         /\ Cardinality({f \in files' : f.at > n}) <= Cardinality(Newer(n)) + 1
<1>1. files' = files \union {[backup |-> b, at |-> written + 1]}
  BY NewFile
<1>2. {f \in files' : f.at > n} \subseteq Newer(n) \union {[backup |-> b, at |-> written + 1]}
  BY <1>1 DEF Newer
<1>3. IsFiniteSet(Newer(n))
  BY Smaller DEF Newer
<1>4. /\ Cardinality({f \in files' : f.at > n}) \in Nat
      /\ Cardinality({f \in files' : f.at > n}) <= Cardinality(Newer(n)) + 1
  BY <1>2, <1>3, OneMore
<1> QED
  BY <1>1, <1>4 DEF Kept

\* What a write leaves of LatestKept: one more newer file is made up for by a call
\* that no longer describes, or no longer writes.
LEMMA WriteLatest ==
  ASSUME EnoughKept, TypeOK, IsFiniteSet(files), LatestKept, NEW b, Write(b), UNCHANGED latest,
         \A i \in Jobs : job'[i].doomed \subseteq job[i].doomed,
         NEW j \in Jobs, Listers' \subseteq Listers,
         \/ j \in Describers /\ Describers' \subseteq Describers \ {j} /\ Writers' \subseteq Writers
         \/ j \in Writers /\ Describers' \subseteq Describers \union {j}
              /\ Writers' \subseteq Writers \ {j}
  PROVE  LatestKept'
<1> SUFFICES ASSUME latest # 0
             PROVE  /\ Kept(latest)'
                    /\ \E f \in Meta(latest)' : f.at > latest /\ \A i \in Jobs : f \notin job'[i].doomed
                    /\ Listers' # {} =>
                         Cardinality(Newer(latest)') + Cardinality(Describers')
                           + 2 * Cardinality(Writers') <= 3 * Cardinality(Jobs) - 2
  BY DEF LatestKept
<1>1. Kept(latest)
  BY DEF LatestKept
<1>2. /\ Data(latest) \in files' /\ \A i \in Jobs : Data(latest) \notin job'[i].doomed
      /\ Cardinality({f \in files' : f.at > latest}) \in Nat
      /\ Cardinality({f \in files' : f.at > latest}) <= Cardinality(Newer(latest)) + 1
  BY <1>1, WriteKeeps
<1>3. Kept(latest)' /\ Newer(latest)' = {f \in files' : f.at > latest}
  BY <1>2 DEF Kept, Data, Newer
<1>4. PICK f \in Meta(latest) : f.at > latest /\ \A i \in Jobs : f \notin job[i].doomed
  BY DEF LatestKept
<1>5. f \in Meta(latest)' /\ \A i \in Jobs : f \notin job'[i].doomed
  BY <1>4 DEF Meta, Write
<1>6. Listers' # {} =>
        Cardinality(Newer(latest)) + Cardinality(Describers) + 2 * Cardinality(Writers)
          <= 3 * Cardinality(Jobs) - 2
  BY DEF LatestKept
<1>7. /\ Cardinality(Jobs) \in Nat /\ Cardinality(Newer(latest)) \in Nat
      /\ Cardinality(Describers) \in Nat /\ Cardinality(Writers) \in Nat
      /\ IsFiniteSet(Describers) /\ IsFiniteSet(Writers)
  BY FilesParts
<1>8. CASE j \in Describers /\ Describers' \subseteq Describers \ {j} /\ Writers' \subseteq Writers
  <2>1. Cardinality(Describers') \in Nat /\ Cardinality(Describers') + 1 <= Cardinality(Describers)
    BY <1>7, <1>8, OneLess
  <2>2. Cardinality(Writers') \in Nat /\ Cardinality(Writers') <= Cardinality(Writers)
    BY <1>7, <1>8, Smaller
  <2>3. Listers' # {} =>
          Cardinality(Newer(latest)') + Cardinality(Describers') + 2 * Cardinality(Writers')
            <= 3 * Cardinality(Jobs) - 2
    BY <1>2, <1>3, <1>6, <1>7, <2>1, <2>2
  <2> QED
    BY <1>3, <1>4, <1>5, <2>3
<1>9. CASE j \in Writers /\ Describers' \subseteq Describers \union {j} /\ Writers' \subseteq Writers \ {j}
  <2>1. Cardinality(Describers') \in Nat /\ Cardinality(Describers') <= Cardinality(Describers) + 1
    BY <1>7, <1>9, OneMore
  <2>2. Cardinality(Writers') \in Nat /\ Cardinality(Writers') + 1 <= Cardinality(Writers)
    BY <1>7, <1>9, OneLess
  <2>3. Listers' # {} =>
          Cardinality(Newer(latest)') + Cardinality(Describers') + 2 * Cardinality(Writers')
            <= 3 * Cardinality(Jobs) - 2
    BY <1>2, <1>3, <1>6, <1>7, <2>1, <2>2
  <2> QED
    BY <1>3, <1>4, <1>5, <2>3
<1> QED
  BY <1>8, <1>9

-----------------------------------------------------------------------------
\* FilesInv, but for the types, the numbers and the ages of the calls.
StaysKept == IsFiniteSet(files) /\ NewestKept /\ LatestKept

\* The new data is the newest file of all.
LEMMA DataKept ==
  ASSUME EnoughKept, FilesInv, NEW j \in Jobs, writeData(j)
  PROVE  StaysKept'
<1> DEFINE f == [backup |-> written + 1, at |-> written + 1]
<1>0. TypeOK /\ IsFiniteSet(files) /\ Write(written + 1) /\ UNCHANGED latest
  BY DEF FilesInv, writeData
<1>1. /\ j \in Writers /\ DOMAIN job = Jobs /\ job[j] \in JobRecords(newest, written)
      /\ \A i \in Jobs : i # j => job'[i] = job[i]
      /\ job'[j].pc = "describing" /\ job'[j].id = written + 1 /\ job'[j].doomed = job[j].doomed
  BY <1>0, JobTypes DEF writeData, Writers, JobRecords
<1>2. /\ Describers' \subseteq Describers \union {j} /\ Writers' \subseteq Writers \ {j}
      /\ Listers' \subseteq Listers
      /\ \A i \in Jobs : job'[i].doomed \subseteq job[i].doomed
  BY <1>1 DEF Describers, Writers, Listers
<1>3. written \in Nat /\ newest' = written + 1
  BY <1>0, JobTypes DEF Write
<1>4. /\ f \in files' /\ IsFiniteSet(files') /\ \A i \in Jobs : f \notin job[i].doomed
      /\ \A g \in files' : g.at <= written + 1 /\ g.at \in Nat
  <2>1. /\ files' = files \union {f} /\ f.at = written + 1 /\ IsFiniteSet(files')
        /\ \A g \in files : g.at <= written
        /\ \A i \in Jobs : f \notin job[i].doomed
    BY <1>0, NewFile
  <2>2. \A g \in files : g.at \in Nat
    BY <1>0, JobTypes DEF Files
  <2> HIDE DEF f
  <2> QED
    BY <1>3, <2>1, <2>2
<1>5. NewestKept'
  <2>1. Kept(newest)'
    BY <1>2, <1>3, <1>4 DEF Kept, Data
  <2>2. Newer(newest)' = {}
    BY <1>3, <1>4 DEF Newer
  <2>3. Cardinality(Newer(newest)') = 0
    BY <2>2, FS_EmptySet
  <2>4. /\ Cardinality(Describers') \in Nat /\ Cardinality(Jobs) \in Nat
        /\ Cardinality(Describers') <= Cardinality(Jobs)
    <3>1. IsFiniteSet(Jobs) /\ Describers' \subseteq Jobs
      BY DEF EnoughKept, Describers
    <3> QED
      BY <3>1, Smaller
  <2> QED
    BY <2>1, <2>3, <2>4 DEF NewestKept
<1>6. LatestKept'
  BY <1>0, <1>1, <1>2, WriteLatest DEF FilesInv
<1> QED
  BY <1>4, <1>5, <1>6 DEF StaysKept

\* A call that describes its data or fails to: what it writes is no data.
LEMMA OtherWrite ==
  ASSUME EnoughKept, FilesInv, NEW j \in Describers, Write(job[j].id),
         Writers' \subseteq Writers, Describers' \subseteq Describers \ {j},
         \A i \in Describers' : job'[i].id = job[i].id,
         \A i \in Jobs : job'[i].doomed \subseteq job[i].doomed
  PROVE  newest' = newest /\ NewestKept' /\ IsFiniteSet(files')
<1>0. TypeOK /\ IsFiniteSet(files)
  BY DEF FilesInv
<1>1. job[j].id \in 1..newest /\ newest \in Nat /\ written \in Nat /\ newest <= written
  BY <1>0, JobTypes DEF FilesInv, Numbered, Describers, JobRecords
<1>2. newest' = newest
  BY <1>1 DEF Write
<1>3. IsFiniteSet(files')
  BY <1>0, NewFile
<1>4. NewestKept'
  <2> SUFFICES ASSUME Waits'
               PROVE  /\ Kept(newest)'
                      /\ Cardinality(Newer(newest)') + Cardinality(Describers') <= Cardinality(Jobs)
    BY DEF NewestKept
  <2>1. Waits
    BY <1>2 DEF Waits
  <2>2. Kept(newest) /\ Cardinality(Newer(newest)) + Cardinality(Describers) <= Cardinality(Jobs)
    BY <2>1 DEF NewestKept, FilesInv
  <2>3. /\ Data(newest) \in files' /\ \A i \in Jobs : Data(newest) \notin job'[i].doomed
        /\ Cardinality({f \in files' : f.at > newest}) \in Nat
        /\ Cardinality({f \in files' : f.at > newest}) <= Cardinality(Newer(newest)) + 1
    BY <1>0, <2>2, WriteKeeps
  <2>4. Kept(newest)' /\ Newer(newest)' = {f \in files' : f.at > newest}
    BY <1>2, <2>3 DEF Kept, Data, Newer
  <2>5. Cardinality(Describers') \in Nat /\ Cardinality(Describers') + 1 <= Cardinality(Describers)
    BY <1>0, FilesParts, OneLess
  <2> QED
    BY <1>0, <2>2, <2>3, <2>4, <2>5, FilesParts
<1> QED
  BY <1>2, <1>3, <1>4

\* The description of the newest data: of the calls at work one is here, and each
\* of the others adds two files at most.
LEMMA MetaKept ==
  ASSUME EnoughKept, FilesInv, NEW j \in Jobs, writeMeta(j)
  PROVE  StaysKept'
<1> DEFINE f == [backup |-> job[j].id, at |-> written + 1]
<1>0. TypeOK /\ IsFiniteSet(files) /\ Write(job[j].id)
  BY DEF FilesInv, writeMeta
<1>1. /\ j \in Describers /\ DOMAIN job = Jobs /\ job[j] \in JobRecords(newest, written)
      /\ \A i \in Jobs : i # j => job'[i] = job[i]
      /\ job'[j].pc = "listing" /\ job'[j].doomed = job[j].doomed
  BY <1>0, JobTypes DEF writeMeta, Describers, JobRecords
<1>2. /\ Describers' \subseteq Describers \ {j} /\ Writers' \subseteq Writers /\ j \notin Writers'
      /\ \A i \in Describers' : job'[i].id = job[i].id
      /\ \A i \in Jobs : job'[i].doomed \subseteq job[i].doomed
  BY <1>1 DEF Describers, Writers
<1>3. newest' = newest /\ NewestKept' /\ IsFiniteSet(files')
  BY <1>0, <1>1, <1>2, OtherWrite
<1>4. LatestKept'
  <2> SUFFICES ASSUME latest' # 0
               PROVE  /\ Kept(latest)'
                      /\ \E g \in Meta(latest)' : g.at > latest' /\ \A i \in Jobs : g \notin job'[i].doomed
                      /\ Cardinality(Newer(latest)') + Cardinality(Describers') + 2 * Cardinality(Writers')
                           <= 3 * Cardinality(Jobs) - 2
    BY DEF LatestKept
  <2>1. newest = job[j].id /\ latest' = newest /\ Waits
    BY <1>1 DEF writeMeta, Waits
  <2>2. Kept(newest) /\ Cardinality(Newer(newest)) + Cardinality(Describers) <= Cardinality(Jobs)
    BY <2>1 DEF NewestKept, FilesInv
  <2>3. /\ Data(newest) \in files' /\ \A i \in Jobs : Data(newest) \notin job'[i].doomed
        /\ Cardinality({g \in files' : g.at > newest}) \in Nat
        /\ Cardinality({g \in files' : g.at > newest}) <= Cardinality(Newer(newest)) + 1
    BY <1>0, <1>2, <2>2, WriteKeeps
  <2>4. Kept(latest)' /\ Newer(latest)' = {g \in files' : g.at > newest}
    BY <2>1, <2>3 DEF Kept, Data, Newer
  <2>5. f \in Meta(latest)' /\ f.at > latest' /\ \A i \in Jobs : f \notin job'[i].doomed
    <3>1. /\ files' = files \union {f} /\ f.backup = newest /\ f.at = written + 1
          /\ \A i \in Jobs : f \notin job[i].doomed
      BY <1>0, <2>1, NewFile
    <3>2. newest \in Nat /\ written \in Nat /\ newest <= written
      BY <1>0, JobTypes
    <3> HIDE DEF f
    <3> QED
      BY <1>2, <2>1, <3>1, <3>2 DEF Meta
  <2>6. Cardinality(Describers') \in Nat /\ Cardinality(Describers') + 1 <= Cardinality(Describers)
    BY <1>0, <1>1, <1>2, FilesParts, OneLess
  <2>7. Cardinality(Writers') \in Nat /\ Cardinality(Writers') + 1 <= Cardinality(Jobs)
    <3>1. IsFiniteSet(Jobs) /\ Writers' \subseteq Jobs \ {j}
      BY <1>2 DEF EnoughKept, Writers
    <3> QED
      BY <3>1, OneLess
  <2>8. Cardinality(Newer(latest)') + Cardinality(Describers') + 2 * Cardinality(Writers')
          <= 3 * Cardinality(Jobs) - 2
    BY <1>0, <2>2, <2>3, <2>4, <2>6, <2>7, FilesParts
  <2> QED
    BY <2>4, <2>5, <2>8
<1> QED
  BY <1>3, <1>4 DEF StaysKept

\* A write that fails leaves a part of a file, or nothing. New data without a
\* description makes nobody wait: what the others are to describe is older.
LEMMA FailureKept ==
  ASSUME EnoughKept, FilesInv, NEW j \in Jobs, writeFails(j)
  PROVE  StaysKept'
<1>0. TypeOK /\ IsFiniteSet(files) /\ Return(j) /\ UNCHANGED latest
  BY DEF FilesInv, writeFails
<1>1. /\ Writers' \subseteq Writers \ {j} /\ Describers' \subseteq Describers \ {j}
      /\ Listers' \subseteq Listers
      /\ \A i \in Describers' : job'[i].id = job[i].id
      /\ \A i \in Jobs : job'[i].doomed \subseteq job[i].doomed
  BY <1>0, Returned, Elsewhere
<1>2. CASE UNCHANGED <<files, written, newest>>
  BY <1>0, <1>2, QuietReturn DEF disk, StaysKept
<1>3. CASE j \in Describers /\ Write(job[j].id)
  <2>1. newest' = newest /\ NewestKept' /\ IsFiniteSet(files')
    BY <1>1, <1>3, OtherWrite
  <2>2. LatestKept'
    BY <1>0, <1>1, <1>3, WriteLatest DEF FilesInv
  <2> QED
    BY <2>1, <2>2 DEF StaysKept
<1>4. CASE j \in Writers /\ Write(written + 1)
  <2>1. LatestKept'
    BY <1>0, <1>1, <1>4, WriteLatest DEF FilesInv
  <2>2. IsFiniteSet(files')
    BY <1>0, <1>4, NewFile
  <2>3. NewestKept'
    <3>1. newest' = written + 1 /\ newest \in Nat /\ written \in Nat /\ newest <= written
      BY <1>0, <1>4, JobTypes DEF Write
    <3>2. \A i \in Describers : job[i].id \in 0..newest
      BY <1>0, JobTypes DEF Describers, JobRecords
    <3>3. ~Waits'
      BY <1>1, <3>1, <3>2 DEF Waits
    <3> QED
      BY <3>3 DEF NewestKept
  <2> QED
    BY <2>1, <2>2, <2>3 DEF StaysKept
<1> QED
  BY <1>2, <1>3, <1>4 DEF writeFails, Writers, Describers

-----------------------------------------------------------------------------
\* Nobody lists when a call passes the limit.
LEMMA CheckKept ==
  ASSUME EnoughKept, FilesInv, NEW j \in Jobs, check(j)
  PROVE  StaysKept'
<1>0. TypeOK /\ IsFiniteSet(files) /\ UNCHANGED <<files, newest, latest>>
  BY DEF FilesInv, check, disk
<1>1. /\ DOMAIN job = Jobs /\ job[j] \in JobRecords(newest, written)
      /\ \A i \in Jobs : i # j => job'[i] = job[i]
      /\ job'[j].pc = "writing" /\ job'[j].doomed = job[j].doomed
  BY <1>0, JobTypes DEF check, JobRecords
<1>2. /\ Describers' \subseteq Describers /\ Listers' \subseteq Listers
      /\ \A i \in Describers' : job'[i].id = job[i].id
      /\ \A i \in Jobs : job'[i].doomed \subseteq job[i].doomed
  BY <1>1 DEF Describers, Listers
<1>3. Listers = {}
  BY ListersBar DEF check, FilesInv
<1> QED
  BY <1>0, <1>2, <1>3, Quiet DEF FilesInv, StaysKept

\* Of the files that a cleanup dooms, none is kept: fewer are newer than those.
LEMMA ListKept ==
  ASSUME EnoughKept, FilesInv, NEW j \in Jobs, listBackups(j),
         job' = [job EXCEPT ![j].pc = "deleting", ![j].doomed = Beyond(MaxBackups)]
  PROVE  StaysKept'
<1>0. TypeOK /\ IsFiniteSet(files) /\ UNCHANGED <<files, newest, latest>>
  BY DEF FilesInv, listBackups, disk
<1>1. /\ DOMAIN job = Jobs /\ job[j] \in JobRecords(newest, written)
      /\ \A i \in Jobs : i # j => job'[i] = job[i]
      /\ job'[j].pc = "deleting" /\ job'[j].doomed = Beyond(MaxBackups)
  BY <1>0, JobTypes DEF listBackups, JobRecords
<1>2. /\ Describers' \subseteq Describers /\ Writers' \subseteq Writers /\ Listers' \subseteq Listers
      /\ \A i \in Describers' : job'[i].id = job[i].id
      /\ j \in Listers
  BY <1>1, Elsewhere DEF Listers, listBackups
<1>3. Cardinality(Jobs) \in Nat /\ Cardinality(Jobs) >= 1 /\ MaxBackups \in Nat
  <2>1. IsFiniteSet(Jobs) /\ {} \subseteq Jobs \ {j} /\ Cardinality({}) = 0
    BY FS_EmptySet DEF EnoughKept
  <2> QED
    BY <2>1, OneLess, SizeAssumption
<1>4. ASSUME NEW f, NEW n, Cardinality(Newer(n)) < MaxBackups, f.at \in Nat, n \in Nat, f.at >= n
      PROVE  f \notin Beyond(MaxBackups)
  <2>1. {g \in files : g.at > f.at} \subseteq Newer(n)
    <3>1. \A g \in files : g.at \in Nat
      BY <1>0, JobTypes DEF Files
    <3> QED
      BY <1>4, <3>1 DEF Newer
  <2>2. IsFiniteSet(Newer(n)) /\ Cardinality(Newer(n)) \in Nat
    BY <1>0, FilesParts
  <2>3. /\ Cardinality({g \in files : g.at > f.at}) \in Nat
        /\ Cardinality({g \in files : g.at > f.at}) <= Cardinality(Newer(n))
    BY <2>1, <2>2, Smaller
  <2> QED
    BY <1>3, <1>4, <2>2, <2>3 DEF Beyond
<1>5. ASSUME NEW n \in Nat, Cardinality(Newer(n)) < MaxBackups
      PROVE  Data(n) \notin Beyond(MaxBackups)
  BY <1>4, <1>5, Data(n).at = n DEF Data
<1>6. /\ Cardinality(Describers') \in Nat /\ Cardinality(Describers') <= Cardinality(Describers)
      /\ Cardinality(Writers') \in Nat /\ Cardinality(Writers') <= Cardinality(Writers)
      /\ Cardinality(Describers) \in Nat /\ Cardinality(Writers) \in Nat
      /\ Cardinality(Newer(newest)) \in Nat /\ Cardinality(Newer(latest)) \in Nat
  BY <1>0, <1>2, FilesParts, Smaller
<1>7. newest \in Nat /\ latest \in Nat
  BY <1>0, JobTypes
<1>8. ASSUME NEW f, f \notin Beyond(MaxBackups), \A i \in Jobs : f \notin job[i].doomed
      PROVE  \A i \in Jobs : f \notin job'[i].doomed
  BY <1>1, <1>8
<1>9. NewestKept'
  <2> SUFFICES ASSUME Waits'
               PROVE  /\ Kept(newest)'
                      /\ Cardinality(Newer(newest)') + Cardinality(Describers') <= Cardinality(Jobs)
    BY DEF NewestKept
  <2>1. Waits
    BY <1>0, <1>2 DEF Waits
  <2>2. Kept(newest) /\ Cardinality(Newer(newest)) + Cardinality(Describers) <= Cardinality(Jobs)
    BY <2>1 DEF NewestKept, FilesInv
  <2>3. Cardinality(Newer(newest)) < MaxBackups
    BY <1>3, <1>6, <2>2 DEF EnoughKept
  <2>4. Data(newest) \notin Beyond(MaxBackups)
    BY <1>5, <1>7, <2>3
  <2>5. Kept(newest)'
    BY <1>0, <1>8, <2>2, <2>4 DEF Kept, Data
  <2>6. Newer(newest)' = Newer(newest)
    BY <1>0 DEF Newer
  <2> QED
    BY <1>3, <1>6, <2>2, <2>5, <2>6
<1>10. LatestKept'
  <2> SUFFICES ASSUME latest # 0
               PROVE  /\ Kept(latest)'
                      /\ \E f \in Meta(latest)' : f.at > latest /\ \A i \in Jobs : f \notin job'[i].doomed
                      /\ Cardinality(Newer(latest)') + Cardinality(Describers')
                           + 2 * Cardinality(Writers') <= 3 * Cardinality(Jobs) - 2
    BY <1>0 DEF LatestKept
  <2>1. /\ Kept(latest)
        /\ Cardinality(Newer(latest)) + Cardinality(Describers) + 2 * Cardinality(Writers)
             <= 3 * Cardinality(Jobs) - 2
    BY <1>2 DEF LatestKept, FilesInv
  <2>2. PICK f \in Meta(latest) : f.at > latest /\ \A i \in Jobs : f \notin job[i].doomed
    BY DEF LatestKept, FilesInv
  <2>3. Cardinality(Newer(latest)) < MaxBackups
    BY <1>3, <1>6, <2>1 DEF EnoughKept
  <2>4. Data(latest) \notin Beyond(MaxBackups)
    BY <1>5, <1>7, <2>3
  <2>5. f \notin Beyond(MaxBackups)
    <3>1. f.at \in Nat
      BY <1>0, <2>2, JobTypes DEF Meta, Files
    <3> QED
      BY <1>4, <1>7, <2>2, <2>3, <3>1
  <2>6. Kept(latest)'
    BY <1>0, <1>8, <2>1, <2>4 DEF Kept, Data
  <2>7. f \in Meta(latest)' /\ f.at > latest /\ \A i \in Jobs : f \notin job'[i].doomed
    BY <1>0, <1>8, <2>2, <2>5 DEF Meta
  <2>8. Newer(latest)' = Newer(latest)
    BY <1>0 DEF Newer
  <2>9. Cardinality(Newer(latest)') + Cardinality(Describers') + 2 * Cardinality(Writers')
          <= 3 * Cardinality(Jobs) - 2
    BY <1>3, <1>6, <2>1, <2>8
  <2> QED
    BY <2>6, <2>7, <2>9
<1> QED
  BY <1>0, <1>9, <1>10 DEF StaysKept

\* A cleanup deletes what it doomed, and the descriptions of the data it doomed.
LEMMA UnlinkKept ==
  ASSUME EnoughKept, FilesInv, NEW j \in Jobs, unlink(j) \/ unlinkMeta(j)
  PROVE  StaysKept'
<1>0. TypeOK /\ IsFiniteSet(files) /\ UNCHANGED <<newest, latest>>
  BY DEF FilesInv, unlink, unlinkMeta
<1>1. DOMAIN job = Jobs /\ job[j] \in JobRecords(newest, written)
  BY <1>0, JobTypes
<1>2. PICK f \in job[j].doomed :
        /\ files' \in {files, files \ {f}, files \ Described(f)}
        /\ job' = [job EXCEPT ![j].pc = "sweeping"] \/ Dealt(j, f)
  BY DEF unlink, unlinkMeta
<1>3. /\ \A i \in Jobs : i # j => job'[i] = job[i]
      /\ job'[j].pc \notin {"writing", "describing", "listing"}
      /\ job'[j].doomed \subseteq job[j].doomed
  <2>1. CASE Return(j)
    BY <1>0, <2>1, Returned
  <2>2. CASE job' = [job EXCEPT ![j].pc = "deleting", ![j].doomed = @ \ {f}]
    BY <1>1, <2>2 DEF JobRecords
  <2>3. CASE job' = [job EXCEPT ![j].pc = "sweeping"]
    BY <1>1, <2>3 DEF JobRecords
  <2> QED
    BY <1>2, <2>1, <2>2, <2>3 DEF Dealt
<1>4. files' \subseteq files
  BY <1>2
<1>5. \A g \in files : (\A i \in Jobs : g \notin job[i].doomed) /\ Kept(g.backup) => g \in files'
  <2> SUFFICES ASSUME NEW g \in files, g \notin job[j].doomed, Data(g.backup) \notin job[j].doomed
               PROVE  g \in files'
    BY DEF Kept
  <2>1. g # f /\ g \notin Described(f)
    BY <1>2 DEF Described, Meta
  <2> QED
    BY <1>2, <2>1
<1>6. /\ Writers' \subseteq Writers /\ Describers' \subseteq Describers /\ Listers' \subseteq Listers
      /\ \A i \in Describers' : job'[i].id = job[i].id
      /\ \A i \in Jobs : job'[i].doomed \subseteq job[i].doomed
  BY <1>3, Elsewhere
<1> QED
  BY <1>0, <1>4, <1>5, <1>6, Quiet DEF FilesInv, StaysKept

-----------------------------------------------------------------------------
LEMMA StepKept == EnoughKept /\ FilesInv /\ [Next]_vars => StaysKept'
<1> SUFFICES ASSUME EnoughKept, FilesInv, [Next]_vars PROVE StaysKept'
  OBVIOUS
<1>0. TypeOK /\ IsFiniteSet(files) /\ DOMAIN job = Jobs
  BY JobTypes DEF FilesInv
<1>1. CASE UNCHANGED <<job, disk>> \/ exit
  <2>1. files' = files /\ UNCHANGED <<newest, latest>>
    BY <1>1 DEF disk, exit
  <2>2. /\ Writers' \subseteq Writers /\ Describers' \subseteq Describers /\ Listers' \subseteq Listers
        /\ \A i \in Describers' : job'[i].id = job[i].id
        /\ \A i \in Jobs : job'[i].doomed \subseteq job[i].doomed
    BY <1>1 DEF exit, Idle, Writers, Describers, Listers
  <2> QED
    BY <1>0, <2>1, <2>2, Quiet DEF FilesInv, StaysKept
<1>2. CASE start \/ stop \/ Tick \/ UNCHANGED vars
  BY <1>1, <1>2 DEF start, stop, Tick, vars
<1>3. ASSUME NEW j \in Jobs, Backup(j) PROVE StaysKept'
  <2>1. CASE runDailyBackup(j) \/ triggerManualBackup(j) \/ packaged(j)
    <3>1. /\ \A i \in Jobs : i # j => job'[i] = job[i]
          /\ job'[j].pc \notin {"writing", "describing", "listing"}
          /\ job'[j].doomed \subseteq job[j].doomed
      <4>1. job[j] \in JobRecords(newest, written)
        BY <1>0, JobTypes
      <4> QED
        BY <1>0, <2>1, <4>1
        DEF runDailyBackup, triggerManualBackup, Begin, packaged, JobRecords
    <3>2. UNCHANGED disk
      BY <2>1 DEF runDailyBackup, triggerManualBackup, packaged
    <3> QED
      BY <3>1, <3>2, QuietCall DEF StaysKept
  <2>2. CASE fails(j) \/ refuse(j)
    BY <2>2, QuietReturn DEF fails, refuse, StaysKept
  <2> QED
    BY <1>3, <2>1, <2>2 DEF Backup
<1>4. ASSUME NEW j \in Jobs, Upload(j) PROVE StaysKept'
  <2>1. CASE store(j) \/ quotaExceeded(j) \/ listFails(j)
    BY <2>1, QuietReturn DEF store, quotaExceeded, listFails, StaysKept
  <2>2. CASE listBackups(j)
    <3>1. CASE Return(j)
      BY <2>2, <3>1, QuietReturn DEF listBackups, StaysKept
    <3>2. CASE job' = [job EXCEPT ![j].pc = "deleting", ![j].doomed = Beyond(MaxBackups)]
      BY <2>2, <3>2, ListKept
    <3> QED
      BY <2>2, <3>1, <3>2 DEF listBackups
  <2> QED
    BY <1>4, <2>1, <2>2, CheckKept, DataKept, MetaKept, FailureKept, UnlinkKept DEF Upload
<1> QED
  BY <1>1, <1>2, <1>3, <1>4 DEF Next, Process

\* Data is numbered by the call that writes it.
LEMMA StepNumbered == TypeOK /\ Numbered /\ [Next]_vars => Numbered'
<1> SUFFICES ASSUME TypeOK, Numbered, [Next]_vars PROVE Numbered'
  OBVIOUS
<1>0. DOMAIN job = Jobs /\ written \in Nat /\ \A j \in Jobs : job[j] \in JobRecords(newest, written)
  BY JobTypes
<1>1. CASE Process \/ Tick \/ UNCHANGED vars
  BY <1>1 DEF Process, start, stop, exit, Tick, vars, Idle, Numbered, Describers
<1>2. ASSUME NEW j \in Jobs, \A i \in Jobs : i # j => job'[i] = job[i],
             job'[j].pc = "describing" => job'[j].id # 0
      PROVE  Numbered'
  BY <1>2 DEF Numbered, Describers
<1>3. ASSUME NEW j \in Jobs, Return(j) PROVE Numbered'
  BY <1>2, <1>3, Returned
<1>4. ASSUME NEW j \in Jobs, Backup(j) PROVE Numbered'
  <2>1. CASE fails(j) \/ refuse(j)
    BY <1>3, <2>1 DEF fails, refuse
  <2>2. CASE runDailyBackup(j) \/ triggerManualBackup(j) \/ packaged(j)
    BY <1>0, <1>2, <2>2 DEF runDailyBackup, triggerManualBackup, Begin, packaged, JobRecords
  <2> QED
    BY <1>4, <2>1, <2>2 DEF Backup
<1>5. ASSUME NEW j \in Jobs, Upload(j) PROVE Numbered'
  <2>1. CASE store(j) \/ quotaExceeded(j) \/ writeFails(j) \/ listFails(j)
    BY <1>3, <2>1 DEF store, quotaExceeded, writeFails, listFails
  <2>2. CASE check(j) \/ writeMeta(j)
    BY <1>0, <1>2, <2>2 DEF check, writeMeta, JobRecords
  <2>3. CASE writeData(j)
    BY <1>0, <1>2, <2>3 DEF writeData, JobRecords
  <2>4. CASE listBackups(j)
    <3>1. CASE job' = [job EXCEPT ![j].pc = "deleting", ![j].doomed = Beyond(MaxBackups)]
      BY <1>0, <1>2, <3>1 DEF JobRecords
    <3> QED
      BY <1>3, <2>4, <3>1 DEF listBackups
  <2>5. CASE unlink(j) \/ unlinkMeta(j)
    <3>1. ASSUME NEW f, job' = [job EXCEPT ![j].pc = "deleting", ![j].doomed = @ \ {f}]
          PROVE  Numbered'
      BY <1>0, <1>2, <3>1 DEF JobRecords
    <3>2. ASSUME job' = [job EXCEPT ![j].pc = "sweeping"] PROVE Numbered'
      BY <1>0, <1>2, <3>2 DEF JobRecords
    <3> QED
      BY <1>3, <2>5, <3>1, <3>2 DEF unlink, unlinkMeta, Dealt
  <2> QED
    BY <1>5, <2>1, <2>2, <2>3, <2>4, <2>5 DEF Upload
<1> QED
  BY <1>1, <1>4, <1>5 DEF Next

LEMMA StepFiles == EnoughKept /\ FilesInv /\ [Next]_vars => FilesInv'
  BY StepKept, StepWorkerTypes, StepNumbered, StepYoung DEF FilesInv, StaysKept

LEMMA InitFiles == Init => FilesInv
<1> SUFFICES ASSUME Init PROVE FilesInv
  OBVIOUS
<1>1. TypeOK
  <2>1. job \in [Jobs -> JobRecords(0, 0)] /\ None \in Nat
    BY IdleType, TimeAssumption DEF Init, None
  <2> QED
    BY <2>1, SizeAssumption, TimeAssumption DEF Init, TypeOK, JobRecords, Files, Steps
<1>2. IsFiniteSet(files)
  BY FS_EmptySet DEF Init
<1> QED
  BY <1>1, <1>2
  DEF Init, Idle, FilesInv, Numbered, Describers, Young, Active, NewestKept, Waits, LatestKept

\* The types of the worker, whatever calls overlap, fail or die with the process:
\* what lies in backupDir was written by some call, and no cleanup holds anything
\* else, however long ago it listed.
THEOREM WorkerKeepsTypes == Spec => []TypeOK
<1>1. Init => TypeOK /\ Numbered
  BY InitFiles DEF FilesInv
<1>2. TypeOK /\ Numbered /\ [Next]_vars => (TypeOK /\ Numbered)'
  BY StepWorkerTypes, StepNumbered
<1> QED
  BY <1>1, <1>2, PTL DEF Spec

\* Calls are shorter than a day, and maxBackups has room for three files of each
\* call but two: then the backup that was described last stays, with its
\* description, through every order of uploads, failures, cleanups and crashes.
THEOREM WorkerLatestDownloadable ==
  ASSUME EnoughKept
  PROVE  Spec => []LatestDownloadable
<1>1. Init => FilesInv
  BY InitFiles
<1>2. FilesInv /\ [Next]_vars => FilesInv'
  BY StepFiles
<1>3. FilesInv => LatestDownloadable
  BY DEF FilesInv, LatestKept, Kept, Meta, LatestDownloadable, Downloadable
<1> QED
  BY <1>1, <1>2, <1>3, PTL DEF Spec

-----------------------------------------------------------------------------
\* A bounded set of numbers has a last one.
LEMMA LastExists ==
  ASSUME NEW i \in Nat, NEW S \in SUBSET (1..i), S # {}
  PROVE  LastOf(S) \in S /\ \A k \in S : k <= LastOf(S)
<1> DEFINE R == OpToRel(<, Nat)
           T == {i - j : j \in S}
<1>1. T \subseteq Nat /\ T # {}
  <2>1. \A j \in S : j \in 1..i
    OBVIOUS
  <2>2. \A j \in 1..i : i - j \in Nat
    OBVIOUS
  <2> QED
    BY <2>1, <2>2
<1>2. PICK x \in T : \A y \in T : ~(<<y, x>> \in R)
  BY <1>1, WFMin, NatLessThanWellFounded
<1>3. \A y \in T : ~(y < x)
  BY <1>1, <1>2 DEF OpToRel
<1>4. PICK j \in S : x = i - j
  OBVIOUS
<1>5. ASSUME NEW k \in S PROVE k <= j
  <2>1. ~(i - k < i - j)
    BY <1>3, <1>4
  <2>2. i \in Int /\ j \in Int /\ k \in Int
    OBVIOUS
  <2> HIDE DEF T, R
  <2> QED
    BY <2>1, <2>2
<1> QED
  BY <1>5 DEF LastOf

\* The value of a document is the place of a change that was made, or Absent.
LEMMA ValueType ==
  ASSUME NEW h, NEW c, NEW i \in Nat
  PROVE  ValueAt(h, c, i) \in 0..i
<1>1. Writes(h, c, i) \in SUBSET (1..i)
  BY DEF Writes
<1>2. CASE Writes(h, c, i) = {}
  BY <1>2 DEF ValueAt
<1>3. CASE Writes(h, c, i) # {}
  <2>1. LastOf(Writes(h, c, i)) \in 1..i
    BY <1>1, <1>3, LastExists
  <2> QED
    BY <1>3, <2>1 DEF ValueAt
<1> QED
  BY <1>2, <1>3


\* The state of a document after the change that made it, and after another.
LEMMA ValueChanges ==
  ASSUME NEW h, NEW n \in Nat \ {0}
  PROVE  ValueAt(h, h[n].collection, n) = IF h[n].delete THEN 0 ELSE n
<1> DEFINE W == Writes(h, h[n].collection, n)
<1>1. W \in SUBSET (1..n) /\ n \in W
  BY DEF Writes
<1>2. LastOf(W) \in W /\ \A k \in W : k <= LastOf(W)
  BY <1>1, LastExists
<1>3. LastOf(W) = n
  <2>1. LastOf(W) \in 1..n /\ n <= LastOf(W)
    BY <1>1, <1>2
  <2> QED
    BY <2>1
<1> QED
  BY <1>1, <1>3 DEF ValueAt

\* A change of one collection leaves the others as they were.
LEMMA ValueStays ==
  ASSUME NEW h, NEW n \in Nat \ {0}, NEW c, h[n].collection # c
  PROVE  ValueAt(h, c, n) = ValueAt(h, c, n - 1)
<1>1. Writes(h, c, n) = Writes(h, c, n - 1)
  <2>1. ASSUME NEW j \in 1..n, h[j].collection = c PROVE j \in 1..(n - 1)
    BY <2>1
  <2> QED
    BY <2>1 DEF Writes
<1> QED
  BY <1>1 DEF ValueAt

\* The snapshots and the call claim no change that was not made.
LastIsMade ==
  /\ history \in [1..MaxChanges -> [collection : Collections, delete : BOOLEAN]]
  /\ \A s \in Snapshots : snapshot[s].last <= MaxChanges
  /\ call.last <= MaxChanges

\* The states of a document since change i.
After(c, i) == Since(history, c, i)

\* A call that has met nothing yet that keeps it from success.
Trusted == call.kind \in {"snapshot", "point"} /\ Genuine /\ call.success

\* What is still to be restored is as the call found it.
Copying ==
  /\ call.pc # "package"
  /\ call.pc = "collections" => \A c \in call.scope :
       IF c \in call.todo THEN db[c] = call.before[c] ELSE Left(c, After(c, call.last))

\* Collection c after the entries up to p: in a state of its since then, or an
\* update was applied to another document, which a delete behind it will remove.
ReplayedTo(c, p) ==
  \/ Left(c, After(c, p))
  \/ Absent \in After(c, p) /\ ValueAt(history, c, p) # Absent /\ db[c] = Mixed

\* A call that is to restore the present from a complete log.
ToThePresent == call.kind = "point" /\ call.complete /\ call.target = Len(history)

\* While entries are replayed: nothing older than the snapshot, and with a complete
\* log the entries that are left are all those behind some p up to which all are applied.
Replaying ==
  call.pc = "entries" =>
    /\ call.kind = "point"
    /\ \A n \in call.entries : call.last < n
    /\ \A c \in call.scope : Left(c, After(c, call.last) \union {Mixed})
    /\ ToThePresent =>
         \E p \in call.last..Len(history) :
           call.entries = (p + 1)..Len(history) /\ \A c \in call.scope : ReplayedTo(c, p)

\* What a call that ended without an error has restored.
Done ==
  call.pc = "ended" =>
    /\ \A c \in call.scope : Left(c, After(c, call.last) \union {Mixed})
    /\ ToThePresent => \A c \in call.scope : Left(c, {Now(c)})

\* Where a trusted call stands.
Progress == Trusted => Copying /\ Replaying /\ Done

\* RestoreTypeOK, with a set of records for the call that does not depend on it.
CallRecords ==
  [kind : {"none", "snapshot", "point", "external"},
   pc : {"idle", "package", "collections", "entries", "ended"},
   whole : BOOLEAN, verify : BOOLEAN, clear : BOOLEAN, scope : SUBSET Collections,
   target : Nat, last : Nat, todo : SUBSET Collections, entries : SUBSET (1..MaxChanges),
   complete : BOOLEAN, success : BOOLEAN, tampered : BOOLEAN,
   before : [Collections -> Documents]]

\* RestoreTypeOK in the form the steps need.
Types ==
  /\ snapshot \in [Snapshots -> [createdAt : Nat, last : Nat, status : {"none", "partial", "finished"}]]
  /\ db \in [Collections -> Documents] /\ text \in [Collections -> Documents]
  /\ call \in CallRecords /\ call.todo \subseteq call.scope
  /\ calls \in 0..MaxCalls /\ faults \in 0..MaxFaults

\* The invariant of the restore.
RestoreIInv == Types /\ LastIsMade /\ Progress

\* The history is complete: restores are judged against all its changes.
LEMMA HistoryFacts ==
  ASSUME LastIsMade
  PROVE  /\ Len(history) = MaxChanges /\ MaxChanges \in Nat
         /\ \A n \in 1..MaxChanges :
              history[n].collection \in Collections /\ history[n].delete \in BOOLEAN
<1> DEFINE Change == [collection : Collections, delete : BOOLEAN]
<1>1. history \in [1..MaxChanges -> Change] /\ MaxChanges \in Nat
  BY BoundsAssumption DEF LastIsMade
<1>2. \A n \in 1..MaxChanges : history[n] \in Change
  BY <1>1
<1>3. Len(history) = MaxChanges
  <2> HIDE DEF Change
  <2> QED
    BY <1>1
<1> QED
  BY <1>1, <1>2, <1>3

\* The states since a change shrink to the present one.
LEMMA AfterFacts ==
  ASSUME LastIsMade, NEW c, NEW i \in 0..MaxChanges
  PROVE  /\ ValueAt(history, c, i) \in After(c, i)
         /\ \A j \in i..MaxChanges : After(c, j) \subseteq After(c, i)
         /\ After(c, i) \subseteq 0..MaxChanges
         /\ After(c, MaxChanges) = {Now(c)}
<1>1. Len(history) = MaxChanges /\ MaxChanges \in Nat
  BY HistoryFacts
<1>2. \A j \in i..MaxChanges : ValueAt(history, c, j) \in 0..j
  BY <1>1, ValueType
<1>3. \A j \in i..MaxChanges : ValueAt(history, c, j) \in 0..MaxChanges
  BY <1>1, <1>2
<1>4. i \in i..MaxChanges /\ MaxChanges..MaxChanges = {MaxChanges}
  BY <1>1
<1> QED
  BY <1>1, <1>3, <1>4 DEF After, Since, Now

\* A change of another collection leaves them as they are.
LEMMA AfterStays ==
  ASSUME LastIsMade, NEW n \in 1..MaxChanges, NEW c, history[n].collection # c
  PROVE  /\ After(c, n) = After(c, n - 1)
         /\ ValueAt(history, c, n) = ValueAt(history, c, n - 1)
<1>1. Len(history) = MaxChanges /\ MaxChanges \in Nat
  BY HistoryFacts
<1>2. ValueAt(history, c, n) = ValueAt(history, c, n - 1)
  BY ValueStays
<1>3. \A j : j \in (n - 1)..MaxChanges <=> j = n - 1 \/ j \in n..MaxChanges
  BY <1>1
<1>4. n \in n..MaxChanges
  BY <1>1
<1> QED
  BY <1>1, <1>2, <1>3, <1>4 DEF After, Since

-----------------------------------------------------------------------------
\* The states a document can be in.
LEMMA DocumentTypes ==
  ASSUME LastIsMade
  PROVE  /\ Absent \in Documents /\ Altered \in Documents /\ Mixed \in Documents
         /\ 0..MaxChanges \subseteq Documents /\ 1..MaxChanges \subseteq 0..MaxChanges
  BY HistoryFacts DEF Absent, Altered, Mixed, Documents

\* What a call claims and works on lies within the history and the collections.
LEMMA ScopeTypes ==
  ASSUME Types, LastIsMade
  PROVE  /\ call.last \in 0..MaxChanges /\ call.scope \subseteq Collections
         /\ call.todo \subseteq call.scope /\ call.entries \subseteq 1..MaxChanges
         /\ \A c : After(c, call.last) \subseteq Documents
<1>1. call.last \in 0..MaxChanges
  BY HistoryFacts DEF Types, LastIsMade, CallRecords
<1> QED
  BY <1>1, HistoryFacts, AfterFacts, DocumentTypes DEF Types, CallRecords

LEMMA PutTypes ==
  ASSUME Types, NEW c \in Collections, NEW d \in Documents, Absent \in Documents, Put(c, d)
  PROVE  db' \in [Collections -> Documents] /\ text' \in [Collections -> Documents]
  BY DEF Types, Put

\* The record of a call that begins.
LEMMA BeginFields ==
  ASSUME NEW kind, NEW pc, NEW s, NEW target, BeginCall(kind, pc, s, target)
  PROVE  \E verify, clear, success \in BOOLEAN, scope \in SUBSET Collections :
           \E todo \in SUBSET scope :
             /\ call' = [kind |-> kind, pc |-> pc, whole |-> Finished(s), verify |-> verify,
                         clear |-> clear, scope |-> scope, target |-> target,
                         last |-> snapshot[s].last, todo |-> todo, entries |-> {},
                         complete |-> FALSE, success |-> success, tampered |-> FALSE,
                         before |-> db]
             /\ (pc = "collections" /\ Finished(s)) => todo = scope
<1>1. PICK verify \in BOOLEAN, clear \in BOOLEAN, scope \in (SUBSET Collections) \ {{}} :
        \E copied \in IF Finished(s) THEN {scope} ELSE SUBSET scope :
          call' = [NoCall EXCEPT !.kind = kind, !.pc = pc, !.whole = Finished(s),
                     !.verify = verify, !.clear = clear, !.scope = scope,
                     !.target = target, !.last = snapshot[s].last,
                     !.todo = IF pc = "collections" THEN copied ELSE {},
                     !.success = copied # {} \/ scope # Collections, !.before = db]
  BY DEF BeginCall
<1>2. PICK copied \in IF Finished(s) THEN {scope} ELSE SUBSET scope :
        call' = [NoCall EXCEPT !.kind = kind, !.pc = pc, !.whole = Finished(s),
                   !.verify = verify, !.clear = clear, !.scope = scope,
                   !.target = target, !.last = snapshot[s].last,
                   !.todo = IF pc = "collections" THEN copied ELSE {},
                   !.success = copied # {} \/ scope # Collections, !.before = db]
  BY <1>1
<1>3. call' = [kind |-> kind, pc |-> pc, whole |-> Finished(s), verify |-> verify,
               clear |-> clear, scope |-> scope, target |-> target, last |-> snapshot[s].last,
               todo |-> IF pc = "collections" THEN copied ELSE {}, entries |-> {},
               complete |-> FALSE, success |-> copied # {} \/ scope # Collections,
               tampered |-> FALSE, before |-> db]
  BY <1>2 DEF NoCall
<1>4. copied \subseteq scope /\ (Finished(s) => copied = scope)
  OBVIOUS
<1> DEFINE todo == IF pc = "collections" THEN copied ELSE {}
           success == copied # {} \/ scope # Collections
<1>5. todo \in SUBSET scope /\ success \in BOOLEAN /\ scope \in SUBSET Collections
      /\ (pc = "collections" /\ Finished(s) => todo = scope)
  BY <1>4
<1>6. call' = [kind |-> kind, pc |-> pc, whole |-> Finished(s), verify |-> verify,
               clear |-> clear, scope |-> scope, target |-> target, last |-> snapshot[s].last,
               todo |-> todo, entries |-> {}, complete |-> FALSE, success |-> success,
               tampered |-> FALSE, before |-> db]
  BY <1>3
<1> HIDE DEF todo, success
<1> USE <1>5
<1> WITNESS verify \in BOOLEAN, clear \in BOOLEAN, success \in BOOLEAN, scope \in SUBSET Collections
<1> WITNESS todo \in SUBSET scope
<1> QED
  BY <1>5, <1>6

LEMMA BeginTypes ==
  ASSUME Types, LastIsMade, NEW kind \in {"snapshot", "point", "external"},
         NEW pc \in {"package", "collections"}, NEW s \in Snapshots, NEW target \in Nat,
         BeginCall(kind, pc, s, target)
  PROVE  Types' /\ LastIsMade'
<1>1. snapshot[s].last \in Nat /\ Finished(s) \in BOOLEAN
  BY DEF Types, Finished
<1>2. UNCHANGED <<history, snapshot, db, text, faults>> /\ calls' \in 0..MaxCalls
  BY BoundsAssumption DEF BeginCall, Ready, kept, Types
<1>3. call' \in CallRecords /\ call'.todo \subseteq call'.scope
  <2>1. db \in [Collections -> Documents]
    BY DEF Types
  <2>2. PICK verify, clear, success \in BOOLEAN, scope \in SUBSET Collections :
          \E todo \in SUBSET scope :
             call' = [kind |-> kind, pc |-> pc, whole |-> Finished(s), verify |-> verify,
                      clear |-> clear, scope |-> scope, target |-> target,
                      last |-> snapshot[s].last, todo |-> todo, entries |-> {},
                      complete |-> FALSE, success |-> success, tampered |-> FALSE,
                      before |-> db]
    BY BeginFields
  <2>3. PICK todo \in SUBSET scope :
             call' = [kind |-> kind, pc |-> pc, whole |-> Finished(s), verify |-> verify,
                      clear |-> clear, scope |-> scope, target |-> target,
                      last |-> snapshot[s].last, todo |-> todo, entries |-> {},
                      complete |-> FALSE, success |-> success, tampered |-> FALSE,
                      before |-> db]
    BY <2>2
  <2>4. todo \in SUBSET Collections /\ todo \subseteq scope
    OBVIOUS
  <2> QED
    BY <1>1, <2>1, <2>3, <2>4 DEF CallRecords
<1>4. Types'
  BY <1>2, <1>3 DEF Types, Documents
<1>5. LastIsMade'
  BY <1>2, BeginFields DEF LastIsMade
<1> QED
  BY <1>4, <1>5

LEMMA NoCallType ==
  ASSUME LastIsMade
  PROVE  NoCall \in CallRecords /\ NoCall.todo = {} /\ NoCall.last = 0
<1>1. [c \in Collections |-> Absent] \in [Collections -> Documents]
  BY DocumentTypes
<1> QED
  BY <1>1 DEF NoCall, CallRecords

LEMMA EndTypes ==
  ASSUME Types, LastIsMade, End
  PROVE  /\ call' \in CallRecords /\ call'.todo \subseteq call'.scope /\ call'.last <= MaxChanges
         /\ call'.kind = call.kind /\ call'.success = call.success
         /\ call.success /\ call.kind # "external" => call' = [call EXCEPT !.pc = "ended"]
<1>1. CASE call.success /\ call.kind # "external"
  BY <1>1 DEF Types, LastIsMade, End, CallRecords
<1>2. CASE ~(call.success /\ call.kind # "external")
  <2>1. call' = [NoCall EXCEPT !.kind = call.kind, !.pc = "ended", !.scope = call.scope,
                               !.success = call.success]
    BY <1>2 DEF End
  <2>2. NoCall \in CallRecords /\ NoCall.todo = {} /\ NoCall.last = 0 /\ MaxChanges \in Nat
    BY NoCallType, HistoryFacts
  <2>3. call.kind \in {"none", "snapshot", "point", "external"} /\ call.scope \in SUBSET Collections
        /\ call.success \in BOOLEAN
    BY DEF Types, CallRecords
  <2>4. call' \in CallRecords
    BY <2>1, <2>2, <2>3 DEF CallRecords
  <2>5. call'.todo = {} /\ call'.last = 0 /\ call'.kind = call.kind /\ call'.success = call.success
    BY <2>1, <2>2 DEF CallRecords
  <2> QED
    BY <1>2, <2>2, <2>4, <2>5
<1> QED
  BY <1>1, <1>2

LEMMA FaultType == ASSUME Types, Fault PROVE faults' \in 0..MaxFaults
  BY BoundsAssumption DEF Types, Fault

LEMMA CallTypes ==
  ASSUME Types, LastIsMade, Call
  PROVE  Types' /\ LastIsMade'
<1>1. ASSUME NEW kind \in {"snapshot", "point", "external"}, Refuse(kind) PROVE Types' /\ LastIsMade'
  <2>1. call' = [NoCall EXCEPT !.kind = kind, !.pc = "ended", !.success = FALSE]
    BY <1>1 DEF Refuse
  <2>3. call' \in CallRecords /\ call'.todo \subseteq call'.scope /\ call'.last <= MaxChanges
    <3>1. NoCall \in CallRecords /\ NoCall.todo = {} /\ NoCall.last = 0 /\ MaxChanges \in Nat
      BY NoCallType, HistoryFacts
    <3>2. call' \in CallRecords
      BY <2>1, <3>1 DEF CallRecords
    <3>3. call'.todo = {} /\ call'.last = 0
      BY <2>1, <3>1 DEF CallRecords
    <3> QED
      BY <3>1, <3>2, <3>3
  <2>4. UNCHANGED <<history, snapshot, db, text, faults>> /\ calls' \in 0..MaxCalls
    BY <1>1, BoundsAssumption DEF Refuse, Ready, kept, Types
  <2> QED
    BY <2>3, <2>4 DEF Types, LastIsMade
<1>2. Times \subseteq Nat
  BY HistoryFacts DEF Times
<1>3. \A s \in Snapshots : snapshot[s].last \in Nat
  BY DEF Types
<1> QED
  BY <1>1, <1>2, <1>3, BeginTypes
     DEF Call, restoreFromSnapshot, restoreFromExternal, pointInTimeRestore, restoreFromChosen

LEMMA DataTypes ==
  ASSUME Types, LastIsMade, RestoreData
  PROVE  Types' /\ LastIsMade'
<1>0. /\ call.todo \subseteq Collections /\ call.last \in 0..MaxChanges
      /\ \A c : After(c, call.last) \subseteq Documents
  BY ScopeTypes
<1>1. CASE noSnapshotData
  BY <1>1, FaultType DEF noSnapshotData, kept, Types, LastIsMade, CallRecords
<1>2. ASSUME NEW c \in Collections, restoreCollection(c) PROVE Types' /\ LastIsMade'
  <2>1. /\ call' = [call EXCEPT !.todo = @ \ {c}]
        /\ UNCHANGED <<history, snapshot, calls, faults>>
    BY <1>2 DEF restoreCollection, kept
  <2>2. PICK d \in After(c, call.last) :
          IF d = Absent
            THEN db' = [db EXCEPT ![c] = IF call.clear THEN Absent ELSE @] /\ UNCHANGED text
            ELSE Put(c, d)
    BY <1>2 DEF restoreCollection, After
  <2>3. db' \in [Collections -> Documents] /\ text' \in [Collections -> Documents]
    <3>1. d \in Documents /\ Absent \in Documents
      BY <1>0, DocumentTypes
    <3>2. CASE d = Absent
      BY <2>2, <3>1, <3>2 DEF Types
    <3>3. CASE d # Absent
      BY <2>2, <3>1, <3>3, PutTypes
    <3> QED
      BY <3>2, <3>3
  <2>4. call' \in CallRecords /\ call'.todo \subseteq call'.scope /\ call'.last = call.last
    BY <2>1 DEF Types, CallRecords
  <2> QED
    BY <2>1, <2>3, <2>4 DEF Types, LastIsMade
<1>3. ASSUME NEW c \in Collections, alteredCollection(c) PROVE Types' /\ LastIsMade'
  <2>1. UNCHANGED <<history, snapshot, calls>> /\ faults' \in 0..MaxFaults
    BY <1>3, FaultType DEF alteredCollection, kept
  <2>2. call' \in CallRecords /\ call'.todo \subseteq call'.scope /\ call'.last = call.last
    <3>1. \/ call' = [call EXCEPT !.todo = @ \ {c}, !.success = FALSE]
          \/ call' = [call EXCEPT !.todo = @ \ {c}]
      BY <1>3 DEF alteredCollection
    <3>2. CASE call' = [call EXCEPT !.todo = @ \ {c}, !.success = FALSE]
      BY <3>2 DEF Types, CallRecords
    <3>3. CASE call' = [call EXCEPT !.todo = @ \ {c}]
      BY <3>3 DEF Types, CallRecords
    <3> QED
      BY <3>1, <3>2, <3>3
  <2>3. db' \in [Collections -> Documents] /\ text' \in [Collections -> Documents]
    <3>1. Put(c, Altered) \/ UNCHANGED <<db, text>>
      BY <1>3 DEF alteredCollection
    <3> QED
      BY <3>1, DocumentTypes, PutTypes DEF Types
  <2> QED
    BY <2>1, <2>2, <2>3 DEF Types, LastIsMade
<1>4. ASSUME NEW c \in Collections, collectionFails(c) PROVE Types' /\ LastIsMade'
  <2>1. UNCHANGED <<history, snapshot, text, calls>> /\ faults' \in 0..MaxFaults
    BY <1>4, FaultType DEF collectionFails, kept
  <2>2. call' \in CallRecords /\ call'.todo \subseteq call'.scope /\ call'.last = call.last
    BY <1>4 DEF collectionFails, Types, CallRecords
  <2>3. db' \in [Collections -> Documents]
    BY <1>4, DocumentTypes DEF collectionFails, Types
  <2> QED
    BY <2>1, <2>2, <2>3 DEF Types, LastIsMade
<1> QED
  BY <1>1, <1>2, <1>3, <1>4 DEF RestoreData

\* What a lookup gives is a document.
LEMMA LookupTypes ==
  ASSUME LastIsMade, NEW n \in 1..MaxChanges
  PROVE  /\ Lookups(n) \subseteq {n} \union After(history[n].collection, n)
         /\ Lookups(n) \subseteq Documents /\ n \in Documents
         /\ \A d \in Documents : Updated(d, n) \in Documents
<1>1. Lookups(n) \subseteq {n} \union After(history[n].collection, n)
  BY DEF Lookups, After
<1>2. n \in 0..MaxChanges /\ 0..MaxChanges \subseteq Documents
  BY HistoryFacts, DocumentTypes
<1>3. After(history[n].collection, n) \subseteq Documents
  BY <1>2, AfterFacts
<1>4. \A d \in Documents : Updated(d, n) \in Documents
  BY <1>2, DocumentTypes DEF Updated
<1> QED
  BY <1>1, <1>2, <1>3, <1>4

LEMMA ReplayTypes ==
  ASSUME Types, LastIsMade, Replay
  PROVE  Types' /\ LastIsMade'
<1>0. Len(history) = MaxChanges /\ MaxChanges \in Nat
  BY HistoryFacts
<1>1. CASE findEntries
  <2>1. UNCHANGED <<history, snapshot, db, text, calls>>
    BY <1>1 DEF findEntries, kept
  <2>2. CASE call.kind = "snapshot"
    <3>1. End /\ UNCHANGED faults
      BY <1>1, <2>2 DEF findEntries
    <3> QED
      BY <2>1, <3>1, EndTypes DEF Types, LastIsMade
  <2>3. CASE call.kind # "snapshot"
    <3>1. PICK missing \in SUBSET Wanted :
            /\ missing # {} /\ call.kind # "external" => faults < MaxFaults
            /\ faults' = IF missing = {} \/ call.kind = "external" THEN faults ELSE faults + 1
            /\ call' = [call EXCEPT !.pc = "entries", !.entries = Wanted \ missing,
                                    !.complete = missing = {}]
      BY <1>1, <2>3 DEF findEntries
    <3>2. faults' \in 0..MaxFaults
      BY <3>1, BoundsAssumption DEF Types
    <3>3. Wanted \ missing \in SUBSET (1..MaxChanges) /\ (missing = {}) \in BOOLEAN
      BY <1>0 DEF Wanted
    <3>4. call' \in CallRecords /\ call'.todo = call.todo /\ call'.scope = call.scope /\ call'.last = call.last
      BY <3>1, <3>3 DEF Types, CallRecords
    <3> QED
      BY <2>1, <3>2, <3>4 DEF Types, LastIsMade
  <2> QED
    BY <2>2, <2>3
<1>2. CASE finish
  BY <1>2, EndTypes DEF finish, kept, Types, LastIsMade
<1>3. ASSUME NEW n \in 1..MaxChanges, skipEntry(n) \/ replayFails(n) PROVE Types' /\ LastIsMade'
  <2>1. UNCHANGED <<history, snapshot, db, text, calls>> /\ faults' \in 0..MaxFaults
    BY <1>3, FaultType DEF skipEntry, replayFails, kept, Types
  <2>2. \/ call' = [call EXCEPT !.entries = @ \ {n}]
        \/ call' = [call EXCEPT !.entries = @ \ {n}, !.success = FALSE]
    BY <1>3 DEF skipEntry, replayFails, Replayed
  <2>3. call' \in CallRecords /\ call'.todo \subseteq call'.scope /\ call'.last = call.last
    <3>1. CASE call' = [call EXCEPT !.entries = @ \ {n}]
      BY <3>1 DEF Types, CallRecords
    <3>2. CASE call' = [call EXCEPT !.entries = @ \ {n}, !.success = FALSE]
      BY <3>2 DEF Types, CallRecords
    <3> QED
      BY <2>2, <3>1, <3>2
  <2> QED
    BY <2>1, <2>3 DEF Types, LastIsMade
<1>4. ASSUME NEW n \in 1..MaxChanges, replayWrite(n) PROVE Types' /\ LastIsMade'
  <2>1. UNCHANGED <<history, snapshot, calls, faults>> /\ call' = [call EXCEPT !.entries = @ \ {n}]
    BY <1>4 DEF replayWrite, Replayed, kept
  <2>2. call' \in CallRecords /\ call'.todo \subseteq call'.scope /\ call'.last = call.last
    BY <2>1 DEF Types, CallRecords
  <2> DEFINE c == history[n].collection
  <2>3. PICK d \in Lookups(n) :
         IF call.kind = "external"
           THEN text' = [text EXCEPT ![c] = IF d = Absent THEN @ ELSE d] /\ UNCHANGED db
           ELSE db' = [db EXCEPT ![c] = IF d = Absent THEN Updated(@, n) ELSE d] /\ UNCHANGED text
    BY <1>4 DEF replayWrite
  <2>4. d \in Documents /\ c \in Collections /\ db[c] \in Documents /\ Updated(db[c], n) \in Documents
    BY <1>0, LookupTypes, HistoryFacts DEF Types
  <2> HIDE DEF c
  <2>5. db' \in [Collections -> Documents] /\ text' \in [Collections -> Documents]
    BY <2>3, <2>4 DEF Types
  <2> QED
    BY <2>1, <2>2, <2>5 DEF Types, LastIsMade
<1>5. ASSUME NEW n \in 1..MaxChanges, replayAltered(n) PROVE Types' /\ LastIsMade'
  <2>1. /\ UNCHANGED <<history, snapshot, text, calls>> /\ faults' \in 0..MaxFaults
        /\ call' = [call EXCEPT !.entries = @ \ {n}, !.tampered = TRUE]
        /\ db' = [db EXCEPT ![history[n].collection] = Altered]
    BY <1>5, FaultType DEF replayAltered, kept
  <2>2. call' \in CallRecords /\ call'.todo \subseteq call'.scope /\ call'.last = call.last
    BY <2>1 DEF Types, CallRecords
  <2>3. db' \in [Collections -> Documents]
    BY <2>1, DocumentTypes DEF Types
  <2> QED
    BY <2>1, <2>2, <2>3 DEF Types, LastIsMade
<1>6. ASSUME NEW n \in 1..MaxChanges, replayDelete(n) PROVE Types' /\ LastIsMade'
  <2>1. /\ UNCHANGED <<history, snapshot, text, calls, faults>>
        /\ call' = [call EXCEPT !.entries = @ \ {n}]
        /\ db' = [db EXCEPT ![history[n].collection] = Absent]
    BY <1>6 DEF replayDelete, Replayed, kept
  <2>2. call' \in CallRecords /\ call'.todo \subseteq call'.scope /\ call'.last = call.last
    BY <2>1 DEF Types, CallRecords
  <2>3. db' \in [Collections -> Documents]
    BY <2>1, DocumentTypes DEF Types
  <2> QED
    BY <2>1, <2>2, <2>3 DEF Types, LastIsMade
<1> QED
  BY <1>0, <1>1, <1>2, <1>3, <1>4, <1>5, <1>6 DEF Replay

LEMMA StepTypes ==
  ASSUME Types, LastIsMade, [RestoreNext]_restoreVars
  PROVE  Types' /\ LastIsMade'
<1>1. CASE verifyPackage \/ downloadFails
  <2>1. UNCHANGED <<history, snapshot, db, text, calls>> /\ faults' \in 0..MaxFaults
    BY <1>1, FaultType DEF verifyPackage, downloadFails, kept, Types
  <2>2. \/ call' = [call EXCEPT !.pc = "collections", !.todo = call.scope]
        \/ call' = [call EXCEPT !.pc = "ended", !.success = FALSE]
    BY <1>1 DEF verifyPackage, downloadFails
  <2>3. call' \in CallRecords /\ call'.todo \subseteq call'.scope /\ call'.last = call.last
    <3>1. call.scope \in SUBSET Collections
      BY DEF Types, CallRecords
    <3>2. CASE call' = [call EXCEPT !.pc = "collections", !.todo = call.scope]
      BY <3>1, <3>2 DEF Types, CallRecords
    <3>3. CASE call' = [call EXCEPT !.pc = "ended", !.success = FALSE]
      BY <3>3 DEF Types, CallRecords
    <3> QED
      BY <2>2, <3>2, <3>3
  <2> QED
    BY <2>1, <2>3 DEF Types, LastIsMade
<1>2. CASE UNCHANGED restoreVars
  BY <1>2 DEF restoreVars, kept, Types, LastIsMade
<1> QED
  BY <1>1, <1>2, CallTypes, DataTypes, ReplayTypes DEF RestoreNext

-----------------------------------------------------------------------------
\* What a call was made with and what it found.
SameCall ==
  /\ UNCHANGED history
  /\ call'.kind = call.kind /\ call'.whole = call.whole /\ call'.verify = call.verify
  /\ call'.clear = call.clear /\ call'.scope = call.scope /\ call'.target = call.target
  /\ call'.last = call.last /\ call'.before = call.before

LEMMA BeginProgress ==
  ASSUME Types, NEW kind, NEW pc \in {"package", "collections"}, NEW s, NEW target,
         pc = "collections" \/ kind = "external",
         BeginCall(kind, pc, s, target)
  PROVE  Progress'
<1>1. PICK verify, clear, success \in BOOLEAN, scope \in SUBSET Collections :
        \E todo \in SUBSET scope :
             /\ call' = [kind |-> kind, pc |-> pc, whole |-> Finished(s), verify |-> verify,
                         clear |-> clear, scope |-> scope, target |-> target,
                         last |-> snapshot[s].last, todo |-> todo, entries |-> {},
                         complete |-> FALSE, success |-> success, tampered |-> FALSE,
                         before |-> db]
             /\ (pc = "collections" /\ Finished(s)) => todo = scope
  BY BeginFields
<1>2. PICK todo \in SUBSET scope :
             /\ call' = [kind |-> kind, pc |-> pc, whole |-> Finished(s), verify |-> verify,
                         clear |-> clear, scope |-> scope, target |-> target,
                         last |-> snapshot[s].last, todo |-> todo, entries |-> {},
                         complete |-> FALSE, success |-> success, tampered |-> FALSE,
                         before |-> db]
             /\ (pc = "collections" /\ Finished(s)) => todo = scope
  BY <1>1
<1>3. /\ call'.kind = kind /\ call'.pc = pc /\ call'.whole = Finished(s)
      /\ call'.todo = todo /\ call'.scope = scope /\ call'.before = db
      /\ db' = db
  BY <1>2 DEF BeginCall
<1>4. SUFFICES ASSUME Trusted' PROVE Copying' /\ Replaying' /\ Done'
  BY DEF Progress
<1>5. pc = "collections" /\ todo = scope
  BY <1>2, <1>3, <1>4 DEF Trusted, Genuine
<1> QED
  BY <1>3, <1>5 DEF Copying, Replaying, Done

\* A call that is told to use the package, or nothing, is no part of it.
LEMMA CallProgress ==
  ASSUME Types, Call
  PROVE  Progress'
<1>1. ASSUME NEW kind, Refuse(kind) PROVE Progress'
  <2>1. call'.success = FALSE
    BY <1>1 DEF Refuse, NoCall
  <2> QED
    BY <2>1 DEF Progress, Trusted
<1>2. "collections" \in {"package", "collections"} /\ "package" \in {"package", "collections"}
  OBVIOUS
<1> QED
  BY <1>1, <1>2, BeginProgress
     DEF Call, restoreFromSnapshot, restoreFromExternal, pointInTimeRestore, restoreFromChosen

\* Each collection is restored to a state since the snapshot's place in the log,
\* or is left as it was because its document was not there at some time since.
LEMMA CopyProgress ==
  ASSUME Types, LastIsMade, Progress, NEW c \in Collections, restoreCollection(c)
  PROVE  Progress'
<1>1. /\ call.pc = "collections" /\ c \in call.todo /\ UNCHANGED history
      /\ call' = [call EXCEPT !.todo = @ \ {c}]
  BY DEF restoreCollection, kept
<1>2. /\ SameCall /\ call'.pc = "collections" /\ call'.todo = call.todo \ {c}
      /\ call'.success = call.success /\ call'.tampered = call.tampered
  BY <1>1 DEF SameCall, Types, CallRecords
<1>3. SUFFICES ASSUME Trusted' PROVE Copying'
  BY <1>2 DEF Progress, Replaying, Done
<1>4. Copying /\ call.kind # "external"
  BY <1>2, <1>3 DEF Progress, Trusted, Genuine, SameCall
<1>5. PICK d \in After(c, call.last) :
        IF d = Absent
          THEN db' = [db EXCEPT ![c] = IF call.clear THEN Absent ELSE @]
          ELSE db' = [db EXCEPT ![c] = d]
  BY <1>4 DEF restoreCollection, After, Put
<1>6. /\ \A e \in Collections : e # c => db'[e] = db[e]
      /\ IF d = Absent THEN db'[c] = IF call.clear THEN Absent ELSE db[c] ELSE db'[c] = d
  BY <1>5 DEF Types
<1>7. c \in call.scope /\ call.scope \subseteq Collections /\ call.todo \subseteq call.scope
  BY <1>1 DEF Types, CallRecords
<1>8. db[c] = call.before[c]
  BY <1>1, <1>4, <1>7 DEF Copying
<1>9. ASSUME NEW e \in call.scope
      PROVE  IF e \in call'.todo THEN db'[e] = call'.before[e]
             ELSE Left(e, After(e, call.last))'
  <2>1. CASE e = c
    <3>1. Left(e, After(e, call.last))'
      BY <1>2, <1>5, <1>6, <1>8, <2>1 DEF Left, After, SameCall
    <3> QED
      BY <1>2, <2>1, <3>1
  <2>2. CASE e # c
    <3>1. db'[e] = db[e]
      BY <1>6, <1>7, <2>2
    <3>2. CASE e \in call.todo
      BY <1>1, <1>2, <1>4, <2>2, <3>1, <3>2 DEF Copying, SameCall
    <3>3. CASE e \notin call.todo
      <4>1. Left(e, After(e, call.last))
        BY <1>1, <1>4, <3>3 DEF Copying
      <4>2. Left(e, After(e, call.last))'
        BY <1>2, <3>1, <4>1 DEF Left, After, SameCall
      <4> QED
        BY <1>2, <3>3, <4>2
    <3> QED
      BY <3>2, <3>3
  <2> QED
    BY <2>1, <2>2
<1> QED
  BY <1>2, <1>9 DEF Copying, SameCall

\* Replaying the first entry that is left keeps what holds of the collections it
\* does not change.
LEMMA EntryProgress ==
  ASSUME Types, LastIsMade, Replaying, call.pc = "entries", SameCall,
         NEW n \in 1..MaxChanges, Next1(n), Replayed(n),
         \A c \in call.scope : c # history[n].collection => db'[c] = db[c],
         history[n].collection \in call.scope =>
           \/ db'[history[n].collection] \in After(history[n].collection, n)
           \/ /\ Absent \in After(history[n].collection, n)
              /\ ValueAt(history, history[n].collection, n) # Absent
              /\ db'[history[n].collection] = Mixed
  PROVE  Replaying'
<1>1. /\ call'.entries = call.entries \ {n} /\ call'.pc = "entries"
      /\ call'.complete = call.complete /\ UNCHANGED history
  BY DEF Replayed, Types, CallRecords, SameCall
<1>2. /\ Len(history) = MaxChanges /\ MaxChanges \in Nat
      /\ call.last \in 0..MaxChanges /\ n \in call.entries /\ call.last < n
      /\ \A m \in call.entries : n <= m
  BY HistoryFacts, ScopeTypes DEF Replaying, Next1
<1>3. \A c, i : After(c, i)' = After(c, i) /\ ValueAt(history', c, i) = ValueAt(history, c, i)
  BY <1>1 DEF After
<1>4. \A c : After(c, n) \subseteq After(c, call.last)
  BY <1>2, AfterFacts
<1>5. ASSUME NEW c \in call.scope PROVE Left(c, After(c, call.last) \union {Mixed})'
  <2>1. CASE c = history[n].collection
    BY <1>3, <1>4, <2>1 DEF Left, SameCall
  <2>2. CASE c # history[n].collection
    <3>1. db'[c] = db[c] /\ Left(c, After(c, call.last) \union {Mixed})
      BY <2>2 DEF Replaying
    <3> QED
      BY <1>3, <3>1 DEF Left, SameCall, Mixed
  <2> QED
    BY <2>1, <2>2
<1>6. ASSUME ToThePresent'
      PROVE  \E p \in call.last..MaxChanges :
               call'.entries = (p + 1)..MaxChanges /\ \A c \in call.scope : ReplayedTo(c, p)'
  <2>1. ToThePresent
    BY <1>1, <1>6 DEF ToThePresent, SameCall
  <2>2. PICK p \in call.last..MaxChanges :
          call.entries = (p + 1)..MaxChanges /\ \A c \in call.scope : ReplayedTo(c, p)
    BY <1>2, <2>1 DEF Replaying
  <2>3. n = p + 1
    <3>1. p \in Int /\ p + 1 <= n /\ n <= MaxChanges /\ n \in Int
      <4>1. n \in (p + 1)..MaxChanges
        BY <1>2, <2>2
      <4> QED
        BY <1>2, <4>1
    <3>2. p + 1 \in call.entries
      BY <1>2, <2>2, <3>1
    <3>3. n <= p + 1
      BY <1>2, <3>2
    <3> QED
      BY <3>1, <3>3
  <2>4. n \in call.last..MaxChanges /\ call'.entries = (n + 1)..MaxChanges
    <3>1. call.entries = n..MaxChanges
      BY <2>2, <2>3
    <3> QED
      BY <1>1, <1>2, <3>1
  <2>5. ASSUME NEW c \in call.scope PROVE ReplayedTo(c, n)'
    <3>1. CASE c = history[n].collection
      BY <1>3, <3>1 DEF ReplayedTo, Left, SameCall, Mixed, Absent
    <3>2. CASE c # history[n].collection
      <4>1. db'[c] = db[c] /\ ReplayedTo(c, p) /\ p = n - 1
        BY <1>2, <2>2, <2>3, <3>2
      <4>2. After(c, n) = After(c, p) /\ ValueAt(history, c, n) = ValueAt(history, c, p)
        BY <3>2, <4>1, AfterStays
      <4> QED
        BY <1>3, <4>1, <4>2 DEF ReplayedTo, Left, SameCall, Mixed, Absent
    <3> QED
      BY <3>1, <3>2
  <2> QED
    BY <2>4, <2>5
<1>7. Len(history)' = MaxChanges /\ \A m \in call'.entries : call'.last < m
  BY <1>1, <1>2 DEF SameCall, Replaying
<1> QED
  BY <1>1, <1>5, <1>6, <1>7 DEF Replaying, SameCall

\* Replaying an entry changes its collection to a state since then, or applies
\* an update to another document of which a later change is the delete.
LEMMA WriteProgress ==
  ASSUME Types, LastIsMade, Progress, NEW n \in 1..MaxChanges,
         skipEntry(n) \/ replayWrite(n) \/ replayDelete(n)
  PROVE  Progress'
<1> DEFINE c == history[n].collection
<1>1. Next1(n) /\ Replayed(n) /\ UNCHANGED history /\ call.pc = "entries"
  BY DEF skipEntry, replayWrite, replayDelete, Next1, kept
<1>2. /\ SameCall /\ call'.pc = "entries"
      /\ call'.success = call.success /\ call'.tampered = call.tampered
  BY <1>1 DEF Replayed, SameCall, Types, CallRecords
<1>3. SUFFICES ASSUME Trusted' PROVE Replaying'
  BY <1>2 DEF Progress, Copying, Done
<1>4. Replaying /\ call.kind # "external"
  BY <1>2, <1>3 DEF Progress, Trusted, Genuine, SameCall
<1>5. c \in Collections /\ call.scope \subseteq Collections
  BY HistoryFacts, ScopeTypes
<1>6. /\ After(c, n) \subseteq Documents /\ ValueAt(history, c, n) \in After(c, n)
      /\ ValueAt(history, c, n) = IF history[n].delete THEN Absent ELSE n
      /\ n \in Nat \ {0} /\ n # Absent
  <2>1. n \in 0..MaxChanges /\ n \in Nat \ {0}
    BY HistoryFacts
  <2> QED
    BY <2>1, AfterFacts, ValueChanges, DocumentTypes DEF Absent
<1>7. CASE skipEntry(n)
  <2>1. UNCHANGED db /\ c \notin call.scope
    BY <1>7 DEF skipEntry, Skipped
  <2> QED
    BY <1>1, <1>2, <1>4, <2>1, EntryProgress
<1>8. CASE replayDelete(n)
  <2>1. db' = [db EXCEPT ![c] = Absent] /\ history[n].delete
    BY <1>8 DEF replayDelete
  <2>2. db'[c] = Absent /\ \A e \in Collections : e # c => db'[e] = db[e]
    BY <1>5, <2>1 DEF Types
  <2>3. db'[c] \in After(c, n)
    BY <1>6, <2>1, <2>2
  <2> QED
    BY <1>1, <1>2, <1>4, <1>5, <2>2, <2>3, EntryProgress
<1>9. CASE replayWrite(n)
  <2>1. PICK d \in Lookups(n) :
          db' = [db EXCEPT ![c] = IF d = Absent THEN Updated(@, n) ELSE d]
    BY <1>4, <1>9 DEF replayWrite
  <2>2. /\ db'[c] = IF d = Absent THEN Updated(db[c], n) ELSE d
        /\ \A e \in Collections : e # c => db'[e] = db[e]
    BY <1>5, <2>1 DEF Types
  <2>3. n \in After(c, n) /\ ValueAt(history, c, n) # Absent
    BY <1>6, <1>9 DEF replayWrite
  <2>4. \/ db'[c] \in After(c, n)
        \/ Absent \in After(c, n) /\ ValueAt(history, c, n) # Absent /\ db'[c] = Mixed
    <3>1. CASE d # Absent
      BY <2>2, <2>3, <3>1, LookupTypes
    <3>2. CASE d = Absent
      <4>1. Absent \in After(c, n)
        BY <1>6, <2>3, <3>2, LookupTypes
      <4>2. db'[c] \in {Absent, n, Mixed}
        BY <2>2, <3>2 DEF Updated
      <4> QED
        BY <2>3, <4>1, <4>2
    <3> QED
      BY <3>1, <3>2
  <2> QED
    BY <1>1, <1>2, <1>4, <1>5, <2>2, <2>4, EntryProgress
<1> QED
  BY <1>7, <1>8, <1>9

\* The replay begins where the snapshot ends.
LEMMA FindProgress ==
  ASSUME Types, LastIsMade, Progress, findEntries
  PROVE  Progress'
<1>1. /\ call.pc = "collections" /\ call.todo = {} /\ UNCHANGED <<history, db>>
      /\ Len(history) = MaxChanges /\ MaxChanges \in Nat /\ call.last \in 0..MaxChanges
  BY HistoryFacts, ScopeTypes DEF findEntries, kept
<1>2. SUFFICES ASSUME Trusted' PROVE Copying' /\ Replaying' /\ Done'
  BY DEF Progress
<1>3. CASE call.kind = "snapshot"
  <2>1. End
    BY <1>3 DEF findEntries
  <2>2. call.success /\ call' = [call EXCEPT !.pc = "ended"]
    BY <1>2, <1>3, <2>1, EndTypes DEF Trusted
  <2>3. SameCall /\ call'.pc = "ended" /\ call'.tampered = call.tampered
    BY <1>1, <2>2 DEF SameCall, Types, CallRecords
  <2>4. Trusted
    BY <1>2, <2>2, <2>3 DEF Trusted, Genuine, SameCall
  <2>5. \A c \in call.scope : Left(c, After(c, call.last))
    BY <1>1, <2>4 DEF Progress, Copying
  <2>6. \A c \in call.scope : Left(c, After(c, call.last) \union {Mixed})'
    BY <1>1, <2>3, <2>5 DEF Left, After, SameCall, Mixed
  <2> QED
    BY <1>3, <2>3, <2>6 DEF Copying, Replaying, Done, ToThePresent, SameCall
<1>4. CASE call.kind # "snapshot"
  <2>1. PICK missing \in SUBSET Wanted :
          call' = [call EXCEPT !.pc = "entries", !.entries = Wanted \ missing,
                               !.complete = missing = {}]
    BY <1>4 DEF findEntries
  <2>2. /\ SameCall /\ call'.pc = "entries" /\ call'.entries = Wanted \ missing
        /\ call'.complete = (missing = {})
        /\ call'.success = call.success /\ call'.tampered = call.tampered
    BY <1>1, <2>1 DEF SameCall, Types, CallRecords
  <2>3. Trusted /\ call.kind = "point"
    BY <1>2, <1>4, <2>2 DEF Trusted, Genuine, SameCall
  <2>4. \A c \in call.scope : Left(c, After(c, call.last))
    BY <1>1, <2>3 DEF Progress, Copying
  <2>5. \A c \in call.scope : /\ Left(c, After(c, call.last))'
                              /\ Left(c, After(c, call.last) \union {Mixed})'
    BY <1>1, <2>2, <2>4 DEF Left, After, SameCall, Mixed
  <2>6. Wanted = {n \in 1..MaxChanges : n > call.last /\ n <= call.target}
    BY <1>1, <2>3 DEF Wanted
  <2>7. ASSUME ToThePresent' PROVE call'.entries = (call.last + 1)..MaxChanges
    <3>1. missing = {} /\ call.target = MaxChanges
      BY <1>1, <2>2, <2>7 DEF ToThePresent, SameCall
    <3> QED
      BY <1>1, <2>2, <2>6, <3>1
  <2>8. call.last \in call.last..MaxChanges
    BY <1>1
  <2>9. \A n \in call'.entries : call'.last < n
    BY <1>1, <2>2, <2>6 DEF SameCall
  <2>10. Replaying'
    BY <1>1, <2>2, <2>3, <2>5, <2>7, <2>8, <2>9 DEF Replaying, ReplayedTo, SameCall
  <2> QED
    BY <2>2, <2>10 DEF Copying, Done
<1> QED
  BY <1>3, <1>4

\* Behind the last entry nothing is left of an update that went to another document.
LEMMA FinishProgress ==
  ASSUME Types, LastIsMade, Progress, finish
  PROVE  Progress'
<1>1. /\ call.pc = "entries" /\ call.entries = {} /\ End /\ UNCHANGED <<history, db>>
      /\ Len(history) = MaxChanges /\ MaxChanges \in Nat /\ call.last \in 0..MaxChanges
  BY HistoryFacts, ScopeTypes DEF finish, kept
<1>2. SUFFICES ASSUME Trusted' PROVE Copying' /\ Replaying' /\ Done'
  BY DEF Progress
<1>3. call' = [call EXCEPT !.pc = "ended"]
  BY <1>1, <1>2, EndTypes DEF Trusted
<1>4. /\ SameCall /\ call'.pc = "ended" /\ call'.complete = call.complete
      /\ call'.tampered = call.tampered /\ call'.success = call.success
  BY <1>1, <1>3 DEF SameCall, Types, CallRecords
<1>5. Replaying
  BY <1>2, <1>4 DEF Progress, Trusted, Genuine, SameCall
<1>6. \A c \in call.scope : Left(c, After(c, call.last) \union {Mixed})'
  <2>1. \A c \in call.scope : Left(c, After(c, call.last) \union {Mixed})
    BY <1>1, <1>5 DEF Replaying
  <2> QED
    BY <1>1, <1>4, <2>1 DEF Left, After, SameCall, Mixed
<1>7. ASSUME ToThePresent', NEW c \in call.scope PROVE Left(c, {Now(c)})'
  <2>1. ToThePresent
    BY <1>1, <1>4, <1>7 DEF ToThePresent, SameCall
  <2>2. PICK p \in call.last..MaxChanges :
          call.entries = (p + 1)..MaxChanges /\ ReplayedTo(c, p)
    BY <1>1, <1>5, <2>1 DEF Replaying
  <2>3. p = MaxChanges
    <3>1. p \in Int /\ p <= MaxChanges /\ (p + 1)..MaxChanges = {}
      <4>1. p \in Int /\ p <= MaxChanges
        BY <1>1
      <4>2. (p + 1)..MaxChanges = {}
        BY <1>1, <2>2, Zenon
      <4> QED
        BY <4>1, <4>2
    <3>2. ~(p + 1 <= MaxChanges)
      <4>1. p + 1 <= MaxChanges => p + 1 \in (p + 1)..MaxChanges
        BY <1>1, <3>1
      <4> QED
        BY <3>1, <4>1
    <3> QED
      BY <1>1, <3>1, <3>2
  <2>4. After(c, p) = {Now(c)} /\ ValueAt(history, c, p) = Now(c)
    BY <1>1, <2>3, AfterFacts DEF Now
  <2>5. Left(c, {Now(c)})
    BY <2>2, <2>4 DEF ReplayedTo
  <2>6. Now(c)' = Now(c)
    BY <1>1 DEF Now
  <2> QED
    BY <1>1, <1>4, <2>5, <2>6 DEF Left, SameCall
<1> QED
  BY <1>4, <1>6, <1>7 DEF Copying, Replaying, Done, SameCall

\* What throws, or is not what was written, is told, or was not to be verified.
LEMMA FailedIsTold ==
  ASSUME Types,
         \/ noSnapshotData
         \/ \E c \in Collections : alteredCollection(c) \/ collectionFails(c)
         \/ \E n \in 1..MaxChanges : replayAltered(n) \/ replayFails(n)
         \/ downloadFails
  PROVE  ~Trusted'
<1>1. \/ call' = [call EXCEPT !.todo = {}, !.success = FALSE]
      \/ \E c \in Collections :
           \/ call' = [call EXCEPT !.todo = @ \ {c}, !.success = FALSE]
           \/ ~(call.verify /\ call.whole) /\ call' = [call EXCEPT !.todo = @ \ {c}]
      \/ \E n \in 1..MaxChanges :
           \/ call' = [call EXCEPT !.entries = @ \ {n}, !.tampered = TRUE]
           \/ call' = [call EXCEPT !.entries = @ \ {n}, !.success = FALSE]
      \/ call' = [call EXCEPT !.pc = "ended", !.success = FALSE]
  BY DEF noSnapshotData, alteredCollection, collectionFails, replayAltered, replayFails,
         downloadFails
<1>2. \/ call'.success = FALSE
      \/ call'.tampered = TRUE
      \/ ~(call.verify /\ call.whole) /\ call'.verify = call.verify /\ call'.whole = call.whole
  BY <1>1 DEF Types, CallRecords
<1> QED
  BY <1>2 DEF Trusted, Genuine

LEMMA StepProgress ==
  ASSUME Types, LastIsMade, Progress, [RestoreNext]_restoreVars
  PROVE  Progress'
<1>0. 1..Len(history) = 1..MaxChanges
  BY HistoryFacts
<1>1. CASE verifyPackage
  <2>1. call.pc = "package"
    BY <1>1 DEF verifyPackage
  <2>2. \/ call' = [call EXCEPT !.pc = "collections", !.todo = call.scope]
        \/ call' = [call EXCEPT !.pc = "ended", !.success = FALSE]
    BY <1>1 DEF verifyPackage
  <2>3. Trusted' => Trusted
    BY <2>2 DEF Trusted, Genuine, Types, CallRecords
  <2> QED
    BY <2>1, <2>3 DEF Progress, Copying
<1>2. CASE RestoreData
  BY <1>2, CopyProgress, FailedIsTold DEF RestoreData, Progress
<1>3. CASE Replay
  BY <1>0, <1>3, FindProgress, FinishProgress, WriteProgress, FailedIsTold DEF Replay, Progress
<1>4. CASE downloadFails
  BY <1>4, FailedIsTold DEF Progress
<1>5. CASE UNCHANGED restoreVars
  <2>1. SameCall /\ UNCHANGED <<call, db, history>>
    BY <1>5 DEF restoreVars, kept, SameCall
  <2> QED
    BY <2>1 DEF Progress, Trusted, Genuine, Copying, Replaying, Done, Left, After, ReplayedTo,
                ToThePresent, Now, Mixed, Absent
<1> QED
  BY <1>1, <1>2, <1>3, <1>4, <1>5, CallProgress DEF RestoreNext

LEMMA InitRestore == RestoreInit => RestoreIInv
<1> SUFFICES ASSUME RestoreInit PROVE RestoreIInv
  OBVIOUS
<1>1. history \in [1..MaxChanges -> [collection : Collections, delete : BOOLEAN]]
  BY DEF RestoreInit
<1>2. /\ snapshot \in [Snapshots -> [createdAt : Nat, last : Nat, status : {"none", "partial", "finished"}]]
      /\ \A s \in Snapshots : snapshot[s].last <= MaxChanges
  <2> DEFINE Sets == {NoSnapshot}
       \union {[createdAt |-> a, last |-> l, status |-> "finished"] : a, l \in 0..MaxChanges}
       \union {[createdAt |-> 0, last |-> l, status |-> "partial"] : l \in 0..MaxChanges}
  <2>1. \A r \in Sets : /\ r \in [createdAt : Nat, last : Nat, status : {"none", "partial", "finished"}]
                        /\ r.last <= MaxChanges
    <3> SUFFICES ASSUME NEW r \in Sets
                 PROVE  /\ r \in [createdAt : Nat, last : Nat, status : {"none", "partial", "finished"}]
                        /\ r.last <= MaxChanges
      OBVIOUS
    <3>1. \E a, l \in 0..MaxChanges, st \in {"none", "partial", "finished"} :
            r = [createdAt |-> a, last |-> l, status |-> st]
      BY BoundsAssumption DEF NoSnapshot
    <3> QED
      BY <3>1, BoundsAssumption
  <2>2. snapshot \in [Snapshots -> Sets]
    BY DEF RestoreInit
  <2> HIDE DEF Sets
  <2> QED
    BY <2>1, <2>2
<1>3. call = NoCall /\ calls = 0 /\ faults = 0 /\ text = [c \in Collections |-> Absent]
  BY DEF RestoreInit
<1>4. LastIsMade
  <2>1. NoCall.last = 0 /\ 0 <= MaxChanges
    BY BoundsAssumption DEF NoCall
  <2> QED
    BY <1>1, <1>2, <1>3, <2>1 DEF LastIsMade
<1>5. db \in [Collections -> Documents] /\ text \in [Collections -> Documents]
  <2>1. PICK i \in 0..MaxChanges : db = [c \in Collections |-> ValueAt(history, c, i)]
    BY DEF RestoreInit
  <2>2. \A c : ValueAt(history, c, i) \in Documents
    BY <1>4, AfterFacts, DocumentTypes
  <2> QED
    BY <1>3, <1>4, <2>1, <2>2, DocumentTypes
<1>6. Types
  BY <1>2, <1>3, <1>4, <1>5, NoCallType, BoundsAssumption DEF Types
<1>7. ~Trusted
  BY <1>3 DEF Trusted, NoCall
<1> QED
  BY <1>4, <1>6, <1>7 DEF RestoreIInv, Progress

LEMMA AlwaysRestore == RestoreSpec => []RestoreIInv
<1>1. RestoreIInv /\ [RestoreNext]_restoreVars => RestoreIInv'
  BY StepTypes, StepProgress DEF RestoreIInv
<1> QED
  BY <1>1, InitRestore, PTL DEF RestoreSpec

\* The variables of the restore keep their types, whatever fails.
THEOREM RestoreKeepsTypes == RestoreSpec => []RestoreTypeOK
<1>1. RestoreIInv => RestoreTypeOK
  <2> SUFFICES ASSUME RestoreIInv PROVE RestoreTypeOK
    OBVIOUS
  <2>1. Types /\ Len(history) = MaxChanges
    BY HistoryFacts DEF RestoreIInv
  <2> QED
    BY <2>1 DEF Types, CallRecords, RestoreTypeOK
<1> QED
  BY <1>1, AlwaysRestore, PTL

\* A restore that reports success leaves no collection older than the snapshot's
\* place in the log, for any history, snapshots, scope and missing entries.
THEOREM RestoreNotOlder == RestoreSpec => []NotOlderThanSnapshot
<1>1. RestoreIInv => NotOlderThanSnapshot
  BY DEF RestoreIInv, Progress, Trusted, Done, Restored, NotOlderThanSnapshot, After
<1> QED
  BY <1>1, AlwaysRestore, PTL

\* A restore to the present that found all entries restores the present.
THEOREM RestoreExact == RestoreSpec => []ExactAtPresent
<1>1. RestoreIInv => ExactAtPresent
  BY DEF RestoreIInv, Progress, Trusted, Done, Restored, ToThePresent, ExactAtPresent
<1> QED
  BY <1>1, AlwaysRestore, PTL
=============================================================================
