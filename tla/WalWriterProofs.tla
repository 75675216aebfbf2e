---------------------------- MODULE WalWriterProofs ----------------------------
(***************************************************************************)
(* Safety of the WAL writer for any number of writers, changes and faults, *)
(* and the promise of ChangeLog, step by step.                             *)
(***************************************************************************)
EXTENDS WalWriter, SequenceTheorems, TLAPS

Phases == {"new", "waiting", "reading", "started", "threw",
           "flushing", "closing", "stopped", "stopThrew", "dead"}
Feeds == [stream : {"none", "open", "failed"}, closes : BOOLEAN,
          position : 1..(MaxChanges + 1), running : BOOLEAN,
          timer : BOOLEAN, retrying : {"no", "waits", "closes"}, last : Seq(Entries)]

LEMMA DeadType == Dead \in Feeds
  BY BoundsAssumption DEF Dead, Feeds

LEMMA InitTypeOK == Init => TypeOK
  BY BoundsAssumption, DeadType DEF Init, TypeOK, Feeds, NoWriter

\* The fields of a writer's feed that one of its steps sets.
LEMMA FeedType ==
  ASSUME NEW f \in [Writers -> Feeds], NEW w \in Writers
  PROVE  /\ \A s \in {"none", "open", "failed"} : [f EXCEPT ![w].stream = s] \in [Writers -> Feeds]
         /\ \A b \in BOOLEAN : /\ [f EXCEPT ![w].closes = b] \in [Writers -> Feeds]
                               /\ [f EXCEPT ![w].running = b] \in [Writers -> Feeds]
                               /\ [f EXCEPT ![w].timer = b] \in [Writers -> Feeds]
         /\ \A r \in {"no", "waits", "closes"} :
              [f EXCEPT ![w].retrying = r] \in [Writers -> Feeds]
         /\ \A p \in 1..(MaxChanges + 1) : [f EXCEPT ![w].position = p] \in [Writers -> Feeds]
         /\ \A l \in Seq(Entries) : [f EXCEPT ![w].last = l] \in [Writers -> Feeds]
<1>1. \A s \in {"none", "open", "failed"} : [f EXCEPT ![w].stream = s] \in [Writers -> Feeds]
  BY DEF Feeds
<1>2. \A b \in BOOLEAN : /\ [f EXCEPT ![w].closes = b] \in [Writers -> Feeds]
                               /\ [f EXCEPT ![w].running = b] \in [Writers -> Feeds]
                               /\ [f EXCEPT ![w].timer = b] \in [Writers -> Feeds]
  BY DEF Feeds
<1>3. \A p \in 1..(MaxChanges + 1) : [f EXCEPT ![w].position = p] \in [Writers -> Feeds]
  BY DEF Feeds
<1>4. \A l \in Seq(Entries) : [f EXCEPT ![w].last = l] \in [Writers -> Feeds]
  BY DEF Feeds
<1>5. \A r \in {"no", "waits", "closes"} : [f EXCEPT ![w].retrying = r] \in [Writers -> Feeds]
  BY DEF Feeds
<1> QED
  BY <1>1, <1>2, <1>3, <1>4, <1>5

\* Every step of a writer leaves its feed one.
LEMMA StepFeed == TypeOK /\ [Next]_vars => feed' \in [Writers -> Feeds]
<1> SUFFICES ASSUME TypeOK, [Next]_vars PROVE feed' \in [Writers -> Feeds]
  OBVIOUS
<1> DEFINE FeedOK == feed' \in [Writers -> Feeds]
<1>0. feed \in [Writers -> Feeds] /\ committed + 1 \in 1..(MaxChanges + 1)
  BY BoundsAssumption DEF TypeOK, Feeds
<1>1. ASSUME NEW w \in Writers, start(w) PROVE FeedOK
  BY <1>0, <1>1, FeedType DEF start
<1>2. ASSUME NEW w \in Writers, handleChange(w) PROVE FeedOK
  <2>1. feed[w].position + 1 \in 1..(MaxChanges + 1)
    BY <1>2, BoundsAssumption DEF TypeOK, handleChange
  <2> QED
    BY <1>0, <1>2, <2>1, FeedType DEF handleChange
<1>3. ASSUME NEW w \in Writers, Restart(w) PROVE FeedOK
  <2>1. CASE streamError(w)
    BY <1>0, <2>1, FeedType DEF streamError
  <2>3. CASE streamClosed(w)
    BY <1>0, <2>3, FeedType DEF streamClosed
  <2>4. CASE abandonStream(w)
    BY <1>0, <2>4, FeedType DEF abandonStream
  <2>5. CASE closeFailed(w)
    BY <1>0, <2>5, FeedType DEF closeFailed
  <2>2. ASSUME NEW s \in {"open", "none"}, NEW n \in {"no", "waits"}, Reopened(w, s, n) PROVE FeedOK
    <3> DEFINE p == IF s = "open" THEN committed + 1 ELSE feed[w].position
               b == feed[w].running /\ ~feed[w].closes
               f1 == [feed EXCEPT ![w].stream = s]
               f2 == [f1 EXCEPT ![w].closes = FALSE]
               f3 == [f2 EXCEPT ![w].running = b]
               f4 == [f3 EXCEPT ![w].retrying = n]
               f5 == [f4 EXCEPT ![w].position = p]
    <3>1. b \in BOOLEAN /\ p \in 1..(MaxChanges + 1)
      BY <1>0 DEF Feeds
    <3>2. feed' = f5
      BY <2>2 DEF Reopened
    <3> HIDE DEF p, b
    <3>3. f1 \in [Writers -> Feeds]
      BY <1>0, FeedType
    <3> HIDE DEF f1
    <3>4. f2 \in [Writers -> Feeds]
      BY <3>3, FeedType
    <3> HIDE DEF f2
    <3>5. f3 \in [Writers -> Feeds]
      BY <3>1, <3>4, FeedType
    <3> HIDE DEF f3
    <3>6. f4 \in [Writers -> Feeds]
      BY <3>5, FeedType
    <3> HIDE DEF f4
    <3>7. f5 \in [Writers -> Feeds]
      BY <3>1, <3>6, FeedType
    <3> QED
      BY <3>2, <3>7
  <2> QED
    BY <1>3, <2>1, <2>2, <2>3, <2>4, <2>5
       DEF Restart, restartStream, noDatabase, restartThrows
<1>4. ASSUME NEW w \in Writers, Stop(w) PROVE FeedOK
  <2>1. pending[w] \in Seq(Entries)
    BY DEF TypeOK
  <2>2. CASE stop(w)
    <3>1. feed' = [feed EXCEPT ![w].timer = FALSE, ![w].last = pending[w]]
      BY <2>2 DEF stop
    <3> QED
      BY <1>0, <2>1, <3>1, FeedType
  <2>3. CASE closeStream(w)
    BY <1>0, <2>3, FeedType DEF closeStream
  <2> QED
    BY <1>4, <2>2, <2>3 DEF Stop
<1>5. CASE ProcessEnds
  BY <1>5, DeadType DEF ProcessEnds
<1>6. CASE UNCHANGED feed
  BY <1>0, <1>6
<1> QED
  BY <1>1, <1>2, <1>3, <1>4, <1>5, <1>6
     DEF Next, Start, Capture, Write, commit, exit, crash, create, startTimesOut, started,
         startThrows, getNextSequenceNumber, numberFails, push, flush, inserted,
         insertFails, duplicateKey, PutBack, vars

\* ... its memory what it was, sets and sequences of entries,
LEMMA StepMemory ==
  TypeOK /\ [Next]_vars =>
    /\ numbering' \in [Writers -> SUBSET Changes]
    /\ numbered' \in [Writers -> SUBSET Entries]
    /\ pending' \in [Writers -> Seq(Entries)]
    /\ flights' \in [Writers -> SUBSET Seq(Entries)]
<1> DEFINE MemoryOK ==
      /\ numbering' \in [Writers -> SUBSET Changes]
      /\ numbered' \in [Writers -> SUBSET Entries]
      /\ pending' \in [Writers -> Seq(Entries)]
      /\ flights' \in [Writers -> SUBSET Seq(Entries)]
<1> SUFFICES ASSUME TypeOK, [Next]_vars PROVE MemoryOK
  OBVIOUS
<1>0. /\ numbering \in [Writers -> SUBSET Changes]
      /\ numbered \in [Writers -> SUBSET Entries]
      /\ pending \in [Writers -> Seq(Entries)]
      /\ flights \in [Writers -> SUBSET Seq(Entries)]
  BY DEF TypeOK
<1>1. ASSUME NEW w \in Writers, handleChange(w) PROVE MemoryOK
  <2>1. feed[w].position \in Changes
    BY <1>1, BoundsAssumption DEF TypeOK, handleChange, Changes
  <2> QED
    BY <1>0, <1>1, <2>1 DEF handleChange
<1>2. ASSUME NEW w \in Writers, NEW c \in numbering[w], getNextSequenceNumber(w, c) PROVE MemoryOK
  <2>1. [number |-> counter + 1, change |-> c] \in Entries
    BY <1>0 DEF TypeOK, Entries
  <2> QED
    BY <1>0, <1>2, <2>1 DEF getNextSequenceNumber
<1>3. ASSUME NEW w \in Writers, NEW c \in numbering[w], numberFails(w, c) PROVE MemoryOK
  BY <1>0, <1>3 DEF numberFails
<1>4. ASSUME NEW w \in Writers, NEW e \in numbered[w], push(w, e) PROVE MemoryOK
  <2> DEFINE entries == Append(pending[w], e)
  <2>1. entries \in Seq(Entries)
    BY <1>0
  <2>2. /\ numbering' = numbering
        /\ numbered' = [numbered EXCEPT ![w] = @ \ {e}]
        /\ \/ /\ pending' = [pending EXCEPT ![w] = <<>>]
              /\ flights' = [flights EXCEPT ![w] = @ \union {entries}]
           \/ /\ pending' = [pending EXCEPT ![w] = entries]
              /\ flights' = [flights EXCEPT ![w] = @]
    BY <1>4 DEF push
  <2> HIDE DEF entries
  <2>3. pending' \in [Writers -> Seq(Entries)]
    <3>1. <<>> \in Seq(Entries)
      OBVIOUS
    <3>2. \/ pending' = [pending EXCEPT ![w] = <<>>]
          \/ pending' = [pending EXCEPT ![w] = entries]
      BY <2>2
    <3> QED
      BY <1>0, <2>1, <3>1, <3>2
  <2>4. flights' \in [Writers -> SUBSET Seq(Entries)]
    BY <1>0, <2>1, <2>2
  <2> QED
    BY <1>0, <2>2, <2>3, <2>4
<1>5. ASSUME NEW w \in Writers, flush(w) PROVE MemoryOK
  BY <1>0, <1>5 DEF flush
<1>6. ASSUME NEW w \in Writers, NEW b \in flights[w], inserted(w, b) PROVE MemoryOK
  BY <1>0, <1>6 DEF inserted
<1>7. ASSUME NEW w \in Writers, NEW b \in flights[w], NEW k \in 0..Len(b), PutBack(w, b, k)
      PROVE  MemoryOK
  <2>1. b \o pending[w] \in Seq(Entries)
    BY <1>0
  <2> QED
    BY <1>0, <1>7, <2>1 DEF PutBack
<1>8. ASSUME NEW w \in Writers, stop(w) PROVE MemoryOK
  BY <1>0, <1>8 DEF stop
<1>9. CASE ProcessEnds
  BY <1>9 DEF ProcessEnds
<1>10. CASE UNCHANGED memory
  BY <1>0, <1>10 DEF memory
<1>11. ASSUME NEW w \in Writers, Restart(w) PROVE UNCHANGED memory
  BY <1>11 DEF Restart, streamError, streamClosed, abandonStream, closeFailed, restartStream,
               noDatabase, restartThrows, Reopened
<1>12. ASSUME NEW w \in Writers, Start(w) PROVE UNCHANGED memory
  BY <1>12 DEF Start, create, start, startTimesOut, started, startThrows
<1> QED
  BY <1>1, <1>2, <1>3, <1>4, <1>5, <1>6, <1>7, <1>8, <1>9, <1>10, <1>11, <1>12
     DEF Next, Capture, Write, Stop, commit, exit, crash, insertFails, duplicateKey,
         closeStream, vars

\* ... and the database, the phases and the bounds too.
LEMMA StepOthers ==
  TypeOK /\ [Next]_vars =>
    /\ committed' \in 0..MaxChanges /\ counter' \in Nat /\ log' \subseteq Entries
    /\ current' \in Writers \union {NoWriter} /\ phase' \in [Writers -> Phases]
    /\ faults' \in 0..MaxFaults
<1> DEFINE OthersOK ==
      /\ committed' \in 0..MaxChanges /\ counter' \in Nat /\ log' \subseteq Entries
      /\ current' \in Writers \union {NoWriter} /\ phase' \in [Writers -> Phases]
      /\ faults' \in 0..MaxFaults
<1> SUFFICES ASSUME TypeOK, [Next]_vars PROVE OthersOK
  OBVIOUS
<1>0. /\ committed \in 0..MaxChanges /\ counter \in Nat /\ log \subseteq Entries
      /\ current \in Writers \union {NoWriter} /\ phase \in [Writers -> Phases]
      /\ faults \in 0..MaxFaults
  BY DEF TypeOK, Phases
<1> USE DEF Phases, database, Goto, Fault
<1>1. CASE commit
  BY <1>0, <1>1, BoundsAssumption DEF commit
<1>2. ASSUME NEW w \in Writers, Start(w) PROVE OthersOK
  BY <1>0, <1>2, BoundsAssumption DEF Start, create, start, startTimesOut, started, startThrows
<1>3. ASSUME NEW w \in Writers, Capture(w) PROVE OthersOK
  BY <1>0, <1>3, BoundsAssumption
     DEF Capture, handleChange, getNextSequenceNumber, numberFails, push
<1>4. ASSUME NEW w \in Writers, flush(w) \/ Restart(w) PROVE OthersOK
  BY <1>0, <1>4, BoundsAssumption
     DEF flush, Restart, streamError, streamClosed, abandonStream, closeFailed, restartStream, noDatabase,
         restartThrows, Reopened
<1>5. ASSUME NEW w \in Writers, NEW b \in flights[w], inserted(w, b) PROVE OthersOK
  <2>1. Contents(b) \subseteq Entries
    BY DEF TypeOK, Contents
  <2> QED
    BY <1>0, <1>5, <2>1 DEF inserted, Awaited
<1>6. ASSUME NEW w \in Writers, NEW b \in flights[w], NEW k \in 0..Len(b),
             insertFails(w, b, k) \/ duplicateKey(w, b, k)
      PROVE  OthersOK
  <2>1. \A i \in 1..k : b[i] \in Entries
    BY DEF TypeOK
  <2> QED
    BY <1>0, <1>6, <2>1, BoundsAssumption DEF insertFails, duplicateKey, PutBack, Awaited
<1>7. ASSUME NEW w \in Writers, Stop(w) PROVE OthersOK
  BY <1>0, <1>7 DEF Stop, stop, closeStream
<1>8. CASE exit \/ crash
  BY <1>0, <1>8, BoundsAssumption DEF exit, crash, ProcessEnds
<1>9. CASE UNCHANGED vars
  BY <1>0, <1>9 DEF vars
<1> QED
  BY <1>1, <1>2, <1>3, <1>4, <1>5, <1>6, <1>7, <1>8, <1>9 DEF Next, Write

LEMMA StepTypeOK == TypeOK /\ [Next]_vars => TypeOK'
  BY StepFeed, StepMemory, StepOthers DEF TypeOK, Feeds, Phases

\* The variables of the writers keep their types.
THEOREM WalTypeOK == Spec => []TypeOK
  BY InitTypeOK, StepTypeOK, PTL DEF Spec
-----------------------------------------------------------------------------
\* What the entries of a batch are when it grows.
LEMMA ContentsEmpty == Contents(<<>>) = {}
  BY DEF Contents

LEMMA ContentsAppend ==
  ASSUME NEW b \in Seq(Entries), NEW e \in Entries
  PROVE  Contents(Append(b, e)) = Contents(b) \union {e}
<1>1. /\ Len(Append(b, e)) = Len(b) + 1 /\ Len(b) \in Nat
      /\ \A i \in 1..Len(b) : Append(b, e)[i] = b[i]
      /\ Append(b, e)[Len(b) + 1] = e
  OBVIOUS
<1>2. \A i : i \in 1..(Len(b) + 1) <=> i \in 1..Len(b) \/ i = Len(b) + 1
  BY <1>1
<1> QED
  BY <1>1, <1>2 DEF Contents

LEMMA ContentsConcat ==
  ASSUME NEW b \in Seq(Entries), NEW d \in Seq(Entries)
  PROVE  Contents(b \o d) = Contents(b) \union Contents(d)
<1>1. /\ b \o d \in Seq(Entries)
      /\ Len(b \o d) = Len(b) + Len(d) /\ Len(b) \in Nat /\ Len(d) \in Nat
      /\ \A i \in 1..Len(b) : (b \o d)[i] = b[i]
      /\ \A i \in 1..Len(d) : (b \o d)[Len(b) + i] = d[i]
  OBVIOUS
<1>2. Contents(b \o d) \subseteq Contents(b) \union Contents(d)
  <2> SUFFICES ASSUME NEW i \in 1..Len(b \o d)
               PROVE  (b \o d)[i] \in Contents(b) \union Contents(d)
    BY DEF Contents
  <2>1. CASE i <= Len(b)
    BY <1>1, <2>1 DEF Contents
  <2>2. CASE i > Len(b)
    <3>1. i - Len(b) \in 1..Len(d) /\ Len(b) + (i - Len(b)) = i
      BY <1>1, <2>2
    <3> QED
      BY <1>1, <3>1 DEF Contents
  <2> QED
    BY <1>1, <2>1, <2>2
<1>3. Contents(b) \subseteq Contents(b \o d)
  BY <1>1 DEF Contents
<1>4. Contents(d) \subseteq Contents(b \o d)
  <2> SUFFICES ASSUME NEW i \in 1..Len(d) PROVE d[i] \in Contents(b \o d)
    BY DEF Contents
  <2>1. Len(b) + i \in 1..Len(b \o d)
    BY <1>1
  <2> QED
    BY <1>1, <2>1 DEF Contents
<1> QED
  BY <1>2, <1>3, <1>4

\* The flush of stop() is the last thing before the stream is closed.
LEMMA StepStopFlushes == TypeOK /\ StopFlushes /\ [Next]_vars => StopFlushes'
<1> SUFFICES ASSUME TypeOK, StopFlushes, [Next]_vars PROVE StopFlushes'
  OBVIOUS
<1>0. /\ phase \in [Writers -> Phases] /\ feed \in [Writers -> Feeds]
      /\ pending \in [Writers -> Seq(Entries)]
  BY DEF TypeOK, Phases, Feeds
<1>k. ASSUME log \subseteq log', NEW w \in Writers,
             \A v \in Writers \ {w} : phase'[v] = phase[v] /\ feed'[v] = feed[v],
             phase'[w] \in {"closing", "stopped"} => Contents(feed'[w].last) \subseteq log'
      PROVE  StopFlushes'
  BY <1>k DEF StopFlushes
<1>1. ASSUME log' = log, phase' = phase,
             \A v \in Writers : feed'[v].last = feed[v].last
      PROVE  StopFlushes'
  BY <1>1 DEF StopFlushes
<1>2. ASSUME NEW w \in Writers, Start(w) PROVE StopFlushes'
  BY <1>0, <1>2, <1>k DEF Start, create, start, startTimesOut, started, startThrows, Goto,
     Phases, database
<1>3. ASSUME NEW w \in Writers, NEW b \in flights[w], inserted(w, b) PROVE StopFlushes'
  <2>1. /\ log \subseteq log' /\ feed' = feed
        /\ \A v \in Writers \ {w} : phase'[v] = phase[v]
        /\ phase'[w] = phase[w] \/ Contents(feed[w].last) \subseteq log'
    BY <1>0, <1>3 DEF inserted, Awaited, Goto
  <2> QED
    BY <2>1 DEF StopFlushes
<1>4. ASSUME NEW w \in Writers, NEW b \in flights[w], NEW k \in 0..Len(b), PutBack(w, b, k)
      PROVE  StopFlushes'
  <2>1. /\ log \subseteq log' /\ feed' = feed
        /\ \A v \in Writers \ {w} : phase'[v] = phase[v]
        /\ phase'[w] = phase[w] \/ phase'[w] = "stopThrew"
    BY <1>0, <1>4 DEF PutBack, Awaited, Goto
  <2> QED
    BY <2>1 DEF StopFlushes
<1>5. ASSUME NEW w \in Writers, stop(w) PROVE StopFlushes'
  <2>1. feed'[w].last = pending[w] /\ \A v \in Writers \ {w} : feed'[v] = feed[v]
    BY <1>0, <1>5 DEF stop, Feeds
  <2>2. phase' = [phase EXCEPT ![w] = IF pending[w] = <<>> THEN "closing" ELSE "flushing"]
    BY <1>5 DEF stop, Goto
  <2>3. log' = log
    BY <1>5 DEF stop, database
  <2> QED
    BY <1>0, <1>k, <2>1, <2>2, <2>3, ContentsEmpty
<1>6. ASSUME NEW w \in Writers, closeStream(w) PROVE StopFlushes'
  <2>1. feed'[w].last = feed[w].last /\ \A v \in Writers \ {w} : feed'[v] = feed[v]
    BY <1>0, <1>6 DEF closeStream, Feeds
  <2> QED
    BY <1>0, <1>6, <1>k, <2>1 DEF closeStream, Goto, database, StopFlushes
<1>7. CASE ProcessEnds
  BY <1>7 DEF ProcessEnds, StopFlushes
<1>8. ASSUME NEW w \in Writers, Capture(w) PROVE StopFlushes'
  <2>1. log' = log /\ phase' = phase
    BY <1>8 DEF Capture, handleChange, getNextSequenceNumber, numberFails, push, database
  <2>2. feed' = feed \/ feed' = [feed EXCEPT ![w].position = @ + 1]
    BY <1>8 DEF Capture, handleChange, getNextSequenceNumber, numberFails, push
  <2>3. \A v \in Writers : feed'[v].last = feed[v].last
    <3>1. CASE feed' = [feed EXCEPT ![w].position = @ + 1]
      BY <1>0, <3>1 DEF Feeds
    <3> QED
      BY <2>2, <3>1
  <2> QED
    BY <1>1, <2>1, <2>3
<1>10. ASSUME NEW w \in Writers, Restart(w) PROVE StopFlushes'
  <2>1. log' = log /\ phase' = phase
    BY <1>10 DEF Restart, streamError, streamClosed, abandonStream, closeFailed, restartStream, noDatabase,
                restartThrows, Reopened, database
  <2>2. CASE streamError(w)
    BY <1>0, <1>1, <2>1, <2>2 DEF streamError, Feeds
  <2>4. CASE streamClosed(w)
    BY <1>0, <1>1, <2>1, <2>4 DEF streamClosed, Feeds
  <2>5. CASE abandonStream(w)
    BY <1>0, <1>1, <2>1, <2>5 DEF abandonStream, Feeds
  <2>6. CASE closeFailed(w)
    BY <1>0, <1>1, <2>1, <2>6 DEF closeFailed, Feeds
  <2>3. ASSUME NEW s, NEW next, Reopened(w, s, next) PROVE StopFlushes'
    BY <1>0, <1>1, <2>1, <2>3 DEF Reopened, Feeds
  <2> QED
    BY <1>10, <2>2, <2>3, <2>4, <2>5, <2>6
       DEF Restart, restartStream, noDatabase, restartThrows
<1>9. CASE UNCHANGED <<log, phase, feed>>
  BY <1>9 DEF StopFlushes
<1> QED
  BY <1>2, <1>3, <1>4, <1>5, <1>6, <1>7, <1>8, <1>9, <1>10
     DEF Next, Write, Stop, commit, exit, crash, flush, insertFails, duplicateKey, vars, database

\* When stop() goes on to close the stream, what was pending is in the log.
THEOREM WalStopFlushes == Spec => []StopFlushes
<1>1. Init => StopFlushes
  BY DEF Init, StopFlushes
<1> QED
  BY <1>1, WalTypeOK, StepStopFlushes, PTL DEF Spec
-----------------------------------------------------------------------------
\* What all writers hold in memory under a number.
AllHeld == UNION {Held(w) : w \in Writers}

\* No number is in use that the counter did not give out.
Numbered == \A e \in log \union AllHeld : e.number \in Nat /\ e.number <= counter

\* What one writer holds, of its own memory alone.
Holding(entries, queue, batches) ==
  entries \union Contents(queue) \union UNION {Contents(b) : b \in batches}

LEMMA HeldIs ==
  ASSUME NEW w \in Writers
  PROVE  /\ Held(w) = Holding(numbered[w], pending[w], flights[w])
         /\ Held(w)' = Holding(numbered'[w], pending'[w], flights'[w])
  BY DEF Held, Holding

LEMMA InHolding ==
  ASSUME NEW x, NEW entries, NEW queue, NEW batches
  PROVE  x \in Holding(entries, queue, batches) <=>
           x \in entries \/ x \in Contents(queue) \/ \E b \in batches : x \in Contents(b)
  BY DEF Holding

\* A batch that takes off carries what it has from the queue and the entries.
LEMMA TakeOff ==
  ASSUME NEW entries, NEW rest, NEW queue, NEW kept, NEW batches, NEW batch,
         entries \union Contents(queue) = rest \union Contents(kept) \union Contents(batch)
  PROVE  Holding(rest, kept, batches \union {batch}) = Holding(entries, queue, batches)
<1>1. ASSUME NEW x
      PROVE  x \in Holding(rest, kept, batches \union {batch}) <=>
               x \in Holding(entries, queue, batches)
  BY InHolding
<1> QED
  BY <1>1

LEMMA HeldEntries == TypeOK => \A w \in Writers : Held(w) \subseteq Entries
<1> SUFFICES ASSUME TypeOK, NEW w \in Writers PROVE Held(w) \subseteq Entries
  OBVIOUS
<1>1. \A b \in Seq(Entries) : Contents(b) \subseteq Entries
  BY DEF Contents
<1> QED
  BY <1>1 DEF TypeOK, Held

\* A step that touches one writer moves the whole by what it does there.
LEMMA OneWriter ==
  ASSUME NEW w \in Writers, NEW X,
         \A v \in Writers \ {w} : Held(v)' = Held(v)
  PROVE  /\ Held(w)' = Held(w) => AllHeld' = AllHeld
         /\ Held(w)' = Held(w) \union X => AllHeld' = AllHeld \union X
         /\ Held(w)' \subseteq Held(w) /\ Held(w) \subseteq Held(w)' \union X =>
              AllHeld' \subseteq AllHeld /\ AllHeld \subseteq AllHeld' \union X
<1>1. \A e : e \in AllHeld <=> \E v \in Writers : e \in Held(v)
  BY DEF AllHeld
<1>2. \A e : e \in AllHeld' <=> \E v \in Writers : e \in Held(v)'
  BY DEF AllHeld
<1>3. Held(w)' = Held(w) => AllHeld' = AllHeld
  BY <1>1, <1>2
<1>4. Held(w)' = Held(w) \union X => AllHeld' = AllHeld \union X
  BY <1>1, <1>2
<1>5. Held(w)' \subseteq Held(w) /\ Held(w) \subseteq Held(w)' \union X =>
              AllHeld' \subseteq AllHeld /\ AllHeld \subseteq AllHeld' \union X
  BY <1>1, <1>2
<1> QED
  BY <1>3, <1>4, <1>5

LEMMA Elsewhere ==
  ASSUME TypeOK, NEW w \in Writers,
         \A v \in Writers \ {w} :
           numbered'[v] = numbered[v] /\ pending'[v] = pending[v] /\ flights'[v] = flights[v]
  PROVE  \A v \in Writers \ {w} : Held(v)' = Held(v)
  BY HeldIs

\* The number a handler receives is one more entry in memory.
LEMMA NumberStep ==
  ASSUME TypeOK, NEW w \in Writers, NEW c \in numbering[w], getNextSequenceNumber(w, c)
  PROVE  AllHeld' = AllHeld \union {[number |-> counter + 1, change |-> c]}
<1> DEFINE e == [number |-> counter + 1, change |-> c]
<1>1. numbered' = [numbered EXCEPT ![w] = @ \union {e}] /\ UNCHANGED <<pending, flights>>
  BY DEF getNextSequenceNumber
<1> HIDE DEF e
<1>2. \A v \in Writers \ {w} : Held(v)' = Held(v)
  BY <1>1, Elsewhere DEF TypeOK
<1>3. Held(w)' = Held(w) \union {e}
  BY <1>1, HeldIs DEF TypeOK, Holding
<1> QED
  BY <1>2, <1>3, OneWriter DEF e

\* An entry that becomes pending, and a batch that takes off, stay in memory.
LEMMA PushStep ==
  ASSUME TypeOK, NEW w \in Writers, NEW e \in numbered[w], push(w, e)
  PROVE  AllHeld' = AllHeld
<1> DEFINE entries == Append(pending[w], e)
<1>1. /\ numbered' = [numbered EXCEPT ![w] = @ \ {e}]
      /\ \/ /\ pending' = [pending EXCEPT ![w] = <<>>]
            /\ flights' = [flights EXCEPT ![w] = @ \union {entries}]
         \/ /\ pending' = [pending EXCEPT ![w] = entries]
            /\ flights' = [flights EXCEPT ![w] = @]
  BY DEF push
<1>2. pending[w] \in Seq(Entries) /\ e \in Entries
  BY DEF TypeOK
<1>3. Contents(entries) = Contents(pending[w]) \union {e}
  BY <1>2, ContentsAppend
<1> HIDE DEF entries
<1>4. \A v \in Writers \ {w} : Held(v)' = Held(v)
  BY <1>1, Elsewhere DEF TypeOK
<1>5. numbered'[w] = numbered[w] \ {e}
  BY <1>1 DEF TypeOK
<1>6. \/ pending'[w] = <<>> /\ flights'[w] = flights[w] \union {entries}
      \/ pending'[w] = entries /\ flights'[w] = flights[w]
  BY <1>1 DEF TypeOK
<1>7. numbered[w] \union Contents(pending[w]) = numbered'[w] \union Contents(entries)
  BY <1>3, <1>5
<1>8. Held(w)' = Held(w)
  <2>1. CASE pending'[w] = <<>> /\ flights'[w] = flights[w] \union {entries}
    BY <1>7, <2>1, ContentsEmpty, HeldIs, TakeOff
  <2>2. CASE pending'[w] = entries /\ flights'[w] = flights[w]
    BY <1>7, <2>2, HeldIs DEF Holding
  <2> QED
    BY <1>6, <2>1, <2>2
<1> QED
  BY <1>4, <1>8, OneWriter

LEMMA FlushStep ==
  ASSUME TypeOK, NEW w \in Writers, flush(w) \/ stop(w)
  PROVE  AllHeld' = AllHeld
<1>1. /\ numbered' = numbered
      /\ pending' = [pending EXCEPT ![w] = <<>>]
      /\ \/ flights' = [flights EXCEPT ![w] = @ \union {pending[w]}]
         \/ pending[w] = <<>> /\ flights' = [flights EXCEPT ![w] = @]
  BY DEF flush, stop
<1>2. \A v \in Writers \ {w} : Held(v)' = Held(v)
  BY <1>1, Elsewhere DEF TypeOK
<1>3. /\ pending'[w] = <<>>
      /\ \/ flights'[w] = flights[w] \union {pending[w]}
         \/ pending[w] = <<>> /\ flights'[w] = flights[w]
  BY <1>1 DEF TypeOK
<1>4. Held(w)' = Held(w)
  <2>1. CASE flights'[w] = flights[w] \union {pending[w]}
    BY <1>1, <1>3, <2>1, ContentsEmpty, HeldIs, TakeOff
  <2>2. CASE pending[w] = <<>> /\ flights'[w] = flights[w]
    BY <1>1, <1>3, <2>2, HeldIs DEF Holding
  <2> QED
    BY <1>3, <2>1, <2>2
<1> QED
  BY <1>2, <1>4, OneWriter

\* A batch that was inserted leaves the memory, and only its entries do.
LEMMA InsertStep ==
  ASSUME TypeOK, NEW w \in Writers, NEW b \in flights[w], inserted(w, b)
  PROVE  /\ AllHeld' \subseteq AllHeld /\ AllHeld \subseteq AllHeld' \union Contents(b)
         /\ Contents(b) \subseteq AllHeld
<1>1. UNCHANGED <<numbered, pending>> /\ flights' = [flights EXCEPT ![w] = @ \ {b}]
  BY DEF inserted
<1>2. \A v \in Writers \ {w} : Held(v)' = Held(v)
  BY <1>1, Elsewhere DEF TypeOK
<1>3. flights'[w] = flights[w] \ {b}
  BY <1>1 DEF TypeOK
<1>4. Held(w)' \subseteq Held(w) /\ Held(w) \subseteq Held(w)' \union Contents(b)
  BY <1>1, <1>3, HeldIs DEF Holding
<1>5. Contents(b) \subseteq Held(w)
  BY DEF Held
<1> QED
  BY <1>2, <1>4, <1>5, OneWriter DEF AllHeld

\* A batch that was put back stays in memory, whatever of it is in the log.
LEMMA PutBackStep ==
  ASSUME TypeOK, NEW w \in Writers, NEW b \in flights[w], NEW k \in 0..Len(b), PutBack(w, b, k)
  PROVE  AllHeld' = AllHeld /\ {b[i] : i \in 1..k} \subseteq AllHeld
<1>1. /\ numbered' = numbered
      /\ flights' = [flights EXCEPT ![w] = @ \ {b}]
      /\ pending' = [pending EXCEPT ![w] = b \o @]
  BY DEF PutBack
<1>2. \A v \in Writers \ {w} : Held(v)' = Held(v)
  BY <1>1, Elsewhere DEF TypeOK
<1>3. flights'[w] = flights[w] \ {b} /\ pending'[w] = b \o pending[w]
  BY <1>1 DEF TypeOK
<1>4. Contents(b \o pending[w]) = Contents(b) \union Contents(pending[w])
  BY ContentsConcat DEF TypeOK
<1>5. Held(w)' = Held(w)
  <2>1. flights[w] = flights'[w] \union {b}
    BY <1>3
  <2>2. numbered[w] \union Contents(pending'[w])
          = numbered[w] \union Contents(pending[w]) \union Contents(b)
    BY <1>3, <1>4
  <2>3. Holding(numbered[w], pending[w], flights'[w] \union {b})
          = Holding(numbered[w], pending'[w], flights'[w])
    BY <2>2, TakeOff
  <2> QED
    BY <1>1, <2>1, <2>3, HeldIs
<1>6. Len(b) \in Nat
  BY DEF TypeOK
<1>7. {b[i] : i \in 1..k} \subseteq Contents(b)
  BY <1>6 DEF Contents
<1>8. Contents(b) \subseteq Held(w)
  BY DEF Held
<1> QED
  BY <1>2, <1>5, <1>7, <1>8, OneWriter DEF AllHeld

\* The end of the process empties the memory.
LEMMA EndStep ==
  ASSUME ProcessEnds
  PROVE  AllHeld' = {} /\ log' = log /\ counter' = counter
<1>1. \A w \in Writers : Held(w)' = {}
  BY HeldIs, ContentsEmpty DEF ProcessEnds, Holding
<1> QED
  BY <1>1 DEF AllHeld, ProcessEnds, database

\* All other steps leave numbers, memory and log alone.
LEMMA IdleStep ==
  ASSUME NEW w \in Writers,
         \/ commit \/ Start(w) \/ handleChange(w) \/ Restart(w) \/ closeStream(w)
         \/ UNCHANGED vars
  PROVE  AllHeld' = AllHeld /\ log' = log /\ counter' = counter
<1>1. UNCHANGED <<numbered, pending, flights>>
  BY DEF commit, Start, create, start, startTimesOut, started, startThrows, handleChange,
         Restart, streamError, streamClosed, abandonStream, closeFailed, restartStream, noDatabase,
         restartThrows, Reopened, closeStream, memory, vars
<1>2. log' = log /\ counter' = counter
  BY DEF commit, Start, create, start, startTimesOut, started, startThrows, handleChange,
         Restart, streamError, streamClosed, abandonStream, closeFailed, restartStream, noDatabase,
         restartThrows, Reopened, closeStream, database, vars
<1> QED
  BY <1>1, <1>2, HeldIs DEF AllHeld

\* What a step does to the numbers, the memory and the log.
Unmoved == AllHeld' = AllHeld /\ log' = log /\ counter' \in {counter, counter + 1}
Taken ==
  /\ \E w \in Writers : \E c \in numbering[w] :
       /\ numbering' = [numbering EXCEPT ![w] = @ \ {c}]
       /\ AllHeld' = AllHeld \union {[number |-> counter + 1, change |-> c]}
  /\ log' = log /\ counter' = counter + 1
Written ==
  /\ \E batch \in SUBSET AllHeld :
       /\ batch \intersect log = {} /\ log' = log \union batch
       /\ AllHeld' \subseteq AllHeld /\ AllHeld \subseteq AllHeld' \union batch
  /\ counter' = counter
Dropped == AllHeld' = {} /\ log' = log /\ counter' = counter

LEMMA FourKinds == TypeOK /\ [Next]_vars => Unmoved \/ Taken \/ Written \/ Dropped
<1> SUFFICES ASSUME TypeOK, [Next]_vars PROVE Unmoved \/ Taken \/ Written \/ Dropped
  OBVIOUS
<1>1. ASSUME NEW w \in Writers,
             commit \/ Start(w) \/ handleChange(w) \/ Restart(w) \/ closeStream(w)
      PROVE  Unmoved
  BY <1>1, IdleStep DEF Unmoved
<1>2. CASE UNCHANGED vars
  <2>1. UNCHANGED <<numbered, pending, flights, log, counter>>
    BY <1>2 DEF vars, memory, database
  <2>2. \A w \in Writers : Held(w)' = Held(w)
    BY <2>1, HeldIs
  <2> QED
    BY <2>1, <2>2 DEF Unmoved, AllHeld
<1>3. CASE commit
  <2>1. UNCHANGED <<numbered, pending, flights, log, counter>>
    BY <1>3 DEF commit, memory
  <2>2. \A w \in Writers : Held(w)' = Held(w)
    BY <2>1, HeldIs
  <2> QED
    BY <2>1, <2>2 DEF Unmoved, AllHeld
<1>4. CASE exit \/ crash
  BY <1>4, EndStep DEF exit, crash, Dropped
<1>5. ASSUME NEW w \in Writers, NEW c \in numbering[w], getNextSequenceNumber(w, c)
      PROVE  Taken
  <2>1. /\ log' = log /\ counter' = counter + 1
        /\ numbering' = [numbering EXCEPT ![w] = @ \ {c}]
    BY <1>5 DEF getNextSequenceNumber
  <2> QED
    BY <1>5, <2>1, NumberStep DEF Taken
<1>6. ASSUME NEW w \in Writers, NEW c \in numbering[w], numberFails(w, c)
      PROVE  Unmoved
  <2>1. UNCHANGED <<numbered, pending, flights, log>> /\ counter' \in {counter, counter + 1}
    BY <1>6 DEF numberFails
  <2>2. \A v \in Writers : Held(v)' = Held(v)
    BY <2>1, HeldIs
  <2> QED
    BY <2>1, <2>2 DEF Unmoved, AllHeld
<1>7. ASSUME NEW w \in Writers, NEW e \in numbered[w], push(w, e) PROVE Unmoved
  BY <1>7, PushStep DEF Unmoved, push, database
<1>8. ASSUME NEW w \in Writers, flush(w) \/ stop(w) PROVE Unmoved
  BY <1>8, FlushStep DEF Unmoved, flush, stop, database
<1>9. ASSUME NEW w \in Writers, NEW b \in flights[w], inserted(w, b) PROVE Written
  <2>1. /\ \A e \in Contents(b) : ~Recorded(e.number)
        /\ log' = log \union Contents(b) /\ counter' = counter
    BY <1>9 DEF inserted
  <2>2. Contents(b) \intersect log = {}
    BY <2>1 DEF Recorded
  <2> QED
    BY <1>9, <2>1, <2>2, InsertStep DEF Written
<1>10. ASSUME NEW w \in Writers, NEW b \in flights[w], NEW k \in 0..Len(b), PutBack(w, b, k)
       PROVE  Written
  <2> DEFINE batch == {b[i] : i \in 1..k}
  <2>1. /\ \A e \in batch : ~Recorded(e.number)
        /\ log' = log \union batch /\ counter' = counter
    BY <1>10 DEF PutBack
  <2>2. AllHeld' = AllHeld /\ batch \subseteq AllHeld
    BY <1>10, PutBackStep
  <2> HIDE DEF batch
  <2>3. batch \intersect log = {}
    BY <2>1 DEF Recorded
  <2> QED
    BY <2>1, <2>2, <2>3 DEF Written
<1>11. ASSUME NEW w \in Writers, Capture(w) PROVE Unmoved \/ Taken
  BY <1>1, <1>5, <1>6, <1>7, <1>11 DEF Capture
<1>12. ASSUME NEW w \in Writers, Write(w) PROVE Unmoved \/ Written
  BY <1>8, <1>9, <1>10, <1>12 DEF Write, insertFails, duplicateKey
<1> QED
  BY <1>1, <1>2, <1>3, <1>4, <1>8, <1>11, <1>12 DEF Next, Stop

LEMMA StepNumbered == TypeOK /\ Numbered /\ [Next]_vars => Numbered'
<1> SUFFICES ASSUME TypeOK, Numbered, [Next]_vars PROVE Numbered'
  OBVIOUS
<1>0. counter \in Nat
  BY DEF TypeOK
<1>1. CASE Unmoved
  BY <1>0, <1>1 DEF Unmoved, Numbered
<1>2. CASE Taken
  BY <1>0, <1>2 DEF Taken, Numbered
<1>3. CASE Written
  BY <1>3 DEF Written, Numbered
<1>4. CASE Dropped
  BY <1>4 DEF Dropped, Numbered
<1> QED
  BY <1>1, <1>2, <1>3, <1>4, FourKinds

\* What a writer owes the log.
Owed == AllHeld \ log

LEMMA OwedIs ==
  /\ Log!Issue <=>
       /\ counter' = counter + 1
       /\ \/ Owed' = Owed
          \/ \E c \in Changes : Owed' = Owed \union {[number |-> counter + 1, change |-> c]}
       /\ log' = log
  /\ Log!Record <=>
       /\ \E batch \in SUBSET Owed : Owed' = Owed \ batch /\ log' = log \union batch
       /\ counter' = counter
  /\ Log!ProcessEnds <=> Owed' = {} /\ counter' = counter /\ log' = log
  /\ UNCHANGED Log!vars <=> counter' = counter /\ Owed' = Owed /\ log' = log
<1>1. Owed = (UNION {Held(w) : w \in Writers}) \ log
  BY DEF Owed, AllHeld
<1>2. Owed' = (UNION {Held(w)' : w \in Writers}) \ log'
  BY DEF Owed, AllHeld
<1>3. Log!Issue <=>
       /\ counter' = counter + 1
       /\ \/ Owed' = Owed
          \/ \E c \in Changes : Owed' = Owed \union {[number |-> counter + 1, change |-> c]}
       /\ log' = log
  BY <1>1, <1>2 DEF Log!Issue
<1>4. Log!Record <=>
       /\ \E batch \in SUBSET Owed : Owed' = Owed \ batch /\ log' = log \union batch
       /\ counter' = counter
  BY <1>1, <1>2 DEF Log!Record
<1>5. Log!ProcessEnds <=> Owed' = {} /\ counter' = counter /\ log' = log
  BY <1>1, <1>2 DEF Log!ProcessEnds
<1>6. UNCHANGED Log!vars <=> counter' = counter /\ Owed' = Owed /\ log' = log
  BY <1>1, <1>2 DEF Log!vars
<1> QED
  BY <1>3, <1>4, <1>5, <1>6

\* The new number of a step of Taken is in no entry, so that its entry is not in the log.
LEMMA LogStep == TypeOK /\ Numbered /\ [Next]_vars => [Log!Next]_(Log!vars)
<1> SUFFICES ASSUME TypeOK, Numbered, [Next]_vars PROVE [Log!Next]_(Log!vars)
  OBVIOUS
<1>0. counter \in Nat
  BY DEF TypeOK
<1>1. CASE Unmoved
  <2>1. Owed' = Owed /\ log' = log /\ counter' \in {counter, counter + 1}
    BY <1>1 DEF Unmoved, Owed
  <2>2. Log!Issue \/ UNCHANGED Log!vars
    BY <2>1, OwedIs
  <2> QED
    BY <2>2 DEF Log!Next
<1>2. CASE Taken
  <2>0. PICK w \in Writers : \E x \in numbering[w] :
          AllHeld' = AllHeld \union {[number |-> counter + 1, change |-> x]}
    BY <1>2 DEF Taken
  <2>1. PICK c \in numbering[w] :
          AllHeld' = AllHeld \union {[number |-> counter + 1, change |-> c]}
    BY <2>0
  <2>6. c \in Changes
    BY DEF TypeOK
  <2>2. [number |-> counter + 1, change |-> c] \notin log
    BY <1>0 DEF Numbered
  <2>3. log' = log /\ counter' = counter + 1
    BY <1>2 DEF Taken
  <2>4. Owed' = Owed \union {[number |-> counter + 1, change |-> c]}
    BY <2>1, <2>2, <2>3 DEF Owed
  <2>5. Log!Issue
    BY <2>3, <2>4, <2>6, OwedIs
  <2> QED
    BY <2>5 DEF Log!Next
<1>3. CASE Written
  <2>1. PICK batch \in SUBSET AllHeld :
          /\ batch \intersect log = {} /\ log' = log \union batch
          /\ AllHeld' \subseteq AllHeld /\ AllHeld \subseteq AllHeld' \union batch
    BY <1>3 DEF Written
  <2>2. Owed' = Owed \ batch /\ batch \in SUBSET Owed
    BY <2>1 DEF Owed
  <2>3. counter' = counter
    BY <1>3 DEF Written
  <2>4. Log!Record
    BY <2>1, <2>2, <2>3, OwedIs
  <2> QED
    BY <2>4 DEF Log!Next
<1>4. CASE Dropped
  <2>1. Owed' = {} /\ log' = log /\ counter' = counter
    BY <1>4 DEF Dropped, Owed
  <2>2. Log!ProcessEnds
    BY <2>1, OwedIs
  <2> QED
    BY <2>2 DEF Log!Next
<1> QED
  BY <1>1, <1>2, <1>3, <1>4, FourKinds

\* The WAL writer implements ChangeLog: numbers name at most one entry, and what
\* has one is owed until it is recorded or the process ends, whatever inserts
\* fail and in whatever order batches are answered.
THEOREM WalImplementsChangeLog == Spec => LogSpec
<1>1. Init => Numbered /\ Log!Init
  <2> SUFFICES ASSUME Init PROVE Numbered /\ Log!Init
    OBVIOUS
  <2>1. \A w \in Writers : Held(w) = {}
    BY ContentsEmpty DEF Init, Held
  <2>2. log = {} /\ counter = 0
    BY DEF Init
  <2> QED
    BY <2>1, <2>2 DEF Numbered, AllHeld, Log!Init
<1> QED
  BY <1>1, WalTypeOK, StepNumbered, LogStep, PTL DEF Spec, LogSpec, Log!Spec
-----------------------------------------------------------------------------
\* The changes that are in the log or with some writer.
Known == {e.change : e \in log \union AllHeld} \union UNION {numbering[w] : w \in Writers}

\* A writer that may still read: nobody stops one whose start() threw.
Reading(v) == phase[v] = "threw" \/ v = current

\* Streams and log are not ahead of the database.
Ahead ==
  /\ \A w \in Writers : feed[w].position <= committed + 1
  /\ \A c \in Known : c <= committed
\* A writer that did not start or is dead has no stream.
Before == \A w \in Writers : phase[w] \in {"new", "waiting", "dead"} => feed[w] = Dead
\* Of the writers at work only the current one was not left by a start that threw.
OneCurrent == \A w \in Writers : phase[w] \notin {"new", "dead", "threw"} => w = current

\* What lies ahead of an open stream and is known already is behind another
\* writer that may still read.
Overtaken ==
  \A w \in Writers : feed[w].stream = "open" =>
    \A c \in Known : c >= feed[w].position =>
      \E v \in Writers \ {w} : Reading(v) /\ feed[v].position > c

\* The invariant that RepeatedOnlyByLeak rests on.
Untwined == Ahead /\ Before /\ OneCurrent /\ Overtaken

\* A step that makes no change known, moves no stream back and silences no
\* writer leaves what is ahead and what is overtaken as it is.
Calm ==
  /\ Known' \subseteq Known
  /\ committed' >= committed
  /\ \A w \in Writers :
       /\ Reading(w) => Reading(w)'
       /\ feed'[w].position >= feed[w].position
       /\ feed'[w].position <= committed' + 1
       /\ feed'[w].stream = "open" =>
            \/ feed[w].stream = "open" /\ feed'[w].position = feed[w].position
            \/ feed'[w].position = committed' + 1

LEMMA Places ==
  TypeOK => /\ committed \in Nat
            /\ Known \subseteq Changes
            /\ \A w \in Writers : feed[w].position \in Nat
<1> SUFFICES ASSUME TypeOK
             PROVE  /\ committed \in Nat
                    /\ Known \subseteq Changes
                    /\ \A w \in Writers : feed[w].position \in Nat
  OBVIOUS
<1>1. AllHeld \subseteq Entries
  BY HeldEntries DEF AllHeld
<1>2. log \subseteq Entries /\ \A w \in Writers : numbering[w] \subseteq Changes
  BY DEF TypeOK
<1>3. \A e \in Entries : e.change \in Changes
  BY DEF Entries
<1>4. Known \subseteq Changes
  BY <1>1, <1>2, <1>3 DEF Known
<1>5. committed \in Nat
  BY DEF TypeOK
<1>6. \A w \in Writers : feed[w].position \in Nat
  BY FeedType, BoundsAssumption DEF TypeOK, Feeds
<1> QED
  BY <1>4, <1>5, <1>6

LEMMA CalmKeeps == TypeOK /\ TypeOK' /\ Ahead /\ Overtaken /\ Calm => Ahead' /\ Overtaken'
<1> SUFFICES ASSUME TypeOK, TypeOK', Ahead, Overtaken, Calm PROVE Ahead' /\ Overtaken'
  OBVIOUS
<1>0. /\ committed \in Nat /\ committed' \in Nat /\ Known \subseteq Nat
      /\ \A w \in Writers : feed[w].position \in Nat /\ feed'[w].position \in Nat
  <2>1. committed' \in Nat
    BY DEF TypeOK
  <2>2. feed' \in [Writers -> Feeds]
    BY DEF TypeOK, Feeds
  <2>3. \A w \in Writers : feed'[w].position \in Nat
    BY <2>2, BoundsAssumption DEF Feeds
  <2> QED
    BY <2>1, <2>3, Places DEF Changes
<1>1. Ahead'
  <2>1. ASSUME NEW c \in Known' PROVE c <= committed'
    <3>1. c \in Known /\ committed' >= committed
      BY <2>1 DEF Calm
    <3>2. c \in Nat /\ c <= committed
      BY <1>0, <3>1 DEF Ahead
    <3> QED
      BY <1>0, <3>1, <3>2
  <2>2. ASSUME NEW w \in Writers PROVE feed'[w].position <= committed' + 1
    BY <1>0, <2>2 DEF Ahead, Calm
  <2> QED
    BY <2>1, <2>2 DEF Ahead
<1>2. ASSUME NEW w \in Writers, feed'[w].stream = "open",
             NEW c \in Known', c >= feed'[w].position
      PROVE  \E v \in Writers \ {w} : Reading(v)' /\ feed'[v].position > c
  <2>1. c \in Known /\ c <= committed'
    BY <1>0, <1>2, <1>1 DEF Calm, Ahead
  <2>4. feed'[w].position # committed' + 1
    BY <1>0, <1>2, <2>1
  <2>2. feed[w].stream = "open" /\ feed'[w].position = feed[w].position
    BY <1>2, <2>4 DEF Calm
  <2>3. PICK v \in Writers \ {w} : Reading(v) /\ feed[v].position > c
    BY <1>2, <2>1, <2>2 DEF Overtaken
  <2>5. Reading(v)' /\ feed'[v].position > c
    BY <1>0, <2>1, <2>3 DEF Calm
  <2> QED
    BY <2>5
<1> QED
  BY <1>1, <1>2 DEF Overtaken

LEMMA KnownKept ==
  ASSUME log' \union AllHeld' \subseteq log \union AllHeld,
         \A w \in Writers : numbering'[w] \subseteq numbering[w]
  PROVE  Known' \subseteq Known
  BY DEF Known

\* Only the stream adds to the changes that wait for a number.
LEMMA NumberingStep ==
  ASSUME TypeOK, Next, \A w \in Writers : ~handleChange(w)
  PROVE  \A w \in Writers : numbering'[w] \subseteq numbering[w]
<1>1. ASSUME NEW w \in Writers, NEW c \in numbering[w],
             numberFails(w, c) \/ getNextSequenceNumber(w, c)
      PROVE  \A v \in Writers : numbering'[v] \subseteq numbering[v]
  <2>1. numbering' = [numbering EXCEPT ![w] = @ \ {c}]
    BY <1>1 DEF numberFails, getNextSequenceNumber
  <2> QED
    BY <2>1 DEF TypeOK
<1>2. ASSUME UNCHANGED numbering
      PROVE  \A v \in Writers : numbering'[v] \subseteq numbering[v]
  BY <1>2
<1>3. CASE exit \/ crash
  BY <1>3 DEF exit, crash, ProcessEnds
<1>4. ASSUME NEW w \in Writers, Start(w) \/ Write(w) \/ Restart(w) \/ Stop(w)
      PROVE  UNCHANGED numbering
  BY <1>4 DEF Start, create, start, startTimesOut, started, startThrows, Write, flush,
     inserted, insertFails, duplicateKey, PutBack, Restart, streamError, streamClosed,
     abandonStream, closeFailed, restartStream, noDatabase, restartThrows, Reopened, Stop, stop,
     closeStream, memory
<1>5. ASSUME NEW w \in Writers, NEW e \in numbered[w], push(w, e) PROVE UNCHANGED numbering
  BY <1>5 DEF push
<1>6. CASE commit
  BY <1>6 DEF commit, memory
<1> QED
  BY <1>1, <1>2, <1>3, <1>4, <1>5, <1>6 DEF Next, Capture

\* Only the stream makes a change known.
LEMMA KnownStep ==
  ASSUME TypeOK, Next, \A w \in Writers : ~handleChange(w)
  PROVE  Known' \subseteq Known
<1>1. CASE Unmoved /\ \A w \in Writers : numbering'[w] \subseteq numbering[w]
  BY <1>1, KnownKept DEF Unmoved
<1>2. CASE Written /\ \A w \in Writers : numbering'[w] \subseteq numbering[w]
  BY <1>2, KnownKept DEF Written
<1>3. CASE Dropped /\ \A w \in Writers : numbering'[w] \subseteq numbering[w]
  BY <1>3, KnownKept DEF Dropped
<1>4. CASE Taken
  <2>0. PICK w \in Writers : \E x \in numbering[w] :
          /\ numbering' = [numbering EXCEPT ![w] = @ \ {x}]
          /\ AllHeld' = AllHeld \union {[number |-> counter + 1, change |-> x]}
    BY <1>4 DEF Taken
  <2>1. PICK c \in numbering[w] :
          /\ numbering' = [numbering EXCEPT ![w] = @ \ {c}]
          /\ AllHeld' = AllHeld \union {[number |-> counter + 1, change |-> c]}
    BY <2>0
  <2>2. log' = log /\ \A v \in Writers : numbering'[v] \subseteq numbering[v]
    BY <1>4, <2>1 DEF Taken, TypeOK
  <2>3. [number |-> counter + 1, change |-> c].change = c
    OBVIOUS
  <2>4. c \in Known
    BY DEF Known
  <2>5. ASSUME NEW e \in log' \union AllHeld' PROVE e.change \in Known
    BY <2>1, <2>2, <2>3, <2>4 DEF Known
  <2> QED
    BY <2>2, <2>5 DEF Known
<1>5. \A w \in Writers : numbering'[w] \subseteq numbering[w]
  BY NumberingStep
<1> QED
  BY <1>1, <1>2, <1>3, <1>4, <1>5, FourKinds

\* A step of one writer, that has been started, which keeps its stream where it
\* is or moves it behind all changes.
LEMMA TouchOne ==
  ASSUME TypeOK, Ahead, Before, OneCurrent, NEW w \in Writers,
         Known' \subseteq Known, committed' = committed, current' = current,
         \A v \in Writers \ {w} : phase'[v] = phase[v] /\ feed'[v] = feed[v],
         phase'[w] \notin {"new", "waiting", "dead"},
         phase'[w] = phase[w] \/ w = current,
         feed'[w].position = feed[w].position \/ feed'[w].position = committed + 1,
         feed'[w].stream = "open" => feed[w].stream = "open" \/ feed'[w].position = committed + 1
  PROVE  Calm /\ Before' /\ OneCurrent'
<1>0. committed \in Nat /\ \A v \in Writers : feed[v].position \in Nat
  BY Places
<1>1. \A v \in Writers : Reading(v) => Reading(v)'
  BY DEF Reading
<1>2. \A v \in Writers : feed'[v].position >= feed[v].position
                           /\ feed'[v].position <= committed' + 1
  BY <1>0 DEF Ahead
<1>3. \A v \in Writers : feed'[v].stream = "open" =>
            \/ feed[v].stream = "open" /\ feed'[v].position = feed[v].position
            \/ feed'[v].position = committed' + 1
  OBVIOUS
<1>4. Calm
  BY <1>0, <1>1, <1>2, <1>3 DEF Calm
<1>5. Before'
  BY DEF Before
<1>6. OneCurrent'
  BY DEF OneCurrent
<1> QED
  BY <1>4, <1>5, <1>6

LEMMA TouchNone ==
  ASSUME TypeOK, Ahead, Before, OneCurrent,
         Known' \subseteq Known, committed' \in {committed, committed + 1},
         current' = current, phase' = phase, feed' = feed
  PROVE  Calm /\ Before' /\ OneCurrent'
<1>0. committed \in Nat /\ \A v \in Writers : feed[v].position \in Nat
  BY Places
<1>1. Calm
  BY <1>0 DEF Calm, Ahead, Reading
<1> QED
  BY <1>1 DEF Before, OneCurrent

LEMMA CalmStep ==
  ASSUME TypeOK, Ahead, Before, OneCurrent, Next,
         \A w \in Writers : ~handleChange(w), ~ProcessEnds
  PROVE  Calm /\ Before' /\ OneCurrent'
<1> DEFINE Goal == Calm /\ Before' /\ OneCurrent'
<1>0. /\ phase \in [Writers -> Phases] /\ feed \in [Writers -> Feeds]
      /\ Known' \subseteq Known /\ NoWriter \notin Writers
      /\ committed \in Nat /\ \A v \in Writers : feed[v].position \in Nat
  BY KnownStep, Places DEF TypeOK, Phases, Feeds, NoWriter, Writers
<1>1. ASSUME NEW w \in Writers, create(w) PROVE Goal
  <2>1. /\ phase[w] = "new" /\ phase' = [phase EXCEPT ![w] = "waiting"]
        /\ current' = w /\ feed' = feed /\ committed' = committed
        /\ current = NoWriter \/ phase[current] = "threw"
    BY <1>1 DEF create, Goto, database
  <2>2. \A v \in Writers : Reading(v) => Reading(v)'
    BY <1>0, <2>1 DEF Reading
  <2>3. Calm
    BY <1>0, <2>1, <2>2 DEF Calm, Ahead
  <2>4. Before'
    BY <1>0, <2>1 DEF Before
  <2>5. OneCurrent'
    BY <1>0, <2>1 DEF OneCurrent
  <2> QED
    BY <2>3, <2>4, <2>5
<1>2. ASSUME NEW w \in Writers, NEW p \in Phases, phase[w] \notin {"new", "dead", "threw"},
             phase' = [phase EXCEPT ![w] = p], p \notin {"new", "waiting", "dead"},
             feed' = feed, committed' = committed, current' = current
      PROVE  Goal
  <2>1. w = current
    BY <1>2 DEF OneCurrent
  <2> QED
    BY <1>0, <1>2, <2>1, TouchOne
<1>3. ASSUME NEW w \in Writers, start(w) PROVE Goal
  <2>1. /\ phase[w] = "waiting" /\ phase' = [phase EXCEPT ![w] = "reading"]
        /\ committed' = committed /\ current' = current
    BY <1>3 DEF start, Goto, database
  <2>2. w = current
    BY <2>1 DEF OneCurrent
  <2>3. feed'[w].position = committed + 1 /\ \A v \in Writers \ {w} : feed'[v] = feed[v]
    BY <1>0, <1>3 DEF start, Feeds
  <2>4. phase'[w] = "reading" /\ \A v \in Writers \ {w} : phase'[v] = phase[v]
    BY <1>0, <2>1
  <2> QED
    BY <1>0, <2>1, <2>2, <2>3, <2>4, TouchOne
<1>4. ASSUME NEW w \in Writers, startTimesOut(w) \/ started(w) \/ startThrows(w) PROVE Goal
  <2>1. /\ phase[w] \in {"waiting", "reading"}
        /\ phase' = [phase EXCEPT ![w] = "threw"] \/ phase' = [phase EXCEPT ![w] = "started"]
        /\ feed' = feed /\ committed' = committed /\ current' = current
    BY <1>4 DEF startTimesOut, started, startThrows, Goto, database
  <2> QED
    BY <1>0, <1>2, <2>1 DEF Phases
<1>5. ASSUME NEW w \in Writers, NEW b \in flights[w], NEW p \in {"closing", "stopThrew"},
             Awaited(w, b, p), feed' = feed, committed' = committed, current' = current
      PROVE  Goal
  <2>1. \/ phase' = phase
        \/ phase[w] = "flushing" /\ phase' = [phase EXCEPT ![w] = p]
    BY <1>5 DEF Awaited, Goto
  <2>2. CASE phase' = phase
    BY <1>0, <1>5, <2>2, TouchNone
  <2>3. CASE phase[w] = "flushing" /\ phase' = [phase EXCEPT ![w] = p]
    BY <1>2, <1>5, <2>3 DEF Phases
  <2> QED
    BY <2>1, <2>2, <2>3
<1>6. ASSUME NEW w \in Writers, Write(w) PROVE Goal
  <2>1. CASE flush(w)
    BY <1>0, <2>1, TouchNone DEF flush, database
  <2>2. ASSUME NEW b \in flights[w], inserted(w, b) PROVE Goal
    BY <1>5, <2>2 DEF inserted
  <2>3. ASSUME NEW b \in flights[w], NEW k \in 0..Len(b), PutBack(w, b, k) PROVE Goal
    BY <1>5, <2>3 DEF PutBack
  <2> QED
    BY <1>6, <2>1, <2>2, <2>3 DEF Write, insertFails, duplicateKey
<1>7. ASSUME NEW w \in Writers, Capture(w), ~handleChange(w) PROVE Goal
  <2>1. UNCHANGED <<committed, current, phase, feed>>
    BY <1>7 DEF Capture, getNextSequenceNumber, numberFails, push, database
  <2> QED
    BY <1>0, <2>1, TouchNone
<1>8. CASE commit
  BY <1>0, <1>8, TouchNone DEF commit
<1>9. ASSUME NEW w \in Writers, Stop(w) PROVE Goal
  <2>1. /\ w = current /\ committed' = committed /\ current' = current
        /\ phase'[w] \in {"closing", "flushing", "stopped"}
        /\ \A v \in Writers \ {w} : phase'[v] = phase[v]
    <3>1. CASE stop(w)
      BY <1>0, <3>1 DEF stop, Goto, database
    <3>2. CASE closeStream(w)
      BY <1>0, <3>2 DEF closeStream, Goto, database, OneCurrent
    <3> QED
      BY <1>9, <3>1, <3>2 DEF Stop
  <2>2. /\ \A v \in Writers \ {w} : feed'[v] = feed[v]
        /\ feed'[w].position = feed[w].position
        /\ feed'[w].stream \in {"none", feed[w].stream}
    <3>1. CASE stop(w)
      BY <1>0, <3>1 DEF stop, Feeds
    <3>2. CASE closeStream(w)
      BY <1>0, <3>2 DEF closeStream, Feeds
    <3> QED
      BY <1>9, <3>1, <3>2 DEF Stop
  <2> QED
    BY <1>0, <2>1, <2>2, TouchOne
<1>10. ASSUME NEW w \in Writers, Restart(w) PROVE Goal
  <2>1. phase' = phase /\ committed' = committed /\ current' = current
    BY <1>10 DEF Restart, streamError, streamClosed, abandonStream, closeFailed, restartStream, noDatabase,
                restartThrows, Reopened, database
  <2>2. feed[w] # Dead
    <3>1. feed[w].stream # "none" \/ feed[w].retrying # "no"
      BY <1>10 DEF Restart, streamError, streamClosed, abandonStream, closeFailed, restartStream,
                  noDatabase, restartThrows, Reopened
    <3> QED
      BY <3>1 DEF Dead
  <2>3. phase'[w] \notin {"new", "waiting", "dead"}
    BY <2>1, <2>2 DEF Before
  <2>4. /\ \A v \in Writers \ {w} : feed'[v] = feed[v]
        /\ feed'[w].position \in {feed[w].position, committed + 1}
        /\ feed'[w].stream = "open" =>
             feed[w].stream = "open" \/ feed'[w].position = committed + 1
    <3>1. CASE streamError(w)
      BY <1>0, <3>1 DEF streamError, Feeds
    <3>2. CASE streamClosed(w)
      BY <1>0, <3>2 DEF streamClosed, Feeds
    <3>3. CASE abandonStream(w) \/ closeFailed(w)
      BY <1>0, <3>3 DEF abandonStream, closeFailed, Feeds
    <3>4. ASSUME NEW s \in {"open", "none"}, NEW next, Reopened(w, s, next)
          PROVE  /\ \A v \in Writers \ {w} : feed'[v] = feed[v]
                 /\ feed'[w].position \in {feed[w].position, committed + 1}
                 /\ feed'[w].stream = "open" =>
                      feed[w].stream = "open" \/ feed'[w].position = committed + 1
      BY <1>0, <3>4 DEF Reopened, Feeds
    <3> QED
      BY <1>10, <3>1, <3>2, <3>3, <3>4 DEF Restart, restartStream, noDatabase, restartThrows
  <2> QED
    BY <1>0, <2>1, <2>3, <2>4, TouchOne
<1> QED
  BY <1>1, <1>3, <1>4, <1>6, <1>7, <1>8, <1>9, <1>10 DEF Next, Start, exit, crash

\* A change the stream emits is known from then on; its own writer is behind it.
LEMMA EmitStep ==
  ASSUME TypeOK, TypeOK', Untwined, NEW w \in Writers, handleChange(w)
  PROVE  Untwined'
<1>0. /\ phase \in [Writers -> Phases] /\ feed \in [Writers -> Feeds]
      /\ committed \in Nat /\ \A v \in Writers : feed[v].position \in Nat
      /\ Known \subseteq Nat
  <2>1. phase \in [Writers -> Phases] /\ feed \in [Writers -> Feeds]
    BY DEF TypeOK, Phases, Feeds
  <2> QED
    BY <2>1, Places DEF Changes
<1>1. /\ phase' = phase /\ current' = current /\ committed' = committed
      /\ feed[w].stream = "open" /\ feed[w].position <= committed
  BY DEF handleChange, database
<1>2. /\ feed'[w].position = feed[w].position + 1
      /\ \A v \in Writers \ {w} : feed'[v] = feed[v]
  BY <1>0 DEF handleChange, Feeds
<1>3. Known' \subseteq Known \union {feed[w].position}
  <2>1. numbering' = [numbering EXCEPT ![w] = @ \union {feed[w].position}]
    BY DEF handleChange
  <2>2. AllHeld' = AllHeld /\ log' = log
    BY IdleStep
  <2>3. \A v \in Writers : numbering'[v] \subseteq numbering[v] \union {feed[w].position}
    BY <2>1 DEF TypeOK
  <2> QED
    BY <2>2, <2>3 DEF Known
<1>4. \A v \in Writers : Reading(v)' <=> Reading(v)
  BY <1>1 DEF Reading
<1>5. phase[w] \notin {"new", "waiting", "dead"}
  BY <1>1 DEF Untwined, Before, Dead
<1>6. Reading(w)
  BY <1>5 DEF Untwined, OneCurrent, Reading
<1>7. Ahead'
  <2>1. \A v \in Writers : feed'[v].position <= committed' + 1
    BY <1>0, <1>1, <1>2 DEF Untwined, Ahead
  <2>2. \A c \in Known' : c <= committed'
    BY <1>1, <1>3 DEF Untwined, Ahead
  <2> QED
    BY <2>1, <2>2 DEF Ahead
<1>8. Before' /\ OneCurrent'
  BY <1>1, <1>2, <1>5 DEF Untwined, Before, OneCurrent
<1>9. ASSUME NEW v \in Writers, feed'[v].stream = "open",
             NEW c \in Known', c >= feed'[v].position
      PROVE  \E u \in Writers \ {v} : Reading(u)' /\ feed'[u].position > c
  <2>1. feed[v].stream = "open" /\ c >= feed[v].position
    BY <1>0, <1>1, <1>2, <1>3, <1>9
  <2>2. CASE c \in Known
    <3>1. PICK u \in Writers \ {v} : Reading(u) /\ feed[u].position > c
      BY <2>1, <2>2 DEF Untwined, Overtaken
    <3> QED
      BY <1>0, <1>2, <1>4, <2>2, <3>1
  <2>3. CASE c = feed[w].position
    <3>1. v # w
      BY <1>0, <1>2, <1>9, <2>3
    <3> QED
      BY <1>0, <1>2, <1>4, <1>6, <2>3, <3>1
  <2> QED
    BY <1>3, <2>2, <2>3
<1> QED
  BY <1>7, <1>8, <1>9 DEF Untwined, Overtaken

LEMMA StepUntwined == TypeOK /\ TypeOK' /\ Untwined /\ [Next]_vars => Untwined'
<1> SUFFICES ASSUME TypeOK, TypeOK', Untwined, [Next]_vars PROVE Untwined'
  OBVIOUS
<1>1. ASSUME NEW w \in Writers, handleChange(w) PROVE Untwined'
  BY <1>1, EmitStep
<1>2. CASE ProcessEnds
  <2>0. committed \in Nat /\ committed' = committed /\ Known' \subseteq Known
    <3>1. AllHeld' = {} /\ log' = log /\ \A w \in Writers : numbering'[w] = {}
      BY <1>2, EndStep DEF ProcessEnds
    <3> QED
      BY <1>2, <3>1, Places DEF Known, ProcessEnds, database
  <2>1. Ahead'
    BY <1>2, <2>0 DEF Untwined, Ahead, ProcessEnds, Dead
  <2>2. Before' /\ OneCurrent' /\ Overtaken'
    BY <1>2 DEF ProcessEnds, Before, OneCurrent, Overtaken, Dead
  <2> QED
    BY <2>1, <2>2 DEF Untwined
<1>3. CASE Next /\ (\A w \in Writers : ~handleChange(w)) /\ ~ProcessEnds
  BY <1>3, CalmStep, CalmKeeps DEF Untwined
<1>4. CASE UNCHANGED vars
  <2>1. Known' = Known
    <3>1. UNCHANGED <<numbered, pending, flights, log, numbering>>
      BY <1>4 DEF vars, memory, database
    <3>2. AllHeld' = AllHeld
      <4>1. \A w \in Writers : Held(w)' = Held(w)
        BY <3>1, HeldIs
      <4> QED
        BY <4>1 DEF AllHeld
    <3> QED
      BY <3>1, <3>2 DEF Known
  <2>2. UNCHANGED <<committed, phase, feed, current>>
    BY <1>4 DEF vars, database
  <2>3. Calm /\ Before' /\ OneCurrent'
    BY <2>1, <2>2, TouchNone DEF Untwined
  <2> QED
    BY <2>3, CalmKeeps DEF Untwined
<1> QED
  BY <1>1, <1>2, <1>3, <1>4

\* A change reaches a second handler only beside a writer whose start() threw
\* and whose stream nobody closed.
THEOREM WalRepeatedOnlyByLeak == Spec => RepeatedOnlyByLeak
<1>1. Init => Untwined
  <2> SUFFICES ASSUME Init PROVE Untwined
    OBVIOUS
  <2>1. \A w \in Writers : Held(w) = {}
    BY ContentsEmpty DEF Init, Held
  <2>2. Known = {}
    BY <2>1 DEF Init, Known, AllHeld
  <2> QED
    BY <2>2 DEF Init, Untwined, Ahead, Before, OneCurrent, Overtaken, Dead
<1> DEFINE Leak == \A w \in Writers : \A c \in (numbering[w])' \ numbering[w] :
       c \in Captured =>
         \E v \in Writers : phase[v] = "threw" /\ feed'[v].position > c
<1>2. TypeOK /\ Untwined /\ [Next]_vars => [Leak]_vars
  <2> SUFFICES ASSUME TypeOK, Untwined, Next, NEW w \in Writers,
                      NEW c \in numbering'[w], c \notin numbering[w], c \in Captured
               PROVE  \E v \in Writers : phase[v] = "threw" /\ feed'[v].position > c
    OBVIOUS
  <2>1. handleChange(w) /\ c = feed[w].position
    <3>1. ASSUME NEW v \in Writers, handleChange(v)
          PROVE  handleChange(w) /\ c = feed[w].position
      BY <3>1 DEF handleChange, TypeOK
    <3>2. ASSUME \A v \in Writers : ~handleChange(v)
          PROVE  FALSE
      BY <3>2, NumberingStep
    <3> QED
      BY <3>1, <3>2
  <2>2. c \in Known
    BY DEF Captured, Known, AllHeld
  <2>3. /\ phase[w] \notin {"new", "waiting", "dead"} /\ feed[w].stream = "open"
        /\ c \in Nat
    BY <2>1, Places DEF Untwined, Before, Dead, handleChange
  <2>4. PICK v \in Writers \ {w} : Reading(v) /\ feed[v].position > c
    BY <2>1, <2>2, <2>3 DEF Untwined, Overtaken
  <2>5. /\ feed'[w].position = feed[w].position + 1
        /\ feed'[v] = feed[v]
    BY <2>1 DEF handleChange, TypeOK
  <2>6. CASE phase[v] = "threw"
    BY <2>4, <2>5, <2>6
  <2>7. CASE v = current
    <3>1. phase[w] = "threw"
      BY <2>3, <2>4, <2>7 DEF Untwined, OneCurrent
    <3> QED
      BY <2>1, <2>3, <2>5, <3>1
  <2> QED
    BY <2>4, <2>6, <2>7 DEF Reading
<1>3. Spec => [](TypeOK /\ Untwined)
  BY <1>1, WalTypeOK, StepUntwined, PTL DEF Spec
<1> HIDE DEF Leak
<1>4. Spec => [][Leak]_vars
  BY <1>2, <1>3, PTL DEF Spec
<1> QED
  BY <1>4 DEF Leak, RepeatedOnlyByLeak
=============================================================================
