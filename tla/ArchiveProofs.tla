---------------------------- MODULE ArchiveProofs ----------------------------
(***************************************************************************)
(* What is in memory is what a restart would load, and StorageRecorder     *)
(* implements SegmentArchive: for any limits and settings, any number of   *)
(* instances and any directory the program may have left.                  *)
(***************************************************************************)
EXTENDS StorageArchive, StorageRecorderProofs

-----------------------------------------------------------------------------
(* Memory and disk                                                         *)

\* The object in memory has the records load_index_file would accept, and the
\* position it would compute; outside save_atomic the file on disk, if there
\* is one, says the same.
Resumable(p) ==
  pc[p] \in Working =>
    LET object == index[p]
        file   == indexFile[object.number]
    IN /\ ValidRecords(object.records, object.max)
       /\ object.records # <<>> \/ pc[p] \in {"saving", "writing", "staged"}
            => object.next = NextOf(object.records, object.max)
       /\ pc[p] \in Settled =>
            IF file = NoIndex
              THEN object.records = <<>> /\ pc[p] \notin {"saved", "recording"}
              ELSE Loaded(object.number, file) = object

AllResumable == \A p \in Process : Resumable(p)

ResumeInv == IndexInv /\ AllResumable

-----------------------------------------------------------------------------
(* append_record and load_index_file agree                                 *)

LEMMA CountOfPrefix ==
  ASSUME NEW s \in Seq(Record), NEW r \in Record, NEW i \in 1 .. Len(s)
  PROVE  /\ Append(s, r)[i] = s[i]
         /\ CountUpTo(Append(s, r), i) = CountUpTo(s, i)
<1>1. \A j \in 1 .. i : j \in 1 .. Len(s) /\ Append(s, r)[j] = s[j]
  OBVIOUS
<1>2. {j \in 1 .. i : Append(s, r)[j].folder = Append(s, r)[i].folder}
        = {j \in 1 .. i : s[j].folder = s[i].folder}
  BY <1>1
<1>3. i \in 1 .. i
  OBVIOUS
<1> QED
  BY <1>1, <1>2, <1>3, Zenon DEF CountUpTo

\* What append_record accepts, load_index_file accepts.
LEMMA AppendValid ==
  ASSUME NEW object \in IndexObject, NEW r \in Record,
         ValidRecords(object.records, object.max),
         object.records # <<>>
           => object.next = NextOf(object.records, object.max),
         AppendAccepted(object, r)
  PROVE  ValidRecords(Append(object.records, r), object.max)
<1> DEFINE s == object.records
           t == Append(s, r)
           max == object.max
<1>1. s \in Seq(Record) /\ t \in Seq(Record) /\ Len(t) = Len(s) + 1
      /\ Len(s) \in Nat /\ t[Len(t)] = r
  BY DEF IndexObject
<1>2. /\ PositionOf(r) = object.next
      /\ CountUpTo(t, Len(t)) <= max
      /\ CanAdvance(PositionOf(r), CountUpTo(t, Len(t)), max)
  BY DEF AppendAccepted
<1>3. ASSUME NEW i \in 1 .. Len(t)
      PROVE  /\ CountUpTo(t, i) <= max
             /\ CanAdvance(PositionOf(t[i]), CountUpTo(t, i), max)
             /\ i < Len(t) => PositionOf(t[i + 1]) = NextAfter(t, i, max)
  <2> HIDE DEF t, s, max
  <2>1. CASE i = Len(t)
    BY <1>1, <1>2, <2>1
  <2>2. CASE i \in 1 .. Len(s)
    <3>1. t[i] = s[i] /\ CountUpTo(t, i) = CountUpTo(s, i)
      BY <1>1, <2>2, CountOfPrefix DEF t
    <3>2. /\ CountUpTo(s, i) <= max
          /\ CanAdvance(PositionOf(s[i]), CountUpTo(s, i), max)
          /\ i < Len(s) => PositionOf(s[i + 1]) = NextAfter(s, i, max)
      BY <2>2 DEF ValidRecords, s, max
    <3>3. NextAfter(t, i, max) = NextAfter(s, i, max)
      BY <3>1 DEF NextAfter
    <3>4. CASE i < Len(s)
      <4>1. i + 1 \in 1 .. Len(s)
        BY <1>1, <2>2, <3>4
      <4>2. t[i + 1] = s[i + 1]
        BY <1>1, <4>1, CountOfPrefix DEF t
      <4> QED
        BY <3>1, <3>2, <3>3, <3>4, <4>2
    <3>5. CASE i = Len(s)
      <4>1. t[i + 1] = r
        BY <1>1, <3>5
      <4>2. s # <<>>
        BY <1>1, <2>2
      <4>3. object.next = NextAfter(s, Len(s), max)
        BY <4>2 DEF NextOf, s, max
      <4> QED
        BY <1>2, <3>1, <3>2, <3>3, <3>5, <4>1, <4>3
    <3> QED
      BY <1>1, <2>2, <3>4, <3>5
  <2> QED
    BY <1>1, <2>1, <2>2
<1> QED
  BY <1>3 DEF ValidRecords

\* The file save_atomic writes is loaded as the object it was written from.
LEMMA LoadedBack ==
  ASSUME NEW object \in IndexObject,
         object.next = NextOf(object.records, object.max)
  PROVE  /\ Loaded(object.number, ContentOf(object)) = object
         /\ ContentOf(object) \notin {NoIndex, Corrupt}
<1>1. ContentOf(object) \in IndexContent
  BY DEF IndexObject, IndexContent, ContentOf
<1> QED
  BY <1>1, StorageRecorderAssumption DEF Loaded, ContentOf, IndexObject

-----------------------------------------------------------------------------
LEMMA OneResumes ==
  ASSUME Inv, NEW p \in Process, pc[p] # "off" \/ lock = Nobody,
         \A q \in Process : q # p => pc'[q] = pc[q],
         Resumable(p)'
  PROVE  AllResumable'
<1> SUFFICES ASSUME NEW q \in Process, q # p
             PROVE  Resumable(q)'
  BY DEF AllResumable
<1>1. pc'[q] = "off"
  BY StorageRecorderAssumption DEF Inv, LockExclusion
<1> QED
  BY <1>1 DEF Resumable, Working

LEMMA LoadResumes ==
  ASSUME ResumeInv, NEW p \in Process,
         LoadIndex(p) \/ RecoverIndex(p) \/ CreateIndex(p)
  PROVE  Resumable(p)'
<1> USE DEF ResumeInv, IndexInv, Inv, TypeOK
<1>1. UNCHANGED indexFile
  BY DEF LoadIndex, RecoverIndex, CreateIndex, diskVars
<1>2. CASE LoadIndex(p)
  <2>1. PICK n \in IndexNumber :
          /\ ValidIndex(indexFile[n])
          /\ index' = [index EXCEPT ![p] = Loaded(n, indexFile[n])]
          /\ Goto(p, IF indexFile[n].headed THEN "between" ELSE "saving")
    BY <1>2 DEF LoadIndex
  <2>2. index'[p] = Loaded(n, indexFile[n]) /\ pc'[p] \in {"between", "saving"}
    BY <2>1 DEF Goto
  <2>3. /\ index'[p].number = n
        /\ index'[p].records = indexFile[n].records
        /\ index'[p].max = indexFile[n].max
        /\ index'[p].next = NextOf(indexFile[n].records, indexFile[n].max)
    BY <2>2 DEF Loaded
  <2>4. indexFile[n] # NoIndex /\ ValidRecords(indexFile[n].records, indexFile[n].max)
    BY <2>1 DEF ValidIndex
  <2> HIDE DEF ResumeInv, IndexInv, Inv, TypeOK
  <2> QED
    BY <1>1, <2>2, <2>3, <2>4, Zenon DEF Resumable
<1>3. \A max : ValidRecords(<<>>, max)
  BY DEF ValidRecords
<1>4. CASE RecoverIndex(p)
  <2>1. /\ index'[p].records = <<>>
        /\ pc'[p] = "between"
    BY <1>4 DEF RecoverIndex, Scanned, Goto
  <2>2. indexFile[index'[p].number] = NoIndex
    <3>1. PICK n \in IndexNumber, next \in Scan(DefaultMaxFileNum) :
            /\ IsLatest(n)
            /\ n < MaxIndexNumber
            /\ index' = [index EXCEPT ![p] =
                 Scanned(RecoveryNumber(n), DefaultSettings, next)]
      BY <1>4 DEF RecoverIndex
    <3>2. index'[p].number = n + 1 /\ n + 1 \in IndexNumber /\ n \in Int
      BY <3>1, StorageIndexAssumption DEF Scanned, RecoveryNumber, IndexNumber
    <3> QED
      BY <3>1, <3>2 DEF IsLatest, IndexNumber
  <2> QED
    BY <1>1, <1>3, <2>1, <2>2 DEF Resumable, Working
<1>5. CASE CreateIndex(p)
  <2>0. PICK settings \in CreateSettings :
          \E next \in Scan(settings.max) :
            /\ index' = [index EXCEPT ![p] = Scanned(0, settings, next)]
            /\ Goto(p, IF next = Origin THEN "saving" ELSE "between")
    BY <1>5 DEF CreateIndex
  <2>1. PICK next \in Scan(settings.max) :
          /\ index' = [index EXCEPT ![p] = Scanned(0, settings, next)]
          /\ Goto(p, IF next = Origin THEN "saving" ELSE "between")
    BY <2>0
  <2>2. /\ index'[p].records = <<>> /\ index'[p].number = 0
        /\ index'[p].next = next
        /\ \/ pc'[p] = "between"
           \/ pc'[p] = "saving" /\ next = Origin
    BY <2>1 DEF Scanned, Goto
  <2>3. 0 \in IndexNumber
    BY StorageIndexAssumption DEF IndexNumber
  <2>4. indexFile[0] = NoIndex
    BY <1>5, <2>3 DEF CreateIndex, NoNumberedIndex
  <2> HIDE DEF ResumeInv, IndexInv, Inv, TypeOK
  <2> QED
    BY <1>1, <1>3, <2>2, <2>4 DEF Resumable, Settled, NextOf
<1> QED
  BY <1>2, <1>4, <1>5

LEMMA AppendResumes ==
  ASSUME ResumeInv, NEW p \in Process, AppendRecord(p)
  PROVE  Resumable(p)'
<1>1. /\ index[p] \in IndexObject /\ cur[p] \in Record
      /\ AppendAccepted(index[p], cur[p])
      /\ pc[p] = "reserved" /\ pc'[p] = "saving"
      /\ index'[p] = Appended(index[p], cur[p])
  BY CurrentFacts DEF ResumeInv, IndexInv, Inv, TypeOK, AppendRecord, Goto
<1>2. Resumable(p)
  BY DEF ResumeInv, AllResumable
<1>3. /\ index'[p].records = Append(index[p].records, cur[p])
      /\ index'[p].max = index[p].max
      /\ index'[p].next = NextOf(index'[p].records, index[p].max)
  BY <1>1 DEF Appended, IndexObject
<1>4. ValidRecords(index'[p].records, index[p].max)
  BY <1>1, <1>2, <1>3, AppendValid DEF Resumable, Working
<1> QED
  BY <1>1, <1>3, <1>4 DEF Resumable, Settled

LEMMA SaveResumes ==
  ASSUME ResumeInv, NEW p \in Process,
         BeginSave(p) \/ StageIndex(p) \/ PublishIndex(p)
  PROVE  Resumable(p)'
<1>1. /\ index'[p] = index[p] /\ index[p] \in IndexObject
      /\ pc[p] \in {"saving", "writing", "staged"}
  BY DEF ResumeInv, IndexInv, Inv, TypeOK, BeginSave, StageIndex, PublishIndex
<1>2. /\ ValidRecords(index[p].records, index[p].max)
      /\ index[p].next = NextOf(index[p].records, index[p].max)
  BY <1>1 DEF ResumeInv, AllResumable, Resumable, Working
<1>3. CASE BeginSave(p) \/ StageIndex(p)
  <2>1. pc'[p] \in {"writing", "staged"}
    BY <1>3 DEF ResumeInv, IndexInv, Inv, TypeOK, BeginSave, StageIndex, Goto
  <2> QED
    BY <1>1, <1>2, <2>1 DEF Resumable, Settled
<1>4. CASE PublishIndex(p)
  <2>1. indexFile'[index[p].number] = ContentOf(index[p])
    BY <1>4, NumberTyped
       DEF ResumeInv, IndexInv, Inv, TypeOK, OwnIndexes, OwnIndex, Working,
           PublishIndex
  <2>2. pc'[p] \in {"between", "saved"}
    BY <1>4 DEF ResumeInv, IndexInv, Inv, TypeOK, PublishIndex, Goto
  <2>3. /\ Loaded(index[p].number, ContentOf(index[p])) = index[p]
        /\ ContentOf(index[p]) # NoIndex
    BY <1>1, <1>2, LoadedBack
  <2> QED
    BY <1>1, <1>2, <2>1, <2>2, <2>3, Zenon DEF Resumable
<1> QED
  BY <1>3, <1>4

\* The rest of open_next_segment, and the segment.
LEMMA SegmentResumes ==
  ASSUME ResumeInv, NEW p \in Process,
         \/ ChoosePath(p) \/ ReserveRecord(p) \/ OpenSegment(p)
         \/ LaunchBackend(p) \/ WriteAccessUnit(p) \/ WriteLastAccessUnit(p)
         \/ BackendExits(p)
  PROVE  Resumable(p)'
<1>1. /\ UNCHANGED indexFile /\ index'[p] = index[p]
      /\ \/ pc'[p] = pc[p]
         \/ /\ pc[p] \in Settled /\ pc'[p] \in Settled
            /\ pc'[p] \in {"saved", "recording"}
                 => pc[p] \in {"saved", "recording"}
  BY DEF ChoosePath, ReserveRecord, OpenSegment, LaunchBackend,
         WriteAccessUnit, WriteLastAccessUnit, BackendExits, Goto, Settled,
         diskVars, ResumeInv, IndexInv, Inv, TypeOK
<1>2. Resumable(p)
  BY DEF ResumeInv, AllResumable
<1>3. CASE pc'[p] = pc[p]
  BY <1>1, <1>2, <1>3, Zenon DEF Resumable, Loaded
<1>4. CASE pc[p] \in Settled /\ pc'[p] \in Settled
  <2>1. pc[p] \in Working
        /\ pc'[p] \notin {"saving", "writing", "staged"}
    BY <1>4 DEF Settled, Working
  <2> QED
    BY <1>1, <1>2, <1>4, <2>1, Zenon DEF Resumable
<1> QED
  BY <1>1, <1>3, <1>4

LEMMA EndResumes ==
  ASSUME ResumeInv, NEW p \in Process,
         \/ Start(p) \/ IndexesExhausted(p) \/ PathsExhausted(p)
         \/ AppendFails(p) \/ CloseMuxer(p) \/ ReleaseLock(p) \/ LoadFails(p)
         \/ ReserveFails(p) \/ SaveFails(p) \/ OpenSegmentFails(p)
         \/ WriteFails(p) \/ Crash(p)
  PROVE  Resumable(p)'
<1>1. pc'[p] \notin Working
  BY DEF ResumeInv, IndexInv, Inv, TypeOK, Start, IndexesExhausted,
         PathsExhausted, AppendFails, CloseMuxer, ReleaseLock, LoadFails,
         ReserveFails, SaveFails, OpenSegmentFails, WriteFails, Crash, Gone,
         Goto, Working
<1> QED
  BY <1>1 DEF Resumable

LEMMA StepResumeInv ==
  ASSUME ResumeInv, [Next]_vars
  PROVE  ResumeInv'
<1> USE DEF ResumeInv, IndexInv
<1>1. ASSUME NEW p \in Process,
             \/ Start(p) \/ Proceed(p) \/ Fault(p) \/ WriteAccessUnit(p)
             \/ WriteLastAccessUnit(p) \/ Crash(p)
      PROVE  AllResumable'
  <2>1. Resumable(p)'
    BY <1>1, LoadResumes, AppendResumes, SaveResumes, SegmentResumes,
       EndResumes DEF Proceed, Fault
  <2>2. \A q \in Process : q # p => pc'[q] = pc[q]
    BY <1>1
       DEF Inv, TypeOK, Proceed, Fault, Start, LoadIndex, RecoverIndex,
           CreateIndex, IndexesExhausted, ChoosePath, PathsExhausted,
           ReserveRecord, AppendRecord, AppendFails, BeginSave, StageIndex,
           PublishIndex, OpenSegment, LaunchBackend, CloseMuxer, ReleaseLock,
           LoadFails, ReserveFails, SaveFails, OpenSegmentFails, WriteFails,
           WriteAccessUnit, WriteLastAccessUnit, Crash, Gone, Goto
  <2>3. pc[p] # "off" \/ lock = Nobody
    BY <1>1
       DEF Proceed, Fault, Start, Lockable, LoadIndex, RecoverIndex,
           CreateIndex, IndexesExhausted, ChoosePath, PathsExhausted,
           ReserveRecord, AppendRecord, AppendFails, BeginSave, StageIndex,
           PublishIndex, OpenSegment, LaunchBackend, CloseMuxer, ReleaseLock,
           LoadFails, ReserveFails, SaveFails, OpenSegmentFails, WriteFails,
           WriteAccessUnit, WriteLastAccessUnit, Crash
  <2> QED
    BY <2>1, <2>2, <2>3, OneResumes
<1>2. ASSUME \/ \E p \in Process : BackendExits(p)
             \/ OrphanExits \/ UNCHANGED vars
      PROVE  AllResumable'
  <2>1. UNCHANGED <<pc, index, indexFile>>
    BY <1>2 DEF BackendExits, OrphanExits, vars, diskVars
  <2> SUFFICES ASSUME NEW q \in Process
               PROVE  Resumable(q)'
    BY DEF AllResumable
  <2>2. Resumable(q)
    BY DEF AllResumable
  <2> QED
    BY <2>1, <2>2, Zenon DEF Resumable
<1>3. ASSUME DamageIndex \/ EditSettings
      PROVE  AllResumable'
  <2>1. \A q \in Process : pc'[q] = "off"
    BY <1>3, StorageRecorderAssumption
       DEF Inv, LockExclusion, DamageIndex, EditSettings, procVars
  <2> SUFFICES ASSUME NEW q \in Process
               PROVE  Resumable(q)'
    BY DEF AllResumable
  <2>2. pc'[q] \notin Working
    BY <2>1 DEF Working
  <2> QED
    BY <2>2, Zenon DEF Resumable
<1> QED
  BY <1>1, <1>2, <1>3, StepIndexInv DEF Next

\* Outside save_atomic a restart would load what the running instance has in
\* memory: the same settings, records and next position (load_or_create after
\* append_record), for any index it started from.
THEOREM RestartResumes == Spec => []ResumePoint
<1>1. Init => ResumeInv
  <2>1. Init => AllResumable
    BY DEF Init, AllResumable, Resumable, Working
  <2> QED
    BY <2>1, InitIndexInv DEF ResumeInv
<1>2. ResumeInv /\ [Next]_vars => ResumeInv'
  BY StepResumeInv
<1>3. ResumeInv => ResumePoint
  <2> SUFFICES ASSUME ResumeInv, NEW p \in Process, pc[p] \in Settled
               PROVE
      LET n == index[p].number
      IN /\ \A m \in IndexNumber : indexFile[m] # NoIndex => m <= n
         /\ IF indexFile[n] = NoIndex
              THEN index[p].records = <<>> /\ pc[p] \notin {"saved", "recording"}
              ELSE /\ ValidIndex(indexFile[n])
                   /\ Loaded(n, indexFile[n]) = index[p]
    BY DEF ResumePoint
  <2>1. pc[p] \in Working
    BY DEF Settled, Working
  <2>2. Resumable(p) /\ OwnIndex(p)
    BY DEF ResumeInv, IndexInv, OwnIndexes, AllResumable
  <2>3. CASE indexFile[index[p].number] = NoIndex
    BY <2>1, <2>2, <2>3 DEF Resumable, OwnIndex
  <2>4. CASE indexFile[index[p].number] # NoIndex
    <3> DEFINE file == indexFile[index[p].number]
    <3>1. /\ Loaded(index[p].number, file) = index[p]
          /\ ValidRecords(index[p].records, index[p].max)
          /\ file # Corrupt
          /\ \A m \in IndexNumber : indexFile[m] # NoIndex => m <= index[p].number
      BY <2>1, <2>2, <2>4 DEF Resumable, OwnIndex
    <3>2. /\ Loaded(index[p].number, file).records = file.records
          /\ Loaded(index[p].number, file).max = file.max
      BY DEF Loaded
    <3>3. ValidIndex(file)
      BY <2>4, <3>1, <3>2 DEF ValidIndex
    <3> QED
      BY <2>4, <3>1, <3>3
  <2> QED
    BY <2>3, <2>4
<1> QED
  BY <1>1, <1>2, <1>3, PTL DEF Spec

-----------------------------------------------------------------------------
(* Indexes that are not written to                                         *)

\* What p is about to write to an index that exists continues it.
Continued(p) ==
  pc[p] \in {"saving", "writing", "staged"} =>
    LET file == indexFile[index[p].number]
    IN file # NoIndex => Continues(ContentOf(index[p]), file)

ContinueInv == ResumeInv /\ \A p \in Process : Continued(p)

Step(p) ==
  \/ Start(p) \/ Proceed(p) \/ Fault(p) \/ WriteAccessUnit(p)
  \/ WriteLastAccessUnit(p) \/ BackendExits(p) \/ Crash(p)

LEMMA Bystander ==
  ASSUME Inv, NEW q \in Process, Step(q), NEW p \in Process, p # q
  PROVE  pc'[p] = pc[p] /\ index'[p] = index[p]
  BY DEF Inv, TypeOK, Step, Proceed, Fault, Start, LoadIndex, RecoverIndex,
         CreateIndex, IndexesExhausted, ChoosePath, PathsExhausted,
         ReserveRecord, AppendRecord, AppendFails, BeginSave, StageIndex,
         PublishIndex, OpenSegment, LaunchBackend, CloseMuxer, ReleaseLock,
         LoadFails, ReserveFails, SaveFails, OpenSegmentFails, WriteFails,
         WriteAccessUnit, WriteLastAccessUnit, BackendExits, Crash, Gone, Goto

\* The steps that lead to a save or stay on the way to one.
LEMMA SavingSteps ==
  ASSUME Inv, NEW p \in Process, Step(p),
         pc'[p] \in {"saving", "writing", "staged"}
  PROVE  \/ LoadIndex(p) \/ CreateIndex(p) \/ AppendRecord(p)
         \/ /\ pc[p] \in {"saving", "writing", "staged"}
            /\ UNCHANGED <<index, indexFile>>
  BY DEF Inv, TypeOK, Step, Proceed, Fault, Start, RecoverIndex,
         IndexesExhausted, ChoosePath, PathsExhausted,
         ReserveRecord, AppendFails, BeginSave, StageIndex,
         PublishIndex, OpenSegment, LaunchBackend, CloseMuxer, ReleaseLock,
         LoadFails, ReserveFails, SaveFails, OpenSegmentFails, WriteFails,
         WriteAccessUnit, WriteLastAccessUnit, BackendExits, Crash, Gone, Goto,
         diskVars

LEMMA LoadContinues ==
  ASSUME ResumeInv, NEW p \in Process, LoadIndex(p)
  PROVE  Continued(p)'
<1>1. PICK n \in IndexNumber :
        /\ ValidIndex(indexFile[n])
        /\ index' = [index EXCEPT ![p] = Loaded(n, indexFile[n])]
  BY DEF LoadIndex
<1>2. index'[p] = Loaded(n, indexFile[n]) /\ UNCHANGED indexFile
  BY <1>1 DEF LoadIndex, diskVars, ResumeInv, IndexInv, Inv, TypeOK
<1>3. /\ index'[p].number = n
      /\ index'[p].max = indexFile[n].max
      /\ index'[p].size = indexFile[n].size
      /\ index'[p].records = indexFile[n].records
  BY <1>2 DEF Loaded
<1>4. /\ ContentOf(index'[p]).max = indexFile[n].max
      /\ ContentOf(index'[p]).size = indexFile[n].size
      /\ ContentOf(index'[p]).records = indexFile[n].records
  BY <1>3 DEF ContentOf
<1>5. Continues(ContentOf(index'[p]), indexFile[n])
  BY <1>1, <1>4 DEF Continues
<1> QED
  BY <1>2, <1>3, <1>5, Zenon DEF Continued

LEMMA CreateContinues ==
  ASSUME ResumeInv, NEW p \in Process, CreateIndex(p)
  PROVE  Continued(p)'
<1>1. index'[p].number = 0 /\ UNCHANGED indexFile
  BY DEF ResumeInv, IndexInv, Inv, TypeOK, CreateIndex, Scanned, diskVars
<1>2. 0 \in IndexNumber
  BY StorageIndexAssumption DEF IndexNumber
<1>3. indexFile'[index'[p].number] = NoIndex
  BY <1>1, <1>2 DEF CreateIndex, NoNumberedIndex
<1> QED
  BY <1>3, Zenon DEF Continued

LEMMA AppendContinues ==
  ASSUME ResumeInv, NEW p \in Process, AppendRecord(p)
  PROVE  Continued(p)'
<1> DEFINE object == index[p]
           file   == indexFile[object.number]
<1>1. /\ object \in IndexObject /\ cur[p] \in Record /\ pc[p] = "reserved"
      /\ index'[p] = Appended(object, cur[p]) /\ UNCHANGED indexFile
  BY CurrentFacts DEF ResumeInv, IndexInv, Inv, TypeOK, AppendRecord, diskVars
<1>2. /\ index'[p].number = object.number
      /\ index'[p].max = object.max
      /\ index'[p].size = object.size
      /\ index'[p].records = Append(object.records, cur[p])
  BY <1>1 DEF Appended, IndexObject
<1>3. pc[p] \in Working /\ pc[p] \in Settled
  BY <1>1 DEF Working, Settled
<1>4. ASSUME file # NoIndex
      PROVE  Continues(ContentOf(index'[p]), file)
  <2>1. /\ Loaded(object.number, file) = object
        /\ ValidRecords(object.records, object.max)
        /\ file # Corrupt
    BY <1>3, <1>4 DEF ResumeInv, AllResumable, Resumable, IndexInv, OwnIndexes,
                      OwnIndex
  <2>2. /\ file.max = object.max
        /\ file.size = object.size
        /\ file.records = object.records
    BY <2>1 DEF Loaded
  <2>3. ValidIndex(file)
    BY <1>4, <2>1, <2>2 DEF ValidIndex
  <2>4. /\ ContentOf(index'[p]).max = file.max
        /\ ContentOf(index'[p]).size = file.size
        /\ ContentOf(index'[p]).records = Append(file.records, cur[p])
    BY <1>2, <2>2 DEF ContentOf
  <2> QED
    BY <1>1, <2>3, <2>4 DEF Continues
<1> QED
  BY <1>1, <1>2, <1>4, Zenon DEF Continued

LEMMA StepContinueInv ==
  ASSUME ContinueInv, [Next]_vars
  PROVE  ContinueInv'
<1> SUFFICES ASSUME NEW p \in Process
             PROVE  Continued(p)'
  BY StepResumeInv DEF ContinueInv
<1>1. Continued(p) /\ ResumeInv /\ Inv
  BY DEF ContinueInv, ResumeInv, IndexInv
<1>2. ASSUME NEW q \in Process, Step(q)
      PROVE  Continued(p)'
  <2>1. CASE q = p
    <3>1. CASE pc'[p] \in {"saving", "writing", "staged"}
      <4>1. CASE LoadIndex(p) \/ CreateIndex(p) \/ AppendRecord(p)
        BY <1>1, <4>1, LoadContinues, CreateContinues, AppendContinues
      <4>2. CASE /\ pc[p] \in {"saving", "writing", "staged"}
                 /\ UNCHANGED <<index, indexFile>>
        BY <1>1, <4>2, Zenon DEF Continued, ContentOf
      <4> QED
        BY <1>1, <1>2, <2>1, <3>1, <4>1, <4>2, SavingSteps
    <3>2. CASE pc'[p] \notin {"saving", "writing", "staged"}
      BY <3>2, Zenon DEF Continued
    <3> QED
      BY <3>1, <3>2
  <2>2. CASE q # p
    <3>1. pc'[p] = pc[p]
      BY <1>1, <1>2, <2>2, Bystander
    <3>2. CASE pc[p] = "off"
      BY <3>1, <3>2 DEF Continued
    <3>3. CASE pc[p] # "off"
      <4>1. lock = p
        BY <1>1, <3>3 DEF Inv, LockExclusion
      <4>2. pc[q] = "off" /\ ~Lockable
        BY <1>1, <2>2, <4>1, StorageRecorderAssumption
           DEF Inv, LockExclusion, Lockable
      <4>3. UNCHANGED <<index, indexFile>>
        BY <1>1, <1>2, <4>2
           DEF Inv, TypeOK, Step, Proceed, Fault, Start, LoadIndex,
               RecoverIndex, CreateIndex, IndexesExhausted, ChoosePath,
               PathsExhausted, ReserveRecord, AppendRecord, AppendFails,
               BeginSave, StageIndex, PublishIndex, OpenSegment, LaunchBackend,
               CloseMuxer, ReleaseLock, LoadFails, ReserveFails, SaveFails,
               OpenSegmentFails, WriteFails, WriteAccessUnit,
               WriteLastAccessUnit, BackendExits, Crash, diskVars
      <4> QED
        BY <1>1, <3>1, <4>3, Zenon DEF Continued, ContentOf
    <3> QED
      BY <3>2, <3>3
  <2> QED
    BY <2>1, <2>2
<1>3. CASE OrphanExits \/ UNCHANGED vars
  <2>1. UNCHANGED <<pc, index, indexFile>>
    BY <1>3 DEF OrphanExits, vars, diskVars
  <2> QED
    BY <1>1, <2>1, Zenon DEF Continued, ContentOf
<1>4. CASE DamageIndex \/ EditSettings
  <2>1. pc'[p] = "off"
    BY <1>1, <1>4, StorageRecorderAssumption
       DEF Inv, LockExclusion, DamageIndex, EditSettings, procVars
  <2> QED
    BY <2>1 DEF Continued
<1> QED
  BY <1>2, <1>3, <1>4 DEF Next, Step

\* open() takes the latest index as it has been loaded, or a new number.
LEMMA OpenChooses ==
  ASSUME Inv, NEW p \in Process,
         LoadIndex(p) \/ RecoverIndex(p) \/ CreateIndex(p)
  PROVE  Chosen(p)
<1>1. CASE LoadIndex(p)
  <2>1. PICK n \in IndexNumber :
          /\ IsLatest(n)
          /\ ValidIndex(indexFile[n])
          /\ index' = [index EXCEPT ![p] = Loaded(n, indexFile[n])]
    BY <1>1 DEF LoadIndex
  <2>2. index'[p] = Loaded(n, indexFile[n])
    BY <2>1 DEF Inv, TypeOK
  <2>3. index'[p].number = n /\ indexFile[n] # NoIndex
    BY <2>1, <2>2 DEF Loaded, IsLatest
  <2> QED
    BY <2>1, <2>2, <2>3 DEF Chosen
<1>2. CASE RecoverIndex(p)
  <2>1. PICK n \in IndexNumber, next \in Scan(DefaultMaxFileNum) :
          /\ IsLatest(n)
          /\ n < MaxIndexNumber
          /\ index' = [index EXCEPT ![p] =
               Scanned(RecoveryNumber(n), DefaultSettings, next)]
    BY <1>2 DEF RecoverIndex
  <2>2. index'[p].number = n + 1 /\ n + 1 \in IndexNumber
    BY <2>1, StorageIndexAssumption
       DEF Inv, TypeOK, Scanned, RecoveryNumber, IndexNumber
  <2>3. \A m \in IndexNumber : indexFile[m] # NoIndex => m < n + 1
    BY <2>1 DEF IsLatest, IndexNumber
  <2>4. indexFile[n + 1] = NoIndex
    BY <2>2, <2>3 DEF IndexNumber
  <2> QED
    BY <2>2, <2>3, <2>4 DEF Chosen
<1>3. CASE CreateIndex(p)
  <2>1. index'[p].number = 0
    BY <1>3 DEF Inv, TypeOK, CreateIndex, Scanned
  <2>2. 0 \in IndexNumber
    BY StorageIndexAssumption DEF IndexNumber
  <2> QED
    BY <1>3, <2>1, <2>2 DEF Chosen, CreateIndex, NoNumberedIndex
<1> QED
  BY <1>1, <1>2, <1>3

\* An instance keeps the number it has taken until it ends.
LEMMA NumberKept ==
  ASSUME Inv, NEW p \in Process, Step(p),
         pc[p] \notin {"off", "locked"}, pc'[p] # "off"
  PROVE  index'[p].number = index[p].number
<1>1. Appended(index[p], cur[p]).number = index[p].number
  BY DEF Inv, TypeOK, IndexObject, Appended
<1> QED
  BY <1>1
     DEF Inv, TypeOK, Step, Proceed, Fault, Start, LoadIndex, RecoverIndex,
         CreateIndex, IndexesExhausted, ChoosePath, PathsExhausted,
         ReserveRecord, AppendRecord, AppendFails, BeginSave, StageIndex,
         PublishIndex, OpenSegment, LaunchBackend, CloseMuxer, ReleaseLock,
         LoadFails, ReserveFails, SaveFails, OpenSegmentFails, WriteFails,
         WriteAccessUnit, WriteLastAccessUnit, BackendExits, Crash, Gone, Goto

\* Only these steps leave open() with an index.
LEMMA OpeningSteps ==
  ASSUME Inv, NEW p \in Process, Step(p),
         pc[p] = "locked", pc'[p] \in {"saving", "between"}
  PROVE  LoadIndex(p) \/ RecoverIndex(p) \/ CreateIndex(p)
  BY DEF Inv, TypeOK, Step, Proceed, Fault, Start, IndexesExhausted,
         ChoosePath, PathsExhausted, ReserveRecord, AppendRecord, AppendFails,
         BeginSave, StageIndex, PublishIndex, OpenSegment, LaunchBackend,
         CloseMuxer, ReleaseLock, LoadFails, ReserveFails, SaveFails,
         OpenSegmentFails, WriteFails, WriteAccessUnit, WriteLastAccessUnit,
         BackendExits, Crash, Gone, Goto

\* The rename replaces an index only by its continuation.
LEMMA PublishContinues ==
  ASSUME ContinueInv, NEW p \in Process, PublishIndex(p), NEW n \in IndexNumber,
         indexFile'[n] # indexFile[n]
  PROVE  /\ pc[p] # "off" /\ index[p].number = n
         /\ indexFile[n] # NoIndex => Continues(indexFile'[n], indexFile[n])
<1> DEFINE k == index[p].number
<1>1. Inv /\ OwnIndex(p) /\ Continued(p) /\ k \in IndexNumber
  BY NumberTyped DEF ContinueInv, ResumeInv, IndexInv, OwnIndexes
<1>2. pc[p] = "staged" /\ indexFile' = [indexFile EXCEPT ![k] = tempFile[k]]
  BY DEF PublishIndex
<1>3. n = k
  BY <1>1, <1>2 DEF Inv, TypeOK
<1>4. indexFile'[k] = ContentOf(index[p])
  BY <1>1, <1>2 DEF Inv, TypeOK, OwnIndex, Working
<1>5. indexFile[k] # NoIndex => Continues(ContentOf(index[p]), indexFile[k])
  BY <1>1, <1>2, Zenon DEF Continued
<1> QED
  BY <1>2, <1>3, <1>4, <1>5

LEMMA StepKeepsOldIndexes ==
  ASSUME ContinueInv, [Next]_vars
  PROVE  NotRewritten \/ UNCHANGED vars
<1>1. Inv
  BY DEF ContinueInv, ResumeInv, IndexInv
<1>2. ASSUME NEW q \in Process, Step(q)
      PROVE  NotRewritten
  <2>1. ASSUME NEW p \in Process
        PROVE  IF pc[p] = "locked"
                 THEN pc'[p] \in {"saving", "between"} => Chosen(p)
                 ELSE pc[p] # "off" /\ pc'[p] # "off"
                        => index'[p].number = index[p].number
    <3>1. CASE p = q
      BY <1>1, <1>2, <3>1, OpeningSteps, OpenChooses, NumberKept
    <3>2. CASE p # q
      BY <1>1, <1>2, <3>2, Bystander
    <3> QED
      BY <3>1, <3>2
  <2>2. ASSUME NEW n \in IndexNumber, indexFile'[n] # indexFile[n]
        PROVE  /\ pc[q] # "off" /\ index[q].number = n
               /\ indexFile[n] # NoIndex
                    => Continues(indexFile'[n], indexFile[n])
    <3>1. PublishIndex(q)
      BY <1>2, <2>2
         DEF Step, Proceed, Fault, Start, LoadIndex, RecoverIndex, CreateIndex,
             IndexesExhausted, ChoosePath, PathsExhausted, ReserveRecord,
             AppendRecord, AppendFails, BeginSave, StageIndex, OpenSegment,
             LaunchBackend, CloseMuxer, ReleaseLock, LoadFails, ReserveFails,
             SaveFails, OpenSegmentFails, WriteFails, WriteAccessUnit,
             WriteLastAccessUnit, BackendExits, Crash, diskVars
    <3> QED
      BY <2>2, <3>1, PublishContinues
  <2> QED
    BY <2>1, <2>2, Zenon DEF NotRewritten
<1>3. CASE DamageIndex \/ EditSettings
  <2>1. \A p \in Process : pc[p] = "off" /\ pc'[p] = "off"
    BY <1>1, <1>3, StorageRecorderAssumption
       DEF Inv, LockExclusion, DamageIndex, EditSettings, procVars
  <2> QED
    BY <2>1, Zenon DEF NotRewritten
<1>4. CASE OrphanExits
  <2>1. UNCHANGED <<pc, index, indexFile>>
    BY <1>4 DEF OrphanExits, diskVars
  <2>2. \A p \in Process :
          pc[p] = "locked" => pc'[p] \notin {"saving", "between"}
    BY <2>1
  <2> QED
    BY <2>1, <2>2 DEF NotRewritten
<1> QED
  BY <1>2, <1>3, <1>4 DEF Next, Step

\* README "When the latest index is invalid or cannot be read, RpiCamTs leaves
\* it unchanged": an instance only ever writes to the index it has loaded,
\* which it continues, or to one of a new number; any other, whether damaged,
\* refused, unreadable or older, stays as it is (load_or_create, save_atomic).
THEOREM OldIndexesPreserved == Spec => OldIndexesKept
<1>1. Init => ContinueInv
  <2>1. Init => \A p \in Process : Continued(p)
    BY DEF Init, Continued
  <2>2. Init => AllResumable
    BY DEF Init, AllResumable, Resumable, Working
  <2> QED
    BY <2>1, <2>2, InitIndexInv DEF ContinueInv, ResumeInv
<1>2. ContinueInv /\ [Next]_vars => ContinueInv'
  BY StepContinueInv
<1>3. ContinueInv /\ [Next]_vars => [NotRewritten]_vars
  BY StepKeepsOldIndexes
<1> QED
  BY <1>1, <1>2, <1>3, PTL DEF Spec, OldIndexesKept

-----------------------------------------------------------------------------
(* The archive                                                             *)

Stored ==
  /\ \A r \in DOMAIN disk : r.folder \in dirs
  /\ Distinct(Recorded)
  /\ \A n \in IndexNumber :
       IsLatest(n) /\ indexFile[n] # Corrupt
         => Covers(indexFile[n].records, Recorded)

NextIsLast(next) == \A r \in Recorded : Before(PositionOf(r), next)

LastFile(c) ==
  \A r \in Recorded : r = c \/ Before(PositionOf(r), PositionOf(c))

EndsWith(records, c) ==
  records # <<>> /\ PositionOf(records[Len(records)]) = PositionOf(c)

LatestEndsWith(c) ==
  \A n \in IndexNumber :
    IsLatest(n) => indexFile[n] # Corrupt /\ EndsWith(indexFile[n].records, c)

\* The record at hand is the last there is, and before it gets data the latest
\* index ends with it.
Ordered(p) ==
  /\ pc[p] \in {"between", "named", "reserved"} => NextIsLast(index[p].next)
  /\ pc[p] \in {"named", "reserved"} => PositionOf(cur[p]) = index[p].next
  /\ pc[p] = "named" => cur[p].folder \in dirs
  /\ pc[p] \in {"saving", "writing", "staged"} =>
       /\ Covers(index[p].records, Recorded)
       /\ cur[p] # NoRecord =>
            EndsWith(index[p].records, cur[p]) /\ LastFile(cur[p])
  /\ pc[p] \in {"saved", "recording"} \/ buffered[p] # 0 =>
       LastFile(cur[p]) /\ LatestEndsWith(cur[p])

OrderInv ==
  /\ ResumeInv
  /\ Stored
  /\ \A p \in Process : Ordered(p)

-----------------------------------------------------------------------------
(* Positions                                                               *)

LEMMA AdvanceLater ==
  ASSUME NEW pos \in Position, NEW count, NEW max
  PROVE  Before(pos, Advance(pos, count, max))
  BY StorageIndexAssumption DEF Before, Advance, Position, Index

LEMMA BeforeAfter ==
  ASSUME NEW a \in Position, NEW r \in Position, NEW b \in Position,
         ~Before(a, r), Before(a, b)
  PROVE  Before(r, b)
  BY StorageIndexAssumption DEF Before, Position, Index

LEMMA NoneBeforeOrigin ==
  ASSUME NEW a \in Position
  PROVE  ~Before(a, Origin)
  BY StorageIndexAssumption DEF Before, Position, Index, Origin

LEMMA Irreflexive ==
  ASSUME NEW a \in Position, NEW b \in Position, Before(a, b)
  PROVE  a # b /\ ~Before(b, a)
  BY StorageIndexAssumption DEF Before, Position, Index

LEMMA RecordedTyped ==
  ASSUME TypeOK
  PROVE  /\ Recorded \subseteq Record
         /\ \A r \in Recorded : PositionOf(r) \in Position
<1>1. Recorded \subseteq Record
  BY DEF Recorded, TypeOK
<1> QED
  BY <1>1, PositionOfTyped

\* What follows the records of an index follows the files they cover.
LEMMA CoveredBeforeNext ==
  ASSUME NEW files \in SUBSET Record, NEW records \in Seq(Record), NEW max,
         ValidRecords(records, max), Covers(records, files)
  PROVE  \A r \in files : Before(PositionOf(r), NextOf(records, max))
<1> SUFFICES ASSUME NEW r \in files
             PROVE  Before(PositionOf(r), NextOf(records, max))
  OBVIOUS
<1>1. /\ records # <<>>
      /\ ~Before(PositionOf(records[Len(records)]), PositionOf(r))
  BY DEF Covers
<1>2. Len(records) \in 1 .. Len(records)
  BY <1>1
<1>3. /\ PositionOf(records[Len(records)]) \in Position
      /\ PositionOf(r) \in Position
  BY <1>2, PositionOfTyped
<1>4. Before(PositionOf(records[Len(records)]), NextOf(records, max))
  BY <1>1, <1>3, AdvanceLater DEF NextOf, NextAfter
<1>5. NextOf(records, max) \in Position
  BY NextOfTyped
<1> QED
  BY <1>1, <1>3, <1>4, <1>5, BeforeAfter

\* The scan ends after every file below the folders it has seen.
LEMMA ScannedIsLast ==
  ASSUME TypeOK, Stored, NEW max, NEW next \in Scan(max)
  PROVE  NextIsLast(next)
<1> DEFINE folders == dirs \cup legacy.dirs
<1> SUFFICES ASSUME NEW r \in Recorded
             PROVE  Before(PositionOf(r), next)
  BY DEF NextIsLast
<1>1. r \in DOMAIN disk /\ r.folder \in folders /\ r \in Record
  BY DEF Stored, Recorded, TypeOK
<1>2. folders \in SUBSET Index
  BY DEF TypeOK
<1>3. PICK top \in {f \in folders : \A g \in folders : g <= f} :
        LET inPadded   == {q \in DOMAIN disk : q.folder = top}
            inUnpadded == {q \in legacy.files : q.folder = top}
            found      == inPadded \cup inUnpadded
            count      == Cardinality(inPadded) + Cardinality(inUnpadded)
        IN next \in
             IF found = {} THEN {[folder |-> top, file |-> 0]}
             ELSE {Advance(PositionOf(q), count, max) :
                     q \in {q \in found :
                              /\ \A o \in found : o.file <= q.file
                              /\ CanAdvance(PositionOf(q), count, max)}}
  BY <1>1 DEF Scan, ScanNext
<1>4. r.folder <= top /\ top \in Index /\ r.folder \in Index
  BY <1>1, <1>2, <1>3
<1> DEFINE found == {q \in DOMAIN disk : q.folder = top}
                      \cup {q \in legacy.files : q.folder = top}
           count == Cardinality({q \in DOMAIN disk : q.folder = top})
                      + Cardinality({q \in legacy.files : q.folder = top})
<1>5. found \subseteq Record /\ \A q \in found : q.folder = top
  BY DEF TypeOK
<1>6. CASE found = {}
  <2>1. next = [folder |-> top, file |-> 0]
    BY <1>3, <1>6
  <2>2. r.folder # top
    BY <1>1, <1>6
  <2> QED
    BY <1>4, <2>1, <2>2, StorageIndexAssumption DEF Before, PositionOf, Index
<1>7. CASE found # {}
  <2>1. PICK q \in found :
          /\ \A o \in found : o.file <= q.file
          /\ next = Advance(PositionOf(q), count, max)
    BY <1>3, <1>7
  <2>2. r.folder = top => r.file <= q.file
    BY <1>1, <2>1
  <2>3. /\ q \in Record /\ q.folder = top
        /\ PositionOf(q) \in Position /\ PositionOf(r) \in Position
    BY <1>1, <1>5, PositionOfTyped
  <2>4. ~Before(PositionOf(q), PositionOf(r))
    BY <1>1, <1>4, <2>2, <2>3, StorageIndexAssumption
       DEF Before, PositionOf, Index, Record
  <2>5. Before(PositionOf(q), next) /\ next \in Position
    BY <2>1, <2>3, AdvanceLater, ScanPosition
  <2> QED
    BY <2>3, <2>4, <2>5, BeforeAfter
<1> QED
  BY <1>6, <1>7

-----------------------------------------------------------------------------
(* Steps that add no data                                                  *)

LEMMA OneOrdered ==
  ASSUME Inv, NEW p \in Process, pc[p] # "off" \/ lock = Nobody,
         \A q \in Process : q # p => pc'[q] = pc[q] /\ buffered'[q] = buffered[q],
         Ordered(p)'
  PROVE  \A q \in Process : Ordered(q)'
<1> SUFFICES ASSUME NEW q \in Process, q # p
             PROVE  Ordered(q)'
  OBVIOUS
<1>1. pc[q] = "off"
  BY StorageRecorderAssumption DEF Inv, LockExclusion
<1>2. pc'[q] = "off" /\ buffered'[q] = 0
  BY <1>1 DEF Inv, CurrentRecords, CurrentRecord
<1> QED
  BY <1>2 DEF Ordered

LEMMA QuietStored ==
  ASSUME Stored, Recorded' = Recorded, UNCHANGED indexFile,
         \A r \in DOMAIN disk' : r.folder \in dirs'
  PROVE  Stored'
  BY DEF Stored, IsLatest

\* A file without data comes or goes.
LEMMA EmptyFile ==
  ASSUME TypeOK, NEW r, r \in DOMAIN disk => disk[r] = 0,
         disk' \in {disk, WithoutFile(r), WithFile(r, 0)}
  PROVE  Recorded' = Recorded /\ \A q \in Recorded : disk'[q] = disk[q]
<1>1. CASE disk' = disk
  BY <1>1 DEF Recorded
<1>2. CASE disk' = WithoutFile(r)
  <2>1. DOMAIN disk' = DOMAIN disk \ {r}
        /\ \A q \in DOMAIN disk \ {r} : disk'[q] = disk[q]
    BY <1>2 DEF WithoutFile
  <2> QED
    BY <2>1 DEF Recorded
<1>3. CASE disk' = WithFile(r, 0)
  <2>1. DOMAIN disk' = DOMAIN disk \cup {r} /\ disk'[r] = 0
        /\ \A q \in DOMAIN disk \ {r} : disk'[q] = disk[q]
    BY <1>3 DEF WithFile
  <2> QED
    BY <2>1 DEF Recorded
<1> QED
  BY <1>1, <1>2, <1>3

\* The steps that change no data, other than the environment's.
Quiet(p) ==
  \/ Start(p) \/ LoadIndex(p) \/ RecoverIndex(p) \/ CreateIndex(p)
  \/ IndexesExhausted(p) \/ LoadFails(p) \/ ChoosePath(p) \/ PathsExhausted(p)
  \/ ReserveRecord(p) \/ ReserveFails(p) \/ AppendRecord(p) \/ AppendFails(p)
  \/ BeginSave(p) \/ StageIndex(p) \/ PublishIndex(p) \/ SaveFails(p)
  \/ OpenSegment(p) \/ OpenSegmentFails(p) \/ LaunchBackend(p)
  \/ BackendExits(p) \/ ReleaseLock(p) \/ Crash(p)

\* The steps that may write data.
Growing(p) ==
  \/ WriteAccessUnit(p) \/ WriteLastAccessUnit(p)
  \/ WriteFails(p) \/ CloseMuxer(p)

LEMMA QuietData ==
  ASSUME Inv, NEW p \in Process, Quiet(p)
  PROVE  Recorded' = Recorded /\ \A r \in Recorded : disk'[r] = disk[r]
<1> USE DEF Inv
<1>1. CASE UNCHANGED disk
  BY <1>1 DEF Recorded
<1>2. CASE ReserveRecord(p) \/ ReserveFails(p)
  <2>1. CASE UNCHANGED disk
    BY <2>1 DEF Recorded
  <2>2. CASE disk' = WithFile(cur[p], 0) /\ FreshPath(cur[p])
    BY <2>2, EmptyFile DEF FreshPath
  <2> QED
    BY <1>2, <2>1, <2>2 DEF ReserveRecord, ReserveFails
<1>3. CASE OpenSegment(p)
  BY <1>3, EmptyFile
     DEF OpenSegment, CurrentRecords, CurrentRecord, HasPlaceholder
<1>4. CASE AppendFails(p) \/ SaveFails(p)
  <2>1. cur[p] \in DOMAIN disk => disk[cur[p]] = 0
    BY <1>4, StorageRecorderAssumption
       DEF AppendFails, SaveFails, TypeOK, CurrentRecords, CurrentRecord,
           HasPlaceholder
  <2> QED
    BY <1>4, <2>1, EmptyFile DEF AppendFails, SaveFails
<1> QED
  BY <1>1, <1>2, <1>3, <1>4
     DEF Quiet, diskVars, Start, LoadIndex, RecoverIndex, CreateIndex,
         IndexesExhausted, LoadFails, ChoosePath, PathsExhausted, AppendRecord,
         BeginSave, StageIndex, PublishIndex, OpenSegmentFails, LaunchBackend,
         BackendExits, ReleaseLock, Crash

-----------------------------------------------------------------------------
(* The order of the records                                                *)

\* The position in memory follows all that is recorded.
LEMMA MemoryIsLast ==
  ASSUME OrderInv, NEW p \in Process,
         pc[p] \in {"saving", "writing", "staged"},
         index[p].next = NextOf(index[p].records, index[p].max)
  PROVE  NextIsLast(index[p].next)
<1>1. /\ index[p].records \in Seq(Record) /\ Recorded \subseteq Record
      /\ ValidRecords(index[p].records, index[p].max)
      /\ Covers(index[p].records, Recorded)
  BY RecordedTyped
     DEF OrderInv, ResumeInv, IndexInv, Inv, TypeOK, IndexObject, Ordered,
         AllResumable, Resumable, Working
<1> QED
  BY <1>1, CoveredBeforeNext DEF NextIsLast

LEMMA LoadOrdered ==
  ASSUME OrderInv, NEW p \in Process,
         LoadIndex(p) \/ RecoverIndex(p) \/ CreateIndex(p)
  PROVE  Ordered(p)'
<1> USE DEF OrderInv, ResumeInv, IndexInv, Inv, TypeOK
<1>1. /\ Recorded' = Recorded
      /\ pc[p] = "locked" /\ buffered'[p] = 0 /\ cur'[p] = NoRecord
  BY DEF Recorded, LoadIndex, RecoverIndex, CreateIndex, diskVars,
         CurrentRecords, CurrentRecord
<1>2. Recorded \subseteq Record
  BY RecordedTyped
<1>3. CASE LoadIndex(p)
  <2>1. PICK n \in IndexNumber :
          /\ IsLatest(n)
          /\ ValidIndex(indexFile[n])
          /\ index' = [index EXCEPT ![p] = Loaded(n, indexFile[n])]
          /\ Goto(p, IF indexFile[n].headed THEN "between" ELSE "saving")
    BY <1>3 DEF LoadIndex
  <2>2. index'[p] = Loaded(n, indexFile[n]) /\ pc'[p] \in {"between", "saving"}
    BY <2>1 DEF Goto
  <2>3. /\ index'[p].records = indexFile[n].records
        /\ index'[p].next = NextOf(indexFile[n].records, indexFile[n].max)
    BY <2>2 DEF Loaded
  <2>4. /\ Covers(indexFile[n].records, Recorded)
        /\ indexFile[n].records \in Seq(Record)
        /\ ValidRecords(indexFile[n].records, indexFile[n].max)
    BY <2>1 DEF Stored, ValidIndex, IndexContent
  <2>5. \A r \in Recorded :
          Before(PositionOf(r), NextOf(indexFile[n].records, indexFile[n].max))
    BY <1>2, <2>4, CoveredBeforeNext
  <2> HIDE DEF OrderInv, ResumeInv, IndexInv, Inv, TypeOK
  <2> QED
    BY <1>1, <2>2, <2>3, <2>4, <2>5 DEF Ordered, NextIsLast, Covers
<1>4. CASE RecoverIndex(p)
  <2>1. PICK next \in Scan(DefaultMaxFileNum) : index'[p].next = next
    BY <1>4 DEF RecoverIndex, Scanned
  <2>2. pc'[p] = "between"
    BY <1>4 DEF RecoverIndex, Goto
  <2>3. NextIsLast(next)
    BY ScannedIsLast
  <2> HIDE DEF OrderInv, ResumeInv, IndexInv, Inv, TypeOK
  <2> QED
    BY <1>1, <2>1, <2>2, <2>3 DEF Ordered, NextIsLast
<1>5. CASE CreateIndex(p)
  <2>0. PICK settings \in CreateSettings :
          \E next \in Scan(settings.max) :
            /\ index' = [index EXCEPT ![p] = Scanned(0, settings, next)]
            /\ Goto(p, IF next = Origin THEN "saving" ELSE "between")
    BY <1>5 DEF CreateIndex
  <2>1. PICK next \in Scan(settings.max) :
          /\ index' = [index EXCEPT ![p] = Scanned(0, settings, next)]
          /\ Goto(p, IF next = Origin THEN "saving" ELSE "between")
    BY <2>0
  <2>2. /\ index'[p].next = next /\ index'[p].records = <<>>
        /\ \/ pc'[p] = "between"
           \/ pc'[p] = "saving" /\ next = Origin
    BY <2>1 DEF Scanned, Goto
  <2>3. NextIsLast(next)
    BY ScannedIsLast
  <2>4. next = Origin => Recorded = {}
    BY <2>3, RecordedTyped, NoneBeforeOrigin DEF NextIsLast
  <2> HIDE DEF OrderInv, ResumeInv, IndexInv, Inv, TypeOK
  <2> QED
    BY <1>1, <2>2, <2>3, <2>4 DEF Ordered, NextIsLast, Covers
<1> QED
  BY <1>3, <1>4, <1>5

LEMMA RecordOrdered ==
  ASSUME OrderInv, NEW p \in Process, ChoosePath(p) \/ ReserveRecord(p)
  PROVE  Ordered(p)'
<1> USE DEF OrderInv, ResumeInv, IndexInv, Inv, TypeOK
<1>1. Recorded' = Recorded
  BY QuietData DEF Quiet
<1>2. /\ NextIsLast(index[p].next) /\ index'[p] = index[p]
      /\ buffered'[p] = 0
  BY DEF Ordered, ChoosePath, ReserveRecord, CurrentRecords, CurrentRecord
<1>3. CASE ChoosePath(p)
  <2>1. /\ pc'[p] = "named"
        /\ PositionOf(cur'[p]) = index[p].next
        /\ cur'[p].folder \in dirs'
    <3>1. PICK s \in Suffix : cur' = [cur EXCEPT ![p] = NextRecord(p, s)]
      BY <1>3 DEF ChoosePath
    <3>2. cur'[p] = NextRecord(p, s) /\ index[p].next \in Position
      BY <3>1 DEF IndexObject
    <3>3. pc'[p] = "named" /\ dirs' = dirs \cup {index[p].next.folder}
      BY <1>3 DEF ChoosePath, Goto
    <3> QED
      BY <3>2, <3>3 DEF NextRecord, PositionOf, Position
  <2> HIDE DEF OrderInv, ResumeInv, IndexInv, Inv, TypeOK
  <2> QED
    BY <1>1, <1>2, <2>1 DEF Ordered, NextIsLast
<1>4. CASE ReserveRecord(p)
  <2>1. /\ pc'[p] = "reserved" /\ cur'[p] = cur[p]
        /\ PositionOf(cur[p]) = index[p].next
    BY <1>4 DEF ReserveRecord, Goto, Ordered
  <2> HIDE DEF OrderInv, ResumeInv, IndexInv, Inv, TypeOK
  <2> QED
    BY <1>1, <1>2, <2>1 DEF Ordered, NextIsLast
<1> QED
  BY <1>3, <1>4

LEMMA AppendOrdered ==
  ASSUME OrderInv, NEW p \in Process, AppendRecord(p)
  PROVE  Ordered(p)'
<1> USE DEF OrderInv, ResumeInv, IndexInv, Inv
<1>1. Recorded' = Recorded
  BY QuietData DEF Quiet
<1>2. /\ pc[p] = "reserved" /\ pc'[p] = "saving" /\ cur'[p] = cur[p]
      /\ buffered'[p] = 0
      /\ index'[p] = Appended(index[p], cur[p])
      /\ index[p] \in IndexObject /\ cur[p] \in Record
  BY CurrentFacts DEF TypeOK, AppendRecord, Goto, CurrentRecords, CurrentRecord
<1>3. NextIsLast(index[p].next) /\ PositionOf(cur[p]) = index[p].next
  BY <1>2 DEF Ordered
<1>4. index'[p].records = Append(index[p].records, cur[p])
  BY <1>2 DEF Appended, IndexObject
<1>5. /\ index'[p].records # <<>>
      /\ index'[p].records[Len(index'[p].records)] = cur[p]
  BY <1>2, <1>4 DEF IndexObject
<1>6. PositionOf(cur[p]) \in Position
  BY <1>2, PositionOfTyped
<1>7. Covers(index'[p].records, Recorded) /\ LastFile(cur[p])
  BY <1>3, <1>5, <1>6, RecordedTyped, Irreflexive
     DEF Covers, LastFile, NextIsLast
<1> QED
  BY <1>1, <1>2, <1>5, <1>7 DEF Ordered, EndsWith, LastFile, Covers

LEMMA SaveOrdered ==
  ASSUME OrderInv, NEW p \in Process, BeginSave(p) \/ StageIndex(p)
  PROVE  Ordered(p)'
<1> USE DEF OrderInv, ResumeInv, IndexInv, Inv
<1>1. Recorded' = Recorded
  BY QuietData DEF Quiet
<1>2. /\ pc[p] \in {"saving", "writing"} /\ pc'[p] \in {"writing", "staged"}
      /\ cur'[p] = cur[p] /\ index'[p] = index[p]
      /\ buffered'[p] = 0
  BY DEF TypeOK, BeginSave, StageIndex, Goto, CurrentRecords, CurrentRecord
<1> QED
  BY <1>1, <1>2 DEF Ordered, EndsWith, LastFile, Covers

\* What the rename makes the latest index.
LEMMA PublishedIndex ==
  ASSUME OrderInv, NEW p \in Process, PublishIndex(p), NEW n \in IndexNumber,
         IsLatest(n)'
  PROVE  indexFile'[n] = ContentOf(index[p]) /\ indexFile'[n] # Corrupt
<1> USE DEF OrderInv, ResumeInv, IndexInv, Inv, TypeOK
<1> DEFINE k == index[p].number
<1>1. k \in IndexNumber
  BY NumberTyped
<1>2. /\ indexFile'[k] = ContentOf(index[p])
      /\ \A m \in IndexNumber : m # k => indexFile'[m] = indexFile[m]
      /\ \A m \in IndexNumber : indexFile[m] # NoIndex => m <= k
  BY <1>1 DEF OwnIndexes, OwnIndex, Working, PublishIndex
<1>3. ContentOf(index[p]) \in IndexContent
  BY DEF IndexObject, ContentOf, IndexContent
<1>4. indexFile'[k] \notin {NoIndex, Corrupt}
  BY <1>2, <1>3, StorageRecorderAssumption
<1>5. n = k
  <2>1. k <= n /\ indexFile'[n] # NoIndex
    BY <1>1, <1>4 DEF IsLatest
  <2>2. n # k => n <= k
    BY <1>2, <2>1
  <2> QED
    BY <1>1, <2>1, <2>2, StorageIndexAssumption DEF IndexNumber
<1> QED
  BY <1>2, <1>4, <1>5

LEMMA PublishOrdered ==
  ASSUME OrderInv, NEW p \in Process, PublishIndex(p)
  PROVE  Ordered(p)' /\ Stored'
<1> USE DEF OrderInv, ResumeInv, IndexInv, Inv
<1>1. Recorded' = Recorded
  BY QuietData DEF Quiet
<1>2. /\ pc[p] = "staged"
      /\ pc'[p] = IF cur[p] = NoRecord THEN "between" ELSE "saved"
      /\ cur'[p] = cur[p] /\ index'[p] = index[p]
      /\ buffered'[p] = 0 /\ UNCHANGED <<dirs, disk>>
  BY DEF TypeOK, PublishIndex, Goto, CurrentRecords, CurrentRecord
<1>3. Covers(index[p].records, Recorded)
  BY <1>2 DEF Ordered
<1>4. ContentOf(index[p]).records = index[p].records
  BY DEF ContentOf
<1>5. Stored'
  <2>1. \A n \in IndexNumber : IsLatest(n)' =>
          Covers(indexFile'[n].records, Recorded)
    BY <1>3, <1>4, PublishedIndex
  <2>2. \A r \in DOMAIN disk : r.folder \in dirs
    BY DEF Stored
  <2>3. Distinct(Recorded)
    BY DEF Stored
  <2> QED
    BY <1>1, <1>2, <2>1, <2>2, <2>3 DEF Stored, Distinct, Covers
<1>6. CASE cur[p] = NoRecord
  <2>1. index[p].next = NextOf(index[p].records, index[p].max)
    BY <1>2 DEF AllResumable, Resumable, Working
  <2>2. NextIsLast(index[p].next)
    BY <1>2, <2>1, MemoryIsLast
  <2> QED
    BY <1>1, <1>2, <1>5, <1>6, <2>2 DEF Ordered, NextIsLast
<1>7. CASE cur[p] # NoRecord
  <2>1. EndsWith(index[p].records, cur[p]) /\ LastFile(cur[p])
    BY <1>2, <1>7 DEF Ordered
  <2>2. \A n \in IndexNumber : IsLatest(n)' =>
          indexFile'[n] # Corrupt /\ EndsWith(indexFile'[n].records, cur[p])
    BY <1>4, <2>1, PublishedIndex
  <2>3. LatestEndsWith(cur[p])'
    BY <1>2, <2>2 DEF LatestEndsWith, EndsWith
  <2> QED
    BY <1>1, <1>2, <1>5, <1>7, <2>1, <2>3 DEF Ordered, LastFile
<1> QED
  BY <1>6, <1>7

LEMMA OpenOrdered ==
  ASSUME OrderInv, NEW p \in Process, OpenSegment(p)
  PROVE  Ordered(p)'
<1> USE DEF OrderInv, ResumeInv, IndexInv, Inv
<1>1. Recorded' = Recorded
  BY QuietData DEF Quiet
<1>2. /\ pc[p] = "saved" /\ pc'[p] = "recording"
      /\ cur'[p] = cur[p] /\ UNCHANGED indexFile
  BY DEF TypeOK, OpenSegment, Goto
<1>3. LastFile(cur[p]) /\ LatestEndsWith(cur[p])
  BY <1>2 DEF Ordered
<1> QED
  BY <1>1, <1>2, <1>3
     DEF Ordered, LastFile, LatestEndsWith, EndsWith, IsLatest

\* What the steps that end something leave.
LEMMA EndOrdered ==
  ASSUME OrderInv, NEW p \in Process,
         \/ Start(p) \/ IndexesExhausted(p) \/ LoadFails(p)
         \/ PathsExhausted(p) \/ ReserveFails(p) \/ AppendFails(p)
         \/ SaveFails(p) \/ OpenSegmentFails(p) \/ ReleaseLock(p) \/ Crash(p)
  PROVE  Ordered(p)'
<1>1. /\ pc'[p] \in {"locked", "failed", "off"}
      /\ buffered'[p] = 0
  BY DEF OrderInv, ResumeInv, IndexInv, Inv, TypeOK, Start, IndexesExhausted,
         LoadFails, PathsExhausted, ReserveFails, AppendFails, SaveFails,
         OpenSegmentFails, ReleaseLock, Crash, Gone, Goto, CurrentRecords,
         CurrentRecord
<1> QED
  BY <1>1 DEF Ordered

LEMMA BackendOrdered ==
  ASSUME OrderInv, NEW p \in Process, LaunchBackend(p) \/ BackendExits(p),
         NEW q \in Process
  PROVE  Ordered(q)'
<1>1. /\ UNCHANGED <<pc, index, cur, buffered, indexFile, dirs>>
      /\ Recorded' = Recorded
  BY DEF Recorded, LaunchBackend, BackendExits, diskVars
<1>2. Ordered(q)
  BY DEF OrderInv
<1> QED
  BY <1>1, <1>2
     DEF Ordered, NextIsLast, LastFile, LatestEndsWith, EndsWith, IsLatest,
         Covers

\* Every file is below a folder the scan will look into.
LEMMA FilesInFolders ==
  ASSUME OrderInv, NEW p \in Process, Quiet(p)
  PROVE  \A r \in DOMAIN disk' : r.folder \in dirs'
<1> USE DEF OrderInv, ResumeInv, IndexInv, Inv
<1>1. \A r \in DOMAIN disk : r.folder \in dirs
  BY DEF Stored
<1>2. dirs \subseteq dirs'
  BY DEF Quiet, diskVars, Start, LoadIndex, RecoverIndex, CreateIndex,
         IndexesExhausted, LoadFails, ChoosePath, PathsExhausted,
         ReserveRecord, ReserveFails, AppendRecord, AppendFails, BeginSave,
         StageIndex, PublishIndex, SaveFails, OpenSegment, OpenSegmentFails,
         LaunchBackend, BackendExits, ReleaseLock, Crash
<1>3. CASE ReserveRecord(p) \/ ReserveFails(p) \/ OpenSegment(p)
  <2>1. disk' = disk \/ disk' = WithFile(cur[p], 0)
    BY <1>3 DEF ReserveRecord, ReserveFails, OpenSegment
  <2>2. disk' = disk \/ cur[p].folder \in dirs
    BY <1>1, <1>3, CurrentFacts
       DEF Ordered, ReserveRecord, ReserveFails, OpenSegment
  <2>3. DOMAIN WithFile(cur[p], 0) = DOMAIN disk \cup {cur[p]}
    BY DEF WithFile
  <2> QED
    BY <1>1, <1>2, <2>1, <2>2, <2>3
<1>4. CASE AppendFails(p) \/ SaveFails(p)
  <2>1. disk' \in {disk, WithoutFile(cur[p])}
    BY <1>4 DEF AppendFails, SaveFails
  <2>2. DOMAIN WithoutFile(cur[p]) = DOMAIN disk \ {cur[p]}
    BY DEF WithoutFile
  <2> QED
    BY <1>1, <1>2, <2>1, <2>2
<1>5. CASE UNCHANGED disk
  BY <1>1, <1>2, <1>5
<1> QED
  BY <1>3, <1>4, <1>5
     DEF Quiet, diskVars, Start, LoadIndex, RecoverIndex, CreateIndex,
         IndexesExhausted, LoadFails, ChoosePath, PathsExhausted, AppendRecord,
         BeginSave, StageIndex, PublishIndex, OpenSegmentFails, LaunchBackend,
         BackendExits, ReleaseLock, Crash

\* What other instances keep in a step of p.
LEMMA OthersKeep ==
  ASSUME Inv, NEW p \in Process,
         \/ Quiet(p) /\ ~LaunchBackend(p) /\ ~BackendExits(p)
         \/ Growing(p)
  PROVE  /\ pc[p] # "off" \/ lock = Nobody
         /\ \A q \in Process :
              q # p => pc'[q] = pc[q] /\ buffered'[q] = buffered[q]
  BY DEF Inv, TypeOK, Quiet, Growing, Start, Lockable, LoadIndex, RecoverIndex,
         CreateIndex, IndexesExhausted, LoadFails, ChoosePath, PathsExhausted,
         ReserveRecord, ReserveFails, AppendRecord, AppendFails, BeginSave,
         StageIndex, PublishIndex, SaveFails, OpenSegment, OpenSegmentFails,
         ReleaseLock, Crash, WriteAccessUnit, WriteLastAccessUnit, WriteFails,
         CloseMuxer, Grown, Gone, Goto

LEMMA QuietPreserves ==
  ASSUME OrderInv, NEW p \in Process, Quiet(p)
  PROVE  Stored' /\ \A q \in Process : Ordered(q)'
<1> USE DEF OrderInv, ResumeInv, IndexInv
<1>1. Stored'
  <2>1. CASE PublishIndex(p)
    BY <2>1, PublishOrdered
  <2>2. CASE ~PublishIndex(p)
    <3>1. UNCHANGED indexFile
      BY <2>2 DEF Quiet, diskVars, Start, LoadIndex, RecoverIndex, CreateIndex,
         IndexesExhausted, LoadFails, ChoosePath, PathsExhausted,
         ReserveRecord, ReserveFails, AppendRecord, AppendFails, BeginSave,
         StageIndex, SaveFails, OpenSegment, OpenSegmentFails,
         LaunchBackend, BackendExits, ReleaseLock, Crash
    <3> QED
      BY <3>1, QuietData, FilesInFolders, QuietStored
  <2> QED
    BY <2>1, <2>2
<1>2. CASE LaunchBackend(p) \/ BackendExits(p)
  BY <1>1, <1>2, BackendOrdered
<1>3. CASE ~LaunchBackend(p) /\ ~BackendExits(p)
  <2>1. Ordered(p)'
    BY <1>3, LoadOrdered, RecordOrdered, AppendOrdered, SaveOrdered,
       PublishOrdered, OpenOrdered, EndOrdered DEF Quiet
  <2> QED
    BY <1>1, <1>3, <2>1, OthersKeep, OneOrdered
<1> QED
  BY <1>2, <1>3

-----------------------------------------------------------------------------
(* Steps that add data                                                     *)

LEMMA GrownFile ==
  ASSUME Inv, NEW p \in Process, Growing(p)
  PROVE  \/ UNCHANGED disk
         \/ /\ pc[p] = "recording" \/ buffered[p] # 0
            /\ cur[p] \in DOMAIN disk
            /\ \E size \in Nat : /\ size >= disk[cur[p]]
                                 /\ disk' = WithFile(cur[p], size)
<1> USE DEF Inv
<1>1. CASE WriteAccessUnit(p) \/ WriteFails(p)
  <2>1. PICK unit \in {0} \cup AccessUnitSize, kept \in 0 .. BufferSize :
          Grown(p, unit, kept)
    BY <1>1 DEF WriteAccessUnit, WriteFails
  <2>2. pc[p] = "recording" /\ cur[p] \in DOMAIN disk
    BY <1>1, CurrentFacts DEF WriteAccessUnit, WriteFails
  <2>3. disk[cur[p]] \in Nat /\ buffered[p] \in Nat /\ unit \in Nat /\ kept \in Nat
    BY <2>2, UnitTyped DEF TypeOK
  <2> QED
    BY <2>1, <2>2, <2>3 DEF Grown
<1>2. CASE WriteLastAccessUnit(p)
  <2>1. PICK unit \in AccessUnitSize :
          disk' = WithFile(cur[p], disk[cur[p]] + buffered[p] + unit)
    BY <1>2 DEF WriteLastAccessUnit
  <2>2. pc[p] = "recording" /\ cur[p] \in DOMAIN disk
    BY <1>2, CurrentFacts DEF WriteLastAccessUnit
  <2>3. disk[cur[p]] \in Nat /\ buffered[p] \in Nat /\ unit \in Nat
    BY <2>2, UnitTyped DEF TypeOK
  <2> QED
    BY <2>1, <2>2, <2>3
<1>3. CASE CloseMuxer(p)
  <2>1. CASE buffered[p] = 0
    BY <1>3, <2>1 DEF CloseMuxer
  <2>2. CASE buffered[p] # 0
    <3>1. cur[p] \in DOMAIN disk
      BY <2>2, CurrentFacts
    <3>2. disk[cur[p]] \in Nat /\ buffered[p] \in Nat
      BY <3>1 DEF TypeOK
    <3> QED
      BY <1>3, <2>2, <3>1, <3>2 DEF CloseMuxer
  <2> QED
    BY <2>1, <2>2
<1> QED
  BY <1>1, <1>2, <1>3 DEF Growing

\* Only the last file grows, or becomes one with data.
LEMMA GrownData ==
  ASSUME OrderInv, NEW p \in Process, Growing(p)
  PROVE  \/ Recorded' = Recorded /\ \A r \in Recorded : disk'[r] = disk[r]
         \/ /\ LastFile(cur[p]) /\ LatestEndsWith(cur[p])
            /\ cur[p] \in Record
            /\ DOMAIN disk' = DOMAIN disk
            /\ Recorded' = Recorded \cup {cur[p]}
            /\ \A r \in Recorded \ {cur[p]} : disk'[r] = disk[r]
            /\ disk'[cur[p]] \in Nat \ {0} /\ disk'[cur[p]] >= disk[cur[p]]
<1> USE DEF OrderInv, ResumeInv, IndexInv, Inv
<1>1. CASE UNCHANGED disk
  BY <1>1 DEF Recorded
<1>2. CASE /\ pc[p] = "recording" \/ buffered[p] # 0
           /\ cur[p] \in DOMAIN disk
           /\ \E size \in Nat : /\ size >= disk[cur[p]]
                                /\ disk' = WithFile(cur[p], size)
  <2>1. PICK size \in Nat : size >= disk[cur[p]] /\ disk' = WithFile(cur[p], size)
    BY <1>2
  <2>2. /\ DOMAIN disk' = DOMAIN disk
        /\ disk'[cur[p]] = size
        /\ \A r \in DOMAIN disk \ {cur[p]} : disk'[r] = disk[r]
    BY <1>2, <2>1 DEF WithFile
  <2>3. LastFile(cur[p]) /\ LatestEndsWith(cur[p])
    BY <1>2 DEF Ordered
  <2>4. cur[p] \in Record /\ disk[cur[p]] \in Nat
    BY <1>2 DEF TypeOK
  <2>5. CASE size = 0
    BY <1>2, <2>1, <2>2, <2>4, <2>5 DEF Recorded
  <2>6. CASE size # 0
    <3>1. Recorded' = Recorded \cup {cur[p]}
      BY <1>2, <2>2, <2>6 DEF Recorded
    <3>2. \A r \in Recorded \ {cur[p]} : disk'[r] = disk[r]
      BY <2>2 DEF Recorded
    <3> QED
      BY <2>1, <2>2, <2>3, <2>4, <2>6, <3>1, <3>2
  <2> QED
    BY <2>5, <2>6
<1> QED
  BY <1>1, <1>2, GrownFile

\* The last file is the last of what is recorded afterwards.
LEMMA GrownLast ==
  ASSUME OrderInv, NEW p \in Process, Growing(p),
         LastFile(cur[p]), LatestEndsWith(cur[p])
  PROVE  LastFile(cur[p])' /\ LatestEndsWith(cur[p])'
<1>1. UNCHANGED <<indexFile, cur>>
  BY DEF Growing, WriteAccessUnit, WriteLastAccessUnit, WriteFails, CloseMuxer
<1>2. Recorded' \subseteq Recorded \cup {cur[p]}
  BY GrownData
<1>3. LatestEndsWith(cur[p])'
  BY <1>1 DEF LatestEndsWith, EndsWith, IsLatest
<1>4. LastFile(cur[p])'
  BY <1>1, <1>2 DEF LastFile
<1> QED
  BY <1>3, <1>4

LEMMA GrowingStored ==
  ASSUME OrderInv, NEW p \in Process, Growing(p)
  PROVE  Stored'
<1> USE DEF OrderInv, ResumeInv, IndexInv, Inv
<1> DEFINE c == cur[p]
<1>1. UNCHANGED <<indexFile, dirs>>
  BY DEF Growing, WriteAccessUnit, WriteLastAccessUnit, WriteFails, CloseMuxer
<1>2. DOMAIN disk' = DOMAIN disk
  BY GrownFile DEF WithFile
<1>3. \A r \in DOMAIN disk' : r.folder \in dirs'
  BY <1>1, <1>2 DEF Stored
<1>4. CASE Recorded' = Recorded
  BY <1>1, <1>3, <1>4, QuietStored
<1>5. CASE /\ LastFile(c) /\ LatestEndsWith(c) /\ c \in Record
           /\ Recorded' = Recorded \cup {c}
  <2>1. /\ \A r \in Recorded : PositionOf(r) \in Position
        /\ PositionOf(c) \in Position
    BY <1>5, RecordedTyped, PositionOfTyped
  <2>2. \A r \in Recorded : r = c \/ PositionOf(r) # PositionOf(c)
    BY <1>5, <2>1, Irreflexive DEF LastFile
  <2>3. Distinct(Recorded \cup {c})
    BY <2>2 DEF Stored, Distinct
  <2>4. \A r \in Recorded \cup {c} : ~Before(PositionOf(c), PositionOf(r))
    <3>1. ~Before(PositionOf(c), PositionOf(c))
      BY <2>1, Irreflexive
    <3>2. \A r \in Recorded : r = c \/ ~Before(PositionOf(c), PositionOf(r))
      BY <1>5, <2>1, Irreflexive DEF LastFile
    <3> QED
      BY <3>1, <3>2
  <2>5. \A n \in IndexNumber :
          IsLatest(n) => Covers(indexFile[n].records, Recorded \cup {c})
    BY <1>5, <2>4 DEF LatestEndsWith, EndsWith, Covers
  <2> HIDE DEF c
  <2> QED
    BY <1>1, <1>3, <1>5, <2>3, <2>5 DEF Stored, Distinct, Covers, IsLatest
<1> QED
  BY <1>4, <1>5, GrownData

\* After a rotation the next position follows the segment that is full.
LEMMA RotationIsLast ==
  ASSUME OrderInv, NEW p \in Process, WriteLastAccessUnit(p)
  PROVE  NextIsLast(index[p].next)'
<1> USE DEF OrderInv, ResumeInv, IndexInv, Inv, TypeOK
<1> DEFINE n       == index[p].number
           records == index[p].records
<1>1. pc[p] = "recording" /\ UNCHANGED <<indexFile, cur, index>>
  BY DEF WriteLastAccessUnit
<1>2. LastFile(cur[p]) /\ LatestEndsWith(cur[p])
  BY <1>1 DEF Ordered
<1>3. LastFile(cur[p])'
  BY <1>2, GrownLast DEF Growing
<1>4. /\ indexFile[n] # NoIndex
      /\ Loaded(n, indexFile[n]) = index[p]
      /\ ValidRecords(records, index[p].max)
      /\ \A m \in IndexNumber : indexFile[m] # NoIndex => m <= n
  BY <1>1 DEF AllResumable, Resumable, Settled, Working, OwnIndexes, OwnIndex
<1>5. n \in IndexNumber /\ records \in Seq(Record) /\ cur[p] \in Record
  BY <1>1, CurrentFacts DEF IndexObject
<1>6. EndsWith(records, cur[p])
  <2>1. IsLatest(n)
    BY <1>4, <1>5 DEF IsLatest
  <2>2. indexFile[n].records = records
    BY <1>4 DEF Loaded
  <2> QED
    BY <1>2, <1>5, <2>1, <2>2 DEF LatestEndsWith
<1>7. index[p].next = NextOf(records, index[p].max)
  BY <1>1, <1>6
     DEF EndsWith, AllResumable, Resumable, Working
<1>8. DOMAIN disk' = DOMAIN disk
  BY GrownFile DEF Growing, WithFile
<1>9. Recorded' \subseteq Record
  BY <1>8 DEF Recorded
<1>10. Covers(records, Recorded')
  <2>1. \A r \in Recorded' : PositionOf(r) \in Position
    BY <1>9, PositionOfTyped
  <2>2. PositionOf(cur[p]) \in Position
    BY <1>5, PositionOfTyped
  <2>3. \A r \in Recorded' : r = cur[p] \/ Before(PositionOf(r), PositionOf(cur[p]))
    BY <1>1, <1>3 DEF LastFile
  <2>4. \A r \in Recorded' : ~Before(PositionOf(cur[p]), PositionOf(r))
    BY <2>1, <2>2, <2>3, Irreflexive
  <2> QED
    BY <1>6, <2>4 DEF Covers, EndsWith
<1>11. \A r \in Recorded' :
         Before(PositionOf(r), NextOf(records, index[p].max))
  BY <1>4, <1>5, <1>9, <1>10, CoveredBeforeNext
<1> HIDE DEF OrderInv, ResumeInv, IndexInv, Inv, TypeOK, records
<1> QED
  BY <1>1, <1>7, <1>11 DEF NextIsLast

LEMMA GrowingOrdered ==
  ASSUME OrderInv, NEW p \in Process, Growing(p)
  PROVE  Ordered(p)'
<1> USE DEF OrderInv, ResumeInv, IndexInv, Inv
<1>1. CASE WriteLastAccessUnit(p)
  <2>1. pc'[p] = "between" /\ buffered'[p] = 0
    BY <1>1 DEF TypeOK, WriteLastAccessUnit, Goto
  <2>2. NextIsLast(index[p].next)'
    BY <1>1, RotationIsLast
  <2> QED
    BY <2>1, <2>2 DEF Ordered
<1>2. CASE WriteAccessUnit(p) \/ WriteFails(p)
  <2>1. /\ pc[p] = "recording" /\ pc'[p] \in {"recording", "failed"}
        /\ UNCHANGED <<cur, index>>
    BY <1>2 DEF TypeOK, WriteAccessUnit, WriteFails, Goto
  <2>2. LastFile(cur[p]) /\ LatestEndsWith(cur[p])
    BY <2>1 DEF Ordered
  <2>3. LastFile(cur[p])' /\ LatestEndsWith(cur[p])'
    BY <2>2, GrownLast
  <2> QED
    BY <2>1, <2>3 DEF Ordered
<1>3. CASE CloseMuxer(p)
  <2>1. pc'[p] = "closing" /\ buffered'[p] = 0
    BY <1>3 DEF TypeOK, CloseMuxer, Goto
  <2> QED
    BY <2>1 DEF Ordered
<1> QED
  BY <1>1, <1>2, <1>3 DEF Growing

-----------------------------------------------------------------------------
(* The invariant                                                           *)

LEMMA InitOrder == Init => OrderInv
<1> SUFFICES ASSUME Init PROVE OrderInv
  OBVIOUS
<1>1. ResumeInv
  BY InitIndexInv
     DEF Init, ResumeInv, AllResumable, Resumable, Working
<1>2. \A p \in Process : Ordered(p)
  BY DEF Init, Ordered
<1>3. Stored
  BY ArchiveAssumption DEF Init, Stored, Recorded, IsLatest
<1> QED
  BY <1>1, <1>2, <1>3 DEF OrderInv

\* The environment changes the directory while nobody has the lock.
LEMMA EnvironmentPreserves ==
  ASSUME OrderInv, DamageIndex \/ EditSettings
  PROVE  Stored' /\ \A p \in Process : Ordered(p)'
<1> USE DEF OrderInv, ResumeInv, IndexInv, Inv
<1>1. UNCHANGED <<dirs, disk, pc, buffered>> /\ Recorded' = Recorded
  BY DEF Recorded, DamageIndex, EditSettings, procVars
<1>2. ASSUME NEW p \in Process
      PROVE  Ordered(p)'
  <2>1. pc[p] = "off"
    BY StorageRecorderAssumption DEF LockExclusion, DamageIndex, EditSettings
  <2>2. buffered[p] = 0
    BY <2>1 DEF CurrentRecords, CurrentRecord
  <2> QED
    BY <1>1, <2>1, <2>2 DEF Ordered
<1>3. \E n \in IndexNumber :
        /\ IsLatest(n) /\ indexFile[n] # Corrupt
        /\ \A m \in IndexNumber : m # n => indexFile'[m] = indexFile[m]
        /\ indexFile'[n] # NoIndex
        /\ \/ indexFile'[n] = Corrupt
           \/ indexFile'[n].records = indexFile[n].records
  <2>1. CASE DamageIndex
    BY <2>1, StorageIndexAssumption DEF TypeOK, DamageIndex
  <2>2. CASE EditSettings
    <3>1. PICK n \in IndexNumber, max \in EditedMax, size \in EditedSize :
            /\ IsLatest(n)
            /\ indexFile[n] # Corrupt
            /\ indexFile' = [indexFile EXCEPT ![n].max = max, ![n].size = size]
      BY <2>2 DEF EditSettings
    <3>2. indexFile[n] \in IndexContent
      BY <3>1 DEF TypeOK, IsLatest
    <3>3. indexFile'[n] = [indexFile[n] EXCEPT !.max = max, !.size = size]
      BY <3>1 DEF TypeOK
    <3>4. /\ indexFile'[n] \in IndexContent
          /\ indexFile'[n].records = indexFile[n].records
      BY <3>2, <3>3, StorageRecorderAssumption DEF IndexContent
    <3>5. indexFile'[n] # NoIndex
      BY <3>4, StorageRecorderAssumption
    <3>6. \A m \in IndexNumber : m # n => indexFile'[m] = indexFile[m]
      BY <3>1 DEF TypeOK
    <3> QED
      BY <3>1, <3>4, <3>5, <3>6
  <2> QED
    BY <2>1, <2>2
<1>4. PICK n \in IndexNumber :
        /\ IsLatest(n) /\ indexFile[n] # Corrupt
        /\ \A m \in IndexNumber : m # n => indexFile'[m] = indexFile[m]
        /\ indexFile'[n] # NoIndex
        /\ \/ indexFile'[n] = Corrupt
           \/ indexFile'[n].records = indexFile[n].records
  BY <1>3
<1>5. ASSUME NEW m \in IndexNumber, IsLatest(m)', indexFile'[m] # Corrupt
      PROVE  Covers(indexFile'[m].records, Recorded)
  <2>1. CASE m = n
    BY <1>4, <1>5, <2>1 DEF Stored
  <2>2. CASE m # n
    <3>1. indexFile[m] # NoIndex
      BY <1>4, <1>5, <2>2 DEF IsLatest
    <3>2. IsLatest(m) \/ m < n
      BY <1>4, <2>2, <3>1, StorageIndexAssumption DEF IsLatest, IndexNumber
    <3>3. ~(m < n)
      BY <1>4, <1>5, StorageIndexAssumption DEF IsLatest, IndexNumber
    <3> QED
      BY <1>4, <1>5, <2>2, <3>2, <3>3 DEF Stored
  <2> QED
    BY <2>1, <2>2
<1>6. /\ \A r \in DOMAIN disk : r.folder \in dirs
      /\ Distinct(Recorded)
  BY DEF Stored
<1> QED
  BY <1>1, <1>2, <1>5, <1>6 DEF Stored, Distinct, Covers

LEMMA StepOrder ==
  ASSUME OrderInv, [Next]_vars
  PROVE  OrderInv'
<1>1. ResumeInv'
  BY StepResumeInv DEF OrderInv
<1>2. ASSUME NEW p \in Process, Quiet(p)
      PROVE  OrderInv'
  BY <1>1, <1>2, QuietPreserves DEF OrderInv
<1>3. ASSUME NEW p \in Process, Growing(p)
      PROVE  OrderInv'
  <2>1. /\ pc[p] # "off" \/ lock = Nobody
        /\ \A q \in Process :
             q # p => pc'[q] = pc[q] /\ buffered'[q] = buffered[q]
    BY <1>3, OthersKeep DEF OrderInv, ResumeInv, IndexInv
  <2>2. \A q \in Process : Ordered(q)'
    BY <1>3, <2>1, GrowingOrdered, OneOrdered DEF OrderInv, ResumeInv, IndexInv
  <2> QED
    BY <1>1, <1>3, <2>2, GrowingStored DEF OrderInv
<1>4. CASE DamageIndex \/ EditSettings
  BY <1>1, <1>4, EnvironmentPreserves DEF OrderInv
<1>5. CASE OrphanExits \/ UNCHANGED vars
  <2>1. /\ UNCHANGED <<pc, index, cur, buffered, indexFile, dirs, disk>>
        /\ Recorded' = Recorded
    BY <1>5 DEF Recorded, OrphanExits, vars, diskVars
  <2>2. Stored'
    BY <2>1, QuietStored DEF OrderInv, Stored
  <2>3. ASSUME NEW p \in Process
        PROVE  Ordered(p)'
    <3>1. Ordered(p)
      BY DEF OrderInv
    <3> QED
      BY <2>1, <3>1
         DEF Ordered, NextIsLast, LastFile, LatestEndsWith, EndsWith, IsLatest,
             Covers
  <2> QED
    BY <1>1, <2>2, <2>3 DEF OrderInv
<1> QED
  BY <1>2, <1>3, <1>4, <1>5 DEF Next, Proceed, Fault, Quiet, Growing

-----------------------------------------------------------------------------
(* The archive                                                             *)

LEMMA SameArchive ==
  ASSUME Recorded' = Recorded, \A r \in Recorded : disk'[r] = disk[r]
  PROVE  ArchiveOnDisk' = ArchiveOnDisk
  BY DEF ArchiveOnDisk

\* Each file with data is the segment of its position.
LEMMA ArchiveOf ==
  Distinct(Recorded) =>
    /\ DOMAIN ArchiveOnDisk = {PositionOf(r) : r \in Recorded}
    /\ \A r \in Recorded : ArchiveOnDisk[PositionOf(r)] = disk[r]
<1>1. ASSUME Distinct(Recorded), NEW r \in Recorded
      PROVE  (CHOOSE q \in Recorded : PositionOf(q) = PositionOf(r)) = r
  <2>1. \A q \in Recorded : PositionOf(q) = PositionOf(r) => q = r
    BY <1>1 DEF Distinct
  <2> QED
    BY <2>1
<1> QED
  BY <1>1 DEF ArchiveOnDisk

LEMMA ArchiveOfNext ==
  (Distinct(Recorded) =>
     /\ DOMAIN ArchiveOnDisk = {PositionOf(r) : r \in Recorded}
     /\ \A r \in Recorded : ArchiveOnDisk[PositionOf(r)] = disk[r])'
  BY ArchiveOf, PTL

LEMMA InitArchive == Init => Archive!Init
<1> SUFFICES ASSUME Init PROVE Archive!Init
  OBVIOUS
<1>1. TypeOK /\ Distinct(Recorded)
  BY InitOrder DEF OrderInv, ResumeInv, IndexInv, Inv, Stored
<1>2. DOMAIN ArchiveOnDisk \subseteq Position
  BY <1>1, ArchiveOf, RecordedTyped
<1>3. \A s \in DOMAIN ArchiveOnDisk : ArchiveOnDisk[s] \in Nat \ {0}
  BY <1>1, ArchiveOf DEF Recorded, TypeOK
<1>4. ArchiveOnDisk \in [DOMAIN ArchiveOnDisk -> Nat \ {0}]
  BY <1>3 DEF ArchiveOnDisk
<1>5. lock = Nobody
  BY DEF Init
<1> QED
  BY <1>2, <1>4, <1>5 DEF Archive!Init

\* A recorder that adds data extends its last segment or begins a later one.
LEMMA GrowingExtends ==
  ASSUME OrderInv, OrderInv', NEW p \in Process, Growing(p)
  PROVE  Archive!Extend \/ UNCHANGED <<ArchiveOnDisk, lock>>
<1> USE DEF OrderInv, ResumeInv, IndexInv, Inv
<1> DEFINE c == cur[p]
           s == PositionOf(c)
<1>1. UNCHANGED lock /\ lock \in Process
  BY DEF Growing, WriteAccessUnit, WriteLastAccessUnit, WriteFails, CloseMuxer,
         LockExclusion
<1>2. CASE Recorded' = Recorded /\ \A r \in Recorded : disk'[r] = disk[r]
  BY <1>1, <1>2, SameArchive
<1>3. CASE /\ LastFile(c)
           /\ c \in Record
           /\ Recorded' = Recorded \cup {c}
           /\ \A r \in Recorded \ {c} : disk'[r] = disk[r]
           /\ disk'[c] \in Nat \ {0} /\ disk'[c] >= disk[c]
  <2>1. /\ DOMAIN ArchiveOnDisk = {PositionOf(r) : r \in Recorded}
        /\ \A r \in Recorded : ArchiveOnDisk[PositionOf(r)] = disk[r]
    BY ArchiveOf DEF Stored
  <2>2. /\ DOMAIN ArchiveOnDisk' = {PositionOf(r) : r \in Recorded'}
        /\ \A r \in Recorded' : ArchiveOnDisk'[PositionOf(r)] = disk'[r]
    BY ArchiveOfNext DEF Stored
  <2>3. /\ s \in Position
        /\ \A r \in Recorded : PositionOf(r) \in Position
    BY <1>3, PositionOfTyped, RecordedTyped
  <2>4. \A r \in Recorded :
          r # c => Before(PositionOf(r), s) /\ PositionOf(r) # s
    BY <1>3, <2>3, Irreflexive DEF LastFile
  <2> HIDE DEF OrderInv, ResumeInv, IndexInv, Inv, c, s
  <2>5. Archive!Last(s)
    BY <2>1, <2>4 DEF Archive!Last, s
  <2>6. DOMAIN ArchiveOnDisk' = DOMAIN ArchiveOnDisk \cup {s}
    BY <1>3, <2>1, <2>2 DEF s
  <2>7. \A t \in DOMAIN ArchiveOnDisk \ {s} : ArchiveOnDisk'[t] = ArchiveOnDisk[t]
    BY <1>3, <2>1, <2>2, <2>4 DEF s
  <2>8. ArchiveOnDisk'[s] = disk'[c]
    BY <1>3, <2>2 DEF s
  <2>9. s \in DOMAIN ArchiveOnDisk => ArchiveOnDisk[s] = disk[c]
    BY <2>1, <2>4 DEF s
  <2> QED
    BY <1>1, <1>3, <2>3, <2>5, <2>6, <2>7, <2>8, <2>9 DEF Archive!Extend
<1> QED
  BY <1>2, <1>3, GrownData

LEMMA StepArchive ==
  ASSUME OrderInv, OrderInv', [Next]_vars
  PROVE  [Archive!Next]_<<ArchiveOnDisk, lock>>
<1> USE DEF OrderInv, ResumeInv, IndexInv, Inv
<1>1. ASSUME NEW p \in Process, Growing(p)
      PROVE  [Archive!Next]_<<ArchiveOnDisk, lock>>
  BY <1>1, GrowingExtends DEF Archive!Next
<1>2. ASSUME NEW p \in Process, Quiet(p)
      PROVE  [Archive!Next]_<<ArchiveOnDisk, lock>>
  <2>1. ArchiveOnDisk' = ArchiveOnDisk
    BY <1>2, QuietData, SameArchive
  <2>2. CASE Start(p)
    <3>1. Archive!Acquire
      BY <2>1, <2>2 DEF Start, Lockable, Archive!Acquire
    <3> QED
      BY <3>1 DEF Archive!Next
  <2>3. CASE ReleaseLock(p) \/ Crash(p)
    <3>1. lock = p /\ lock' \in {Nobody, OrphanedBackend}
      BY <2>3
         DEF LockExclusion, ReleaseLock, Crash, UnlockedByClose
    <3>2. Archive!Release
      BY <2>1, <3>1, StorageRecorderAssumption DEF Archive!Release
    <3> QED
      BY <3>2 DEF Archive!Next
  <2>4. CASE UNCHANGED lock
    BY <2>1, <2>4
  <2> QED
    BY <1>2, <2>2, <2>3, <2>4
       DEF Quiet, LoadIndex, RecoverIndex, CreateIndex, IndexesExhausted,
         LoadFails, ChoosePath, PathsExhausted, ReserveRecord, ReserveFails,
         AppendRecord, AppendFails, BeginSave, StageIndex, PublishIndex,
         SaveFails, OpenSegment, OpenSegmentFails, LaunchBackend, BackendExits
<1>3. CASE OrphanExits
  <2>1. ArchiveOnDisk' = ArchiveOnDisk
    BY <1>3, SameArchive DEF Recorded, OrphanExits, diskVars
  <2>2. Archive!Release
    BY <1>3, <2>1, StorageRecorderAssumption DEF OrphanExits, Archive!Release
  <2> QED
    BY <2>2 DEF Archive!Next
<1>4. CASE DamageIndex \/ EditSettings \/ UNCHANGED vars
  <2>1. UNCHANGED <<disk, lock>>
    BY <1>4 DEF DamageIndex, EditSettings, vars, procVars
  <2> QED
    BY <2>1, SameArchive DEF Recorded
<1> QED
  BY <1>1, <1>2, <1>3, <1>4 DEF Next, Proceed, Fault, Quiet, Growing

\* Managed storage (StorageRecorder and StorageIndex) is an append-only archive
\* with one recorder at a time, whatever is killed, fails, is damaged or edited:
\* recording goes on at a later position, and a segment, once begun, is never
\* removed, shortened or followed by another of the same position.
THEOREM RecordingsAreArchived == Spec => ImplementsArchive
<1>1. OrderInv /\ [Next]_vars => OrderInv'
  BY StepOrder
<1>2. OrderInv /\ OrderInv' /\ [Next]_vars
        => [Archive!Next]_<<ArchiveOnDisk, lock>>
  BY StepArchive
<1> QED
  BY InitOrder, InitArchive, <1>1, <1>2, PTL
     DEF Spec, ImplementsArchive, Archive!Spec
=============================================================================
