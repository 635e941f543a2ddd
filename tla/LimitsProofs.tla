---------------------------- MODULE LimitsProofs ----------------------------
(***************************************************************************)
(* How far a segment can exceed its configured size, for any sizes of      *)
(* access units and of the buffer of FFmpeg, and how many files a folder   *)
(* can get, however often the index is lost.                               *)
(***************************************************************************)
EXTENDS ArchiveProofs, FiniteSetTheorems

-----------------------------------------------------------------------------
(* The size of a segment                                                   *)

\* No access unit is larger than unit.
Largest(unit) == unit \in AccessUnitSize /\ \A u \in AccessUnitSize : u <= unit

\* rotate_if_needed has found the flushed part of the segment too small when
\* the next access unit is written; after the last unit the segment may be
\* full, and whatever ends it adds at most what was buffered.
Sized(p, unit) ==
  /\ pc[p] = "named" => cur[p] \notin DOMAIN disk
  /\ buffered[p] <= BufferSize
  /\ pc[p] = "recording" => disk[cur[p]] < index[p].size
  /\ pc[p] \in {"between", "failed", "closing"} /\ cur[p] \in DOMAIN disk
       => disk[cur[p]] + buffered[p] < index[p].size + BufferSize + unit

AllSized(unit) == \A p \in Process : Sized(p, unit)

LEMMA Numbers ==
  ASSUME Inv, NEW p \in Process, NEW unit, Largest(unit)
  PROVE  /\ index[p].size \in Nat \ {0}
         /\ BufferSize \in Nat
         /\ unit \in Nat \ {0}
         /\ buffered[p] \in Nat
         /\ cur[p] \in DOMAIN disk => disk[cur[p]] \in Nat /\ cur[p] \in Record
         /\ NoRecord \notin DOMAIN disk
  BY StorageRecorderAssumption DEF Inv, TypeOK, IndexObject, Largest

\* An instance that is not running has no segment.
LEMMA IdleSized ==
  ASSUME Inv, NEW q \in Process, pc[q] = "off", NEW unit
  PROVE  Sized(q, unit)
<1>1. buffered[q] = 0
  BY DEF Inv, CurrentRecords, CurrentRecord
<1> QED
  BY <1>1, StorageRecorderAssumption DEF Sized

LEMMA OneSized ==
  ASSUME Inv, Inv', NEW unit, NEW p \in Process,
         pc[p] # "off" \/ lock = Nobody,
         \A q \in Process : q # p => pc'[q] = pc[q],
         Sized(p, unit)'
  PROVE  AllSized(unit)'
<1> SUFFICES ASSUME NEW q \in Process, q # p
             PROVE  Sized(q, unit)'
  BY DEF AllSized
<1>1. pc[q] = "off"
  BY StorageRecorderAssumption DEF Inv, LockExclusion
<1>2. pc'[q] = "off" /\ buffered'[q] = 0
  BY <1>1 DEF Inv, CurrentRecords, CurrentRecord
<1> QED
  BY <1>2, StorageRecorderAssumption DEF Sized

\* Steps that concern neither the segment nor the settings.
LEMMA QuietSized ==
  ASSUME Inv, NEW unit, Largest(unit), AllSized(unit), NEW p \in Process,
         \/ IndexesExhausted(p) \/ PathsExhausted(p) \/ BeginSave(p)
         \/ StageIndex(p) \/ PublishIndex(p) \/ LaunchBackend(p)
         \/ LoadFails(p) \/ OpenSegmentFails(p) \/ BackendExits(p)
  PROVE  Sized(p, unit)'
<1>1. UNCHANGED <<disk, cur, buffered, index>>
  BY DEF IndexesExhausted, PathsExhausted, BeginSave, StageIndex, PublishIndex,
         LaunchBackend, LoadFails, OpenSegmentFails, BackendExits, diskVars
<1>2. \/ pc' = pc
      \/ pc'[p] \in {"writing", "staged", "saved"}
      \/ pc'[p] \in {"between", "failed"} /\ cur[p] = NoRecord
      \/ pc'[p] = "failed" /\ pc[p] = "between"
      \/ pc'[p] = "failed" /\ cur[p] \in DOMAIN disk /\ disk[cur[p]] = 0
         /\ buffered[p] = 0
  BY DEF IndexesExhausted, PathsExhausted, BeginSave, StageIndex, PublishIndex,
         LaunchBackend, LoadFails, OpenSegmentFails, BackendExits, Goto,
         Inv, TypeOK, CurrentRecords, CurrentRecord, HasPlaceholder
<1> QED
  BY <1>1, <1>2, Numbers DEF AllSized, Sized

LEMMA LoadSized ==
  ASSUME Inv, NEW unit, Largest(unit), AllSized(unit), NEW p \in Process,
         Start(p) \/ LoadIndex(p) \/ RecoverIndex(p) \/ CreateIndex(p)
  PROVE  Sized(p, unit)'
<1>1. /\ UNCHANGED <<disk, cur, buffered>>
      /\ cur[p] = NoRecord
      /\ pc'[p] \in {"locked", "between", "saving"}
  BY DEF Start, LoadIndex, RecoverIndex, CreateIndex, Goto, diskVars,
         Inv, TypeOK, CurrentRecords, CurrentRecord
<1> QED
  BY <1>1, Numbers DEF AllSized, Sized

\* Up to open(), the record is empty.
LEMMA ReserveSized ==
  ASSUME Inv, NEW unit, Largest(unit), AllSized(unit), NEW p \in Process,
         \/ ChoosePath(p) \/ ReserveRecord(p) \/ ReserveFails(p)
         \/ AppendRecord(p) \/ AppendFails(p) \/ SaveFails(p)
  PROVE  Sized(p, unit)'
<1>1. buffered'[p] = buffered[p] /\ buffered[p] = 0
  BY DEF ChoosePath, ReserveRecord, ReserveFails, AppendRecord, AppendFails,
         SaveFails, Inv, CurrentRecords, CurrentRecord
<1>2. CASE ChoosePath(p)
  BY <1>1, <1>2, Numbers DEF ChoosePath, Goto, FreshPath, Inv, TypeOK, Sized
<1>3. CASE ReserveRecord(p) \/ AppendRecord(p)
  BY <1>1, <1>3, Numbers
     DEF ReserveRecord, AppendRecord, Goto, Inv, TypeOK, Sized
<1>4. CASE ReserveFails(p)
  <2>1. /\ pc'[p] = "failed"
        /\ index'[p] = index[p] /\ cur'[p] = cur[p]
        /\ disk' = disk \/ disk' = WithFile(cur[p], 0)
        /\ pc[p] \in {"between", "named"}
    BY <1>4 DEF ReserveFails, Goto, Inv, TypeOK
  <2>2. CASE disk' = WithFile(cur[p], 0)
    <3>1. disk'[cur[p]] = 0
      BY <2>2, WithFileTyped
    <3> QED
      BY <1>1, <2>1, <3>1, Numbers DEF Sized
  <2>3. CASE disk' = disk
    BY <1>1, <2>1, <2>3, Numbers DEF AllSized, Sized
  <2> QED
    BY <2>1, <2>2, <2>3
<1>5. CASE AppendFails(p) \/ SaveFails(p)
  <2>1. /\ pc'[p] = "failed"
        /\ index'[p] = index[p] /\ cur'[p] = cur[p]
        /\ disk' = disk \/ disk' = WithoutFile(cur[p])
        /\ cur[p] # NoRecord => disk[cur[p]] = 0
    BY <1>5, Numbers
       DEF AppendFails, SaveFails, Goto, Inv, TypeOK, CurrentRecords,
           CurrentRecord, HasPlaceholder
  <2>2. CASE disk' = WithoutFile(cur[p])
    <3>1. cur[p] \notin DOMAIN disk'
      BY <2>2, WithoutFileTyped
    <3> QED
      BY <1>1, <2>1, <3>1, Numbers DEF Sized
  <2>3. CASE disk' = disk
    BY <1>1, <2>1, <2>3, Numbers DEF Sized
  <2> QED
    BY <2>1, <2>2, <2>3
<1> QED
  BY <1>2, <1>3, <1>4, <1>5

LEMMA OpenSized ==
  ASSUME Inv, NEW unit, Largest(unit), AllSized(unit), NEW p \in Process,
         OpenSegment(p)
  PROVE  Sized(p, unit)'
<1>1. /\ disk' = WithFile(cur[p], 0)
      /\ cur'[p] = cur[p] /\ index'[p] = index[p]
      /\ buffered'[p] = 0
      /\ pc'[p] = "recording"
  BY DEF OpenSegment, Goto, Inv, TypeOK, CurrentRecords, CurrentRecord
<1>2. disk'[cur[p]] = 0
  BY <1>1, WithFileTyped
<1> QED
  BY <1>1, <1>2, Numbers DEF Sized

LEMMA WriteSized ==
  ASSUME Inv, NEW unit, Largest(unit), AllSized(unit), NEW p \in Process,
         WriteAccessUnit(p) \/ WriteLastAccessUnit(p) \/ WriteFails(p)
  PROVE  Sized(p, unit)'
<1>1. /\ pc[p] = "recording" /\ cur[p] \in DOMAIN disk
      /\ disk[cur[p]] < index[p].size
      /\ buffered[p] <= BufferSize
      /\ cur'[p] = cur[p] /\ index'[p] = index[p]
  BY CurrentFacts DEF AllSized, Sized, WriteAccessUnit, WriteLastAccessUnit,
                      WriteFails
<1>2. CASE WriteAccessUnit(p)
  <2>1. PICK u \in AccessUnitSize, kept \in 0 .. BufferSize :
          Grown(p, u, kept)
    BY <1>2 DEF WriteAccessUnit
  <2>2. buffered'[p] = kept /\ kept <= BufferSize
    BY <2>1, Numbers DEF Grown, Inv, TypeOK
  <2>3. disk'[cur[p]] < index[p].size
    <3>1. disk'[cur[p]] \in Nat
      BY <1>1, <2>1, UnitTyped, GrownTyped DEF Inv, DiskTyped
    <3> QED
      BY <1>2, <3>1, Numbers DEF WriteAccessUnit, SegmentFull
  <2> QED
    BY <1>1, <1>2, <2>2, <2>3 DEF WriteAccessUnit, Sized
<1>3. CASE WriteLastAccessUnit(p)
  <2>1. PICK u \in AccessUnitSize :
          disk' = WithFile(cur[p], disk[cur[p]] + buffered[p] + u)
    BY <1>3 DEF WriteLastAccessUnit
  <2>2. buffered'[p] = 0 /\ pc'[p] = "between"
    BY <1>3 DEF WriteLastAccessUnit, Goto, Inv, TypeOK
  <2>3. disk'[cur[p]] = disk[cur[p]] + buffered[p] + u /\ u \in Nat /\ u <= unit
    BY <2>1, WithFileTyped, UnitTyped DEF Largest
  <2> QED
    BY <1>1, <2>2, <2>3, Numbers DEF Sized
<1>4. CASE WriteFails(p)
  <2>1. PICK u \in {0} \cup AccessUnitSize, kept \in 0 .. BufferSize :
          Grown(p, u, kept)
    BY <1>4 DEF WriteFails
  <2>2. buffered'[p] = kept /\ kept \in Nat /\ kept <= BufferSize
        /\ pc'[p] = "failed"
    BY <1>4, <2>1, Numbers DEF Grown, WriteFails, Goto, Inv, TypeOK
  <2>3. u \in Nat /\ u <= unit
    BY UnitTyped, Numbers DEF Largest
  <2>4. disk'[cur[p]] = disk[cur[p]] + buffered[p] + u - kept
    BY <2>1, WithFileTyped DEF Grown
  <2> QED
    BY <1>1, <2>2, <2>3, <2>4, Numbers DEF Sized
<1> QED
  BY <1>2, <1>3, <1>4

LEMMA CloseSized ==
  ASSUME Inv, NEW unit, Largest(unit), AllSized(unit), NEW p \in Process,
         CloseMuxer(p)
  PROVE  Sized(p, unit)'
<1>1. /\ pc[p] \in {"recording", "failed"} /\ pc'[p] = "closing"
      /\ cur'[p] = cur[p] /\ index'[p] = index[p]
      /\ buffered'[p] = 0
      /\ disk' = IF buffered[p] = 0 THEN disk
                 ELSE WithFile(cur[p], disk[cur[p]] + buffered[p])
  BY DEF CloseMuxer, Goto, Inv, TypeOK
<1>2. cur[p] \in DOMAIN disk =>
        disk[cur[p]] + buffered[p] < index[p].size + BufferSize + unit
  BY <1>1, Numbers DEF AllSized, Sized
<1>3. CASE buffered[p] = 0
  BY <1>1, <1>2, <1>3, Numbers DEF Sized
<1>4. CASE buffered[p] # 0
  <2>1. cur[p] \in DOMAIN disk
    BY <1>4, CurrentFacts
  <2>2. disk'[cur[p]] = disk[cur[p]] + buffered[p]
    BY <1>1, <1>4, WithFileTyped
  <2> QED
    BY <1>1, <1>2, <2>1, <2>2, Numbers DEF Sized
<1> QED
  BY <1>3, <1>4

LEMMA GoneSized ==
  ASSUME Inv, NEW unit, NEW p \in Process, ReleaseLock(p) \/ Crash(p)
  PROVE  Sized(p, unit)'
  BY StorageRecorderAssumption
     DEF ReleaseLock, Crash, Gone, Goto, Inv, TypeOK, Sized

LEMMA StepSized ==
  ASSUME Inv, NEW unit, Largest(unit), AllSized(unit), [Next]_vars
  PROVE  AllSized(unit)'
<1>1. ASSUME NEW p \in Process,
             \/ Start(p) \/ Proceed(p) \/ Fault(p) \/ WriteAccessUnit(p)
             \/ WriteLastAccessUnit(p) \/ Crash(p)
      PROVE  AllSized(unit)'
  <2>1. Sized(p, unit)'
    BY <1>1, QuietSized, LoadSized, ReserveSized, OpenSized, WriteSized,
       CloseSized, GoneSized DEF Proceed, Fault
  <2>2. \A q \in Process : q # p => pc'[q] = pc[q]
    BY <1>1
       DEF Inv, TypeOK, Proceed, Fault, Start, LoadIndex, RecoverIndex,
           CreateIndex, IndexesExhausted, ChoosePath, PathsExhausted,
           ReserveRecord, AppendRecord, AppendFails, BeginSave, StageIndex,
           PublishIndex, OpenSegment, LaunchBackend, CloseMuxer, ReleaseLock,
           LoadFails, ReserveFails, SaveFails, OpenSegmentFails, WriteFails,
           WriteAccessUnit, WriteLastAccessUnit, Crash, Gone, Goto
  <2>3. pc[p] # "off" \/ lock = Nobody
    BY <1>1
       DEF Proceed, Fault, Start, Lockable, LoadIndex, RecoverIndex,
           CreateIndex, IndexesExhausted, ChoosePath, PathsExhausted,
           ReserveRecord, AppendRecord, AppendFails, BeginSave, StageIndex,
           PublishIndex, OpenSegment, LaunchBackend, CloseMuxer, ReleaseLock,
           LoadFails, ReserveFails, SaveFails, OpenSegmentFails, WriteFails,
           WriteAccessUnit, WriteLastAccessUnit, Crash
  <2>4. Inv'
    BY StepInv
  <2> QED
    BY <2>1, <2>2, <2>3, <2>4, OneSized
<1>2. CASE UNCHANGED <<pc, cur, disk, buffered, index>>
  BY <1>2 DEF AllSized, Sized
<1> QED
  BY <1>1, <1>2
     DEF Next, BackendExits, OrphanExits, DamageIndex, EditSettings, vars,
         diskVars, procVars

\* A segment ends less than the AVIO buffer and one access unit beyond the
\* configured size (rotate_if_needed), even when a write of it has failed.
THEOREM SegmentSizeBounded == Spec => []SegmentWithinBuffer
<1>1. ASSUME NEW unit, Largest(unit)
      PROVE  Init => AllSized(unit)
  BY StorageRecorderAssumption DEF Init, AllSized, Sized
<1> DEFINE Limits == \A unit : Largest(unit) => AllSized(unit)
<1>2. Init => Limits
  BY <1>1
<1>3. Inv /\ Limits /\ [Next]_vars => Limits'
  <2> SUFFICES ASSUME Inv, Limits, [Next]_vars, NEW unit, Largest(unit)'
               PROVE  AllSized(unit)'
    OBVIOUS
  <2>1. Largest(unit)
    BY DEF Largest
  <2> QED
    BY <2>1, StepSized
<1>4. Inv /\ Limits => SegmentWithinBuffer
  <2> SUFFICES ASSUME Inv, Limits, NEW unit \in AccessUnitSize, Largest(unit),
                      NEW p \in Process, cur[p] \in DOMAIN disk,
                      pc[p] \in {"recording", "closing"} \cup Settled
               PROVE  ~(disk[cur[p]] + buffered[p]
                          >= index[p].size + (BufferSize + unit))
    BY DEF SegmentWithinBuffer, Exceeding, Largest
  <2>1. Sized(p, unit)
    BY DEF AllSized
  <2>2. CASE pc[p] \in {"between", "closing", "recording", "named"}
    BY <2>1, <2>2, Numbers DEF Sized
  <2>3. CASE pc[p] \in {"reserved", "saved"}
    <3>1. disk[cur[p]] = 0 /\ buffered[p] = 0
      BY <2>3 DEF Inv, CurrentRecords, CurrentRecord, HasPlaceholder
    <3> QED
      BY <3>1, Numbers
  <2> QED
    BY <2>2, <2>3 DEF Settled
<1> HIDE DEF Limits
<1> QED
  BY <1>2, <1>3, <1>4, Invariance, PTL DEF Spec

-----------------------------------------------------------------------------
(* The files of a folder                                                   *)

\* The folder of the next record has as much room as EndRoom asks for.
NextRoom(files, object) ==
  Cardinality(Data(files, object.next.folder))
    < DefaultMaxFileNum
        + (IF object.records # <<>>
                /\ LastFolder(object.records) = object.next.folder
             THEN FilesOf(object.records) ELSE 0)

\* So will the folder of the record c, the last one listed, have.
CurrentRoom(files, records, c) ==
  /\ FilesOf(records) <= DefaultMaxFileNum
  /\ Cardinality(Data(files, c.folder) \ {c}) + 1
       < DefaultMaxFileNum + FilesOf(records)

LEMMA DataFinite ==
  ASSUME NEW files, IsFiniteSet(files), NEW f
  PROVE  IsFiniteSet(Data(files, f)) /\ Cardinality(Data(files, f)) \in Nat
<1>1. Data(files, f) \in SUBSET files
  BY DEF Data
<1> QED
  BY <1>1, FS_Subset, FS_CardinalityType

LEMMA CountTyped ==
  ASSUME NEW records \in Seq(Record), NEW i \in 1 .. Len(records)
  PROVE  CountUpTo(records, i) \in Nat \ {0}
<1> DEFINE same == {j \in 1 .. i : records[j].folder = records[i].folder}
<1>1. i \in Int /\ IsFiniteSet(1 .. i)
  BY FS_Interval
<1>2. same \in SUBSET (1 .. i)
  OBVIOUS
<1>3. IsFiniteSet(same) /\ Cardinality(same) \in Nat
  <2> HIDE DEF same
  <2> QED
    BY <1>1, <1>2, FS_Subset, FS_CardinalityType
<1>4. i \in same
  OBVIOUS
<1>5. Cardinality(same) # 0
  <2> HIDE DEF same
  <2> QED
    BY <1>3, <1>4, FS_EmptySet
<1> QED
  BY <1>3, <1>5 DEF CountUpTo

LEMMA FilesTyped ==
  ASSUME NEW records \in Seq(Record), records # <<>>
  PROVE  FilesOf(records) \in Nat \ {0}
<1>1. Len(records) \in 1 .. Len(records)
  OBVIOUS
<1> QED
  BY <1>1, CountTyped DEF FilesOf

\* A record that is appended in the last folder is one file more.
LEMMA FilesAppended ==
  ASSUME NEW records \in Seq(Record), records # <<>>, NEW c \in Record,
         c.folder = LastFolder(records)
  PROVE  FilesOf(Append(records, c)) = FilesOf(records) + 1
<1> DEFINE n    == Len(records)
           t    == Append(records, c)
           same == {j \in 1 .. n : records[j].folder = records[n].folder}
<1>1. n \in Nat /\ n # 0 /\ Len(t) = n + 1 /\ t[n + 1] = c
      /\ \A j \in 1 .. n : t[j] = records[j]
  OBVIOUS
<1>2. {j \in 1 .. n + 1 : t[j].folder = t[n + 1].folder} = same \cup {n + 1}
  BY <1>1 DEF LastFolder
<1>3. IsFiniteSet(same) /\ n + 1 \notin same
  <2>1. same \in SUBSET (1 .. n) /\ n + 1 \notin 1 .. n
    BY <1>1
  <2> HIDE DEF same, n
  <2>2. IsFiniteSet(1 .. n)
    BY <1>1, FS_Interval
  <2> QED
    BY <2>1, <2>2, FS_Subset
<1>4. Cardinality(same \cup {n + 1}) = Cardinality(same) + 1
  <2> HIDE DEF same, n
  <2> QED
    BY <1>3, FS_AddElement
<1> QED
  BY <1>1, <1>2, <1>4 DEF FilesOf, CountUpTo

\* There is room after an index that covers the data.
LEMMA RoomAfter ==
  ASSUME NEW files \in SUBSET Record, NEW object \in IndexObject,
         IsFiniteSet(files),
         Covers(object.records, files), EndRoom(files, object.records),
         object.next = NextOf(object.records, object.max)
  PROVE  NextRoom(files, object)
<1> DEFINE records == object.records
           last    == records[Len(records)]
<1>1. records \in Seq(Record) /\ DefaultMaxFileNum \in Nat \ {0}
  BY StorageIndexAssumption DEF IndexObject
<1>2. CASE Data(files, object.next.folder) = {}
  <2>1. Cardinality(Data(files, object.next.folder)) = 0
    BY <1>2, FS_EmptySet
  <2>2. records # <<>> => FilesOf(records) \in Nat \ {0}
    BY <1>1, FilesTyped
  <2> QED
    BY <1>1, <2>1, <2>2 DEF NextRoom
<1>3. CASE Data(files, object.next.folder) # {}
  <2>1. PICK r \in files : r.folder = object.next.folder
    BY <1>3 DEF Data
  <2>2. records # <<>> /\ ~Before(PositionOf(last), PositionOf(r))
    BY <2>1 DEF Covers
  <2>3. last \in Record /\ r \in Record
    BY <1>1, <2>1, <2>2
  <2>4. object.next = NextAfter(records, Len(records), object.max)
    BY <2>2 DEF NextOf
  <2>5. object.next.folder \in {last.folder, last.folder + 1}
    BY <2>4 DEF NextAfter, Advance, PositionOf
  <2>6. r.folder <= last.folder /\ last.folder \in Int /\ r.folder \in Int
    BY <2>2, <2>3, StorageIndexAssumption DEF Before, PositionOf, Record, Index
  <2>7. object.next.folder = last.folder
    BY <2>1, <2>5, <2>6
  <2> QED
    BY <2>2, <2>7 DEF NextRoom, EndRoom, LastFolder
<1> QED
  BY <1>2, <1>3

\* append_record takes no more than there is room for.
LEMMA AppendRoom ==
  ASSUME NEW files \in SUBSET Record, IsFiniteSet(files),
         NEW object \in IndexObject, NEW c \in Record, c \notin files,
         object.max <= DefaultMaxFileNum,
         NextRoom(files, object), AppendAccepted(object, c)
  PROVE  CurrentRoom(files, Append(object.records, c), c)
<1> DEFINE s == object.records
           t == Append(s, c)
<1>1. /\ s \in Seq(Record) /\ t \in Seq(Record) /\ t # <<>>
      /\ DefaultMaxFileNum \in Nat /\ object.max \in Nat
  BY StorageIndexAssumption DEF IndexObject
<1>2. FilesOf(t) \in Nat \ {0} /\ FilesOf(t) <= object.max
  BY <1>1, FilesTyped DEF AppendAccepted, FilesOf
<1>3. object.next.folder = c.folder
  BY DEF AppendAccepted, PositionOf
<1>4. Data(files, c.folder) \ {c} = Data(files, c.folder)
  BY DEF Data
<1>5. Cardinality(Data(files, c.folder)) \in Nat
  BY DataFinite
<1>6. FilesOf(t) <= DefaultMaxFileNum
  BY <1>1, <1>2
<1> HIDE DEF s, t
<1>7. SUFFICES Cardinality(Data(files, c.folder)) + 1
                 < DefaultMaxFileNum + FilesOf(t)
  BY <1>4, <1>6, Zenon DEF CurrentRoom, t, s
<1>8. CASE s # <<>> /\ LastFolder(s) = c.folder
  <2>1. FilesOf(t) = FilesOf(s) + 1 /\ FilesOf(s) \in Nat
    BY <1>1, <1>8, FilesAppended, FilesTyped DEF t
  <2>2. Cardinality(Data(files, c.folder)) < DefaultMaxFileNum + FilesOf(s)
    BY <1>3, <1>8 DEF NextRoom, s
  <2> QED
    BY <1>1, <1>2, <1>5, <2>1, <2>2
<1>9. CASE ~(s # <<>> /\ LastFolder(s) = c.folder)
  <2>1. Cardinality(Data(files, c.folder)) < DefaultMaxFileNum
    BY <1>1, <1>3, <1>9 DEF NextRoom, s
  <2> QED
    BY <1>1, <1>2, <1>5, <2>1
<1> QED
  BY <1>8, <1>9

\* The record with data is within that room, and the folder within its bound.
LEMMA GrownRoom ==
  ASSUME NEW files \in SUBSET Record, IsFiniteSet(files),
         NEW records \in Seq(Record), NEW c \in Record, EndsWith(records, c),
         CurrentRoom(files, records, c)
  PROVE  /\ EndRoom(files \cup {c}, records)
         /\ CurrentRoom(files \cup {c}, records, c)
         /\ Cardinality(Data(files \cup {c}, c.folder)) < 2 * DefaultMaxFileNum
<1> DEFINE others == Data(files, c.folder) \ {c}
<1>1. /\ records # <<>> /\ LastFolder(records) = c.folder
      /\ DefaultMaxFileNum \in Nat
  BY StorageIndexAssumption DEF EndsWith, LastFolder, PositionOf
<1>2. FilesOf(records) \in Nat
  BY <1>1, FilesTyped
<1>3. Data(files \cup {c}, c.folder) = others \cup {c}
  BY DEF Data
<1>4. Data(files \cup {c}, c.folder) \ {c} = others
  BY DEF Data
<1>5. IsFiniteSet(others) /\ c \notin others
  BY DataFinite, FS_RemoveElement
<1> HIDE DEF others
<1>6. Cardinality(others \cup {c}) = Cardinality(others) + 1
      /\ Cardinality(others) \in Nat
  BY <1>5, FS_AddElement, FS_CardinalityType
<1>7. /\ FilesOf(records) <= DefaultMaxFileNum
      /\ Cardinality(others) + 1 < DefaultMaxFileNum + FilesOf(records)
  BY DEF CurrentRoom, others
<1> DEFINE count == Cardinality(Data(files \cup {c}, c.folder))
<1>8. count = Cardinality(others) + 1
  BY <1>3, <1>6
<1> HIDE DEF count
<1>9. count < DefaultMaxFileNum + FilesOf(records)
  BY <1>7, <1>8
<1>10. EndRoom(files \cup {c}, records)
  BY <1>1, <1>9 DEF EndRoom, count
<1>11. CurrentRoom(files \cup {c}, records, c)
  BY <1>4, <1>7, Zenon DEF CurrentRoom
<1>12. count < 2 * DefaultMaxFileNum
  BY <1>1, <1>2, <1>6, <1>7, <1>9, <1>8
<1> QED
  BY <1>10, <1>11, <1>12 DEF count

-----------------------------------------------------------------------------
(* The scan                                                                *)

FiniteStorage == IsFiniteSet(DOMAIN disk) /\ IsFiniteSet(legacy.files)

LEMMA RecordedFinite ==
  ASSUME FiniteStorage
  PROVE  IsFiniteSet(Recorded)
<1>1. Recorded \in SUBSET DOMAIN disk
  BY DEF Recorded
<1> QED
  BY <1>1, FS_Subset DEF FiniteStorage

\* No folder has data.
LEMMA EmptyRoom ==
  ASSUME NEW files, NEW f, Data(files, f) = {}
  PROVE  Cardinality(Data(files, f)) < DefaultMaxFileNum
  BY FS_EmptySet, StorageIndexAssumption

\* scan_storage goes on in the highest folder only if that has less than the
\* maximum of files.
LEMMA ScanRoom ==
  ASSUME TypeOK, Stored, FiniteStorage,
         NEW max \in Nat, max <= DefaultMaxFileNum, NEW next \in Scan(max)
  PROVE  Cardinality(Data(Recorded, next.folder)) < DefaultMaxFileNum
<1> DEFINE folders == dirs \cup legacy.dirs
<1>1. /\ \A r \in Recorded : r \in DOMAIN disk /\ r.folder \in folders
      /\ Recorded \subseteq Record
      /\ folders \in SUBSET Index
      /\ DefaultMaxFileNum \in Nat
  BY StorageIndexAssumption DEF Stored, Recorded, TypeOK
<1>2. CASE folders = {}
  <2>1. Data(Recorded, next.folder) = {}
    BY <1>1, <1>2 DEF Data
  <2> QED
    BY <2>1, EmptyRoom
<1>3. CASE folders # {}
  <2>1. PICK top \in {f \in folders : \A g \in folders : g <= f} :
          LET inPadded   == {q \in DOMAIN disk : q.folder = top}
              inUnpadded == {q \in legacy.files : q.folder = top}
              found      == inPadded \cup inUnpadded
              count      == Cardinality(inPadded) + Cardinality(inUnpadded)
          IN next \in
               IF found = {} THEN {[folder |-> top, file |-> 0]}
               ELSE {Advance(PositionOf(q), count, max) :
                       q \in {q \in found :
                                /\ \A o \in found : o.file <= q.file
                                /\ CanAdvance(PositionOf(q), count, max)}}
    BY <1>3 DEF Scan, ScanNext
  <2> DEFINE inPadded   == {q \in DOMAIN disk : q.folder = top}
             inUnpadded == {q \in legacy.files : q.folder = top}
             count      == Cardinality(inPadded) + Cardinality(inUnpadded)
  <2>2. top \in Index /\ \A r \in Recorded : r.folder <= top /\ r.folder \in Index
    BY <1>1, <2>1
  <2>3. Data(Recorded, top) \subseteq inPadded
    BY <1>1 DEF Data
  <2>4. inPadded \in SUBSET DOMAIN disk /\ inUnpadded \in SUBSET legacy.files
    OBVIOUS
  <2>5. IsFiniteSet(inPadded) /\ IsFiniteSet(inUnpadded)
    <3> HIDE DEF inPadded, inUnpadded
    <3> QED
      BY <2>4, FS_Subset DEF FiniteStorage
  <2>6. /\ Cardinality(Data(Recorded, top)) \in Nat
        /\ Cardinality(Data(Recorded, top)) <= Cardinality(inPadded)
        /\ Cardinality(inPadded) \in Nat /\ Cardinality(inUnpadded) \in Nat
    <3> HIDE DEF inPadded, inUnpadded
    <3> QED
      BY <2>3, <2>5, FS_Subset, FS_CardinalityType
  <2>7. CASE inPadded \cup inUnpadded = {}
    <3>1. next.folder = top
      BY <2>1, <2>7
    <3>2. Data(Recorded, top) = {}
      BY <2>3, <2>7
    <3> QED
      BY <3>1, <3>2, EmptyRoom
  <2>8. CASE inPadded \cup inUnpadded # {}
    <3>1. PICK q \in inPadded \cup inUnpadded :
            next = Advance(PositionOf(q), count, max)
      BY <2>1, <2>8
    <3>2. PositionOf(q).folder = top
      BY DEF PositionOf
    <3>3. next.folder = IF count < max THEN top ELSE top + 1
      BY <3>1, <3>2 DEF Advance
    <3> HIDE DEF inPadded, inUnpadded
    <3>4. CASE count < max
      BY <1>1, <2>6, <3>3, <3>4
    <3>5. CASE ~(count < max)
      <4>1. Data(Recorded, next.folder) = {}
        BY <2>2, <3>3, <3>5, StorageIndexAssumption DEF Data, Index
      <4> QED
        BY <4>1, EmptyRoom
    <3> QED
      BY <3>4, <3>5
  <2> QED
    BY <2>7, <2>8
<1> QED
  BY <1>2, <1>3

-----------------------------------------------------------------------------
(* The invariant                                                           *)

LatestRoom ==
  \A n \in IndexNumber :
    IsLatest(n) /\ indexFile[n] # Corrupt =>
      /\ indexFile[n].max <= DefaultMaxFileNum
      /\ EndRoom(Recorded, indexFile[n].records)

SegmentRoom(c) ==
  \E n \in IndexNumber :
    IsLatest(n) /\ CurrentRoom(Recorded, indexFile[n].records, c)

Room(p) ==
  /\ pc[p] \in Working => index[p].max <= DefaultMaxFileNum
  /\ pc[p] \in {"between", "named", "reserved"} => NextRoom(Recorded, index[p])
  /\ pc[p] \in {"saving", "writing", "staged"} =>
       IF cur[p] = NoRecord
         THEN EndRoom(Recorded, index[p].records)
         ELSE CurrentRoom(Recorded, index[p].records, cur[p])
  /\ pc[p] \in {"saved", "recording"} \/ buffered[p] # 0 => SegmentRoom(cur[p])

FolderInv ==
  /\ OrderInv
  /\ FiniteStorage
  /\ legacy.index \notin {NoIndex, Corrupt}
       => legacy.index.max <= DefaultMaxFileNum
  /\ \A f \in Index : Cardinality(Data(Recorded, f)) < 2 * DefaultMaxFileNum
  /\ LatestRoom
  /\ \A p \in Process : Room(p)

LEMMA FolderFacts ==
  ASSUME FolderInv
  PROVE  /\ OrderInv /\ ResumeInv /\ IndexInv /\ Inv /\ TypeOK
         /\ Recorded \in SUBSET Record /\ IsFiniteSet(Recorded)
  BY RecordedFinite, RecordedTyped
     DEF FolderInv, OrderInv, ResumeInv, IndexInv, Inv

-----------------------------------------------------------------------------
(* Steps that add no data                                                  *)

\* The index that is renamed into place is the latest.
LEMMA PublishedLatest ==
  ASSUME OrderInv, NEW p \in Process, PublishIndex(p)
  PROVE  \E n \in IndexNumber : IsLatest(n)'
<1> USE DEF OrderInv, ResumeInv, IndexInv, Inv, TypeOK
<1> DEFINE k == index[p].number
<1>1. k \in IndexNumber
  BY NumberTyped
<1>2. /\ indexFile'[k] = ContentOf(index[p])
      /\ \A m \in IndexNumber : m # k => indexFile'[m] = indexFile[m]
      /\ \A m \in IndexNumber : indexFile[m] # NoIndex => m <= k
  BY <1>1 DEF OwnIndexes, OwnIndex, Working, PublishIndex
<1>3. ContentOf(index[p]) \in IndexContent
  BY DEF IndexObject, ContentOf, IndexContent
<1>4. indexFile'[k] # NoIndex
  BY <1>2, <1>3, StorageRecorderAssumption
<1>5. k <= k
  BY <1>1, StorageIndexAssumption DEF IndexNumber
<1>6. \A m \in IndexNumber : indexFile'[m] # NoIndex => m <= k
  BY <1>2, <1>5
<1> HIDE DEF k
<1> QED
  BY <1>1, <1>4, <1>6 DEF IsLatest

LEMMA LoadRoom ==
  ASSUME FolderInv, NEW p \in Process,
         LoadIndex(p) \/ RecoverIndex(p) \/ CreateIndex(p)
  PROVE  Room(p)'
<1>1. /\ OrderInv /\ Inv /\ TypeOK /\ Stored /\ FiniteStorage
      /\ Recorded \in SUBSET Record /\ IsFiniteSet(Recorded)
      /\ DefaultMaxFileNum \in Nat \ {0}
  BY FolderFacts, StorageIndexAssumption DEF FolderInv, OrderInv
<1>2. /\ Recorded' = Recorded
      /\ buffered'[p] = 0 /\ cur'[p] = NoRecord
  BY <1>1, QuietData
     DEF Quiet, LoadIndex, RecoverIndex, CreateIndex, Inv, CurrentRecords,
         CurrentRecord
<1>3. index'[p] \in IndexObject
  BY <1>1, LoadIndexInv, RecoverIndexInv, CreateIndexInv DEF Inv, TypeOK
<1>4. CASE LoadIndex(p)
  <2>1. PICK n \in IndexNumber :
          /\ IsLatest(n)
          /\ ValidIndex(indexFile[n])
          /\ index' = [index EXCEPT ![p] = Loaded(n, indexFile[n])]
          /\ Goto(p, IF indexFile[n].headed THEN "between" ELSE "saving")
    BY <1>4 DEF LoadIndex
  <2>2. index'[p] = Loaded(n, indexFile[n]) /\ pc'[p] \in {"between", "saving"}
    BY <1>1, <2>1 DEF Goto, TypeOK
  <2>3. /\ indexFile[n] # Corrupt
        /\ indexFile[n].max <= DefaultMaxFileNum
        /\ EndRoom(Recorded, indexFile[n].records)
        /\ Covers(indexFile[n].records, Recorded)
    BY <1>1, <2>1 DEF ValidIndex, FolderInv, LatestRoom, Stored
  <2>4. /\ index'[p].records = indexFile[n].records
        /\ index'[p].max = indexFile[n].max
        /\ index'[p].next = NextOf(indexFile[n].records, indexFile[n].max)
    BY <2>2 DEF Loaded
  <2>5. NextRoom(Recorded, index'[p])
    BY <1>1, <1>3, <2>3, <2>4, RoomAfter
  <2> QED
    BY <1>2, <2>2, <2>3, <2>4, <2>5 DEF Room, NextRoom, EndRoom
<1>5. ASSUME NEW max \in Nat, max <= DefaultMaxFileNum, NEW next \in Scan(max),
             index'[p].records = <<>>, index'[p].next = next
      PROVE  NextRoom(Recorded, index'[p])
  <2>1. Cardinality(Data(Recorded, next.folder)) < DefaultMaxFileNum
    BY <1>1, <1>5, ScanRoom
  <2> QED
    BY <1>1, <1>5, <2>1 DEF NextRoom
<1>6. CASE RecoverIndex(p)
  <2>1. PICK next \in Scan(DefaultMaxFileNum) :
          /\ index'[p].next = next /\ index'[p].records = <<>>
          /\ index'[p].max = DefaultMaxFileNum
    BY <1>1, <1>6 DEF RecoverIndex, Scanned, DefaultSettings, TypeOK
  <2>2. pc'[p] = "between"
    BY <1>1, <1>6 DEF RecoverIndex, Goto, TypeOK
  <2>3. NextRoom(Recorded, index'[p])
    BY <1>1, <1>5, <2>1
  <2> QED
    BY <1>1, <1>2, <2>1, <2>2, <2>3 DEF Room, NextRoom
<1>7. CASE CreateIndex(p)
  <2>1. PICK settings \in CreateSettings :
          \E next \in Scan(settings.max) :
            /\ index' = [index EXCEPT ![p] = Scanned(0, settings, next)]
            /\ Goto(p, IF next = Origin THEN "saving" ELSE "between")
    BY <1>7 DEF CreateIndex
  <2>2. PICK next \in Scan(settings.max) :
          /\ index' = [index EXCEPT ![p] = Scanned(0, settings, next)]
          /\ Goto(p, IF next = Origin THEN "saving" ELSE "between")
    BY <2>1
  <2>3. /\ index'[p].next = next /\ index'[p].records = <<>>
        /\ index'[p].max = settings.max
        /\ pc'[p] \in {"between", "saving"}
    BY <1>1, <2>2 DEF Scanned, Goto, TypeOK
  <2>4. settings.max \in Nat /\ settings.max <= DefaultMaxFileNum
    BY <1>1 DEF FolderInv, TypeOK, CreateSettings, DefaultSettings, Settings
  <2>5. NextRoom(Recorded, index'[p])
    BY <1>5, <2>3, <2>4
  <2> QED
    BY <1>2, <2>3, <2>4, <2>5 DEF Room, NextRoom, EndRoom
<1> QED
  BY <1>4, <1>6, <1>7

LEMMA RecordRoom ==
  ASSUME FolderInv, NEW p \in Process,
         \/ ChoosePath(p) \/ ReserveRecord(p) \/ BeginSave(p) \/ StageIndex(p)
         \/ OpenSegment(p)
  PROVE  Room(p)'
<1>1. Inv /\ OrderInv /\ Room(p)
  BY FolderFacts DEF FolderInv
<1>2. /\ Recorded' = Recorded
      /\ index'[p] = index[p] /\ UNCHANGED indexFile
      /\ buffered'[p] = buffered[p]
  BY <1>1, QuietData
     DEF Quiet, ChoosePath, ReserveRecord, BeginSave, StageIndex, OpenSegment
<1>3. CASE ChoosePath(p) \/ ReserveRecord(p)
  <2>1. /\ pc[p] \in {"between", "named"} /\ pc'[p] \in {"named", "reserved"}
        /\ buffered[p] = 0
    BY <1>1, <1>3
       DEF ChoosePath, ReserveRecord, Goto, Inv, TypeOK, CurrentRecords,
           CurrentRecord
  <2> QED
    BY <1>1, <1>2, <2>1 DEF Room, NextRoom, Working
<1>4. CASE BeginSave(p) \/ StageIndex(p)
  <2>1. /\ pc[p] \in {"saving", "writing"} /\ pc'[p] \in {"writing", "staged"}
        /\ buffered[p] = 0 /\ cur'[p] = cur[p]
    BY <1>1, <1>4
       DEF BeginSave, StageIndex, Goto, Inv, TypeOK, CurrentRecords,
           CurrentRecord
  <2> QED
    BY <1>1, <1>2, <2>1 DEF Room, EndRoom, CurrentRoom, Working
<1>5. CASE OpenSegment(p)
  <2>1. pc[p] = "saved" /\ pc'[p] = "recording" /\ cur'[p] = cur[p]
    BY <1>1, <1>5 DEF OpenSegment, Goto, Inv, TypeOK
  <2> QED
    BY <1>1, <1>2, <2>1 DEF Room, SegmentRoom, CurrentRoom, IsLatest, Working
<1> QED
  BY <1>3, <1>4, <1>5

LEMMA AppendedRoom ==
  ASSUME FolderInv, NEW p \in Process, AppendRecord(p)
  PROVE  Room(p)'
<1>1. /\ Inv /\ OrderInv /\ TypeOK /\ Room(p)
      /\ Recorded \in SUBSET Record /\ IsFiniteSet(Recorded)
  BY FolderFacts DEF FolderInv
<1>2. /\ pc[p] = "reserved" /\ pc'[p] = "saving" /\ cur'[p] = cur[p]
      /\ buffered'[p] = 0
      /\ index'[p] = Appended(index[p], cur[p])
      /\ AppendAccepted(index[p], cur[p])
      /\ index[p] \in IndexObject
      /\ cur[p] \in Record /\ disk[cur[p]] = 0
  BY <1>1, CurrentFacts
     DEF Inv, TypeOK, AppendRecord, Goto, CurrentRecords, CurrentRecord,
         HasPlaceholder
<1>3. /\ index'[p].records = Append(index[p].records, cur[p])
      /\ index'[p].max = index[p].max
  BY <1>2 DEF Appended, IndexObject
<1>4. Recorded' = Recorded /\ cur[p] \notin Recorded
  BY <1>1, <1>2, QuietData DEF Quiet, Recorded
<1>5. index[p].max <= DefaultMaxFileNum /\ NextRoom(Recorded, index[p])
  BY <1>1, <1>2 DEF Room, Working
<1>6. CurrentRoom(Recorded, index'[p].records, cur[p])
  BY <1>1, <1>2, <1>3, <1>4, <1>5, AppendRoom
<1>7. cur[p] # NoRecord
  BY <1>2, StorageRecorderAssumption
<1> QED
  BY <1>2, <1>3, <1>4, <1>5, <1>6, <1>7 DEF Room, CurrentRoom

\* The index that is renamed into place has room for its last record.
LEMMA PublishedRoom ==
  ASSUME FolderInv, NEW p \in Process, PublishIndex(p)
  PROVE  Room(p)' /\ LatestRoom'
<1>1. /\ Inv /\ OrderInv /\ ResumeInv /\ IndexInv /\ TypeOK /\ Room(p)
      /\ Ordered(p)
      /\ Recorded \in SUBSET Record /\ IsFiniteSet(Recorded)
      /\ DefaultMaxFileNum \in Nat
  BY FolderFacts, StorageIndexAssumption DEF FolderInv, OrderInv
<1>2. /\ pc[p] = "staged"
      /\ pc'[p] = IF cur[p] = NoRecord THEN "between" ELSE "saved"
      /\ cur'[p] = cur[p] /\ index'[p] = index[p]
      /\ buffered'[p] = 0
      /\ index[p] \in IndexObject
      /\ Recorded' = Recorded
  BY <1>1, QuietData
     DEF Quiet, TypeOK, PublishIndex, Goto, Inv, CurrentRecords, CurrentRecord
<1>3. index[p].max <= DefaultMaxFileNum
  BY <1>1, <1>2 DEF Room, Working
<1>4. /\ ContentOf(index[p]).records = index[p].records
      /\ ContentOf(index[p]).max = index[p].max
  BY DEF ContentOf
<1>5. EndRoom(Recorded, index[p].records)
  <2>1. CASE cur[p] = NoRecord
    BY <1>1, <1>2, <2>1 DEF Room
  <2>2. CASE cur[p] # NoRecord
    <3>1. /\ CurrentRoom(Recorded, index[p].records, cur[p])
          /\ EndsWith(index[p].records, cur[p])
      BY <1>1, <1>2, <2>2 DEF Room, Ordered
    <3>2. cur[p] \notin Recorded
      BY <1>1, <1>2, <2>2
         DEF Inv, CurrentRecords, CurrentRecord, HasPlaceholder, Recorded
    <3>3. /\ LastFolder(index[p].records) = cur[p].folder
          /\ index[p].records # <<>>
      BY <3>1 DEF EndsWith, LastFolder, PositionOf
    <3>4. Data(Recorded, cur[p].folder) \ {cur[p]} = Data(Recorded, cur[p].folder)
      BY <3>2 DEF Data
    <3>5. Cardinality(Data(Recorded, cur[p].folder)) + 1
            < DefaultMaxFileNum + FilesOf(index[p].records)
      BY <3>1, <3>4 DEF CurrentRoom
    <3>6. /\ Cardinality(Data(Recorded, cur[p].folder)) \in Nat
          /\ FilesOf(index[p].records) \in Nat
      BY <1>1, <1>2, <3>3, DataFinite, FilesTyped DEF IndexObject
    <3>7. Cardinality(Data(Recorded, cur[p].folder))
            < DefaultMaxFileNum + FilesOf(index[p].records)
      BY <1>1, <3>5, <3>6
    <3> QED
      BY <3>3, <3>7 DEF EndRoom
  <2> QED
    BY <2>1, <2>2
<1>6. LatestRoom'
  BY <1>1, <1>2, <1>3, <1>4, <1>5, PublishedIndex DEF LatestRoom, EndRoom
<1>7. CASE cur[p] = NoRecord
  <2>1. index[p].next = NextOf(index[p].records, index[p].max)
    BY <1>1, <1>2 DEF ResumeInv, AllResumable, Resumable, Working
  <2>2. Covers(index[p].records, Recorded)
    BY <1>1, <1>2 DEF Ordered
  <2>3. NextRoom(Recorded, index[p])
    BY <1>1, <1>2, <1>5, <2>1, <2>2, RoomAfter
  <2> QED
    BY <1>2, <1>3, <1>6, <1>7, <2>3 DEF Room, NextRoom
<1>8. CASE cur[p] # NoRecord
  <2>1. PICK n \in IndexNumber : IsLatest(n)'
    BY <1>1, <1>2, PublishedLatest
  <2>2. CurrentRoom(Recorded, index[p].records, cur[p])
    BY <1>1, <1>2, <1>8 DEF Room
  <2>3. indexFile'[n].records = index[p].records
    BY <1>1, <1>4, <2>1, PublishedIndex
  <2>4. SegmentRoom(cur[p])'
    BY <1>2, <2>1, <2>2, <2>3 DEF SegmentRoom, CurrentRoom
  <2> QED
    BY <1>2, <1>3, <1>6, <1>8, <2>4 DEF Room
<1> QED
  BY <1>7, <1>8

LEMMA EndRooms ==
  ASSUME FolderInv, NEW p \in Process,
         \/ Start(p) \/ IndexesExhausted(p) \/ LoadFails(p)
         \/ PathsExhausted(p) \/ ReserveFails(p) \/ AppendFails(p)
         \/ SaveFails(p) \/ OpenSegmentFails(p) \/ ReleaseLock(p) \/ Crash(p)
  PROVE  Room(p)'
<1>1. /\ pc'[p] \in {"locked", "failed", "off"}
      /\ buffered'[p] = 0
  BY FolderFacts
     DEF Inv, TypeOK, Start, IndexesExhausted, LoadFails, PathsExhausted,
         ReserveFails, AppendFails, SaveFails, OpenSegmentFails, ReleaseLock,
         Crash, Gone, Goto, CurrentRecords, CurrentRecord
<1> QED
  BY <1>1 DEF Room, Working

\* Steps that leave an instance and the directory as they are.
LEMMA SameRoom ==
  ASSUME NEW q, Room(q), Recorded' = Recorded,
         UNCHANGED <<pc, index, cur, buffered, indexFile>>
  PROVE  Room(q)'
  BY DEF Room, NextRoom, EndRoom, CurrentRoom, SegmentRoom, IsLatest

LEMMA OneRoom ==
  ASSUME Inv, NEW p \in Process, pc[p] # "off" \/ lock = Nobody,
         \A q \in Process : q # p => pc'[q] = pc[q] /\ buffered'[q] = buffered[q],
         Room(p)'
  PROVE  \A q \in Process : Room(q)'
<1> SUFFICES ASSUME NEW q \in Process, q # p
             PROVE  Room(q)'
  OBVIOUS
<1>1. pc[q] = "off"
  BY StorageRecorderAssumption DEF Inv, LockExclusion
<1>2. pc'[q] = "off" /\ buffered'[q] = 0
  BY <1>1 DEF Inv, CurrentRecords, CurrentRecord
<1> QED
  BY <1>2 DEF Room, Working

LEMMA SameLatest ==
  ASSUME LatestRoom, Recorded' = Recorded, UNCHANGED indexFile
  PROVE  LatestRoom'
  BY DEF LatestRoom, EndRoom, IsLatest

LEMMA QuietRooms ==
  ASSUME FolderInv, NEW p \in Process, Quiet(p)
  PROVE  LatestRoom' /\ \A q \in Process : Room(q)'
<1>1. Inv /\ OrderInv /\ LatestRoom /\ Recorded' = Recorded
  BY FolderFacts, QuietData DEF FolderInv
<1>2. LatestRoom'
  <2>1. CASE PublishIndex(p)
    BY <2>1, PublishedRoom
  <2>2. CASE ~PublishIndex(p)
    <3>1. UNCHANGED indexFile
      BY <2>2
         DEF Quiet, diskVars, Start, LoadIndex, RecoverIndex, CreateIndex,
             IndexesExhausted, LoadFails, ChoosePath, PathsExhausted,
             ReserveRecord, ReserveFails, AppendRecord, AppendFails, BeginSave,
             StageIndex, SaveFails, OpenSegment, OpenSegmentFails,
             LaunchBackend, BackendExits, ReleaseLock, Crash
    <3> QED
      BY <1>1, <3>1, SameLatest
  <2> QED
    BY <2>1, <2>2
<1>3. CASE LaunchBackend(p) \/ BackendExits(p)
  <2>1. UNCHANGED <<pc, index, cur, buffered, indexFile>>
    BY <1>3 DEF LaunchBackend, BackendExits, diskVars
  <2> QED
    BY <1>1, <1>2, <2>1, SameRoom DEF FolderInv
<1>4. CASE ~LaunchBackend(p) /\ ~BackendExits(p)
  <2>1. Room(p)'
    BY <1>4, LoadRoom, RecordRoom, AppendedRoom, PublishedRoom, EndRooms
       DEF Quiet
  <2> QED
    BY <1>1, <1>2, <1>4, <2>1, OthersKeep, OneRoom
<1> QED
  BY <1>3, <1>4

-----------------------------------------------------------------------------
(* Steps that add data                                                     *)

LEMMA OneLatest ==
  ASSUME NEW n \in IndexNumber, NEW m \in IndexNumber, IsLatest(n), IsLatest(m)
  PROVE  n = m
  BY StorageIndexAssumption DEF IsLatest, IndexNumber

LEMMA GrowingRooms ==
  ASSUME FolderInv, NEW p \in Process, Growing(p)
  PROVE  /\ LatestRoom'
         /\ \A f \in Index :
              Cardinality(Data(Recorded, f)') < 2 * DefaultMaxFileNum
         /\ pc[p] = "recording" \/ buffered[p] # 0 => SegmentRoom(cur[p])'
<1> DEFINE c == cur[p]
<1>1. /\ Inv /\ OrderInv /\ TypeOK /\ Room(p) /\ LatestRoom
      /\ Recorded \in SUBSET Record /\ IsFiniteSet(Recorded)
      /\ \A f \in Index : Cardinality(Data(Recorded, f)) < 2 * DefaultMaxFileNum
  BY FolderFacts DEF FolderInv
<1>2. UNCHANGED <<indexFile, cur>>
  BY DEF Growing, WriteAccessUnit, WriteLastAccessUnit, WriteFails, CloseMuxer
<1>3. CASE Recorded' = Recorded
  <2>1. LatestRoom'
    BY <1>1, <1>2, <1>3, SameLatest
  <2>2. SegmentRoom(c) => SegmentRoom(c)'
    BY <1>2, <1>3 DEF SegmentRoom, CurrentRoom, IsLatest
  <2> QED
    BY <1>1, <1>2, <1>3, <2>1, <2>2 DEF Room
<1>4. CASE Recorded' # Recorded
  <2>1. pc[p] = "recording" \/ buffered[p] # 0
    BY <1>1, <1>4, GrownFile DEF Recorded
  <2>2. /\ LatestEndsWith(c) /\ c \in Record
        /\ Recorded' = Recorded \cup {c}
    BY <1>1, <1>4, GrownData
  <2>3. PICK n \in IndexNumber :
          IsLatest(n) /\ CurrentRoom(Recorded, indexFile[n].records, c)
    BY <1>1, <2>1 DEF Room, SegmentRoom
  <2>4. /\ indexFile[n] # Corrupt
        /\ EndsWith(indexFile[n].records, c)
        /\ indexFile[n].records \in Seq(Record)
    BY <1>1, <2>2, <2>3 DEF LatestEndsWith, IsLatest, TypeOK, IndexContent
  <2>5. /\ EndRoom(Recorded', indexFile[n].records)
        /\ CurrentRoom(Recorded', indexFile[n].records, c)
        /\ Cardinality(Data(Recorded', c.folder)) < 2 * DefaultMaxFileNum
    <3> HIDE DEF c
    <3> QED
      BY <1>1, <2>2, <2>3, <2>4, GrownRoom
  <2>6. LatestRoom'
    BY <1>1, <1>2, <2>3, <2>5, OneLatest DEF LatestRoom, IsLatest
  <2>7. SegmentRoom(c)'
    BY <1>2, <2>3, <2>5 DEF SegmentRoom, IsLatest
  <2>8. ASSUME NEW f \in Index
        PROVE  Cardinality(Data(Recorded', f)) < 2 * DefaultMaxFileNum
    <3>1. CASE f = c.folder
      BY <2>5, <3>1
    <3>2. CASE f # c.folder
      <4>1. Data(Recorded', f) = Data(Recorded, f)
        BY <2>2, <3>2 DEF Data
      <4> QED
        BY <1>1, <4>1
    <3> QED
      BY <3>1, <3>2
  <2> QED
    BY <2>6, <2>7, <2>8
<1> QED
  BY <1>3, <1>4

LEMMA GrowingRoom ==
  ASSUME FolderInv, NEW p \in Process, Growing(p)
  PROVE  Room(p)'
<1>1. /\ Inv /\ OrderInv /\ ResumeInv /\ IndexInv /\ TypeOK /\ Room(p)
      /\ FolderInv
  BY FolderFacts DEF FolderInv
<1>2. LatestRoom' /\ (pc[p] = "recording" => SegmentRoom(cur[p])')
  BY GrowingRooms
<1>3. CASE WriteLastAccessUnit(p)
  <2>0. PICK n \in IndexNumber : n = index[p].number
    BY <1>1, NumberTyped
  <2>1. /\ pc[p] = "recording" /\ pc'[p] = "between" /\ buffered'[p] = 0
        /\ UNCHANGED <<indexFile, index>>
        /\ index[p] \in IndexObject
    BY <1>1, <1>3 DEF TypeOK, WriteLastAccessUnit, Goto
  <2>2. /\ IsLatest(n) /\ indexFile[n] # Corrupt
        /\ Loaded(n, indexFile[n]) = index[p]
    BY <1>1, <2>0, <2>1
       DEF ResumeInv, IndexInv, AllResumable, Resumable, Settled, Working,
           OwnIndexes, OwnIndex, IsLatest
  <2>3. /\ index[p].records = indexFile[n].records
        /\ index[p].next = NextOf(index[p].records, index[p].max)
    BY <2>2 DEF Loaded
  <2>4. IsLatest(n)'
    BY <2>1, <2>2 DEF IsLatest
  <2>5. Covers(index[p].records, Recorded') /\ EndRoom(Recorded', index[p].records)
    <3>1. Stored'
      BY <1>1, GrowingStored
    <3> QED
      BY <1>2, <2>1, <2>2, <2>3, <2>4, <3>1
         DEF Stored, LatestRoom, Covers, EndRoom
  <2>6. Recorded' \in SUBSET Record /\ IsFiniteSet(Recorded')
    <3>1. DOMAIN disk' = DOMAIN disk
      BY <1>1, GrownFile DEF WithFile
    <3>2. Recorded' \in SUBSET DOMAIN disk
      BY <3>1 DEF Recorded
    <3> QED
      BY <1>1, <3>2, FS_Subset DEF FolderInv, FiniteStorage, TypeOK
  <2>7. NextRoom(Recorded', index[p])
    BY <2>1, <2>3, <2>5, <2>6, RoomAfter
  <2> QED
    BY <1>1, <2>1, <2>7 DEF Room, NextRoom, Working
<1>4. CASE WriteAccessUnit(p) \/ WriteFails(p)
  <2>1. /\ pc[p] = "recording" /\ pc'[p] \in {"recording", "failed"}
        /\ UNCHANGED <<cur, index>>
    BY <1>1, <1>4 DEF TypeOK, WriteAccessUnit, WriteFails, Goto
  <2> QED
    BY <1>1, <1>2, <2>1 DEF Room, Working
<1>5. CASE CloseMuxer(p)
  <2>1. pc'[p] = "closing" /\ buffered'[p] = 0
    BY <1>1, <1>5 DEF TypeOK, CloseMuxer, Goto
  <2> QED
    BY <2>1 DEF Room, Working
<1> QED
  BY <1>3, <1>4, <1>5 DEF Growing

-----------------------------------------------------------------------------
(* The invariant                                                           *)

LEMMA InitFolder ==
  ASSUME MaximumNotRaised, Init
  PROVE  FolderInv
<1>1. PICK s \in InitialStorage :
        /\ indexFile = s.indexFile /\ dirs = s.dirs
        /\ disk = s.disk /\ legacy = s.legacy
  BY DEF Init
<1>2. WellFormedStorage(s)
  BY InitialStorageAssumption
<1>3. FiniteStorage
  BY <1>1, <1>2 DEF WellFormedStorage, FiniteStorage
<1>4. Recorded = {r \in DOMAIN s.disk : s.disk[r] > 0}
  BY <1>1 DEF Recorded
<1>5. /\ legacy.index \notin {NoIndex, Corrupt}
           => legacy.index.max <= DefaultMaxFileNum
      /\ \A f \in Index : Cardinality(Data(Recorded, f)) < 2 * DefaultMaxFileNum
  BY <1>1, <1>4 DEF MaximumNotRaised
<1>6. LatestRoom
  BY <1>1, <1>4 DEF MaximumNotRaised, LatestRoom, IsLatest
<1>7. \A p \in Process : Room(p)
  BY DEF Init, Room, Working
<1> QED
  BY <1>3, <1>5, <1>6, <1>7, InitOrder DEF FolderInv

\* A step makes or removes one file at most.
LEMMA StepFinite ==
  ASSUME Inv, FiniteStorage, [Next]_vars
  PROVE  FiniteStorage' /\ legacy' = legacy
<1>1. legacy' = legacy
  BY DEF Next, Proceed, Fault, diskVars, vars, Start, LoadIndex, RecoverIndex,
         CreateIndex, IndexesExhausted, ChoosePath, PathsExhausted,
         ReserveRecord, AppendRecord, AppendFails, BeginSave, StageIndex,
         PublishIndex, OpenSegment, LaunchBackend, CloseMuxer, ReleaseLock,
         LoadFails, ReserveFails, SaveFails, OpenSegmentFails, WriteFails,
         WriteAccessUnit, WriteLastAccessUnit, BackendExits, Crash, OrphanExits,
         DamageIndex, EditSettings
<1>2. CASE UNCHANGED disk
  BY <1>1, <1>2 DEF FiniteStorage
<1>3. CASE \E r : disk' = WithoutFile(r) \/ \E size : disk' = WithFile(r, size)
  <2>1. PICK r : disk' = WithoutFile(r) \/ \E size : disk' = WithFile(r, size)
    BY <1>3
  <2>2. DOMAIN disk' \in SUBSET (DOMAIN disk \cup {r})
    BY <2>1 DEF WithFile, WithoutFile
  <2>3. IsFiniteSet(DOMAIN disk \cup {r})
    BY FS_AddElement DEF FiniteStorage
  <2> QED
    BY <1>1, <2>2, <2>3, FS_Subset DEF FiniteStorage
<1>4. ASSUME NEW p \in Process, Growing(p)
      PROVE  FiniteStorage'
  BY <1>2, <1>3, <1>4, GrownFile
<1>5. ASSUME NEW p \in Process, Quiet(p)
      PROVE  FiniteStorage'
  BY <1>2, <1>3, <1>5
     DEF Quiet, diskVars, Start, LoadIndex, RecoverIndex, CreateIndex,
         IndexesExhausted, LoadFails, ChoosePath, PathsExhausted,
         ReserveRecord, ReserveFails, AppendRecord, AppendFails, BeginSave,
         StageIndex, PublishIndex, SaveFails, OpenSegment, OpenSegmentFails,
         LaunchBackend, BackendExits, ReleaseLock, Crash
<1>6. CASE OrphanExits \/ DamageIndex \/ EditSettings \/ UNCHANGED vars
  BY <1>2, <1>6 DEF OrphanExits, DamageIndex, EditSettings, vars, diskVars
<1> QED
  BY <1>1, <1>4, <1>5, <1>6 DEF Next, Proceed, Fault, Quiet, Growing

\* Neither damage nor a permitted edit takes room from the latest index.
LEMMA EnvironmentRooms ==
  ASSUME MaximumNotRaised, FolderInv, DamageIndex \/ EditSettings
  PROVE  LatestRoom' /\ \A p \in Process : Room(p)'
<1>1. Inv /\ TypeOK /\ LatestRoom
  BY FolderFacts DEF FolderInv
<1>2. UNCHANGED <<pc, buffered>> /\ Recorded' = Recorded
  BY DEF Recorded, DamageIndex, EditSettings, procVars
<1>3. ASSUME NEW p \in Process
      PROVE  Room(p)'
  <2>1. pc[p] = "off" /\ buffered[p] = 0
    BY <1>1, StorageRecorderAssumption
       DEF Inv, LockExclusion, CurrentRecords, CurrentRecord, DamageIndex,
           EditSettings
  <2> QED
    BY <1>2, <2>1 DEF Room, Working
<1>4. PICK n \in IndexNumber :
        /\ IsLatest(n) /\ indexFile[n] # Corrupt
        /\ \A m \in IndexNumber : m # n => indexFile'[m] = indexFile[m]
        /\ indexFile'[n] # NoIndex
        /\ \/ indexFile'[n] = Corrupt
           \/ /\ indexFile'[n].records = indexFile[n].records
              /\ indexFile'[n].max <= DefaultMaxFileNum
  <2>1. CASE DamageIndex
    BY <1>1, <2>1, StorageIndexAssumption DEF TypeOK, DamageIndex
  <2>2. CASE EditSettings
    <3>1. PICK n \in IndexNumber, max \in EditedMax, size \in EditedSize :
            /\ IsLatest(n)
            /\ indexFile[n] # Corrupt
            /\ indexFile' = [indexFile EXCEPT ![n].max = max, ![n].size = size]
      BY <2>2 DEF EditSettings
    <3>2. indexFile[n] \in IndexContent
      BY <1>1, <3>1 DEF TypeOK, IsLatest
    <3>3. indexFile'[n] = [indexFile[n] EXCEPT !.max = max, !.size = size]
      BY <1>1, <3>1 DEF TypeOK
    <3>4. /\ indexFile'[n].records = indexFile[n].records
          /\ indexFile'[n].max = max
      BY <3>2, <3>3 DEF IndexContent
    <3>5. max <= DefaultMaxFileNum
      BY DEF MaximumNotRaised
    <3>7. indexFile'[n] # NoIndex
      <4>1. indexFile'[n] \in IndexContent
        BY <3>2, <3>3, StorageRecorderAssumption DEF IndexContent
      <4> QED
        BY <4>1, StorageRecorderAssumption
    <3>6. \A m \in IndexNumber : m # n => indexFile'[m] = indexFile[m]
      BY <1>1, <3>1 DEF TypeOK
    <3> QED
      BY <3>1, <3>4, <3>5, <3>6, <3>7
  <2> QED
    BY <2>1, <2>2
<1>5. indexFile[n].max <= DefaultMaxFileNum /\ EndRoom(Recorded, indexFile[n].records)
  BY <1>1, <1>4 DEF LatestRoom
<1>6. ASSUME NEW m \in IndexNumber, IsLatest(m)', indexFile'[m] # Corrupt
      PROVE  /\ indexFile'[m].max <= DefaultMaxFileNum
             /\ EndRoom(Recorded, indexFile'[m].records)
  <2>1. m = n
    <3>1. /\ indexFile[n] # NoIndex
          /\ m # n => indexFile[m] # NoIndex
      BY <1>4, <1>6 DEF IsLatest
    <3>2. m # n => m <= n
      BY <1>4, <3>1 DEF IsLatest
    <3>3. indexFile'[n] # NoIndex
      BY <1>4
    <3>4. n <= m
      BY <1>6, <3>3 DEF IsLatest
    <3> QED
      BY <3>2, <3>4, StorageIndexAssumption DEF IndexNumber
  <2> QED
    BY <1>4, <1>5, <1>6, <2>1
<1> QED
  BY <1>2, <1>3, <1>6 DEF LatestRoom, EndRoom

LEMMA StepFolder ==
  ASSUME MaximumNotRaised, FolderInv, [Next]_vars
  PROVE  FolderInv'
<1>1. /\ OrderInv /\ Inv /\ FiniteStorage
  BY FolderFacts DEF FolderInv
<1>2. OrderInv' /\ FiniteStorage' /\ legacy' = legacy
  BY <1>1, StepOrder, StepFinite
<1>3. SUFFICES /\ \A f \in Index :
                    Cardinality(Data(Recorded, f)') < 2 * DefaultMaxFileNum
               /\ LatestRoom'
               /\ \A q \in Process : Room(q)'
  BY <1>2 DEF FolderInv
<1>4. ASSUME NEW p \in Process, Quiet(p)
      PROVE  /\ Recorded' = Recorded
             /\ LatestRoom' /\ \A q \in Process : Room(q)'
  BY <1>1, <1>4, QuietData, QuietRooms
<1>5. ASSUME NEW p \in Process, Growing(p)
      PROVE  /\ \A f \in Index :
                  Cardinality(Data(Recorded, f)') < 2 * DefaultMaxFileNum
             /\ LatestRoom' /\ \A q \in Process : Room(q)'
  BY <1>1, <1>5, GrowingRooms, GrowingRoom, OthersKeep, OneRoom
<1>6. CASE DamageIndex \/ EditSettings
  <2>1. Recorded' = Recorded
    BY <1>6 DEF DamageIndex, EditSettings, Recorded
  <2> QED
    BY <1>6, <2>1, EnvironmentRooms DEF FolderInv
<1>7. CASE OrphanExits \/ UNCHANGED vars
  <2>1. /\ Recorded' = Recorded
        /\ UNCHANGED <<pc, index, cur, buffered, indexFile>>
    BY <1>7 DEF OrphanExits, vars, diskVars, Recorded
  <2> QED
    BY <2>1, SameLatest, SameRoom DEF FolderInv
<1> QED
  BY <1>4, <1>5, <1>6, <1>7
     DEF Next, Proceed, Fault, Quiet, Growing, FolderInv

\* However often the index is lost, no folder gets twice the maximum of files
\* with data (scan_storage counts before it goes on in a folder), if the
\* maximum was never raised above the default.
THEOREM FoldersBounded ==
  ASSUME MaximumNotRaised
  PROVE  Spec => []FolderWithinTwiceMaximum
<1>1. Init => FolderInv
  BY InitFolder
<1>2. FolderInv /\ [Next]_vars => FolderInv'
  BY StepFolder
<1>3. FolderInv => FolderWithinTwiceMaximum
  <2> SUFFICES ASSUME FolderInv, NEW f \in dirs
               PROVE  Cardinality({r \in DOMAIN disk :
                                     disk[r] > 0 /\ r.folder = f})
                        < 2 * DefaultMaxFileNum
    BY DEF FolderWithinTwiceMaximum
  <2>1. f \in Index
    BY FolderFacts DEF TypeOK
  <2>2. {r \in DOMAIN disk : disk[r] > 0 /\ r.folder = f} = Data(Recorded, f)
    BY DEF Data, Recorded
  <2> QED
    BY <2>1, <2>2 DEF FolderInv
<1> QED
  BY <1>1, <1>2, <1>3, PTL DEF Spec
=============================================================================
