----------------------- MODULE StorageRecorderProofs -----------------------
(***************************************************************************)
(* What StorageRecorder keeps for any number of instances, any bounds and  *)
(* any well-formed directory.                                              *)
(***************************************************************************)
EXTENDS StorageRecorder, TLAPS

\* The placeholder of the record that p is about to record exists.
HasPlaceholder(p) ==
  \/ pc[p] \in {"reserved", "saved"}
  \/ pc[p] \in {"saving", "writing", "staged"} /\ cur[p] # NoRecord

\* The file of the current record exists whenever p is going to use it, and
\* has no data before p opens it.
CurrentRecord(p) ==
  /\ pc[p] \in {"off", "locked"} => cur[p] = NoRecord
  /\ pc[p] = "named" => cur[p] # NoRecord
  /\ HasPlaceholder(p) => cur[p] \in DOMAIN disk /\ disk[cur[p]] = 0
  /\ pc[p] = "recording" => cur[p] \in DOMAIN disk
  /\ buffered[p] # 0 =>
       pc[p] \in {"recording", "failed"} /\ cur[p] \in DOMAIN disk

CurrentRecords == \A p \in Process : CurrentRecord(p)

Inv == TypeOK /\ LockExclusion /\ CurrentRecords

-----------------------------------------------------------------------------
(* Operators                                                               *)

LEMMA AdvanceTyped ==
  ASSUME NEW pos \in Position, NEW count, NEW max, CanAdvance(pos, count, max)
  PROVE  Advance(pos, count, max) \in Position
  BY StorageIndexAssumption DEF CanAdvance, Advance, Position, Index

LEMMA PositionOfTyped ==
  ASSUME NEW r \in Record
  PROVE  PositionOf(r) \in Position
  BY DEF PositionOf, Position, Record

LEMMA OriginTyped == Origin \in Position
  BY StorageIndexAssumption DEF Origin, Position, Index

LEMMA NextOfTyped ==
  ASSUME NEW records \in Seq(Record), NEW max, ValidRecords(records, max)
  PROVE  NextOf(records, max) \in Position
<1>1. CASE records = <<>>
  BY <1>1, OriginTyped DEF NextOf
<1>2. CASE records # <<>>
  <2> DEFINE n == Len(records)
  <2>1. n \in 1 .. Len(records)
    BY <1>2
  <2>2. PositionOf(records[n]) \in Position
    BY <2>1, PositionOfTyped
  <2>3. CanAdvance(PositionOf(records[n]), CountUpTo(records, n), max)
    BY <2>1 DEF ValidRecords
  <2> QED
    BY <1>2, <2>2, <2>3, AdvanceTyped DEF NextOf, NextAfter
<1> QED
  BY <1>1, <1>2

LEMMA AppendedTyped ==
  ASSUME NEW object \in IndexObject, NEW r \in Record,
         AppendAccepted(object, r)
  PROVE  Appended(object, r) \in IndexObject
<1> DEFINE records == Append(object.records, r)
<1>1. records \in Seq(Record) /\ Len(records) # 0 /\ records[Len(records)] = r
  BY DEF IndexObject
<1>2. NextOf(records, object.max) \in Position
  <2>1. CanAdvance(PositionOf(r), CountUpTo(records, Len(records)), object.max)
    BY DEF AppendAccepted
  <2>2. records # <<>>
    BY <1>1
  <2>3. NextOf(records, object.max)
          = Advance(PositionOf(r), CountUpTo(records, Len(records)), object.max)
    BY <1>1, <2>2 DEF NextOf, NextAfter
  <2> QED
    BY <2>1, <2>3, PositionOfTyped, AdvanceTyped
<1>3. Appended(object, r)
        = [object EXCEPT !.records = records,
                         !.next = NextOf(records, object.max)]
  BY DEF Appended
<1> HIDE DEF records
<1> QED
  BY <1>1, <1>2, <1>3 DEF IndexObject

LEMMA ScanNextTyped ==
  ASSUME NEW folders \in SUBSET Index,
         NEW padded \in SUBSET Record, NEW unpadded \in SUBSET Record,
         NEW max, NEW next \in ScanNext(folders, padded, unpadded, max)
  PROVE  next \in Position
<1>1. CASE folders = {}
  BY <1>1, OriginTyped DEF ScanNext
<1>2. CASE folders # {}
  <2>1. PICK top \in folders :
          LET inPadded   == {r \in padded : r.folder = top}
              inUnpadded == {r \in unpadded : r.folder = top}
              found      == inPadded \cup inUnpadded
              count      == Cardinality(inPadded) + Cardinality(inUnpadded)
          IN next \in
               IF found = {} THEN {[folder |-> top, file |-> 0]}
               ELSE {Advance(PositionOf(r), count, max) :
                       r \in {q \in found :
                                /\ \A o \in found : o.file <= q.file
                                /\ CanAdvance(PositionOf(q), count, max)}}
    BY <1>2 DEF ScanNext
  <2> DEFINE found == {r \in padded : r.folder = top}
                        \cup {r \in unpadded : r.folder = top}
             count == Cardinality({r \in padded : r.folder = top})
                        + Cardinality({r \in unpadded : r.folder = top})
  <2>2. CASE found = {}
    <3>1. next = [folder |-> top, file |-> 0]
      BY <2>1, <2>2
    <3> QED
      BY <3>1, StorageIndexAssumption DEF Position, Index
  <2>3. CASE found # {}
    <3>1. PICK r \in found :
            /\ CanAdvance(PositionOf(r), count, max)
            /\ next = Advance(PositionOf(r), count, max)
      BY <2>1, <2>3
    <3>2. PositionOf(r) \in Position
      BY PositionOfTyped
    <3> HIDE DEF count, found
    <3> QED
      BY <3>1, <3>2, AdvanceTyped
  <2> QED
    BY <2>2, <2>3
<1> QED
  BY <1>1, <1>2

LEMMA WithFileTyped ==
  ASSUME NEW r, NEW size
  PROVE  /\ DOMAIN WithFile(r, size) = DOMAIN disk \cup {r}
         /\ WithFile(r, size)[r] = size
         /\ \A q \in DOMAIN disk : q # r => WithFile(r, size)[q] = disk[q]
         /\ r \in Record /\ size \in Nat /\ TypeOK =>
              /\ DOMAIN WithFile(r, size) \in SUBSET Record
              /\ WithFile(r, size) \in [DOMAIN WithFile(r, size) -> Nat]
  BY DEF WithFile, TypeOK

LEMMA WithoutFileTyped ==
  ASSUME NEW r
  PROVE  /\ DOMAIN WithoutFile(r) = DOMAIN disk \ {r}
         /\ \A q \in DOMAIN disk : q # r => WithoutFile(r)[q] = disk[q]
         /\ TypeOK =>
              /\ DOMAIN WithoutFile(r) \in SUBSET Record
              /\ WithoutFile(r) \in [DOMAIN WithoutFile(r) -> Nat]
  BY DEF WithoutFile, TypeOK

-----------------------------------------------------------------------------
(* The invariant                                                           *)

LEMMA InitInv == Init => Inv
<1> SUFFICES ASSUME Init PROVE Inv
  OBVIOUS
<1>1. TypeOK
  <2>1. PICK s \in InitialStorage :
          indexFile = s.indexFile /\ dirs = s.dirs /\ disk = s.disk
          /\ legacy = s.legacy
    BY DEF Init
  <2>2. WellFormedStorage(s)
    BY <2>1, InitialStorageAssumption
  <2>3. BlankIndex \in IndexObject
    BY StorageIndexAssumption, OriginTyped
       DEF BlankIndex, IndexObject, IndexNumber
  <2> QED
    BY <2>1, <2>2, <2>3 DEF Init, TypeOK, WellFormedStorage, Phase
<1>2. LockExclusion /\ CurrentRecords
  BY DEF Init, LockExclusion, CurrentRecords, CurrentRecord, HasPlaceholder
<1> QED
  BY <1>1, <1>2 DEF Inv
\* The typing of disk.
DiskTyped == DOMAIN disk \in SUBSET Record /\ disk \in [DOMAIN disk -> Nat]

LEMMA WithFileDisk ==
  ASSUME TypeOK, NEW r \in Record, NEW size \in Nat, disk' = WithFile(r, size)
  PROVE  DiskTyped'
  BY WithFileTyped DEF DiskTyped

LEMMA WithoutFileDisk ==
  ASSUME TypeOK, NEW r, disk' = WithoutFile(r)
  PROVE  DiskTyped'
  BY WithoutFileTyped DEF DiskTyped

LEMMA ScanPosition ==
  ASSUME TypeOK, NEW max, NEW next \in Scan(max)
  PROVE  next \in Position
<1>1. /\ dirs \cup legacy.dirs \in SUBSET Index
      /\ DOMAIN disk \in SUBSET Record
      /\ legacy.files \in SUBSET Record
  BY DEF TypeOK
<1> QED
  BY <1>1, ScanNextTyped DEF Scan

LEMMA GrownTyped ==
  ASSUME TypeOK, NEW p \in Process, cur[p] \in DOMAIN disk,
         NEW unit \in Nat, NEW kept \in Nat, Grown(p, unit, kept)
  PROVE  /\ DiskTyped'
         /\ buffered' \in [Process -> Nat]
         /\ DOMAIN disk' = DOMAIN disk
<1> DEFINE visible == disk[cur[p]] + buffered[p] + unit - kept
<1>1. cur[p] \in Record /\ disk[cur[p]] \in Nat /\ buffered[p] \in Nat
  BY DEF TypeOK
<1>2. visible \in Nat /\ disk' = WithFile(cur[p], visible)
  BY <1>1 DEF Grown
<1> HIDE DEF visible
<1>3. DiskTyped' /\ DOMAIN disk' = DOMAIN disk
  BY <1>1, <1>2, WithFileDisk, WithFileTyped
<1>4. buffered' \in [Process -> Nat]
  BY DEF TypeOK, Grown
<1> QED
  BY <1>3, <1>4

LEMMA UnitTyped == AccessUnitSize \subseteq Nat /\ 0 .. BufferSize \subseteq Nat
  BY StorageRecorderAssumption

LEMMA BlankTyped == BlankIndex \in IndexObject
  BY StorageIndexAssumption, OriginTyped DEF BlankIndex, IndexObject, IndexNumber

LEMMA CurrentFacts ==
  ASSUME Inv, NEW p \in Process
  PROVE  /\ pc[p] = "recording" => cur[p] \in DOMAIN disk
         /\ buffered[p] # 0 => cur[p] \in DOMAIN disk
         /\ pc[p] \in {"reserved", "saved"} => cur[p] \in DOMAIN disk
         /\ pc[p] = "named" => cur[p] \in Record
  BY DEF Inv, TypeOK, CurrentRecords, CurrentRecord, HasPlaceholder

LEMMA OnlyOne ==
  ASSUME Inv, NEW p \in Process, pc[p] # "off", NEW q \in Process, q # p
  PROVE  pc[q] = "off" /\ cur[q] = NoRecord /\ buffered[q] = 0
  BY DEF Inv, LockExclusion, CurrentRecords, CurrentRecord

LEMMA StartInv ==
  ASSUME Inv, NEW p \in Process, Start(p)
  PROVE  Inv'
<1>1. TypeOK'
  BY  DEF Inv, TypeOK, Start, Goto, Phase, diskVars
<1>2. LockExclusion'
  BY StorageRecorderAssumption DEF Inv, TypeOK, LockExclusion, Start, Goto, Lockable
<1>3. CurrentRecords'
  BY OnlyOne, StorageRecorderAssumption DEF Inv, TypeOK, LockExclusion, CurrentRecords, CurrentRecord, HasPlaceholder, Start, Goto, Phase, diskVars, Lockable
<1> QED
  BY <1>1, <1>2, <1>3 DEF Inv

LEMMA LoadIndexInv ==
  ASSUME Inv, NEW p \in Process, LoadIndex(p)
  PROVE  Inv'
<1>1. TypeOK'
  <2>1. PICK n \in IndexNumber :
          /\ ValidIndex(indexFile[n])
          /\ index' = [index EXCEPT ![p] = Loaded(n, indexFile[n])]
          /\ Goto(p, IF indexFile[n].headed THEN "between" ELSE "saving")
    BY DEF LoadIndex
  <2>2. indexFile[n] \in IndexContent
    BY <2>1 DEF Inv, TypeOK, ValidIndex
  <2>3. NextOf(indexFile[n].records, indexFile[n].max) \in Position
    BY <2>1, <2>2, NextOfTyped DEF ValidIndex, IndexContent
  <2>4. Loaded(n, indexFile[n]) \in IndexObject
    BY <2>2, <2>3 DEF Loaded, IndexContent, IndexObject
  <2>5. index' \in [Process -> IndexObject]
    BY <2>1, <2>4 DEF Inv, TypeOK
  <2>6. pc' \in [Process -> Phase]
    BY <2>1 DEF Inv, TypeOK, Goto, Phase
  <2> QED
    BY <2>5, <2>6 DEF Inv, TypeOK, LoadIndex, diskVars
<1>2. LockExclusion'
  BY StorageRecorderAssumption DEF Inv, TypeOK, LockExclusion, LoadIndex, Goto
<1>3. CurrentRecords'
  BY OnlyOne, StorageRecorderAssumption DEF Inv, TypeOK, LockExclusion, CurrentRecords, CurrentRecord, HasPlaceholder, LoadIndex, Goto, Phase, diskVars
<1> QED
  BY <1>1, <1>2, <1>3 DEF Inv

LEMMA RecoverIndexInv ==
  ASSUME Inv, NEW p \in Process, RecoverIndex(p)
  PROVE  Inv'
<1>1. TypeOK'
  <2>1. PICK n \in IndexNumber, next \in Scan(DefaultMaxFileNum) :
          /\ n < MaxIndexNumber
          /\ index' = [index EXCEPT ![p] =
               Scanned(RecoveryNumber(n), DefaultSettings, next)]
    BY DEF RecoverIndex
  <2>2. next \in Position
    BY ScanPosition DEF Inv
  <2>3. Scanned(RecoveryNumber(n), DefaultSettings, next) \in IndexObject
    BY <2>1, <2>2, StorageIndexAssumption
       DEF Scanned, DefaultSettings, IndexObject, IndexNumber, RecoveryNumber
  <2>4. index' \in [Process -> IndexObject]
    BY <2>1, <2>3 DEF Inv, TypeOK
  <2> QED
    BY <2>4 DEF Inv, TypeOK, RecoverIndex, diskVars, Goto, Phase
<1>2. LockExclusion'
  BY StorageRecorderAssumption DEF Inv, TypeOK, LockExclusion, RecoverIndex, Goto
<1>3. CurrentRecords'
  BY OnlyOne, StorageRecorderAssumption DEF Inv, TypeOK, LockExclusion, CurrentRecords, CurrentRecord, HasPlaceholder, RecoverIndex, Goto, Phase, diskVars
<1> QED
  BY <1>1, <1>2, <1>3 DEF Inv

LEMMA CreateIndexInv ==
  ASSUME Inv, NEW p \in Process, CreateIndex(p)
  PROVE  Inv'
<1>1. TypeOK'
  <2>0. PICK settings \in CreateSettings :
          \E next \in Scan(settings.max) :
            /\ index' = [index EXCEPT ![p] = Scanned(0, settings, next)]
            /\ Goto(p, IF next = Origin THEN "saving" ELSE "between")
    BY DEF CreateIndex
  <2>1. PICK next \in Scan(settings.max) :
          /\ index' = [index EXCEPT ![p] = Scanned(0, settings, next)]
          /\ Goto(p, IF next = Origin THEN "saving" ELSE "between")
    BY <2>0
  <2>2. next \in Position
    BY ScanPosition DEF Inv
  <2>3. settings \in Settings
    BY StorageIndexAssumption
       DEF Inv, TypeOK, CreateSettings, DefaultSettings, Settings
  <2>4. Scanned(0, settings, next) \in IndexObject
    BY <2>2, <2>3, StorageIndexAssumption
       DEF Scanned, Settings, IndexObject, IndexNumber
  <2>5. index' \in [Process -> IndexObject]
    BY <2>1, <2>4 DEF Inv, TypeOK
  <2>6. pc' \in [Process -> Phase]
    BY <2>1 DEF Inv, TypeOK, Goto, Phase
  <2> QED
    BY <2>5, <2>6 DEF Inv, TypeOK, CreateIndex, diskVars
<1>2. LockExclusion'
  BY StorageRecorderAssumption DEF Inv, TypeOK, LockExclusion, CreateIndex, Goto
<1>3. CurrentRecords'
  BY OnlyOne, StorageRecorderAssumption DEF Inv, TypeOK, LockExclusion, CurrentRecords, CurrentRecord, HasPlaceholder, CreateIndex, Goto, Phase, diskVars
<1> QED
  BY <1>1, <1>2, <1>3 DEF Inv

LEMMA IndexesExhaustedInv ==
  ASSUME Inv, NEW p \in Process, IndexesExhausted(p)
  PROVE  Inv'
<1>1. TypeOK'
  BY  DEF Inv, TypeOK, IndexesExhausted, Goto, Phase, diskVars
<1>2. LockExclusion'
  BY StorageRecorderAssumption DEF Inv, TypeOK, LockExclusion, IndexesExhausted, Goto
<1>3. CurrentRecords'
  BY OnlyOne, StorageRecorderAssumption DEF Inv, TypeOK, LockExclusion, CurrentRecords, CurrentRecord, HasPlaceholder, IndexesExhausted, Goto, Phase, diskVars
<1> QED
  BY <1>1, <1>2, <1>3 DEF Inv

LEMMA ChoosePathInv ==
  ASSUME Inv, NEW p \in Process, ChoosePath(p)
  PROVE  Inv'
<1>1. TypeOK'
  <2>1. index[p].next \in Position
    BY DEF Inv, TypeOK, IndexObject
  <2>2. PICK s \in Suffix : cur' = [cur EXCEPT ![p] = NextRecord(p, s)]
    BY DEF ChoosePath
  <2>3. NextRecord(p, s) \in Record
    BY <2>1 DEF NextRecord, Record, Position
  <2>4. dirs' \in SUBSET Index
    BY <2>1 DEF Inv, TypeOK, ChoosePath, Position
  <2> QED
    BY <2>2, <2>3, <2>4 DEF Inv, TypeOK, ChoosePath, Goto, Phase
<1>2. LockExclusion'
  BY StorageRecorderAssumption DEF Inv, TypeOK, LockExclusion, ChoosePath, Goto
<1>3. CurrentRecords'
  BY OnlyOne, StorageRecorderAssumption DEF Inv, TypeOK, LockExclusion, CurrentRecords, CurrentRecord, HasPlaceholder, ChoosePath, Goto, Phase, diskVars, NextRecord, Record, IndexObject, Position
<1> QED
  BY <1>1, <1>2, <1>3 DEF Inv

LEMMA PathsExhaustedInv ==
  ASSUME Inv, NEW p \in Process, PathsExhausted(p)
  PROVE  Inv'
<1>1. TypeOK'
  BY  DEF Inv, TypeOK, PathsExhausted, Goto, Phase, diskVars
<1>2. LockExclusion'
  BY StorageRecorderAssumption DEF Inv, TypeOK, LockExclusion, PathsExhausted, Goto
<1>3. CurrentRecords'
  BY OnlyOne, StorageRecorderAssumption DEF Inv, TypeOK, LockExclusion, CurrentRecords, CurrentRecord, HasPlaceholder, PathsExhausted, Goto, Phase, diskVars
<1> QED
  BY <1>1, <1>2, <1>3 DEF Inv

LEMMA ReserveRecordInv ==
  ASSUME Inv, NEW p \in Process, ReserveRecord(p)
  PROVE  Inv'
<1>1. TypeOK'
  BY WithFileTyped, CurrentFacts, StorageRecorderAssumption DEF Inv, TypeOK, ReserveRecord, Goto, Phase, diskVars, FreshPath
<1>2. LockExclusion'
  BY StorageRecorderAssumption DEF Inv, TypeOK, LockExclusion, ReserveRecord, Goto
<1>3. CurrentRecords'
  <2>1. disk' = WithFile(cur[p], 0) /\ UNCHANGED <<cur, buffered>>
    BY DEF ReserveRecord
  <2>2. cur[p] \in DOMAIN disk' /\ disk'[cur[p]] = 0
    BY <2>1, WithFileTyped
  <2>3. pc' = [pc EXCEPT ![p] = "reserved"] /\ pc[p] \notin {"off", "locked", "recording", "failed"}
    BY DEF ReserveRecord, Goto
  <2>4. CurrentRecord(p)'
    BY <2>1, <2>2, <2>3
       DEF Inv, TypeOK, CurrentRecords, CurrentRecord, HasPlaceholder
  <2>5. ASSUME NEW q \in Process, q # p
        PROVE  CurrentRecord(q)'
    <3>1. pc[q] = "off" /\ cur[q] = NoRecord /\ buffered[q] = 0
      BY <2>3, <2>5, OnlyOne
    <3>2. pc'[q] = "off" /\ cur'[q] = NoRecord /\ buffered'[q] = 0
      BY <2>1, <2>3, <2>5, <3>1 DEF Inv, TypeOK
    <3> QED
      BY <3>2 DEF CurrentRecord, HasPlaceholder
  <2> QED
    BY <2>4, <2>5 DEF CurrentRecords
<1> QED
  BY <1>1, <1>2, <1>3 DEF Inv

LEMMA AppendRecordInv ==
  ASSUME Inv, NEW p \in Process, AppendRecord(p)
  PROVE  Inv'
<1>1. TypeOK'
  <2>1. cur[p] \in Record
    BY CurrentFacts DEF Inv, TypeOK, AppendRecord
  <2>2. Appended(index[p], cur[p]) \in IndexObject
    BY <2>1, AppendedTyped DEF Inv, TypeOK, AppendRecord
  <2>3. index' \in [Process -> IndexObject]
    BY <2>2 DEF Inv, TypeOK, AppendRecord
  <2> QED
    BY <2>3 DEF Inv, TypeOK, AppendRecord, diskVars, Goto, Phase
<1>2. LockExclusion'
  BY StorageRecorderAssumption DEF Inv, TypeOK, LockExclusion, AppendRecord, Goto
<1>3. CurrentRecords'
  BY OnlyOne, StorageRecorderAssumption DEF Inv, TypeOK, LockExclusion, CurrentRecords, CurrentRecord, HasPlaceholder, AppendRecord, Goto, Phase, diskVars
<1> QED
  BY <1>1, <1>2, <1>3 DEF Inv

LEMMA AppendFailsInv ==
  ASSUME Inv, NEW p \in Process, AppendFails(p)
  PROVE  Inv'
<1>1. TypeOK'
  <2>1. DiskTyped'
    BY WithoutFileDisk DEF Inv, TypeOK, DiskTyped, AppendFails
  <2> QED
    BY <2>1 DEF Inv, TypeOK, DiskTyped, AppendFails, Goto, Phase
<1>2. LockExclusion'
  BY StorageRecorderAssumption DEF Inv, TypeOK, LockExclusion, AppendFails, Goto
<1>3. CurrentRecords'
  BY OnlyOne, WithoutFileTyped, StorageRecorderAssumption DEF Inv, TypeOK, LockExclusion, CurrentRecords, CurrentRecord, HasPlaceholder, AppendFails, Goto, Phase, diskVars
<1> QED
  BY <1>1, <1>2, <1>3 DEF Inv

LEMMA BeginSaveInv ==
  ASSUME Inv, NEW p \in Process, BeginSave(p)
  PROVE  Inv'
<1>1. TypeOK'
  BY  DEF Inv, TypeOK, BeginSave, Goto, Phase, diskVars
<1>2. LockExclusion'
  BY StorageRecorderAssumption DEF Inv, TypeOK, LockExclusion, BeginSave, Goto
<1>3. CurrentRecords'
  BY OnlyOne, StorageRecorderAssumption DEF Inv, TypeOK, LockExclusion, CurrentRecords, CurrentRecord, HasPlaceholder, BeginSave, Goto, Phase, diskVars
<1> QED
  BY <1>1, <1>2, <1>3 DEF Inv

LEMMA StageIndexInv ==
  ASSUME Inv, NEW p \in Process, StageIndex(p)
  PROVE  Inv'
<1>1. TypeOK'
  BY  DEF Inv, TypeOK, StageIndex, Goto, Phase, diskVars, ContentOf, IndexContent, IndexObject
<1>2. LockExclusion'
  BY StorageRecorderAssumption DEF Inv, TypeOK, LockExclusion, StageIndex, Goto
<1>3. CurrentRecords'
  BY OnlyOne, StorageRecorderAssumption DEF Inv, TypeOK, LockExclusion, CurrentRecords, CurrentRecord, HasPlaceholder, StageIndex, Goto, Phase, diskVars
<1> QED
  BY <1>1, <1>2, <1>3 DEF Inv

LEMMA PublishIndexInv ==
  ASSUME Inv, NEW p \in Process, PublishIndex(p)
  PROVE  Inv'
<1>1. TypeOK'
  BY  DEF Inv, TypeOK, PublishIndex, Goto, Phase, diskVars
<1>2. LockExclusion'
  BY StorageRecorderAssumption DEF Inv, TypeOK, LockExclusion, PublishIndex, Goto
<1>3. CurrentRecords'
  BY OnlyOne, StorageRecorderAssumption DEF Inv, TypeOK, LockExclusion, CurrentRecords, CurrentRecord, HasPlaceholder, PublishIndex, Goto, Phase, diskVars
<1> QED
  BY <1>1, <1>2, <1>3 DEF Inv

LEMMA OpenSegmentInv ==
  ASSUME Inv, NEW p \in Process, OpenSegment(p)
  PROVE  Inv'
<1>1. TypeOK'
  BY WithFileTyped, CurrentFacts, StorageRecorderAssumption DEF Inv, TypeOK, OpenSegment, Goto, Phase, diskVars
<1>2. LockExclusion'
  BY StorageRecorderAssumption DEF Inv, TypeOK, LockExclusion, OpenSegment, Goto
<1>3. CurrentRecords'
  <2>1. disk' = WithFile(cur[p], 0) /\ UNCHANGED <<cur, buffered>>
    BY DEF OpenSegment
  <2>2. cur[p] \in DOMAIN disk' /\ disk'[cur[p]] = 0
    BY <2>1, WithFileTyped
  <2>3. pc' = [pc EXCEPT ![p] = "recording"] /\ pc[p] \notin {"off", "locked", "recording", "failed"}
    BY DEF OpenSegment, Goto
  <2>4. CurrentRecord(p)'
    BY <2>1, <2>2, <2>3
       DEF Inv, TypeOK, CurrentRecords, CurrentRecord, HasPlaceholder
  <2>5. ASSUME NEW q \in Process, q # p
        PROVE  CurrentRecord(q)'
    <3>1. pc[q] = "off" /\ cur[q] = NoRecord /\ buffered[q] = 0
      BY <2>3, <2>5, OnlyOne
    <3>2. pc'[q] = "off" /\ cur'[q] = NoRecord /\ buffered'[q] = 0
      BY <2>1, <2>3, <2>5, <3>1 DEF Inv, TypeOK
    <3> QED
      BY <3>2 DEF CurrentRecord, HasPlaceholder
  <2> QED
    BY <2>4, <2>5 DEF CurrentRecords
<1> QED
  BY <1>1, <1>2, <1>3 DEF Inv

LEMMA LaunchBackendInv ==
  ASSUME Inv, NEW p \in Process, LaunchBackend(p)
  PROVE  Inv'
<1>1. TypeOK'
  BY  DEF Inv, TypeOK, LaunchBackend, Goto, Phase, diskVars
<1>2. LockExclusion'
  BY StorageRecorderAssumption DEF Inv, TypeOK, LockExclusion, LaunchBackend, Goto
<1>3. CurrentRecords'
  BY OnlyOne, StorageRecorderAssumption DEF Inv, TypeOK, LockExclusion, CurrentRecords, CurrentRecord, HasPlaceholder, LaunchBackend, Goto, Phase, diskVars
<1> QED
  BY <1>1, <1>2, <1>3 DEF Inv

LEMMA CloseMuxerInv ==
  ASSUME Inv, NEW p \in Process, CloseMuxer(p)
  PROVE  Inv'
<1>1. TypeOK'
  <2>1. DiskTyped'
    <3>1. CASE buffered[p] = 0
      BY <3>1 DEF Inv, TypeOK, DiskTyped, CloseMuxer
    <3>2. CASE buffered[p] # 0
      <4>1. cur[p] \in DOMAIN disk
        BY <3>2, CurrentFacts
      <4>2. cur[p] \in Record /\ disk[cur[p]] + buffered[p] \in Nat
        BY <4>1 DEF Inv, TypeOK
      <4> QED
        BY <3>2, <4>2, WithFileDisk DEF Inv, CloseMuxer
    <3> QED
      BY <3>1, <3>2
  <2> QED
    BY <2>1 DEF Inv, TypeOK, DiskTyped, CloseMuxer, Goto, Phase
<1>2. LockExclusion'
  BY StorageRecorderAssumption DEF Inv, TypeOK, LockExclusion, CloseMuxer, Goto
<1>3. CurrentRecords'
  BY OnlyOne, WithFileTyped, StorageRecorderAssumption DEF Inv, TypeOK, LockExclusion, CurrentRecords, CurrentRecord, HasPlaceholder, CloseMuxer, Goto, Phase, diskVars
<1> QED
  BY <1>1, <1>2, <1>3 DEF Inv

LEMMA ReleaseLockInv ==
  ASSUME Inv, NEW p \in Process, ReleaseLock(p)
  PROVE  Inv'
<1>1. TypeOK'
  BY BlankTyped DEF Inv, TypeOK, ReleaseLock, Goto, Phase, diskVars, Gone, UnlockedByClose
<1>2. LockExclusion'
  BY StorageRecorderAssumption DEF Inv, TypeOK, LockExclusion, ReleaseLock, Goto, Gone, UnlockedByClose
<1>3. CurrentRecords'
  BY OnlyOne, StorageRecorderAssumption DEF Inv, TypeOK, LockExclusion, CurrentRecords, CurrentRecord, HasPlaceholder, ReleaseLock, Goto, Phase, diskVars, Gone
<1> QED
  BY <1>1, <1>2, <1>3 DEF Inv

LEMMA LoadFailsInv ==
  ASSUME Inv, NEW p \in Process, LoadFails(p)
  PROVE  Inv'
<1>1. TypeOK'
  BY  DEF Inv, TypeOK, LoadFails, Goto, Phase, diskVars
<1>2. LockExclusion'
  BY StorageRecorderAssumption DEF Inv, TypeOK, LockExclusion, LoadFails, Goto
<1>3. CurrentRecords'
  BY OnlyOne, StorageRecorderAssumption DEF Inv, TypeOK, LockExclusion, CurrentRecords, CurrentRecord, HasPlaceholder, LoadFails, Goto, Phase, diskVars
<1> QED
  BY <1>1, <1>2, <1>3 DEF Inv

LEMMA ReserveFailsInv ==
  ASSUME Inv, NEW p \in Process, ReserveFails(p)
  PROVE  Inv'
<1>1. TypeOK'
  <2>1. DiskTyped'
    BY WithFileDisk, CurrentFacts DEF Inv, TypeOK, DiskTyped, ReserveFails
  <2> QED
    BY <2>1 DEF Inv, TypeOK, DiskTyped, ReserveFails, Goto, Phase
<1>2. LockExclusion'
  BY StorageRecorderAssumption DEF Inv, TypeOK, LockExclusion, ReserveFails, Goto
<1>3. CurrentRecords'
  BY OnlyOne, WithFileTyped, StorageRecorderAssumption DEF Inv, TypeOK, LockExclusion, CurrentRecords, CurrentRecord, HasPlaceholder, ReserveFails, Goto, Phase, diskVars, FreshPath
<1> QED
  BY <1>1, <1>2, <1>3 DEF Inv

LEMMA SaveFailsInv ==
  ASSUME Inv, NEW p \in Process, SaveFails(p)
  PROVE  Inv'
<1>1. TypeOK'
  <2>1. DiskTyped'
    BY WithoutFileDisk DEF Inv, TypeOK, DiskTyped, SaveFails
  <2>2. tempFile' \in [IndexNumber -> IndexContent \cup {NoIndex, Corrupt}]
    BY DEF Inv, TypeOK, SaveFails
  <2> QED
    BY <2>1, <2>2 DEF Inv, TypeOK, DiskTyped, SaveFails, Goto, Phase
<1>2. LockExclusion'
  BY StorageRecorderAssumption DEF Inv, TypeOK, LockExclusion, SaveFails, Goto
<1>3. CurrentRecords'
  BY OnlyOne, WithoutFileTyped, StorageRecorderAssumption DEF Inv, TypeOK, LockExclusion, CurrentRecords, CurrentRecord, HasPlaceholder, SaveFails, Goto, Phase, diskVars
<1> QED
  BY <1>1, <1>2, <1>3 DEF Inv

LEMMA OpenSegmentFailsInv ==
  ASSUME Inv, NEW p \in Process, OpenSegmentFails(p)
  PROVE  Inv'
<1>1. TypeOK'
  BY  DEF Inv, TypeOK, OpenSegmentFails, Goto, Phase, diskVars
<1>2. LockExclusion'
  BY StorageRecorderAssumption DEF Inv, TypeOK, LockExclusion, OpenSegmentFails, Goto
<1>3. CurrentRecords'
  BY OnlyOne, StorageRecorderAssumption DEF Inv, TypeOK, LockExclusion, CurrentRecords, CurrentRecord, HasPlaceholder, OpenSegmentFails, Goto, Phase, diskVars
<1> QED
  BY <1>1, <1>2, <1>3 DEF Inv

LEMMA WriteFailsInv ==
  ASSUME Inv, NEW p \in Process, WriteFails(p)
  PROVE  Inv'
<1>1. TypeOK'
  <2>1. PICK unit \in {0} \cup AccessUnitSize, kept \in 0 .. BufferSize :
          Grown(p, unit, kept)
    BY DEF WriteFails
  <2>2. unit \in Nat /\ kept \in Nat /\ cur[p] \in DOMAIN disk
    BY UnitTyped, CurrentFacts DEF WriteFails
  <2>3. DiskTyped' /\ buffered' \in [Process -> Nat]
    BY <2>1, <2>2, GrownTyped DEF Inv
  <2> QED
    BY <2>3 DEF Inv, TypeOK, DiskTyped, WriteFails, Goto, Phase
<1>2. LockExclusion'
  BY StorageRecorderAssumption DEF Inv, TypeOK, LockExclusion, WriteFails, Goto
<1>3. CurrentRecords'
  <2>1. PICK unit \in {0} \cup AccessUnitSize, kept \in 0 .. BufferSize :
          Grown(p, unit, kept)
    BY DEF WriteFails
  <2>2. unit \in Nat /\ kept \in Nat /\ cur[p] \in DOMAIN disk
    BY UnitTyped, CurrentFacts DEF WriteFails
  <2>3. DOMAIN disk' = DOMAIN disk
    BY <2>1, <2>2, GrownTyped DEF Inv
  <2>4. CurrentRecord(p)'
    BY <2>2, <2>3
       DEF Inv, TypeOK, CurrentRecord, HasPlaceholder, WriteFails, Goto
  <2>5. ASSUME NEW q \in Process, q # p
        PROVE  CurrentRecord(q)'
    <3>1. pc[q] = "off" /\ cur[q] = NoRecord /\ buffered[q] = 0
      BY <2>5, OnlyOne DEF WriteFails
    <3>2. pc'[q] = "off" /\ cur'[q] = NoRecord /\ buffered'[q] = 0
      BY <2>1, <2>5, <3>1 DEF Inv, TypeOK, WriteFails, Goto, Grown
    <3> QED
      BY <3>2 DEF CurrentRecord, HasPlaceholder
  <2> QED
    BY <2>4, <2>5 DEF CurrentRecords
<1> QED
  BY <1>1, <1>2, <1>3 DEF Inv

LEMMA WriteAccessUnitInv ==
  ASSUME Inv, NEW p \in Process, WriteAccessUnit(p)
  PROVE  Inv'
<1>1. TypeOK'
  <2>1. PICK unit \in AccessUnitSize, kept \in 0 .. BufferSize :
          Grown(p, unit, kept)
    BY DEF WriteAccessUnit
  <2>2. unit \in Nat /\ kept \in Nat /\ cur[p] \in DOMAIN disk
    BY UnitTyped, CurrentFacts DEF WriteAccessUnit
  <2>3. DiskTyped' /\ buffered' \in [Process -> Nat]
    BY <2>1, <2>2, GrownTyped DEF Inv
  <2> QED
    BY <2>3 DEF Inv, TypeOK, DiskTyped, WriteAccessUnit, Goto, Phase
<1>2. LockExclusion'
  BY StorageRecorderAssumption DEF Inv, TypeOK, LockExclusion, WriteAccessUnit, Goto
<1>3. CurrentRecords'
  BY OnlyOne, WithFileTyped, StorageRecorderAssumption DEF Inv, TypeOK, LockExclusion, CurrentRecords, CurrentRecord, HasPlaceholder, WriteAccessUnit, Goto, Phase, diskVars, Grown
<1> QED
  BY <1>1, <1>2, <1>3 DEF Inv

LEMMA WriteLastAccessUnitInv ==
  ASSUME Inv, NEW p \in Process, WriteLastAccessUnit(p)
  PROVE  Inv'
<1>1. TypeOK'
  <2>1. PICK unit \in AccessUnitSize :
          disk' = WithFile(cur[p], disk[cur[p]] + buffered[p] + unit)
    BY DEF WriteLastAccessUnit
  <2>2. cur[p] \in DOMAIN disk
    BY CurrentFacts DEF WriteLastAccessUnit
  <2>3. cur[p] \in Record /\ disk[cur[p]] + buffered[p] + unit \in Nat
    BY <2>2, UnitTyped DEF Inv, TypeOK
  <2>4. DiskTyped'
    BY <2>1, <2>3, WithFileDisk DEF Inv
  <2> QED
    BY <2>4 DEF Inv, TypeOK, DiskTyped, WriteLastAccessUnit, Goto, Phase
<1>2. LockExclusion'
  BY StorageRecorderAssumption DEF Inv, TypeOK, LockExclusion, WriteLastAccessUnit, Goto
<1>3. CurrentRecords'
  BY OnlyOne, WithFileTyped, StorageRecorderAssumption DEF Inv, TypeOK, LockExclusion, CurrentRecords, CurrentRecord, HasPlaceholder, WriteLastAccessUnit, Goto, Phase, diskVars
<1> QED
  BY <1>1, <1>2, <1>3 DEF Inv

LEMMA BackendExitsInv ==
  ASSUME Inv, NEW p \in Process, BackendExits(p)
  PROVE  Inv'
<1>1. TypeOK'
  BY  DEF Inv, TypeOK, BackendExits, Goto, Phase, diskVars
<1>2. LockExclusion'
  BY StorageRecorderAssumption DEF Inv, TypeOK, LockExclusion, BackendExits, Goto
<1>3. CurrentRecords'
  BY OnlyOne, StorageRecorderAssumption DEF Inv, TypeOK, LockExclusion, CurrentRecords, CurrentRecord, HasPlaceholder, BackendExits, Goto, Phase, diskVars
<1> QED
  BY <1>1, <1>2, <1>3 DEF Inv

LEMMA CrashInv ==
  ASSUME Inv, NEW p \in Process, Crash(p)
  PROVE  Inv'
<1>1. TypeOK'
  BY BlankTyped DEF Inv, TypeOK, Crash, Goto, Phase, diskVars, Gone
<1>2. LockExclusion'
  BY StorageRecorderAssumption DEF Inv, TypeOK, LockExclusion, Crash, Goto, Gone
<1>3. CurrentRecords'
  BY OnlyOne, StorageRecorderAssumption DEF Inv, TypeOK, LockExclusion, CurrentRecords, CurrentRecord, HasPlaceholder, Crash, Goto, Phase, diskVars, Gone
<1> QED
  BY <1>1, <1>2, <1>3 DEF Inv

LEMMA DamageIndexInv ==
  ASSUME Inv, DamageIndex
  PROVE  Inv'
<1>1. TypeOK'
  BY DEF Inv, TypeOK, DamageIndex, procVars
<1>2. LockExclusion' /\ CurrentRecords'
  BY DEF Inv, LockExclusion, CurrentRecords, CurrentRecord, HasPlaceholder,
         DamageIndex, procVars
<1> QED
  BY <1>1, <1>2 DEF Inv

LEMMA EditSettingsInv ==
  ASSUME Inv, EditSettings
  PROVE  Inv'
<1>1. TypeOK'
  <2>1. PICK n \in IndexNumber, max \in EditedMax, size \in EditedSize :
          /\ IsLatest(n)
          /\ indexFile[n] # Corrupt
          /\ indexFile' = [indexFile EXCEPT ![n].max = max, ![n].size = size]
    BY DEF EditSettings
  <2>2. indexFile[n] \in IndexContent
    BY <2>1 DEF Inv, TypeOK, IsLatest
  <2>3. [indexFile[n] EXCEPT !.max = max, !.size = size] \in IndexContent
    BY <2>2, StorageRecorderAssumption DEF IndexContent
  <2>4. indexFile' \in [IndexNumber -> IndexContent \cup {NoIndex, Corrupt}]
    BY <2>1, <2>3 DEF Inv, TypeOK
  <2> QED
    BY <2>4 DEF Inv, TypeOK, EditSettings, procVars
<1>2. LockExclusion' /\ CurrentRecords'
  BY DEF Inv, LockExclusion, CurrentRecords, CurrentRecord, HasPlaceholder,
         EditSettings, procVars
<1> QED
  BY <1>1, <1>2 DEF Inv

LEMMA OrphanExitsInv ==
  ASSUME Inv, OrphanExits
  PROVE  Inv'
<1>1. TypeOK'
  BY DEF Inv, TypeOK, OrphanExits, diskVars
<1>2. LockExclusion' /\ CurrentRecords'
  BY StorageRecorderAssumption
     DEF Inv, LockExclusion, CurrentRecords, CurrentRecord, HasPlaceholder,
         OrphanExits, diskVars
<1> QED
  BY <1>1, <1>2 DEF Inv

LEMMA StutterInv ==
  ASSUME Inv, UNCHANGED vars
  PROVE  Inv'
  BY DEF Inv, TypeOK, LockExclusion, CurrentRecords, CurrentRecord,
         HasPlaceholder, vars

LEMMA StepInv ==
  ASSUME Inv, [Next]_vars
  PROVE  Inv'
  BY StartInv, LoadIndexInv, RecoverIndexInv, CreateIndexInv,
     IndexesExhaustedInv, ChoosePathInv, PathsExhaustedInv, ReserveRecordInv,
     AppendRecordInv, AppendFailsInv, BeginSaveInv, StageIndexInv,
     PublishIndexInv, OpenSegmentInv, LaunchBackendInv, CloseMuxerInv,
     ReleaseLockInv, LoadFailsInv, ReserveFailsInv, SaveFailsInv,
     OpenSegmentFailsInv, WriteFailsInv, WriteAccessUnitInv,
     WriteLastAccessUnitInv, BackendExitsInv, CrashInv, DamageIndexInv,
     EditSettingsInv, OrphanExitsInv, StutterInv
     DEF Next, Proceed, Fault

THEOREM Invariance == Spec => []Inv
  BY InitInv, StepInv, PTL DEF Spec

\* Every variable keeps its type: for instance, no position the program
\* computes is beyond INT_MAX.
THEOREM TypeCorrect == Spec => []TypeOK
<1>1. Inv => TypeOK
  BY DEF Inv
<1> QED
  BY <1>1, Invariance, PTL

\* Two instances never record to one directory at the same time, whichever are
\* started and killed and however long their backends outlive them.
THEOREM MutualExclusion == Spec => []LockExclusion
<1>1. Inv => LockExclusion
  BY DEF Inv
<1> QED
  BY <1>1, Invariance, PTL

-----------------------------------------------------------------------------
(* Recorded data                                                           *)

LEMMA RemovalKeepsData ==
  ASSUME TypeOK, NEW r, r \in DOMAIN disk => disk[r] = 0,
         disk' \in {disk, WithoutFile(r)}
  PROVE  DataKept
<1> SUFFICES ASSUME NEW q \in DOMAIN disk, disk[q] > 0
             PROVE  q \in DOMAIN disk' /\ disk'[q] >= disk[q]
  BY DEF DataKept
<1>1. disk[q] \in Nat /\ q # r
  BY DEF TypeOK
<1>2. q \in DOMAIN disk' /\ disk'[q] = disk[q]
  BY <1>1 DEF WithoutFile
<1> QED
  BY <1>1, <1>2

LEMMA WritingKeepsData ==
  ASSUME TypeOK, NEW r, NEW size \in Nat,
         r \in DOMAIN disk => disk[r] = 0 \/ size >= disk[r],
         disk' = WithFile(r, size)
  PROVE  DataKept
<1> SUFFICES ASSUME NEW q \in DOMAIN disk, disk[q] > 0
             PROVE  q \in DOMAIN disk' /\ disk'[q] >= disk[q]
  BY DEF DataKept
<1>1. disk[q] \in Nat
  BY DEF TypeOK
<1>2. DOMAIN disk' = DOMAIN disk \cup {r} /\ disk'[r] = size
  BY WithFileTyped
<1>3. q # r => disk'[q] = disk[q]
  BY DEF WithFile
<1> QED
  BY <1>1, <1>2, <1>3

LEMMA UnchangedDiskKeepsData ==
  ASSUME TypeOK, UNCHANGED disk
  PROVE  DataKept
  BY DEF DataKept, TypeOK

LEMMA GrowthKeepsData ==
  ASSUME Inv, NEW p \in Process, pc[p] = "recording",
         NEW unit \in Nat, NEW kept \in Nat, Grown(p, unit, kept)
  PROVE  DataKept
<1>1. cur[p] \in DOMAIN disk
  BY CurrentFacts
<1>2. disk[cur[p]] + buffered[p] + unit - kept \in Nat
  BY <1>1 DEF Inv, TypeOK, Grown
<1> QED
  BY <1>1, <1>2, WritingKeepsData DEF Inv, Grown

LEMMA StepKeepsData ==
  ASSUME Inv, [Next]_vars
  PROVE  DataKept
<1> USE DEF Inv
<1>1. ASSUME NEW p \in Process, ReserveRecord(p) \/ ReserveFails(p)
      PROVE  DataKept
  <2>1. CASE UNCHANGED disk
    BY <2>1, UnchangedDiskKeepsData
  <2>2. CASE disk' = WithFile(cur[p], 0) /\ FreshPath(cur[p])
    BY <2>2, WritingKeepsData DEF FreshPath
  <2> QED
    BY <1>1, <2>1, <2>2 DEF ReserveRecord, ReserveFails
<1>2. ASSUME NEW p \in Process, OpenSegment(p)
      PROVE  DataKept
  BY <1>2, WritingKeepsData
     DEF OpenSegment, CurrentRecords, CurrentRecord, HasPlaceholder
<1>3. ASSUME NEW p \in Process, AppendFails(p) \/ SaveFails(p)
      PROVE  DataKept
  <2>1. cur[p] \in DOMAIN disk => disk[cur[p]] = 0
    BY <1>3, StorageRecorderAssumption
       DEF AppendFails, SaveFails, TypeOK, CurrentRecords, CurrentRecord,
           HasPlaceholder
  <2> QED
    BY <1>3, <2>1, RemovalKeepsData DEF AppendFails, SaveFails
<1>4. ASSUME NEW p \in Process, WriteAccessUnit(p) \/ WriteFails(p)
      PROVE  DataKept
  <2>1. PICK unit \in {0} \cup AccessUnitSize, kept \in 0 .. BufferSize :
          Grown(p, unit, kept)
    BY <1>4 DEF WriteAccessUnit, WriteFails
  <2> QED
    BY <1>4, <2>1, UnitTyped, GrowthKeepsData DEF WriteAccessUnit, WriteFails
<1>5. ASSUME NEW p \in Process, WriteLastAccessUnit(p)
      PROVE  DataKept
  <2>1. PICK unit \in AccessUnitSize :
          disk' = WithFile(cur[p], disk[cur[p]] + buffered[p] + unit)
    BY <1>5 DEF WriteLastAccessUnit
  <2>2. disk[cur[p]] \in Nat /\ buffered[p] \in Nat /\ unit \in Nat
    BY <1>5, UnitTyped, CurrentFacts DEF WriteLastAccessUnit, TypeOK
  <2> QED
    BY <2>1, <2>2, WritingKeepsData
<1>6. ASSUME NEW p \in Process, CloseMuxer(p)
      PROVE  DataKept
  <2>1. CASE buffered[p] = 0
    BY <1>6, <2>1, UnchangedDiskKeepsData DEF CloseMuxer
  <2>2. CASE buffered[p] # 0
    <3>1. disk[cur[p]] \in Nat /\ buffered[p] \in Nat
      BY <2>2, CurrentFacts DEF TypeOK
    <3> QED
      BY <1>6, <2>2, <3>1, WritingKeepsData DEF CloseMuxer
  <2> QED
    BY <2>1, <2>2
<1>7. CASE UNCHANGED disk
  BY <1>7, UnchangedDiskKeepsData
<1> QED
  BY <1>1, <1>2, <1>3, <1>4, <1>5, <1>6, <1>7
     DEF Next, Proceed, Fault, vars, diskVars, Start, LoadIndex, RecoverIndex,
         CreateIndex, IndexesExhausted, ChoosePath, PathsExhausted,
         AppendRecord, BeginSave, StageIndex, PublishIndex, LaunchBackend,
         ReleaseLock, LoadFails, OpenSegmentFails, BackendExits, Crash,
         OrphanExits, DamageIndex, EditSettings

\* No step of any instance, however the others ended, removes a record file
\* that has data or makes it shorter.
THEOREM DataPreserved == Spec => RecordedDataKept
<1>1. Inv /\ [Next]_vars => [DataKept]_vars
  BY StepKeepsData
<1> QED
  BY <1>1, Invariance, PTL DEF Spec, RecordedDataKept

-----------------------------------------------------------------------------
(* Indexes                                                                 *)

Working == {"saving", "writing", "staged", "between", "named", "reserved",
            "saved", "recording"}

\* The instance writes to the highest number in use or to a new one, never to
\* a damaged index, and renames only what it has completely written.
OwnIndex(p) ==
  pc[p] \in Working =>
    /\ \A m \in IndexNumber : indexFile[m] # NoIndex => m <= index[p].number
    /\ indexFile[index[p].number] # Corrupt
    /\ pc[p] = "staged" => tempFile[index[p].number] = ContentOf(index[p])

OwnIndexes == \A p \in Process : OwnIndex(p)

IndexInv == Inv /\ OwnIndexes

LEMMA OneActs ==
  ASSUME Inv, NEW p \in Process, pc[p] # "off",
         \A q \in Process : q # p => pc'[q] = pc[q],
         OwnIndex(p)'
  PROVE  OwnIndexes'
<1> SUFFICES ASSUME NEW q \in Process, q # p
             PROVE  OwnIndex(q)'
  BY DEF OwnIndexes
<1>1. pc'[q] = "off"
  BY OnlyOne
<1> QED
  BY <1>1 DEF OwnIndex, Working

LEMMA NumberTyped ==
  ASSUME Inv, NEW p \in Process
  PROVE  index[p].number \in IndexNumber
  BY DEF Inv, TypeOK, IndexObject

LEMMA LoadOwnIndex ==
  ASSUME IndexInv, NEW p \in Process,
         LoadIndex(p) \/ RecoverIndex(p) \/ CreateIndex(p)
  PROVE  OwnIndexes'
<1>1. pc[p] = "locked" /\ \A q \in Process : q # p => pc'[q] = pc[q]
  BY DEF IndexInv, Inv, TypeOK, LoadIndex, RecoverIndex, CreateIndex, Goto
<1>2. OwnIndex(p)'
  <2>1. CASE LoadIndex(p)
    <3>1. PICK n \in IndexNumber :
            /\ IsLatest(n)
            /\ ValidIndex(indexFile[n])
            /\ index' = [index EXCEPT ![p] = Loaded(n, indexFile[n])]
            /\ Goto(p, IF indexFile[n].headed THEN "between" ELSE "saving")
      BY <2>1 DEF LoadIndex
    <3>2. index'[p].number = n
      BY <3>1 DEF IndexInv, Inv, TypeOK, Loaded
    <3>3. pc'[p] \in {"between", "saving"}
      BY <3>1 DEF IndexInv, Inv, TypeOK, Goto
    <3>4. indexFile[n] # Corrupt /\ UNCHANGED indexFile
      BY <2>1, <3>1 DEF ValidIndex, LoadIndex, diskVars
    <3> QED
      BY <3>1, <3>2, <3>3, <3>4 DEF OwnIndex, IsLatest
  <2>2. CASE RecoverIndex(p)
    <3>1. PICK n \in IndexNumber, next \in Scan(DefaultMaxFileNum) :
            /\ IsLatest(n)
            /\ n < MaxIndexNumber
            /\ index' = [index EXCEPT ![p] =
                 Scanned(RecoveryNumber(n), DefaultSettings, next)]
      BY <2>2 DEF RecoverIndex
    <3>2. index'[p].number = n + 1 /\ n + 1 \in IndexNumber
      BY <3>1, StorageIndexAssumption
         DEF IndexInv, Inv, TypeOK, Scanned, RecoveryNumber, IndexNumber
    <3>3. pc'[p] = "between" /\ UNCHANGED indexFile
      BY <2>2 DEF IndexInv, Inv, TypeOK, RecoverIndex, Goto, diskVars
    <3>4. \A m \in IndexNumber : indexFile[m] # NoIndex => m <= n
      BY <3>1 DEF IsLatest
    <3>5. indexFile[n + 1] = NoIndex
      BY <3>2, <3>4 DEF IndexNumber
    <3>6. \A m \in IndexNumber : indexFile[m] # NoIndex => m <= n + 1
      BY <3>1, <3>4 DEF IndexNumber
    <3>7. NoIndex # Corrupt
      BY StorageIndexAssumption
    <3> QED
      BY <3>2, <3>3, <3>5, <3>6, <3>7 DEF OwnIndex
  <2>3. CASE CreateIndex(p)
    <3>1. index'[p].number = 0
      BY <2>3 DEF IndexInv, Inv, TypeOK, CreateIndex, Scanned
    <3>2. pc'[p] # "staged" /\ UNCHANGED indexFile
      BY <2>3 DEF IndexInv, Inv, TypeOK, CreateIndex, Goto, diskVars
    <3>3. 0 \in IndexNumber /\ NoIndex # Corrupt
      BY StorageIndexAssumption DEF IndexNumber
    <3> QED
      BY <2>3, <3>1, <3>2, <3>3 DEF OwnIndex, CreateIndex, NoNumberedIndex
  <2> QED
    BY <2>1, <2>2, <2>3
<1> QED
  BY <1>1, <1>2, OneActs DEF IndexInv

LEMMA SaveOwnIndex ==
  ASSUME IndexInv, NEW p \in Process,
         BeginSave(p) \/ StageIndex(p) \/ PublishIndex(p)
  PROVE  OwnIndexes'
<1> DEFINE n == index[p].number
<1>1. /\ pc[p] \in {"saving", "writing", "staged"}
      /\ \A q \in Process : q # p => pc'[q] = pc[q]
      /\ index'[p] = index[p]
  BY DEF IndexInv, Inv, TypeOK, BeginSave, StageIndex, PublishIndex, Goto
<1>2. n \in IndexNumber
  BY NumberTyped DEF IndexInv
<1>3. OwnIndex(p)
  BY DEF IndexInv, OwnIndexes
<1>4. CASE BeginSave(p)
  <2>1. pc'[p] = "writing" /\ UNCHANGED indexFile
    BY <1>4 DEF IndexInv, Inv, TypeOK, BeginSave, Goto
  <2> QED
    BY <1>1, <1>3, <2>1, OneActs DEF IndexInv, OwnIndex, Working
<1>5. CASE StageIndex(p)
  <2>1. UNCHANGED indexFile /\ tempFile'[n] = ContentOf(index[p])
    BY <1>2, <1>5 DEF IndexInv, Inv, TypeOK, StageIndex
  <2>2. ContentOf(index[p])' = ContentOf(index[p])
    BY <1>1 DEF ContentOf
  <2> QED
    BY <1>1, <1>3, <2>1, <2>2, OneActs DEF IndexInv, OwnIndex, Working
<1>6. CASE PublishIndex(p)
  <2>1. pc'[p] # "staged"
    BY <1>6 DEF IndexInv, Inv, TypeOK, PublishIndex, Goto
  <2>2. indexFile'[n] = ContentOf(index[p])
    BY <1>2, <1>3, <1>6 DEF IndexInv, Inv, TypeOK, PublishIndex, OwnIndex,
                            Working
  <2>3. ContentOf(index[p]) \in IndexContent
    BY DEF IndexInv, Inv, TypeOK, IndexObject, ContentOf, IndexContent
  <2>4. indexFile'[n] # Corrupt
    BY <2>2, <2>3, StorageRecorderAssumption
  <2>5. \A m \in IndexNumber : indexFile'[m] # NoIndex => m <= n
    BY <1>1, <1>2, <1>3, <1>6
       DEF IndexInv, Inv, TypeOK, PublishIndex, OwnIndex, Working, IndexNumber
  <2> QED
    BY <1>1, <2>1, <2>4, <2>5, OneActs DEF IndexInv, OwnIndex
<1> QED
  BY <1>4, <1>5, <1>6

\* A step inside open_next_segment or the segment.
LEMMA QuietOwnIndex ==
  ASSUME IndexInv, NEW p \in Process,
         \A q \in Process : q # p => pc'[q] = pc[q],
         pc[p] # "off",
         UNCHANGED indexFile,
         \/ pc'[p] \notin Working
         \/ /\ pc[p] \in Working
            /\ pc'[p] # "staged"
            /\ index'[p].number = index[p].number
         \/ UNCHANGED <<pc, index, tempFile>>
  PROVE  OwnIndexes'
<1>1. OwnIndex(p)
  BY DEF IndexInv, OwnIndexes
<1>2. OwnIndex(p)'
  BY <1>1 DEF OwnIndex, ContentOf
<1> QED
  BY <1>2, OneActs DEF IndexInv

LEMMA SegmentOwnIndex ==
  ASSUME IndexInv, NEW p \in Process,
         \/ ChoosePath(p) \/ ReserveRecord(p) \/ AppendRecord(p)
         \/ OpenSegment(p) \/ WriteLastAccessUnit(p)
  PROVE  OwnIndexes'
<1>1. /\ \A q \in Process : q # p => pc'[q] = pc[q]
      /\ pc[p] \in Working
      /\ pc'[p] # "staged"
      /\ UNCHANGED indexFile
  BY DEF IndexInv, Inv, TypeOK, ChoosePath, ReserveRecord, AppendRecord,
         OpenSegment, WriteLastAccessUnit, Goto, Working, diskVars
<1>2. index'[p].number = index[p].number
  <2>1. Appended(index[p], cur[p]).number = index[p].number
    BY DEF IndexInv, Inv, TypeOK, IndexObject, Appended
  <2> QED
    BY <2>1 DEF IndexInv, Inv, TypeOK, ChoosePath, ReserveRecord,
         AppendRecord, OpenSegment, WriteLastAccessUnit
<1> QED
  BY <1>1, <1>2, QuietOwnIndex DEF Working

LEMMA EndOwnIndex ==
  ASSUME IndexInv, NEW p \in Process,
         \/ Start(p) \/ IndexesExhausted(p) \/ PathsExhausted(p)
         \/ AppendFails(p) \/ CloseMuxer(p) \/ ReleaseLock(p) \/ LoadFails(p)
         \/ ReserveFails(p) \/ SaveFails(p) \/ OpenSegmentFails(p)
         \/ WriteFails(p) \/ Crash(p)
  PROVE  OwnIndexes'
<1>1. /\ \A q \in Process : q # p => pc'[q] = pc[q]
      /\ pc'[p] \notin Working
      /\ UNCHANGED indexFile
  BY DEF IndexInv, Inv, TypeOK, Start, IndexesExhausted, PathsExhausted,
         AppendFails, CloseMuxer, ReleaseLock, LoadFails, ReserveFails,
         SaveFails, OpenSegmentFails, WriteFails, Crash, Gone, Goto, Working,
         diskVars
<1>2. CASE pc[p] # "off"
  BY <1>1, <1>2, QuietOwnIndex
<1>3. CASE pc[p] = "off"
  <2>1. Start(p)
    BY <1>3 DEF IndexesExhausted, PathsExhausted, AppendFails, CloseMuxer,
         ReleaseLock, LoadFails, ReserveFails, SaveFails, OpenSegmentFails,
         WriteFails, Crash
  <2>2. \A q \in Process : pc[q] = "off"
    BY <2>1, StorageRecorderAssumption
       DEF IndexInv, Inv, LockExclusion, Start, Lockable
  <2> QED
    BY <1>1, <2>2 DEF OwnIndexes, OwnIndex, Working
<1> QED
  BY <1>2, <1>3

LEMMA OtherOwnIndex ==
  ASSUME IndexInv,
         \/ \E p \in Process : \/ LaunchBackend(p) \/ WriteAccessUnit(p)
                               \/ BackendExits(p)
         \/ OrphanExits \/ DamageIndex \/ EditSettings \/ UNCHANGED vars
  PROVE  OwnIndexes'
<1>1. CASE UNCHANGED <<pc, index, indexFile, tempFile>>
  BY <1>1 DEF IndexInv, OwnIndexes, OwnIndex, ContentOf
<1>2. CASE DamageIndex \/ EditSettings
  <2>1. \A q \in Process : pc'[q] = "off"
    BY <1>2, StorageRecorderAssumption
       DEF IndexInv, Inv, LockExclusion, DamageIndex, EditSettings, procVars
  <2> QED
    BY <2>1 DEF OwnIndexes, OwnIndex, Working
<1> QED
  BY <1>1, <1>2 DEF LaunchBackend, WriteAccessUnit, BackendExits, OrphanExits,
                    diskVars, vars

LEMMA StepIndexInv ==
  ASSUME IndexInv, [Next]_vars
  PROVE  IndexInv'
<1>1. Inv'
  BY StepInv DEF IndexInv
<1>2. OwnIndexes'
  BY LoadOwnIndex, SaveOwnIndex, SegmentOwnIndex, EndOwnIndex, OtherOwnIndex
     DEF Next, Proceed, Fault
<1> QED
  BY <1>1, <1>2 DEF IndexInv

LEMMA InitIndexInv == Init => IndexInv
<1> SUFFICES ASSUME Init PROVE IndexInv
  OBVIOUS
<1>1. OwnIndexes
  BY DEF Init, OwnIndexes, OwnIndex, Working
<1> QED
  BY <1>1, InitInv DEF IndexInv

-----------------------------------------------------------------------------
(* Indexed records                                                         *)

Lists(content, r) ==
  \E i \in 1 .. Len(content.records) : content.records[i] = r

ListedOnDisk(r) ==
  \E n \in IndexNumber :
    indexFile[n] \notin {NoIndex, Corrupt} /\ Lists(indexFile[n], r)

\* The records of the index object exist, and a placeholder that may still be
\* removed is not listed by an index on disk.
OwnRecord(p) ==
  /\ pc[p] \in Working => \A r : Lists(index[p], r) => r \in DOMAIN disk
  /\ HasPlaceholder(p) /\ pc[p] # "saved" => ~ListedOnDisk(cur[p])

OwnRecords == \A p \in Process : OwnRecord(p)

ListedExist == \A r : ListedOnDisk(r) => r \in DOMAIN disk

RecordInv == IndexInv /\ OwnRecords /\ ListedExist

LEMMA OneOwnsRecords ==
  ASSUME Inv, NEW p \in Process, pc[p] # "off",
         \A q \in Process : q # p => pc'[q] = pc[q],
         OwnRecord(p)'
  PROVE  OwnRecords'
<1> SUFFICES ASSUME NEW q \in Process, q # p
             PROVE  OwnRecord(q)'
  BY DEF OwnRecords
<1>1. pc'[q] = "off"
  BY OnlyOne
<1> QED
  BY <1>1 DEF OwnRecord, HasPlaceholder, Working

LEMMA GrowingDisk ==
  ASSUME ListedExist, UNCHANGED indexFile, DOMAIN disk \subseteq DOMAIN disk'
  PROVE  /\ ListedExist'
         /\ \A r : ListedOnDisk(r)' <=> ListedOnDisk(r)
  BY DEF ListedExist, ListedOnDisk, Lists

LEMMA WritingGrows ==
  ASSUME NEW r, NEW size, disk' = WithFile(r, size)
  PROVE  DOMAIN disk \subseteq DOMAIN disk'
  BY DEF WithFile

LEMMA LoadRecords ==
  ASSUME RecordInv, NEW p \in Process,
         LoadIndex(p) \/ RecoverIndex(p) \/ CreateIndex(p)
  PROVE  OwnRecords' /\ ListedExist'
<1>1. /\ pc[p] = "locked" /\ cur[p] = NoRecord
      /\ \A q \in Process : q # p => pc'[q] = pc[q]
      /\ UNCHANGED <<indexFile, disk, cur>>
      /\ pc'[p] \in {"saving", "between"}
  BY DEF RecordInv, IndexInv, Inv, TypeOK, CurrentRecords, CurrentRecord,
         LoadIndex, RecoverIndex, CreateIndex, Goto, diskVars
<1>2. ListedExist'
  BY <1>1, GrowingDisk DEF RecordInv
<1>3. ~HasPlaceholder(p)'
  BY <1>1 DEF HasPlaceholder
<1>4. \A r : Lists(index'[p], r) => r \in DOMAIN disk
  <2>1. CASE LoadIndex(p)
    <3>1. PICK n \in IndexNumber :
            /\ ValidIndex(indexFile[n])
            /\ index' = [index EXCEPT ![p] = Loaded(n, indexFile[n])]
      BY <2>1 DEF LoadIndex
    <3>2. index'[p].records = indexFile[n].records
      BY <3>1 DEF RecordInv, IndexInv, Inv, TypeOK, Loaded
    <3> QED
      BY <3>1, <3>2
         DEF RecordInv, ListedExist, ListedOnDisk, Lists, ValidIndex
  <2>2. CASE RecoverIndex(p) \/ CreateIndex(p)
    <3>1. index'[p].records = <<>>
      BY <2>2 DEF RecordInv, IndexInv, Inv, TypeOK, RecoverIndex, CreateIndex,
                  Scanned
    <3> QED
      BY <3>1 DEF Lists
  <2> QED
    BY <2>1, <2>2
<1>5. OwnRecord(p)'
  BY <1>1, <1>3, <1>4 DEF OwnRecord, Lists
<1> QED
  BY <1>1, <1>2, <1>5, OneOwnsRecords DEF RecordInv, IndexInv

LEMMA AppendRecords ==
  ASSUME RecordInv, NEW p \in Process, AppendRecord(p)
  PROVE  OwnRecords' /\ ListedExist'
<1>1. /\ pc[p] = "reserved"
      /\ \A q \in Process : q # p => pc'[q] = pc[q]
      /\ UNCHANGED <<indexFile, disk, cur>>
      /\ pc'[p] = "saving"
  BY DEF RecordInv, IndexInv, Inv, TypeOK, AppendRecord, Goto, diskVars
<1>2. ListedExist' /\ \A r : ListedOnDisk(r)' <=> ListedOnDisk(r)
  BY <1>1, GrowingDisk DEF RecordInv
<1>3. cur[p] \in DOMAIN disk /\ ~ListedOnDisk(cur[p])
  BY <1>1 DEF RecordInv, OwnRecords, OwnRecord, HasPlaceholder, IndexInv, Inv,
              CurrentRecords, CurrentRecord
<1>4. index'[p].records = Append(index[p].records, cur[p])
  BY DEF RecordInv, IndexInv, Inv, TypeOK, AppendRecord, Appended, IndexObject
<1>5. index[p].records \in Seq(Record) /\ cur[p] \in Record
  BY <1>3 DEF RecordInv, IndexInv, Inv, TypeOK, IndexObject
<1>6. \A r : Lists(index[p], r) => r \in DOMAIN disk
  BY <1>1 DEF RecordInv, OwnRecords, OwnRecord, Working
<1>7. ASSUME NEW r, Lists(index'[p], r)
      PROVE  r \in DOMAIN disk
  <2>1. PICK i \in 1 .. Len(Append(index[p].records, cur[p])) :
          Append(index[p].records, cur[p])[i] = r
    BY <1>4, <1>7 DEF Lists
  <2>2. CASE i = Len(index[p].records) + 1
    BY <1>3, <1>5, <2>1, <2>2
  <2>3. CASE i # Len(index[p].records) + 1
    <3>1. i \in 1 .. Len(index[p].records) /\ index[p].records[i] = r
      BY <1>5, <2>1, <2>3
    <3> QED
      BY <1>6, <3>1 DEF Lists
  <2> QED
    BY <2>2, <2>3
<1>8. ~ListedOnDisk(cur[p])'
  BY <1>1, <1>2, <1>3 DEF ListedOnDisk, Lists
<1>9. OwnRecord(p)'
  BY <1>1, <1>7, <1>8 DEF OwnRecord, Lists
<1> QED
  BY <1>1, <1>2, <1>9, OneOwnsRecords DEF RecordInv, IndexInv

LEMMA ReserveRecords ==
  ASSUME RecordInv, NEW p \in Process, ReserveRecord(p)
  PROVE  OwnRecords' /\ ListedExist'
<1>1. /\ pc[p] = "named" /\ cur[p] \notin DOMAIN disk
      /\ \A q \in Process : q # p => pc'[q] = pc[q]
      /\ UNCHANGED <<indexFile, cur, index>>
      /\ disk' = WithFile(cur[p], 0)
      /\ pc'[p] = "reserved"
  BY DEF RecordInv, IndexInv, Inv, TypeOK, ReserveRecord, FreshPath, Goto
<1>0. DOMAIN disk \subseteq DOMAIN disk'
  BY <1>1, WritingGrows
<1>2. ListedExist' /\ \A r : ListedOnDisk(r)' <=> ListedOnDisk(r)
  BY <1>0, <1>1, GrowingDisk DEF RecordInv
<1>3. ~ListedOnDisk(cur[p])'
  BY <1>1, <1>2 DEF RecordInv, ListedExist, ListedOnDisk, Lists
<1>4. \A r : Lists(index[p], r) => r \in DOMAIN disk
  BY <1>1 DEF RecordInv, OwnRecords, OwnRecord, Working
<1>5. OwnRecord(p)'
  BY <1>0, <1>1, <1>3, <1>4 DEF OwnRecord, Lists
<1> QED
  BY <1>1, <1>2, <1>5, OneOwnsRecords DEF RecordInv, IndexInv

LEMMA PublishRecords ==
  ASSUME RecordInv, NEW p \in Process, PublishIndex(p)
  PROVE  OwnRecords' /\ ListedExist'
<1> DEFINE n == index[p].number
<1>1. /\ pc[p] = "staged" /\ n \in IndexNumber
      /\ \A q \in Process : q # p => pc'[q] = pc[q]
      /\ UNCHANGED <<disk, cur, index>>
      /\ pc'[p] \in {"between", "saved"}
  BY NumberTyped
     DEF RecordInv, IndexInv, Inv, TypeOK, PublishIndex, Goto
<1>2. tempFile[n] = ContentOf(index[p])
  BY <1>1 DEF RecordInv, IndexInv, OwnIndexes, OwnIndex, Working
<1>3. indexFile' = [indexFile EXCEPT ![n] = ContentOf(index[p])]
  BY <1>2 DEF PublishIndex
<1>4. \A r : Lists(index[p], r) => r \in DOMAIN disk
  BY <1>1 DEF RecordInv, OwnRecords, OwnRecord, Working
<1>5. ASSUME NEW r, ListedOnDisk(r)'
      PROVE  r \in DOMAIN disk'
  <2>1. PICK m \in IndexNumber :
          /\ indexFile'[m] \notin {NoIndex, Corrupt}
          /\ Lists(indexFile'[m], r)
    BY <1>5 DEF ListedOnDisk, Lists
  <2>2. CASE m = n
    <3>1. indexFile'[m].records = index[p].records
      BY <1>1, <1>3, <2>2 DEF ContentOf, RecordInv, IndexInv, Inv, TypeOK
    <3> QED
      BY <1>1, <1>4, <2>1, <3>1 DEF Lists
  <2>3. CASE m # n
    <3>1. indexFile'[m] = indexFile[m]
      BY <1>1, <1>3, <2>3 DEF RecordInv, IndexInv, Inv, TypeOK
    <3> QED
      BY <1>1, <2>1, <3>1 DEF RecordInv, ListedExist, ListedOnDisk
  <2> QED
    BY <2>2, <2>3
<1>6. ListedExist'
  BY <1>5 DEF ListedExist
<1>7. OwnRecord(p)'
  BY <1>1, <1>4 DEF OwnRecord, Lists, HasPlaceholder, Working
<1> QED
  BY <1>1, <1>6, <1>7, OneOwnsRecords DEF RecordInv, IndexInv

\* The placeholder may be removed.
LEMMA RemovalRecords ==
  ASSUME RecordInv, NEW p \in Process, AppendFails(p) \/ SaveFails(p)
  PROVE  OwnRecords' /\ ListedExist'
<1>1. /\ pc[p] \in {"reserved", "saving", "writing", "staged"}
      /\ \A q \in Process : q # p => pc'[q] = pc[q]
      /\ UNCHANGED <<indexFile, cur, index>>
      /\ disk' \in {disk, WithoutFile(cur[p])}
      /\ pc'[p] = "failed"
  BY DEF RecordInv, IndexInv, Inv, TypeOK, AppendFails, SaveFails, Goto
<1>2. DOMAIN disk \ {cur[p]} \subseteq DOMAIN disk'
  BY <1>1, WithoutFileTyped
<1>3. cur[p] \in DOMAIN disk => ~ListedOnDisk(cur[p])
  BY <1>1, StorageRecorderAssumption
     DEF RecordInv, OwnRecords, OwnRecord, HasPlaceholder, IndexInv, Inv, TypeOK
<1>4. \A r : ListedOnDisk(r)' <=> ListedOnDisk(r)
  BY <1>1 DEF ListedOnDisk, Lists
<1>5. ListedExist'
  BY <1>2, <1>3, <1>4 DEF RecordInv, ListedExist
<1>6. OwnRecord(p)'
  BY <1>1 DEF OwnRecord, HasPlaceholder, Working
<1> QED
  BY <1>1, <1>5, <1>6, OneOwnsRecords DEF RecordInv, IndexInv

\* A step that removes nothing and concerns no index.
LEMMA QuietRecords ==
  ASSUME RecordInv, NEW p \in Process,
         pc[p] # "off",
         \A q \in Process : q # p => pc'[q] = pc[q],
         UNCHANGED indexFile,
         DOMAIN disk \subseteq DOMAIN disk',
         \/ pc'[p] \notin Working
         \/ /\ pc[p] \in Working
            /\ index'[p] = index[p]
            /\ \/ pc'[p] \in {"between", "named", "recording"}
               \/ HasPlaceholder(p) /\ cur'[p] = cur[p] /\ pc[p] # "saved"
               \/ ~HasPlaceholder(p)'
               \/ UNCHANGED <<pc, cur>>
  PROVE  OwnRecords' /\ ListedExist'
<1>1. ListedExist' /\ \A r : ListedOnDisk(r)' <=> ListedOnDisk(r)
  BY GrowingDisk DEF RecordInv
<1>2. OwnRecord(p)
  BY DEF RecordInv, OwnRecords
<1>3. pc'[p] \in Working => \A r : Lists(index'[p], r) => r \in DOMAIN disk'
  BY <1>2 DEF OwnRecord, Lists
<1>4. HasPlaceholder(p)' /\ pc'[p] # "saved" => ~ListedOnDisk(cur'[p])
  BY <1>2 DEF OwnRecord, HasPlaceholder, Working
<1>5. OwnRecord(p)'
  BY <1>1, <1>3, <1>4 DEF OwnRecord, Lists, ListedOnDisk
<1> QED
  BY <1>1, <1>5, OneOwnsRecords DEF RecordInv, IndexInv

LEMMA SegmentRecords ==
  ASSUME RecordInv, NEW p \in Process,
         \/ ChoosePath(p) \/ BeginSave(p) \/ StageIndex(p) \/ OpenSegment(p)
         \/ WriteLastAccessUnit(p) \/ WriteAccessUnit(p) \/ LaunchBackend(p)
  PROVE  OwnRecords' /\ ListedExist'
<1>1. /\ pc[p] \in Working
      /\ \A q \in Process : q # p => pc'[q] = pc[q]
      /\ UNCHANGED <<indexFile, index>>
  BY DEF RecordInv, IndexInv, Inv, TypeOK, ChoosePath, BeginSave, StageIndex,
         OpenSegment, WriteLastAccessUnit, WriteAccessUnit, LaunchBackend,
         diskVars, Goto, Working
<1>2. DOMAIN disk \subseteq DOMAIN disk'
  <2>1. CASE WriteAccessUnit(p)
    BY <2>1, UnitTyped, CurrentFacts, GrownTyped
       DEF RecordInv, IndexInv, Inv, WriteAccessUnit
  <2>2. CASE OpenSegment(p)
    BY <2>2, WritingGrows DEF OpenSegment
  <2>3. CASE WriteLastAccessUnit(p)
    <3>1. PICK size : disk' = WithFile(cur[p], size)
      BY <2>3 DEF WriteLastAccessUnit
    <3> QED
      BY <3>1, WritingGrows
  <2>4. CASE UNCHANGED disk
    BY <2>4
  <2> QED
    BY <2>1, <2>2, <2>3, <2>4
       DEF ChoosePath, BeginSave, StageIndex, LaunchBackend, diskVars
<1>3. \/ pc'[p] \in {"between", "named", "recording"}
      \/ HasPlaceholder(p) /\ cur'[p] = cur[p] /\ pc[p] # "saved"
      \/ ~HasPlaceholder(p)'
      \/ UNCHANGED <<pc, cur>>
  BY DEF RecordInv, IndexInv, Inv, TypeOK, ChoosePath, BeginSave, StageIndex,
         OpenSegment, WriteLastAccessUnit, WriteAccessUnit, LaunchBackend,
         Goto, HasPlaceholder
<1> QED
  BY <1>1, <1>2, <1>3, QuietRecords DEF Working

LEMMA EndRecords ==
  ASSUME RecordInv, NEW p \in Process,
         \/ IndexesExhausted(p) \/ PathsExhausted(p) \/ CloseMuxer(p)
         \/ ReleaseLock(p) \/ LoadFails(p) \/ ReserveFails(p)
         \/ OpenSegmentFails(p) \/ WriteFails(p) \/ Crash(p)
  PROVE  OwnRecords' /\ ListedExist'
<1>1. /\ pc[p] # "off"
      /\ \A q \in Process : q # p => pc'[q] = pc[q]
      /\ UNCHANGED indexFile
      /\ pc'[p] \notin Working
  BY DEF RecordInv, IndexInv, Inv, TypeOK, IndexesExhausted, PathsExhausted,
         CloseMuxer, ReleaseLock, LoadFails, ReserveFails, OpenSegmentFails,
         WriteFails, Crash, Gone, diskVars, Goto, Working
<1>2. DOMAIN disk \subseteq DOMAIN disk'
  <2>1. CASE WriteFails(p)
    BY <2>1, UnitTyped, CurrentFacts, GrownTyped
       DEF RecordInv, IndexInv, Inv, WriteFails
  <2>2. CASE CloseMuxer(p)
    <3>1. CASE disk' = WithFile(cur[p], disk[cur[p]] + buffered[p])
      BY <3>1, WritingGrows
    <3> QED
      BY <2>2, <3>1 DEF CloseMuxer
  <2>3. CASE ReserveFails(p)
    <3>1. CASE disk' = WithFile(cur[p], 0)
      BY <3>1, WritingGrows
    <3> QED
      BY <2>3, <3>1 DEF ReserveFails
  <2>4. CASE UNCHANGED disk
    BY <2>4
  <2> QED
    BY <2>1, <2>2, <2>3, <2>4
       DEF IndexesExhausted, PathsExhausted, ReleaseLock, LoadFails,
           OpenSegmentFails, Crash, diskVars
<1> QED
  BY <1>1, <1>2, QuietRecords

LEMMA OtherRecords ==
  ASSUME RecordInv,
         \/ \E p \in Process : Start(p) \/ BackendExits(p)
         \/ OrphanExits \/ DamageIndex \/ EditSettings \/ UNCHANGED vars
  PROVE  OwnRecords' /\ ListedExist'
<1>1. CASE UNCHANGED <<pc, index, indexFile, cur, disk>>
  BY <1>1 DEF RecordInv, OwnRecords, OwnRecord, HasPlaceholder, ListedExist,
              ListedOnDisk, Lists
<1>2. CASE DamageIndex \/ EditSettings
  <2>1. OwnRecords'
    BY <1>2, StorageRecorderAssumption
       DEF RecordInv, IndexInv, Inv, LockExclusion, DamageIndex, EditSettings,
           procVars, OwnRecords, OwnRecord, HasPlaceholder, Working
  <2>2. CASE DamageIndex
    <3>1. \A m \in IndexNumber : indexFile'[m] \in {Corrupt, indexFile[m]}
      BY <2>2 DEF RecordInv, IndexInv, Inv, TypeOK, DamageIndex
    <3>2. \A r : ListedOnDisk(r)' => ListedOnDisk(r)
      BY <3>1 DEF ListedOnDisk, Lists
    <3> QED
      BY <2>1, <2>2, <3>2 DEF RecordInv, ListedExist, DamageIndex
  <2>3. CASE EditSettings
    <3>1. PICK n \in IndexNumber, max \in EditedMax, size \in EditedSize :
            /\ IsLatest(n)
            /\ indexFile[n] # Corrupt
            /\ indexFile' =
                 [indexFile EXCEPT ![n].max = max, ![n].size = size]
      BY <2>3 DEF EditSettings
    <3>2. indexFile[n] \in IndexContent
      BY <3>1 DEF RecordInv, IndexInv, Inv, TypeOK, IsLatest
    <3>3. indexFile'[n].records = indexFile[n].records
      BY <3>1, <3>2 DEF RecordInv, IndexInv, Inv, TypeOK, IndexContent
    <3>4. \A m \in IndexNumber : m # n => indexFile'[m] = indexFile[m]
      BY <3>1 DEF RecordInv, IndexInv, Inv, TypeOK
    <3>5. indexFile[n] \notin {NoIndex, Corrupt} /\ UNCHANGED disk
      BY <2>3, <3>1 DEF IsLatest, EditSettings
    <3>6. \A r : ListedOnDisk(r)' => ListedOnDisk(r)
      BY <3>3, <3>4, <3>5 DEF ListedOnDisk, Lists
    <3> QED
      BY <2>1, <3>5, <3>6 DEF RecordInv, ListedExist
  <2> QED
    BY <1>2, <2>1, <2>2, <2>3
<1>3. ASSUME NEW p \in Process, Start(p)
      PROVE  OwnRecords' /\ ListedExist'
  <2>1. ListedExist'
    BY <1>3, GrowingDisk DEF RecordInv, Start, diskVars
  <2>2. \A q \in Process : pc'[q] \in {"off", "locked"}
    BY <1>3, StorageRecorderAssumption
       DEF RecordInv, IndexInv, Inv, TypeOK, LockExclusion, Start, Lockable,
           Goto
  <2> QED
    BY <2>1, <2>2 DEF OwnRecords, OwnRecord, HasPlaceholder, Working
<1> QED
  BY <1>1, <1>2, <1>3 DEF BackendExits, OrphanExits, diskVars, vars

LEMMA StepRecordInv ==
  ASSUME RecordInv, [Next]_vars
  PROVE  RecordInv'
<1>1. IndexInv'
  BY StepIndexInv DEF RecordInv
<1>2. OwnRecords' /\ ListedExist'
  BY LoadRecords, AppendRecords, ReserveRecords, PublishRecords,
     RemovalRecords, SegmentRecords, EndRecords, OtherRecords
     DEF Next, Proceed, Fault
<1> QED
  BY <1>1, <1>2 DEF RecordInv

LEMMA InitRecordInv == Init => RecordInv
<1> SUFFICES ASSUME Init PROVE RecordInv
  OBVIOUS
<1>1. OwnRecords
  BY DEF Init, OwnRecords, OwnRecord, HasPlaceholder, Working
<1>2. ListedExist
  <2>1. PICK s \in InitialStorage : indexFile = s.indexFile /\ disk = s.disk
    BY DEF Init
  <2> QED
    BY <2>1, InitialStorageAssumption
       DEF WellFormedStorage, ListedExist, ListedOnDisk, Lists
<1> QED
  BY <1>1, <1>2, InitIndexInv DEF RecordInv

\* At every point where an instance can be killed, the record files that an
\* index on disk lists exist.
THEOREM IndexesTruthful == Spec => []IndexedRecordsExist
<1>1. RecordInv => IndexedRecordsExist
  BY DEF RecordInv, ListedExist, ListedOnDisk, Lists, IndexedRecordsExist
<1> QED
  BY <1>1, InitRecordInv, StepRecordInv, PTL DEF Spec
=============================================================================
