---------------------------- MODULE StorageIndex ----------------------------
(***************************************************************************)
(* The managed storage index as a data structure (storage_index.cpp): what *)
(* a numbered index file contains, when load_index_file accepts it, which  *)
(* record comes next, and what the recovery scan of the recording folders  *)
(* concludes.  There is no state here; StorageRecorder runs these          *)
(* operators against the disk.                                             *)
(*                                                                         *)
(* An int is a member of 0 .. IntMax.  A file name is abstracted to its    *)
(* numeric index and its random suffix; an index file whose text does not  *)
(* have the expected lines is the value Corrupt.                           *)
(***************************************************************************)
EXTENDS Integers, Sequences, FiniteSets

CONSTANTS
  IntMax,             \* INT_MAX, the largest folder and file index
  MaxIndexNumber,     \* kMaximumIndexNumber: index000.yaml .. index999.yaml
  DefaultMaxFileNum,  \* kDefaultMaximumFileNum
  DefaultSegmentSize, \* kDefaultFileSegmentationSize
  Suffix,             \* the random suffixes of the record file names
  NoIndex,            \* no file of that number
  Corrupt             \* a file that is not an index

ASSUME StorageIndexAssumption ==
  /\ IntMax \in Nat
  /\ MaxIndexNumber \in Nat
  /\ DefaultMaxFileNum \in Nat \ {0}
  /\ DefaultSegmentSize \in Nat \ {0}
  /\ NoIndex # Corrupt

Index       == 0 .. IntMax
IndexNumber == 0 .. MaxIndexNumber
Position    == [folder : Index, file : Index]
Origin      == [folder |-> 0, file |-> 0]

\* A record file: folder directory, numeric file index, random suffix.
Record == [folder : Index, file : Index, suffix : Suffix]

PositionOf(r) == [folder |-> r.folder, file |-> r.file]

\* The order in which positions are recorded.
Before(a, b) ==
  \/ a.folder < b.folder
  \/ a.folder = b.folder /\ a.file < b.file

(***************************************************************************)
(* The text of an index file.  headed is FALSE for a file of the first     *)
(* format, which has no settings lines and is rewritten once it is loaded. *)
(***************************************************************************)
IndexContent ==
  [headed : BOOLEAN, max : Nat \ {0}, size : Nat \ {0}, records : Seq(Record)]

-----------------------------------------------------------------------------
(* advance_next_record                                                     *)

CanAdvance_NoLimit(pos, count, max) ==
  count < max \/ pos.folder < IntMax

\* advance_next_record returns true: the index it increments is not INT_MAX.
CanAdvance(pos, count, max) ==
  IF count < max THEN pos.file < IntMax ELSE pos.folder < IntMax

\* The position after pos in a folder that then has count files.
Advance(pos, count, max) ==
  IF count < max
    THEN [folder |-> pos.folder, file |-> pos.file + 1]
    ELSE [folder |-> pos.folder + 1, file |-> 0]

-----------------------------------------------------------------------------
(* load_index_file                                                         *)

\* folders_[f].size() after the first i records have been pushed.
CountUpTo(records, i) ==
  Cardinality({j \in 1 .. i : records[j].folder = records[i].folder})

NextAfter(records, i, max) ==
  Advance(PositionOf(records[i]), CountUpTo(records, i), max)

\* Each record is the successor of the one before it, no folder holds more
\* than max records, and no successor overflows.  The first record may have
\* any position.
ValidRecords(records, max) ==
  \A i \in 1 .. Len(records) :
    /\ CountUpTo(records, i) <= max
    /\ CanAdvance(PositionOf(records[i]), CountUpTo(records, i), max)
    /\ i < Len(records)
         => PositionOf(records[i + 1]) = NextAfter(records, i, max)

ValidIndex(value) ==
  /\ value \notin {NoIndex, Corrupt}
  /\ ValidRecords(value.records, value.max)

\* next_folder_index_ and next_file_index_ after loading these records.
NextOf(records, max) ==
  IF records = <<>> THEN Origin ELSE NextAfter(records, Len(records), max)

-----------------------------------------------------------------------------
(* scan_storage                                                            *)

ScanNext_CountAsNumber(folders, padded, unpadded, max) ==
  IF folders = {} THEN {Origin}
  ELSE {[folder |-> top, file |->
           Cardinality({r \in padded \cup unpadded : r.folder = top})] :
          top \in {f \in folders : \A g \in folders : g <= f}}

ScanNext_NeverRolls(folders, padded, unpadded, max) ==
  IF folders = {} THEN {Origin}
  ELSE {[folder |-> r.folder, file |-> r.file + 1] :
          r \in {q \in padded \cup unpadded :
                   /\ \A f \in folders : f <= q.folder
                   /\ \A o \in padded \cup unpadded :
                        o.folder = q.folder => o.file <= q.file
                   /\ q.file < IntMax}}

(***************************************************************************)
(* The position the scan concludes, as a set: empty when the limit of the  *)
(* indexes is reached and the scan fails.  folders are the numeric         *)
(* directories, padded and unpadded the regular record files below the     *)
(* two spellings of a folder name ("009" and "9"): only the highest folder *)
(* is looked into, its files of both spellings are counted and the highest *)
(* file index is advanced.                                                 *)
(***************************************************************************)
ScanNext(folders, padded, unpadded, max) ==
  IF folders = {} THEN {Origin}
  ELSE UNION {
    LET inPadded   == {r \in padded : r.folder = top}
        inUnpadded == {r \in unpadded : r.folder = top}
        found      == inPadded \cup inUnpadded
        count      == Cardinality(inPadded) + Cardinality(inUnpadded)
    IN IF found = {} THEN {[folder |-> top, file |-> 0]}
       ELSE {Advance(PositionOf(r), count, max) :
               r \in {q \in found :
                        /\ \A o \in found : o.file <= q.file
                        /\ CanAdvance(PositionOf(q), count, max)}} :
    top \in {f \in folders : \A g \in folders : g <= f}}
=============================================================================
