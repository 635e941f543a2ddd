-------------------------- MODULE StorageRecorder --------------------------
(***************************************************************************)
(* StorageRecorder (storage_recorder.cpp) and the StorageIndex it drives,  *)
(* as program instances that share one storage directory: the lock file,   *)
(* the numbered index files, the numbered folders and their record files.  *)
(*                                                                         *)
(* Every system call that changes or decides about the directory is a step *)
(* of its own, so an instance can be killed between any two of them.  Each *)
(* call may fail.  The camera backend is forked after open() and inherits  *)
(* the descriptor of the lock file, which has no O_CLOEXEC.                *)
(***************************************************************************)
EXTENDS StorageIndex

CONSTANTS
  Process,         \* instances of RpiCamTs started on the directory
  Nobody,          \* lock: no open file description holds it
  OrphanedBackend, \* lock: only the backend of a killed instance holds it
  NoRecord,        \* current_output_path_ is empty
  AccessUnitSize,  \* bytes one access unit adds to a segment
  BufferSize,      \* most bytes FFmpeg's AVIO buffer keeps from the file
  InitialStorage,  \* what the directory may contain at first
  EditedMax,       \* maximum_file_num values an operator may write
  EditedSize       \* file_segmentatin_size values an operator may write

VARIABLES
  indexFile, \* indexNNN.yaml, by number
  tempFile,  \* indexNNN.yaml.tmp, by number
  dirs,      \* numbers of the padded folders
  disk,      \* record files below padded folders, and their sizes
  legacy,    \* index.yaml or index.yml and the unpadded folders: read only
  lock,      \* who has the flock on .lock
  pc,        \* where each instance is
  index,     \* its StorageIndex object
  cur,       \* its current_output_path_, and next in open_next_segment
  buffered,  \* bytes of its segment still in the AVIO buffer
  backend    \* its camera backend

diskVars == <<indexFile, tempFile, dirs, disk, legacy>>
procVars == <<lock, pc, index, cur, buffered, backend>>
vars     == <<indexFile, tempFile, dirs, disk, legacy,
              lock, pc, index, cur, buffered, backend>>

ASSUME StorageRecorderAssumption ==
  /\ {Nobody, OrphanedBackend} \cap Process = {}
  /\ Nobody # OrphanedBackend
  /\ NoRecord \notin Record
  /\ AccessUnitSize \subseteq Nat \ {0}
  /\ BufferSize \in Nat
  /\ EditedMax \subseteq Nat \ {0}
  /\ EditedSize \subseteq Nat \ {0}
  /\ NoIndex \notin IndexContent
  /\ Corrupt \notin IndexContent

Phase == {
  "off",       \* not running, or running without the storage
  "locked",    \* open() has the lock
  "saving",    \* at the start of save_atomic
  "writing",   \* the temporary index file is open and incomplete
  "staged",    \* the temporary index file is complete
  "between",   \* at the start of open_next_segment
  "named",     \* the record path is chosen and its folder exists
  "reserved",  \* the placeholder file exists
  "saved",     \* the index that lists the record is on disk
  "recording", \* the segment is open
  "failed",    \* an operation returned false
  "closing"}   \* muxer_.close() is done

IndexObject ==
  [number : IndexNumber, max : Nat \ {0}, size : Nat \ {0},
   records : Seq(Record), next : Position]

BlankIndex ==
  [number |-> 0, max |-> DefaultMaxFileNum, size |-> DefaultSegmentSize,
   records |-> <<>>, next |-> Origin]

Settings == [max : Nat \ {0}, size : Nat \ {0}]

DefaultSettings == [max |-> DefaultMaxFileNum, size |-> DefaultSegmentSize]

\* A directory the program can find: written by it, by an earlier version of
\* it, or empty.  An index without settings has the default ones, and the files
\* that an index lists are there.
WellFormedStorage(s) ==
  /\ s.indexFile \in [IndexNumber -> IndexContent \cup {NoIndex, Corrupt}]
  /\ s.dirs \in SUBSET Index
  /\ DOMAIN s.disk \in SUBSET Record
  /\ s.disk \in [DOMAIN s.disk -> Nat]
  /\ s.legacy.index \in Settings \cup {NoIndex, Corrupt}
  /\ s.legacy.dirs \in SUBSET Index
  /\ s.legacy.files \in SUBSET Record
  /\ IsFiniteSet(DOMAIN s.disk) /\ IsFiniteSet(s.legacy.files)
  /\ \A n \in IndexNumber :
       s.indexFile[n] \notin {NoIndex, Corrupt} =>
         /\ ~s.indexFile[n].headed =>
              /\ s.indexFile[n].max = DefaultMaxFileNum
              /\ s.indexFile[n].size = DefaultSegmentSize
         /\ \A i \in 1 .. Len(s.indexFile[n].records) :
              s.indexFile[n].records[i] \in DOMAIN s.disk

ASSUME InitialStorageAssumption ==
  \A s \in InitialStorage : WellFormedStorage(s)

Init ==
  /\ \E s \in InitialStorage :
       /\ indexFile = s.indexFile
       /\ dirs = s.dirs
       /\ disk = s.disk
       /\ legacy = s.legacy
  /\ tempFile = [n \in IndexNumber |-> NoIndex]
  /\ lock     = Nobody
  /\ pc       = [p \in Process |-> "off"]
  /\ index    = [p \in Process |-> BlankIndex]
  /\ cur      = [p \in Process |-> NoRecord]
  /\ buffered = [p \in Process |-> 0]
  /\ backend  = [p \in Process |-> "none"]

-----------------------------------------------------------------------------
(* Helpers.                                                                *)

Goto(p, phase) == pc' = [pc EXCEPT ![p] = phase]

\* The record files with r present and size bytes long, and without r.
WithFile(r, size) ==
  [q \in DOMAIN disk \cup {r} |-> IF q = r THEN size ELSE disk[q]]
WithoutFile(r) == [q \in DOMAIN disk \ {r} |-> disk[q]]

\* find_latest_index returns n.
IsLatest(n) ==
  /\ indexFile[n] # NoIndex
  /\ \A m \in IndexNumber : indexFile[m] # NoIndex => m <= n

NoNumberedIndex == \A n \in IndexNumber : indexFile[n] = NoIndex

Scan(max) ==
  ScanNext(dirs \cup legacy.dirs, DOMAIN disk, legacy.files, max)

Loaded(n, content) ==
  [number  |-> n, max |-> content.max, size |-> content.size,
   records |-> content.records,
   next    |-> NextOf(content.records, content.max)]

Scanned(n, settings, next) ==
  [number |-> n, max |-> settings.max, size |-> settings.size,
   records |-> <<>>, next |-> next]

\* What save_atomic writes.
ContentOf(object) ==
  [headed |-> TRUE, max |-> object.max, size |-> object.size,
   records |-> object.records]

-----------------------------------------------------------------------------
(* open(): the lock and load_or_create                                     *)

Lockable_AlwaysGranted == TRUE

\* flock(LOCK_EX | LOCK_NB) succeeds; when it does not, open() returns false
\* and nothing has changed.
Lockable == lock = Nobody

Start(p) ==
  /\ pc[p] = "off"
  /\ Lockable
  /\ lock' = p
  /\ Goto(p, "locked")
  /\ UNCHANGED <<diskVars, index, cur, buffered, backend>>

\* The latest index is accepted.  One of the first format is saved again.
LoadIndex(p) ==
  /\ pc[p] = "locked"
  /\ \E n \in IndexNumber :
       /\ IsLatest(n)
       /\ ValidIndex(indexFile[n])
       /\ index' = [index EXCEPT ![p] = Loaded(n, indexFile[n])]
       /\ Goto(p, IF indexFile[n].headed THEN "between" ELSE "saving")
  /\ UNCHANGED <<diskVars, lock, cur, buffered, backend>>

RecoveryNumber_Same(n) == n

RecoveryNumber(n) == n + 1

\* The latest index is not accepted, or cannot be opened or read: the next
\* number is used, with the default settings and the position of the scan.
RecoverIndex(p) ==
  /\ pc[p] = "locked"
  /\ \E n \in IndexNumber :
       /\ IsLatest(n)
       /\ n < MaxIndexNumber
       /\ \E next \in Scan(DefaultMaxFileNum) :
            index' = [index EXCEPT ![p] =
                        Scanned(RecoveryNumber(n), DefaultSettings, next)]
  /\ Goto(p, "between")
  /\ UNCHANGED <<diskVars, lock, cur, buffered, backend>>

\* A legacy index gives its settings when it can be read and is valid.
CreateSettings ==
  {DefaultSettings} \cup ({legacy.index} \ {NoIndex, Corrupt})

\* There is no numbered index.  Only an index that starts at 000/000 is saved at once.
CreateIndex(p) ==
  /\ pc[p] = "locked"
  /\ NoNumberedIndex
  /\ \E settings \in CreateSettings :
       \E next \in Scan(settings.max) :
         /\ index' = [index EXCEPT ![p] = Scanned(0, settings, next)]
         /\ Goto(p, IF next = Origin THEN "saving" ELSE "between")
  /\ UNCHANGED <<diskVars, lock, cur, buffered, backend>>

\* index999.yaml is corrupt, or the scan reaches the limit of the indexes.
IndexesExhausted(p) ==
  /\ pc[p] = "locked"
  /\ \/ \E n \in IndexNumber :
          /\ IsLatest(n)
          /\ ~ValidIndex(indexFile[n])
          /\ n = MaxIndexNumber \/ Scan(DefaultMaxFileNum) = {}
     \/ /\ NoNumberedIndex
        /\ \E settings \in CreateSettings : Scan(settings.max) = {}
  /\ Goto(p, "failed")
  /\ UNCHANGED <<diskVars, lock, index, cur, buffered, backend>>

\* The directory cannot be scanned, or index999.yaml cannot be read.
LoadFails(p) ==
  /\ pc[p] = "locked"
  /\ Goto(p, "failed")
  /\ UNCHANGED <<diskVars, lock, index, cur, buffered, backend>>

-----------------------------------------------------------------------------
(* open_next_segment                                                       *)

\* The path does not exist: the test of next_record_path, and O_EXCL.
FreshPath(r) == r \notin DOMAIN disk

NextRecord(p, s) ==
  [folder |-> index[p].next.folder, file |-> index[p].next.file, suffix |-> s]

\* next_record_path and create_directories.
ChoosePath(p) ==
  /\ pc[p] = "between"
  /\ \E s \in Suffix :
       /\ FreshPath(NextRecord(p, s))
       /\ cur' = [cur EXCEPT ![p] = NextRecord(p, s)]
  /\ dirs' = dirs \cup {index[p].next.folder}
  /\ Goto(p, "named")
  /\ UNCHANGED <<indexFile, tempFile, disk, legacy,
                 lock, index, buffered, backend>>

ReserveRecord(p) ==
  /\ pc[p] = "named"
  /\ FreshPath(cur[p])
  /\ disk' = WithFile(cur[p], 0)
  /\ Goto(p, "reserved")
  /\ UNCHANGED <<indexFile, tempFile, dirs, legacy,
                 lock, index, cur, buffered, backend>>

PathsExhausted_KeepTrying(p) ==
  /\ pc[p] = "between"
  /\ UNCHANGED vars

\* No path that is tried is free.
PathsExhausted(p) ==
  /\ pc[p] = "between"
  /\ \A s \in Suffix : ~FreshPath(NextRecord(p, s))
  /\ Goto(p, "failed")
  /\ UNCHANGED <<diskVars, lock, index, cur, buffered, backend>>

\* The folder or the placeholder cannot be created; or the placeholder cannot
\* be closed and could not be removed.
ReserveFails(p) ==
  /\ pc[p] \in {"between", "named"}
  /\ \/ UNCHANGED disk
     \/ /\ pc[p] = "named"
        /\ FreshPath(cur[p])
        /\ disk' = WithFile(cur[p], 0)
  /\ Goto(p, "failed")
  /\ UNCHANGED <<indexFile, tempFile, dirs, legacy,
                 lock, index, cur, buffered, backend>>

\* append_record returns true: r has the next position, its folder has room
\* and the position after it exists.
AppendAccepted(object, r) ==
  LET records == Append(object.records, r)
  IN /\ PositionOf(r) = object.next
     /\ CountUpTo(records, Len(records)) <= object.max
     /\ CanAdvance(PositionOf(r),
                   CountUpTo(records, Len(records)), object.max)

Appended_NextKept(object, r) ==
  [object EXCEPT !.records = Append(object.records, r)]

Appended(object, r) ==
  LET records == Append(object.records, r)
  IN [object EXCEPT !.records = records,
                    !.next = NextOf(records, object.max)]

AppendRecord(p) ==
  /\ pc[p] = "reserved"
  /\ AppendAccepted(index[p], cur[p])
  /\ index' = [index EXCEPT ![p] = Appended(index[p], cur[p])]
  /\ Goto(p, "saving")
  /\ UNCHANGED <<diskVars, lock, cur, buffered, backend>>

\* append_record returns false, and the placeholder is removed if it can be.
AppendFails(p) ==
  /\ pc[p] = "reserved"
  /\ ~AppendAccepted(index[p], cur[p])
  /\ disk' \in {disk, WithoutFile(cur[p])}
  /\ Goto(p, "failed")
  /\ UNCHANGED <<indexFile, tempFile, dirs, legacy,
                 lock, index, cur, buffered, backend>>

-----------------------------------------------------------------------------
(* save_atomic                                                             *)

\* open(O_TRUNC) of the temporary file.
BeginSave(p) ==
  /\ pc[p] = "saving"
  /\ tempFile' = [tempFile EXCEPT ![index[p].number] = Corrupt]
  /\ Goto(p, "writing")
  /\ UNCHANGED <<indexFile, dirs, disk, legacy,
                 lock, index, cur, buffered, backend>>

\* The last write and the close.
StageIndex(p) ==
  /\ pc[p] = "writing"
  /\ tempFile' = [tempFile EXCEPT ![index[p].number] = ContentOf(index[p])]
  /\ Goto(p, "staged")
  /\ UNCHANGED <<indexFile, dirs, disk, legacy,
                 lock, index, cur, buffered, backend>>

\* The rename.  load_or_create saves before any record exists.
PublishIndex(p) ==
  LET n == index[p].number
  IN /\ pc[p] = "staged"
     /\ indexFile' = [indexFile EXCEPT ![n] = tempFile[n]]
     /\ tempFile' = [tempFile EXCEPT ![n] = NoIndex]
     /\ Goto(p, IF cur[p] = NoRecord THEN "between" ELSE "saved")
     /\ UNCHANGED <<dirs, disk, legacy, lock, index, cur, buffered, backend>>

\* The temporary file cannot be opened, written or renamed; it and the
\* placeholder are removed if they can be.  The object keeps the record.
SaveFails(p) ==
  /\ pc[p] \in {"saving", "writing", "staged"}
  /\ \/ UNCHANGED tempFile
     \/ /\ pc[p] # "saving"
        /\ tempFile' = [tempFile EXCEPT ![index[p].number] = NoIndex]
  /\ disk' \in {disk, WithoutFile(cur[p])}
  /\ Goto(p, "failed")
  /\ UNCHANGED <<indexFile, dirs, legacy, lock, index, cur, buffered, backend>>

-----------------------------------------------------------------------------
(* The segment                                                             *)

\* muxer_.open truncates the file it is given.
OpenSegment(p) ==
  /\ pc[p] = "saved"
  /\ disk' = WithFile(cur[p], 0)
  /\ Goto(p, "recording")
  /\ UNCHANGED <<indexFile, tempFile, dirs, legacy,
                 lock, index, cur, buffered, backend>>

OpenSegmentFails_Cleanup(p) ==
  /\ pc[p] = "saved"
  /\ disk' = WithoutFile(cur[p])
  /\ Goto(p, "failed")
  /\ UNCHANGED <<indexFile, tempFile, dirs, legacy,
                 lock, index, cur, buffered, backend>>

OpenSegmentFails(p) ==
  /\ pc[p] = "saved"
  /\ Goto(p, "failed")
  /\ UNCHANGED <<diskVars, lock, index, cur, buffered, backend>>

\* RpiCamTsApp::run forks the backend once open() has returned true.
LaunchBackend(p) ==
  /\ pc[p] = "recording"
  /\ backend[p] = "none"
  /\ backend' = [backend EXCEPT ![p] = "running"]
  /\ UNCHANGED <<diskVars, lock, pc, index, cur, buffered>>

SegmentFull_OneLater(size, limit) == size > limit

\* file_size(current_output_path_) >= file_segmentation_size_bytes().
SegmentFull(size, limit) == size >= limit

\* The segment has grown by unit bytes, and the last kept are still in the
\* AVIO buffer.
Grown(p, unit, kept) ==
  LET visible == disk[cur[p]] + buffered[p] + unit - kept
  IN /\ visible >= disk[cur[p]]
     /\ disk' = WithFile(cur[p], visible)
     /\ buffered' = [buffered EXCEPT ![p] = kept]

\* One access unit, after which rotate_if_needed finds room in the segment.
\* The packets in the pipe outlive the backend.
WriteAccessUnit(p) ==
  /\ pc[p] = "recording"
  /\ backend[p] # "none"
  /\ \E unit \in AccessUnitSize, kept \in 0 .. BufferSize :
       Grown(p, unit, kept)
  /\ ~SegmentFull(disk'[cur[p]], index[p].size)
  /\ UNCHANGED <<indexFile, tempFile, dirs, legacy,
                 lock, pc, index, cur, backend>>

\* One access unit, after which the flushed part of the segment is full.
\* muxer_.close() writes the rest.
WriteLastAccessUnit(p) ==
  /\ pc[p] = "recording"
  /\ backend[p] # "none"
  /\ \E unit \in AccessUnitSize, kept \in 0 .. BufferSize :
       LET total == disk[cur[p]] + buffered[p] + unit
       IN /\ total - kept >= disk[cur[p]]
          /\ SegmentFull(total - kept, index[p].size)
          /\ disk' = WithFile(cur[p], total)
  /\ buffered' = [buffered EXCEPT ![p] = 0]
  /\ Goto(p, "between")
  /\ UNCHANGED <<indexFile, tempFile, dirs, legacy,
                 lock, index, cur, backend>>

WriteFails_Cleanup(p) ==
  /\ pc[p] = "recording"
  /\ backend[p] # "none"
  /\ disk' = WithoutFile(cur[p])
  /\ buffered' = [buffered EXCEPT ![p] = 0]
  /\ Goto(p, "failed")
  /\ UNCHANGED <<indexFile, tempFile, dirs, legacy,
                 lock, index, cur, backend>>

\* The muxer or file_size reports an error; some of the unit may be written.
WriteFails(p) ==
  /\ pc[p] = "recording"
  /\ backend[p] # "none"
  /\ \E unit \in {0} \cup AccessUnitSize, kept \in 0 .. BufferSize :
       Grown(p, unit, kept)
  /\ Goto(p, "failed")
  /\ UNCHANGED <<indexFile, tempFile, dirs, legacy,
                 lock, index, cur, backend>>

-----------------------------------------------------------------------------
(* The end of an instance                                                  *)

\* process.wait() returns only once the backend has exited; then close().
CloseMuxer(p) ==
  /\ pc[p] \in {"recording", "failed"}
  /\ backend[p] # "running"
  /\ disk' = IF buffered[p] = 0 THEN disk
             ELSE WithFile(cur[p], disk[cur[p]] + buffered[p])
  /\ buffered' = [buffered EXCEPT ![p] = 0]
  /\ Goto(p, "closing")
  /\ UNCHANGED <<indexFile, tempFile, dirs, legacy, lock, index, cur, backend>>

\* The instance is gone: its memory and its descriptors with it.
Gone(p) ==
  /\ Goto(p, "off")
  /\ index' = [index EXCEPT ![p] = BlankIndex]
  /\ cur' = [cur EXCEPT ![p] = NoRecord]
  /\ buffered' = [buffered EXCEPT ![p] = 0]
  /\ backend' = [backend EXCEPT ![p] = "none"]

UnlockedByClose_NotReleased(p) == p

\* flock(LOCK_UN) frees the lock whatever descriptors are left.
UnlockedByClose(p) == Nobody

ReleaseLock(p) ==
  /\ pc[p] = "closing"
  /\ lock' = UnlockedByClose(p)
  /\ Gone(p)
  /\ UNCHANGED diskVars

\* SIGKILL or a power failure.  Buffered bytes are lost.  A running backend
\* still has the descriptor of the lock file, and with it the lock.
Crash(p) ==
  /\ pc[p] # "off"
  /\ lock' = IF backend[p] = "running" THEN OrphanedBackend ELSE Nobody
  /\ Gone(p)
  /\ UNCHANGED diskVars

BackendExits(p) ==
  /\ backend[p] = "running"
  /\ backend' = [backend EXCEPT ![p] = "exited"]
  /\ UNCHANGED <<diskVars, lock, pc, index, cur, buffered>>

OrphanExits ==
  /\ lock = OrphanedBackend
  /\ lock' = Nobody
  /\ UNCHANGED <<diskVars, pc, index, cur, buffered, backend>>

-----------------------------------------------------------------------------
(* What happens to the directory while nothing records into it             *)

\* The latest index is damaged.
DamageIndex ==
  /\ lock = Nobody
  /\ \E n \in IndexNumber :
       /\ IsLatest(n)
       /\ indexFile[n] # Corrupt
       /\ indexFile' = [indexFile EXCEPT ![n] = Corrupt]
  /\ UNCHANGED <<tempFile, dirs, disk, legacy, procVars>>

\* The operator changes the settings at the head of the latest index.
EditSettings ==
  /\ lock = Nobody
  /\ \E n \in IndexNumber, max \in EditedMax, size \in EditedSize :
       /\ IsLatest(n)
       /\ indexFile[n] # Corrupt
       /\ indexFile[n].headed
       /\ indexFile' = [indexFile EXCEPT ![n].max = max, ![n].size = size]
  /\ UNCHANGED <<tempFile, dirs, disk, legacy, procVars>>

-----------------------------------------------------------------------------
\* What an instance does by itself, when no call fails.
Proceed(p) ==
  \/ LoadIndex(p)
  \/ RecoverIndex(p)
  \/ CreateIndex(p)
  \/ IndexesExhausted(p)
  \/ ChoosePath(p)
  \/ PathsExhausted(p)
  \/ ReserveRecord(p)
  \/ AppendRecord(p)
  \/ AppendFails(p)
  \/ BeginSave(p)
  \/ StageIndex(p)
  \/ PublishIndex(p)
  \/ OpenSegment(p)
  \/ LaunchBackend(p)
  \/ CloseMuxer(p)
  \/ ReleaseLock(p)

\* A call it makes fails.
Fault(p) ==
  \/ LoadFails(p)
  \/ ReserveFails(p)
  \/ SaveFails(p)
  \/ OpenSegmentFails(p)
  \/ WriteFails(p)

Next ==
  \/ \E p \in Process :
       \/ Start(p)
       \/ Proceed(p)
       \/ Fault(p)
       \/ WriteAccessUnit(p)
       \/ WriteLastAccessUnit(p)
       \/ BackendExits(p)
       \/ Crash(p)
  \/ OrphanExits
  \/ DamageIndex
  \/ EditSettings

Spec == Init /\ [][Next]_vars

-----------------------------------------------------------------------------
(* Properties                                                              *)

TypeOK ==
  /\ indexFile \in [IndexNumber -> IndexContent \cup {NoIndex, Corrupt}]
  /\ tempFile \in [IndexNumber -> IndexContent \cup {NoIndex, Corrupt}]
  /\ dirs \in SUBSET Index
  /\ DOMAIN disk \in SUBSET Record
  /\ disk \in [DOMAIN disk -> Nat]
  /\ legacy.index \in Settings \cup {NoIndex, Corrupt}
  /\ legacy.dirs \in SUBSET Index
  /\ legacy.files \in SUBSET Record
  /\ lock \in Process \cup {Nobody, OrphanedBackend}
  /\ pc \in [Process -> Phase]
  /\ index \in [Process -> IndexObject]
  /\ cur \in [Process -> Record \cup {NoRecord}]
  /\ buffered \in [Process -> Nat]
  /\ backend \in [Process -> {"none", "running", "exited"}]

\* README "A .lock file prevents two RpiCamTs processes from recording to the
\* same storage directory at once": whatever instances are started, killed or
\* outlived by their backends, one that is past open()'s lock is the only one.
LockExclusion == \A p \in Process : pc[p] # "off" => lock = p

\* Every record an index on disk lists is a file on disk, at every point where
\* the program can be killed: the placeholder is created before the index that
\* lists it is renamed into place, and is never removed afterwards.
IndexedRecordsExist ==
  \A n \in IndexNumber :
    indexFile[n] \notin {NoIndex, Corrupt} =>
      \A i \in 1 .. Len(indexFile[n].records) :
        indexFile[n].records[i] \in DOMAIN disk

Settled == {"between", "named", "reserved", "saved", "recording"}

\* Whenever save_atomic is not under way, a restart would load exactly what
\* the running instance has in memory: its index file is the latest, load_index_file
\* accepts it, and it leads to the same settings, records and next position.
\* Before the first save of a recovery there is no file of that number.
ResumePoint ==
  \A p \in Process :
    pc[p] \in Settled =>
      LET n == index[p].number
      IN /\ \A m \in IndexNumber : indexFile[m] # NoIndex => m <= n
         /\ IF indexFile[n] = NoIndex
              THEN index[p].records = <<>> /\ pc[p] \notin {"saved", "recording"}
              ELSE /\ ValidIndex(indexFile[n])
                   /\ Loaded(n, indexFile[n]) = index[p]

DataKept ==
  \A r \in DOMAIN disk :
    disk[r] > 0 => r \in DOMAIN disk' /\ disk'[r] >= disk[r]

\* What has been recorded stays: no step removes or truncates a record file
\* that has data, whichever instance wrote it and however it ended.
RecordedDataKept == [][DataKept]_vars

\* The index that open() chooses: the latest, as it has been loaded, or one of
\* a new number above all others.
Chosen(p) ==
  LET n == index'[p].number
  IN IF indexFile[n] = NoIndex
       THEN \A m \in IndexNumber : indexFile[m] # NoIndex => m < n
       ELSE /\ IsLatest(n)
            /\ ValidIndex(indexFile[n])
            /\ index'[p] = Loaded(n, indexFile[n])

\* The records and settings of old, and at most one record more.
Continues(new, old) ==
  /\ ValidIndex(old)
  /\ new.max = old.max /\ new.size = old.size
  /\ \/ new.records = old.records
     \/ \E r \in Record : new.records = Append(old.records, r)

NotRewritten ==
  /\ \A p \in Process :
       IF pc[p] = "locked"
         THEN pc'[p] \in {"saving", "between"} => Chosen(p)
         ELSE pc[p] # "off" /\ pc'[p] # "off"
                => index'[p].number = index[p].number
  /\ \A n \in IndexNumber :
       indexFile'[n] # indexFile[n] =>
         \/ \A p \in Process : pc[p] = "off"
         \/ \E p \in Process :
              /\ pc[p] # "off" /\ index[p].number = n
              /\ indexFile[n] # NoIndex => Continues(indexFile'[n], indexFile[n])

\* README "When the latest index is invalid or cannot be read, RpiCamTs leaves
\* it unchanged": an instance keeps to one number from open() to its end, that
\* of the latest index if it has loaded it and a new one if not, and writes to
\* no other.  So an index that is damaged, that is refused after an edit, that
\* cannot be read, or that is not the latest is never written to; one that was
\* loaded never loses a setting or a record.
OldIndexesKept == [][NotRewritten]_vars

\* README "maximum_file_num controls the number of record files in each
\* numbered folder": no folder gets more record files with data than the
\* setting in force, placeholders that a killed instance left behind aside.
FolderWithinMaximum ==
  \A p \in Process :
    pc[p] = "recording" =>
      Cardinality({r \in DOMAIN disk :
                     disk[r] > 0 /\ r.folder = cur[p].folder}) <= index[p].max

\* What recovery does keep to: however often the index is lost, a folder never
\* gets twice the maximum, because scan_storage counts the files of the folder
\* before it goes on there.
FolderWithinTwiceMaximum ==
  \A f \in dirs :
    Cardinality({r \in DOMAIN disk : disk[r] > 0 /\ r.folder = f})
      < 2 * DefaultMaxFileNum

Exceeding(slack) ==
  \E p \in Process :
    /\ pc[p] \in {"recording", "closing"} \cup Settled
    /\ cur[p] \in DOMAIN disk
    /\ disk[cur[p]] + buffered[p] >= index[p].size + slack

\* A segment grows past the configured size by less than the AVIO buffer and
\* one access unit, although rotate_if_needed only sees flushed bytes.
SegmentWithinBuffer ==
  \A unit \in AccessUnitSize :
    (\A u \in AccessUnitSize : u <= unit) => ~Exceeding(BufferSize + unit)

\* README "a segment can exceed the configured size by one access unit".
SegmentWithinOneUnit ==
  \A unit \in AccessUnitSize :
    (\A u \in AccessUnitSize : u <= unit) => ~Exceeding(unit)

-----------------------------------------------------------------------------
(* Liveness: an instance keeps running unless it is killed, and a backend  *)
(* that was asked to stop exits.                                           *)

Fairness ==
  /\ \A p \in Process :
       /\ WF_vars(Proceed(p))
       /\ WF_vars(pc[p] = "failed" /\ BackendExits(p))
  /\ WF_vars(OrphanExits)

FairSpec == Spec /\ Fairness

\* After any failed operation the storage is handed back: the lock is freed
\* once the backend has exited, so that a later instance can record.
FailureFreesLock ==
  \A p \in Process : (pc[p] = "failed") ~> (lock = Nobody)

\* README "Rotation happens after completing the current H264 access unit":
\* neither open() nor a rotation is ever stuck half way, whatever directory it
\* meets; it ends with an open segment or with a reported failure.
SegmentOpens ==
  \A p \in Process :
    (pc[p] \in {"locked", "between"})
      ~> (pc[p] \in {"recording", "failed", "off"})
=============================================================================
