--------------------------- MODULE StorageArchive ---------------------------
(***************************************************************************)
(* StorageRecorder implements SegmentArchive: the archive is the record    *)
(* files with data, taken by position.  Placeholders, which a killed       *)
(* instance leaves behind without data, are not segments.                  *)
(***************************************************************************)
EXTENDS StorageRecorder

Recorded == {r \in DOMAIN disk : disk[r] > 0}

ArchiveOnDisk ==
  [s \in {PositionOf(r) : r \in Recorded} |->
     disk[CHOOSE r \in Recorded : PositionOf(r) = s]]

Archive == INSTANCE SegmentArchive WITH
  Owner   <- Process,
  Slot    <- Position,
  Earlier <- Before,
  archive <- ArchiveOnDisk,
  owner   <- lock

(***************************************************************************)
(* A directory as the program leaves it: every file is below a folder the  *)
(* scan sees, no two files with data share a position, and the latest      *)
(* index that can be read ends where the data does.                        *)
(***************************************************************************)
Covers(records, files) ==
  \A r \in files :
    /\ records # <<>>
    /\ ~Before(PositionOf(records[Len(records)]), PositionOf(r))

Distinct(files) ==
  \A r, q \in files : PositionOf(r) = PositionOf(q) => r = q

ASSUME ArchiveAssumption ==
  \A s \in InitialStorage :
    LET files == {r \in DOMAIN s.disk : s.disk[r] > 0}
    IN /\ \A r \in DOMAIN s.disk : r.folder \in s.dirs
       /\ Distinct(files)
       /\ \A n \in IndexNumber :
            /\ s.indexFile[n] \notin {NoIndex, Corrupt}
            /\ \A m \in IndexNumber : s.indexFile[m] # NoIndex => m <= n
            => Covers(s.indexFile[n].records, files)

\* The files below padded folders form an append-only archive: recording goes
\* on at a later position after every restart, recovery and change of the
\* settings, and no two files with data share a position.
ImplementsArchive == Archive!Spec

(***************************************************************************)
(* A directory whose maximum was never higher than the default, and which  *)
(* has its data within that maximum: the last folder of the latest index   *)
(* has less than a maximum of files with data besides the ones it lists.   *)
(***************************************************************************)
Data(files, f) == {r \in files : r.folder = f}

\* folders_.back().record_files.size(), and the number of that folder.
FilesOf(records)    == CountUpTo(records, Len(records))
LastFolder(records) == records[Len(records)].folder

EndRoom(files, records) ==
  records # <<>> =>
    Cardinality(Data(files, LastFolder(records)))
      < DefaultMaxFileNum + FilesOf(records)

MaximumNotRaised ==
  /\ \A max \in EditedMax : max <= DefaultMaxFileNum
  /\ \A s \in InitialStorage :
       LET files == {r \in DOMAIN s.disk : s.disk[r] > 0}
       IN /\ s.legacy.index \notin {NoIndex, Corrupt}
               => s.legacy.index.max <= DefaultMaxFileNum
          /\ \A f \in Index :
               Cardinality(Data(files, f)) < 2 * DefaultMaxFileNum
          /\ \A n \in IndexNumber :
               /\ s.indexFile[n] \notin {NoIndex, Corrupt}
               /\ \A m \in IndexNumber : s.indexFile[m] # NoIndex => m <= n
               => /\ s.indexFile[n].max <= DefaultMaxFileNum
                  /\ EndRoom(files, s.indexFile[n].records)
=============================================================================
