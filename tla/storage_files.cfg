\* One instance after another on any kind of directory: files and indexes.
CONSTANTS
  IntMax = 1
  MaxIndexNumber = 1
  DefaultMaxFileNum = 2
  DefaultSegmentSize = 2
  s1 = s1
  s2 = s2
  Suffix <- MCSuffix
  NoIndex = NoIndex
  Corrupt = Corrupt
  Process = {p1}
  Nobody = Nobody
  OrphanedBackend = OrphanedBackend
  NoRecord = NoRecord
  AccessUnitSize = {1}
  BufferSize = 0
  InitialStorage <- MCAnyStorage
  EditedMax = {1, 2}
  EditedSize = {2}
SYMMETRY SuffixSymmetry
SPECIFICATION Spec
INVARIANTS
  TypeOK
  IndexedRecordsExist
  ResumePoint
PROPERTIES
  RecordedDataKept
  OldIndexesKept
  ImplementsArchive
