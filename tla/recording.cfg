\* One run on an empty, a first-format or a legacy directory.
CONSTANTS
  IntMax = 1
  MaxIndexNumber = 1
  DefaultMaxFileNum = 2
  DefaultSegmentSize = 2
  s1 = s1
  s2 = s2
  Suffix = {s1}
  NoIndex = NoIndex
  Corrupt = Corrupt
  Process = {p1}
  Nobody = Nobody
  OrphanedBackend = OrphanedBackend
  NoRecord = NoRecord
  AccessUnitSize = {1, 2}
  BufferSize = 1
  InitialStorage <- MCAnyStorage
  EditedMax = {}
  EditedSize = {}
  VideoCapacity = 2
SPECIFICATION RecordingSpec
INVARIANTS
  DrainsIntoOpenSegment
  BackendKeepsLock
  StorageFailureReported
PROPERTIES
  RunReleasesStorage
  StorageImplemented
  PipelineImplemented
CHECK_DEADLOCK FALSE
