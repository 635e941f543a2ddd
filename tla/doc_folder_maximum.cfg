\* One loss of the index in a folder that is not full.
CONSTANTS
  IntMax = 2
  MaxIndexNumber = 1
  DefaultMaxFileNum = 2
  DefaultSegmentSize = 2
  s1 = s1
  s2 = s2
  Suffix = {s1}
  NoIndex = NoIndex
  Corrupt = Corrupt
  Process = {p1}
  Nobody = Nobody
  OrphanedBackend = OrphanedBackend
  NoRecord = NoRecord
  AccessUnitSize = {1}
  BufferSize = 0
  InitialStorage <- MCRecorded
  EditedMax = {}
  EditedSize = {}
SPECIFICATION Spec
INVARIANTS
  FolderWithinMaximum
