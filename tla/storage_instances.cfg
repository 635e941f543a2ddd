\* Two instances that start, fail, are killed and leave backends behind.
CONSTANTS
  IntMax = 1
  MaxIndexNumber = 1
  DefaultMaxFileNum = 2
  DefaultSegmentSize = 1
  s1 = s1
  s2 = s2
  Suffix = {s1}
  NoIndex = NoIndex
  Corrupt = Corrupt
  Process = {p1, p2}
  Nobody = Nobody
  OrphanedBackend = OrphanedBackend
  NoRecord = NoRecord
  AccessUnitSize = {1}
  BufferSize = 0
  InitialStorage <- MCAnyStorage
  EditedMax = {1}
  EditedSize = {1}
SPECIFICATION FairSpec
INVARIANTS
  LockExclusion
PROPERTIES
  FailureFreesLock
  SegmentOpens
