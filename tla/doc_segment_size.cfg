\* A buffer that hides one access unit.
CONSTANTS
  IntMax = 1
  MaxIndexNumber = 0
  DefaultMaxFileNum = 2
  DefaultSegmentSize = 1
  s1 = s1
  s2 = s2
  Suffix = {s1}
  NoIndex = NoIndex
  Corrupt = Corrupt
  Process = {p1}
  Nobody = Nobody
  OrphanedBackend = OrphanedBackend
  NoRecord = NoRecord
  AccessUnitSize = {1}
  BufferSize = 1
  InitialStorage <- MCFresh
  EditedMax = {}
  EditedSize = {}
SPECIFICATION Spec
INVARIANTS
  SegmentWithinOneUnit
