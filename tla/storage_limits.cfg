\* The index is lost again and again while the folders run out, and a buffer
\* hides as much as the larger of two access units from file_size.
CONSTANTS
  IntMax = 3
  MaxIndexNumber = 2
  DefaultMaxFileNum = 2
  DefaultSegmentSize = 2
  s1 = s1
  s2 = s2
  Suffix = {s1}
  NoIndex = NoIndex
  Corrupt = Corrupt
  Process = {p1}
  Nobody = Nobody
  OrphanedBackend = OrphanedBackend
  NoRecord = NoRecord
  AccessUnitSize = {1, 2}
  BufferSize = 2
  InitialStorage <- MCLateFolder
  EditedMax = {}
  EditedSize = {}
SPECIFICATION Spec
INVARIANTS
  SegmentWithinBuffer
  FolderWithinTwiceMaximum
