\* A program that is launched from outside its directory.
CONSTANTS
  Arguments <- MCArguments
  Widths = {"unset"}
  IntMax = 1234
  MaxIndexNumber = 0
  DefaultMaxFileNum = 2
  DefaultSegmentSize = 1
  SizeMax = 5000
  SizeUnit = {1, 4}
  Suffix = {"s"}
  NoIndex = NoIndex
  Corrupt = Corrupt
  RbspMax = 8
  StatsWindow = 3
  Timestamp = {0, 1, 2, 4, 5, 7, 9}
  MaxFrames = 5
SPECIFICATION MCSpec
INVARIANT GeneratedConfigUsed
CHECK_DEADLOCK FALSE
