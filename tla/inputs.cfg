\* Invocations on changing configuration files; short inputs of every kind.
CONSTANTS
  Arguments <- MCArguments
  Widths = {"unset", "useless"}
  IntMax = 1234
  MaxIndexNumber = 0
  DefaultMaxFileNum = 2
  DefaultSegmentSize = 1
  SizeMax = 5000
  SizeUnit = {1, 4}
  Suffix = {"s"}
  NoIndex = NoIndex
  Corrupt = Corrupt
  RbspMax = 8
  StatsWindow = 3
  Timestamp = {0, 1, 2, 4, 5, 7, 9}
  MaxFrames = 5
SPECIFICATION MCSpec
INVARIANTS
  ExplicitConfigUsed
  OutputsKept
  NalusFound
  StatsOfWindow
  ConfigAsWritten
  IndexTextExact
  NumbersExact
PROPERTIES
  ConfigsKept
CHECK_DEADLOCK FALSE
