\* Frames that repeat, go back, share a tick and exceed the range of int64.
CONSTANTS
  StampMax = 15
  TickMax = 7
  InputRate = 5
  StreamRate = 4
  UnitMax = 2
  Stamps = {0, 2, 3, 7, 8, 15}
  MaxPackets = 5
SPECIFICATION Spec
INVARIANTS
  TypeOK
  DtsIncreasing
  DtsLeast
  UnitsComplete
CHECK_DEADLOCK FALSE
