\* A camera that delivers frames, until it or the backend fails.
CONSTANTS
  VideoCapacity = 3
SPECIFICATION StreamingSpec
INVARIANTS
  TypeOK
  SuccessOnlyWhenStopped
PROPERTIES
  ErrorKept
  StopHonoured
  BackendEndNoticed
  WaitReturns
  OrphanEnds
CHECK_DEADLOCK FALSE
