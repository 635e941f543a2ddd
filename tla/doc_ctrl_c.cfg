\* A camera that may stall.
CONSTANTS
  VideoCapacity = 1
SPECIFICATION FairSpec
PROPERTIES
  StopHonoured
CHECK_DEADLOCK FALSE
