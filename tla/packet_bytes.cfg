\* Pipes that hold less than a packet, and one that holds the configuration.
CONSTANTS
  Byte <- MCByte
  SizeMax = 15
  SizeBytes = 2
  SizeImage <- MCImage
  StampMax = 15
  StampBytes = 2
  StampImage <- MCImage
  MaximumPacketSize = 5
  Parameters <- MCParameters
  ConfigCapacities = {2, 4}
  VideoCapacity = 3
  Payloads <- MCPayloads
  TimeStamps = {6}
  MaxPackets = 2
SPECIFICATION Spec
INVARIANTS
  TypeOK
  DeliveredAreSent
  ConfigFramed
PROPERTIES
  PacketsReturned
CHECK_DEADLOCK FALSE
