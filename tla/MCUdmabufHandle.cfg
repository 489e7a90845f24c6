SPECIFICATION FairSpec
CONSTANTS
  Device <- MCDevice
  Kind <- MCKind
  Requests <- AnonymousRequests
  MinorMax = 4
PROPERTIES
  ReturnsItsDevice
CHECK_DEADLOCK FALSE
