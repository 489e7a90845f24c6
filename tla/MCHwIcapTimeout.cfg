CONSTANTS
  FifoDepth = 2
  WriteSizes = {1, 3}
  MaxRetries = 1
  WordsPerFrame = 2
  MaxType1 = 2047
  IdCode = 7
  ExtraWords <- MCExtraWords
  NumNoops <- MCNumNoops
  Addresses <- MCAddresses
  DeviceCodes <- MCDeviceCodes
SPECIFICATION Spec
PROPERTY DeviceReadReturns
CHECK_DEADLOCK FALSE
