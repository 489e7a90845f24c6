\* Buffers smaller than, equal to and larger than the FIFO, in both modes.
CONSTANTS
  FifoDepth = 4
  WriteSizes = {1, 4, 9}
  MaxRetries = 1
  WordsPerFrame = 2
  MaxType1 = 2047
  IdCode = 7
  ExtraWords <- MCExtraWords
  NumNoops <- MCNumNoops
  Addresses <- MCAddresses
  DeviceCodes <- MCDeviceCodes
SPECIFICATION FairSpec
INVARIANT IInv
INVARIANT CalledOnce
PROPERTY WritesDoNotOverlap
PROPERTY SuccessMeansWritten
PROPERTY FrameIsWritten
PROPERTY PortFreed
PROPERTY TransferEnds
CHECK_DEADLOCK FALSE
