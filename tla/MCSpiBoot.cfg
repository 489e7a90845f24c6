CONSTANTS
  FifoDepth = 8
  FlashTypes <- MCFlashTypes
  Ids <- MCIds
  OpLen = 5
  ChunkSize = 20
  ImageLen = 26
  FlashStart = 5
  AddrSpace = 64
  Junk = Junk
SPECIFICATION Spec
INVARIANT IInv
INVARIANT NoByteLost
INVARIANT RamHoldsImage
INVARIANT IdentifiesFlash
PROPERTY ReachesImage
CHECK_DEADLOCK FALSE
