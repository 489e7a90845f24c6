SPECIFICATION FairSpec
CONSTANTS
  Thread = {t1, t2}
  File = {f}
  Synchronous = {}
  Size = 2
  Word = 16
  Half = 4
  Grain = 2
  Count = {2}
  Value <- MCValue
  KernelSync <- MCKernelSync
INVARIANTS
  CopyIsOwned
  HandsBack
  SyncsItsRange
  PositionInBuffer
PROPERTIES
  CallsEnd
