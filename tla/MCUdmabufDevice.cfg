SPECIFICATION FairSpec
CONSTANTS
  Mappers = {m}
  Setters = {s}
  Trees <- MCTrees
  PageSize = 2
  Base = 4
  Word = 32
  SizeWord = 16
  IntMax = 7
  DmaCoherent = FALSE
  Requests <- MCRequests
  SetMode = {2, 5, 8}
INVARIANTS
  IInv
  MapsBuffer
  CachingWasAsked
PROPERTIES
  ProbeEnds
CHECK_DEADLOCK FALSE
