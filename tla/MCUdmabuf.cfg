SPECIFICATION FairSpec
CONSTANTS
  Device <- MCDevice
  Kind <- MCKind
  Requests <- MCRequests
  MinorMax = 3
INVARIANTS
  IInv
  AllOrNothing
  EntriesAreLive
PROPERTIES
  ExitReleasesAll
  ExitEnds
CHECK_DEADLOCK FALSE
