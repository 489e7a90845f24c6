\* Two sockets with two modules each; the managers start in any state.  The
\* buffer has room for all bitstreams, or lacks one byte; it is where main.c
\* takes it to be, or next to it.  Both addresses are above what strtol returns.
CONSTANTS
  Vsm <- MCVsm
  Bitstreams <- MCBitstreams
  BufSizes = {7, 8}
  BufAddrs = {100, 101}
  PhysAddr = 100
  LongMax = 64
SPECIFICATION Spec
INVARIANT IInv
PROPERTY TablesChangeInShutdown
PROPERTY LoadsItsBitstream
PROPERTY TriggersAreTaken
PROPERTY DemoGoesOn
CHECK_DEADLOCK FALSE
