\* A FIFO of three in place of 32, and two kinds of byte.
CONSTANTS
  Depth = 3
  Byte = {a, b}
  None = None
SPECIFICATION Spec
INVARIANT OneCommandPerPress
PROPERTY MonitorInOrder
