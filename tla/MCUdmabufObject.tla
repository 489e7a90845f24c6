--------------------------- MODULE MCUdmabufObject ---------------------------
(* Numbers scaled down: words of 4 bits of which 2 are an offset, sizes in    *)
(* steps of 2, a buffer of 2 bytes.                                         *)
EXTENDS UdmabufObject

\* Command 2 is both bytes, 0 none; the in-kernel syncs are commands that use the
\* attributes.  Offset 15 ends beyond the buffer with size 0, and wraps around the
\* word, into the buffer, with size 2.
MCValue ==
  [sync_mode |-> {1, 5, 8}, sync_offset |-> {15}, sync_size |-> {2},
   sync_for_cpu |-> {0}, sync_for_device |-> {2}]

MCKernelSync ==
  {[command |-> 1, offset |-> 0, size |-> 2],
   [command |-> 2, offset |-> 0, size |-> 2],
   [command |-> 2, offset |-> 15, size |-> -1],
   [command |-> 3, offset |-> 15, size |-> 2]}
==============================================================================
