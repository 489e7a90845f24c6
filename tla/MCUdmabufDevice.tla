-------------------------- MODULE MCUdmabufDevice --------------------------
(* Numbers scaled down, for a 32-bit processor: words of 5 bits where the    *)
(* source has 64, sizes and ints of 4 where it has 32, pages of 2 bytes.     *)
EXTENDS UdmabufDevice

Plain == [size |-> 3, mask |-> Absent, region |-> "none", quirks |-> {}, mode |-> Absent,
          always |-> FALSE, direction |-> Absent, offset |-> Absent, length |-> Absent]

\* Good nodes with and without reserved memory, one whose offset does not fit
\* an int and whose pages do not fit a size, one whose range wraps around, one
\* with an offset and no length, one whose size is truncated, and one for each
\* property refused.
MCTrees ==
  {Plain,
   [Plain EXCEPT !.region = "reserved", !.quirks = {"on", "off"}, !.mode = 2],
   [Plain EXCEPT !.mode = 3, !.always = TRUE, !.quirks = {"auto"}, !.offset = 1, !.length = 2],
   [Plain EXCEPT !.size = 15, !.offset = 9, !.length = 8],
   [Plain EXCEPT !.offset = 1, !.length = 31],
   [Plain EXCEPT !.size = 19, !.offset = 1],
   [Plain EXCEPT !.offset = 2, !.length = 2], [Plain EXCEPT !.offset = 3],
   [Plain EXCEPT !.size = 16], [Plain EXCEPT !.size = Absent],
   [Plain EXCEPT !.mask = 11], [Plain EXCEPT !.mask = 64, !.region = "bad"],
   [Plain EXCEPT !.region = "reserved", !.mode = 0], [Plain EXCEPT !.direction = 3]}

\* One page from the start, one that needs both, and two that end beyond.
MCRequests ==
  {[first |-> 0, pages |-> 1, sync |-> FALSE], [first |-> 1, pages |-> 1, sync |-> TRUE],
   [first |-> 2, pages |-> 2, sync |-> FALSE]}
==============================================================================
