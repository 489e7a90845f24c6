---------------------------- MODULE SemMonitorFifo ----------------------------
(***************************************************************************)
(* sem_monitor_fifo.v: a FIFO made of one shift register for each data bit, *)
(* SRLC32E, that shifts on a write, and of a pointer to the oldest byte in  *)
(* it.  The pointer has one bit more than an address: the bytes that wait   *)
(* are at the addresses 0..augend-Depth, and Depth-1 stands for none.       *)
(***************************************************************************)
EXTENDS Integers, Sequences

CONSTANTS Depth, \* 32
          Byte, None
ASSUME DepthAssumption == Depth \in Nat \ {0}
ASSUME NoneAssumption == None \notin Byte

VARIABLES augend, srl,
          given, taken   \* (history) the bytes written and read in the last clock
fifo == <<augend, srl, given, taken>>

Address == 0..(Depth - 1)

FifoInit == /\ augend = Depth - 1 /\ srl \in [Address -> Byte]
            /\ given = None /\ taken = None

full == augend = 2 * Depth - 1
data_present == augend >= Depth
data_out == srl[augend % Depth]

valid_write(write) == write /\ ~full
valid_read(read) == read /\ data_present

addend(write, read) ==
  CASE valid_write(write) /\ ~valid_read(read) -> 1
    [] ~valid_write(write) /\ valid_read(read) -> -1
    [] OTHER -> 0

\* A plausible bug: a byte that leaves hides the one that comes.
ClockReadFirst(write, read, data_in) ==
  /\ augend' = (augend + (IF valid_read(read) THEN -1 ELSE addend(write, read))) % (2 * Depth)
  /\ srl' = IF write THEN [a \in Address |-> IF a = 0 THEN data_in ELSE srl[a - 1]] ELSE srl
  /\ given' = IF write THEN data_in ELSE None
  /\ taken' = IF valid_read(read) THEN data_out ELSE None

\* The shift registers take every byte, the pointer moves if there is room.
FifoClock(write, read, data_in) ==
  /\ augend' = (augend + addend(write, read)) % (2 * Depth)
  /\ srl' = IF write THEN [a \in Address |-> IF a = 0 THEN data_in ELSE srl[a - 1]] ELSE srl
  /\ given' = IF write THEN data_in ELSE None
  /\ taken' = IF valid_read(read) THEN data_out ELSE None

\* Used by a writer that heeds full.
FifoNext == \E write, read \in BOOLEAN : \E data_in \in Byte :
              (write => ~full) /\ FifoClock(write, read, data_in)

FifoSpec == FifoInit /\ [][FifoNext]_fifo

Count == augend - Depth + 1
Waiting == [i \in 1..Count |-> srl[Count - i]]
Queue == INSTANCE MonitorQueue WITH queue <- Waiting

(* Every byte written is read, in order: the shift registers and the pointer, *)
(* which move independently, together behave as a queue.                     *)
MonitorInOrder == Queue!Spec
==============================================================================
