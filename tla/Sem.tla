---------------------------------- MODULE Sem ----------------------------------
(***************************************************************************)
(* sem_wrapper (sem_wrapper_ssi.v) and sem_command.v: the logic around the  *)
(* SEM core.  The operator presses vio_write to send a command, and the     *)
(* monitor stream of the core goes through the FIFO to the logic analyser.  *)
(*                                                                         *)
(* Every step is a clock of icap_clk; what the operator and the core do is  *)
(* free in every clock.  The idle detection of the wrapper (lines 90-115)   *)
(* is left out: its icap_rel_int goes to the logic analyser only, the core  *)
(* is given the release of the arbiter as it is (line 147).                 *)
(***************************************************************************)
EXTENDS SemMonitorFifo

VARIABLES
  before, last,          \* the bits 1 and 0 of vio_write_rise: two samples of vio_write
  command_strobe, command_strobe_delay,
  owed                   \* (history) the presses no command was sent for, up to 3

command == <<before, last, command_strobe, command_strobe_delay, owed>>
vars == <<fifo, command>>

Init ==
  /\ FifoInit
  /\ before = 0 /\ last = 0 /\ command_strobe = 0 /\ command_strobe_delay = 0
  /\ owed = 0
------------------------------------------------------------------------------
\* A plausible bug: the strobe follows the level of vio_write.
StrobeOnLevel(vio_write, busy) ==
  /\ before' = last /\ last' = vio_write
  /\ command_strobe' = IF last = 1 /\ ~busy THEN 1 ELSE 0

\* sem_command
Strobe(vio_write, busy) ==
  /\ before' = last /\ last' = vio_write
  /\ command_strobe' = IF before = 0 /\ last = 1 /\ ~busy THEN 1 ELSE 0

command_strobe_pulse == command_strobe = 0 /\ command_strobe_delay = 1

Least(a, b) == IF a < b THEN a ELSE b

SendCommand(vio_write, busy) ==
  /\ Strobe(vio_write, busy)
  /\ command_strobe_delay' = command_strobe
  /\ owed' = LET pressed == IF last = 0 /\ vio_write = 1 THEN 1 ELSE 0
             IN Least(3, owed + pressed) - (IF command_strobe_pulse THEN 1 ELSE 0)

\* u_sem_monitor_fifo: the logic analyser takes a byte in every clock.
monitor_read == TRUE

Clock ==
  \E vio_write \in {0, 1}, busy, write \in BOOLEAN, txdata \in Byte :
    /\ SendCommand(vio_write, busy)
    /\ FifoClock(write, monitor_read, txdata)

Spec == Init /\ [][Clock]_vars
------------------------------------------------------------------------------
TypeOK ==
  /\ augend \in 0..(2 * Depth - 1) /\ srl \in [Address -> Byte]
  /\ given \in Byte \cup {None} /\ taken \in Byte \cup {None}
  /\ before \in {0, 1} /\ last \in {0, 1} /\ owed \in 0..3
  /\ command_strobe \in {0, 1} /\ command_strobe_delay \in {0, 1}

(* The core is sent at most one command for each press of vio_write, however *)
(* long it is pressed and whenever the core is busy meanwhile: what is sent  *)
(* never outnumbers the presses.  (A press that reaches a busy core is lost: *)
(* nothing sends it later.)                                                  *)
OneCommandPerPress == owed >= 0 /\ (command_strobe_pulse => owed > 0)
==============================================================================
