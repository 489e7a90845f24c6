------------------------------- MODULE SemProofs -------------------------------
(* The monitor FIFO is a queue, whatever its depth, and the logic around the  *)
(* SEM core sends one command for a press.                                    *)
EXTENDS Sem, TLAPS

FifoInv == augend \in (Depth - 1)..(2 * Depth - 1) /\ srl \in [Address -> Byte]
Seen == <<Waiting, given, taken>>

\* The pointer never wraps around, since it moves down only from Depth on and
\* up only to 2 * Depth - 1.
LEMMA PointerMoves ==
  ASSUME FifoInv, NEW write \in BOOLEAN, NEW read \in BOOLEAN, NEW data_in \in Byte,
         FifoClock(write, read, data_in)
  PROVE  augend' = augend + addend(write, read) /\ FifoInv'
<1> DEFINE next == augend + addend(write, read)
<1>1. next \in (Depth - 1)..(2 * Depth - 1)
  BY DepthAssumption DEF FifoInv, addend, valid_write, valid_read, full, data_present
<1>2. \A n \in Nat \ {0} : \A x \in 0..(n - 1) : x % n = x
  OBVIOUS
<1>3. next % (2 * Depth) = next
  <2> HIDE DEF next
  <2> QED BY <1>1, <1>2, DepthAssumption
<1>4. srl' \in [Address -> Byte]
  BY DepthAssumption DEF FifoInv, FifoClock, Address
<1> QED BY <1>1, <1>3, <1>4 DEF FifoInv, FifoClock

\* A step of the FIFO in which a full one is not written is one of the queue.
LEMMA FifoStep ==
  ASSUME FifoInv, NEW write \in BOOLEAN, NEW read \in BOOLEAN, NEW data_in \in Byte,
         FifoClock(write, read, data_in), write => ~full
  PROVE  FifoInv' /\ [Queue!Next]_Seen
<1>1. FifoInv' /\ augend' = augend + addend(write, read)
  BY PointerMoves
<1>2. Count \in 0..Depth /\ Len(Waiting) = Count /\ Waiting \in Seq(Byte)
  BY DepthAssumption DEF FifoInv, Count, Waiting, Address
<1>3. (Waiting # <<>>) <=> data_present
  BY <1>2, DepthAssumption DEF FifoInv, Count, data_present
<1>. DEFINE out == IF valid_read(read) THEN data_out ELSE None
<1>20. given' = (IF write THEN data_in ELSE None) /\ taken' = out
  BY DEF FifoClock
<1>21. valid_read(read) <=> read /\ Waiting # <<>>
  BY <1>3 DEF valid_read
<1>22. valid_read(read) => data_out = Head(Waiting)
  <2> SUFFICES ASSUME valid_read(read) PROVE data_out = Head(Waiting)
    OBVIOUS
  <2>1. augend \in Depth..(2 * Depth - 1)
    BY DepthAssumption DEF FifoInv, valid_read, data_present
  <2>2. augend % Depth = augend - Depth
    <3>1. \A n \in Nat \ {0} : \A x \in n..(2 * n - 1) : x % n = x - n
      OBVIOUS
    <3> QED BY <2>1, <3>1, DepthAssumption
  <2>3. Head(Waiting) = srl[Count - 1]
    BY <2>1, <1>2, DepthAssumption DEF Waiting, Count
  <2> QED BY <2>1, <2>2, <2>3, DepthAssumption DEF data_out, Count
<1>23. Queue!Take(read)
  BY <1>20, <1>21, <1>22 DEF Queue!Take
<1>4. CASE ~write /\ ~valid_read(read)
  <2>1. Waiting' = Waiting
    BY <1>1, <1>4 DEF FifoClock, addend, valid_write, Waiting, Count, FifoInv
  <2>2. Queue!Left(read) = Waiting
    BY <1>4, <1>21 DEF Queue!Left
  <2> QED BY <1>1, <1>4, <1>20, <1>23, <2>1, <2>2 DEF Queue!Next
<1>5. CASE ~write /\ valid_read(read)
  <2>1. Count' = Count - 1 /\ srl' = srl
    BY <1>1, <1>5, DepthAssumption DEF FifoClock, addend, valid_write, Count, FifoInv
  <2>2. Waiting' = Tail(Waiting)
    BY <2>1, <1>2, DepthAssumption DEF Waiting
  <2>3. Queue!Left(read) = Tail(Waiting)
    BY <1>5, <1>21 DEF Queue!Left
  <2> QED BY <1>1, <1>5, <1>20, <1>23, <2>2, <2>3 DEF Queue!Next
<1>6. CASE write /\ ~valid_read(read)
  <2>1. Count' = Count + 1 /\ Count < Depth
    BY <1>1, <1>6, DepthAssumption DEF addend, valid_write, Count, FifoInv, full
  <2>2. srl' = [a \in Address |-> IF a = 0 THEN data_in ELSE srl[a - 1]]
    BY <1>6 DEF FifoClock
  <2>3. Waiting' = Append(Waiting, data_in)
    BY <2>1, <2>2, <1>2, DepthAssumption DEF Waiting, Address
  <2>4. Queue!Left(read) = Waiting
    BY <1>6, <1>21 DEF Queue!Left
  <2>5. Len(Waiting) < Depth
    BY <1>2, <2>1
  <2> QED BY <1>1, <1>6, <1>20, <1>23, <2>3, <2>4, <2>5 DEF Queue!Next
<1>7. CASE write /\ valid_read(read)
  <2>1. Count' = Count /\ Count \in 1..(Depth - 1)
    BY <1>1, <1>7, DepthAssumption
    DEF addend, valid_write, valid_read, Count, FifoInv, full, data_present
  <2>2. srl' = [a \in Address |-> IF a = 0 THEN data_in ELSE srl[a - 1]]
    BY <1>7 DEF FifoClock
  <2> DEFINE rest == [i \in 1..(Count - 1) |-> srl[Count - 1 - i]]
  <2>3. Tail(Waiting) = rest /\ rest \in Seq(Byte) /\ Len(rest) = Count - 1
    <3>1. rest \in Seq(Byte) /\ Len(rest) = Count - 1
      BY <2>1, <1>2, DepthAssumption DEF FifoInv, Address
    <3>2. Tail(Waiting) = rest
      BY <2>1, <1>2, DepthAssumption DEF Waiting
    <3> QED BY <3>1, <3>2
  <2>4. Waiting' = Append(rest, data_in)
    <3>1. Append(rest, data_in)
            = [i \in 1..Count |-> IF i = Count THEN data_in ELSE rest[i]]
      BY <2>1, <2>3
    <3>2. Waiting' = [i \in 1..Count |-> srl'[Count - i]]
      BY <2>1 DEF Waiting
    <3>3. \A i \in 1..Count : srl'[Count - i] = IF i = Count THEN data_in ELSE rest[i]
      BY <2>1, <2>2, DepthAssumption DEF Address
    <3> QED BY <3>1, <3>2, <3>3
  <2>5. Len(Waiting) < Depth
    BY <1>2, <2>1, DepthAssumption
  <2>6. Queue!Left(read) = rest
    BY <2>3, <1>7, <1>21 DEF Queue!Left
  <2> QED BY <1>1, <1>7, <1>20, <1>23, <2>4, <2>5, <2>6 DEF Queue!Next
<1> QED BY <1>4, <1>5, <1>6, <1>7

LEMMA FifoStarts == FifoInit => FifoInv /\ Queue!Init
<1> SUFFICES ASSUME FifoInit PROVE FifoInv /\ Queue!Init
  OBVIOUS
<1>1. FifoInv /\ Count = 0
  BY DepthAssumption DEF FifoInit, FifoInv, Count
<1> QED BY <1>1 DEF Queue!Init, Waiting, FifoInit

(* Whatever its depth and its bytes, the FIFO of a writer that heeds full is  *)
(* a queue: no byte is lost, doubled or overtaken.                           *)
THEOREM FifoIsAQueue == FifoSpec => Queue!Spec
<1>1. FifoInv /\ [FifoNext]_fifo => FifoInv' /\ [Queue!Next]_Seen
  <2> SUFFICES ASSUME FifoInv, [FifoNext]_fifo
               PROVE  FifoInv' /\ [Queue!Next]_Seen
    OBVIOUS
  <2>1. CASE FifoNext
    BY <2>1, FifoStep DEF FifoNext
  <2>2. CASE UNCHANGED fifo
    BY <2>2 DEF fifo, FifoInv, Waiting, Count, Seen
  <2> QED BY <2>1, <2>2
<1> QED BY <1>1, FifoStarts, PTL DEF FifoSpec, Queue!Spec, Seen
------------------------------------------------------------------------------
(* The wrapper.  A press that is not forgotten is on its way to the core: it   *)
(* shows as a rising edge, then as the strobe, then as the end of the strobe. *)

Rising == before = 0 /\ last = 1

CommandInv ==
  /\ Rising \/ command_strobe = 1 \/ command_strobe_pulse => owed >= 1
  /\ Rising /\ command_strobe_pulse => owed >= 2
  /\ command_strobe = 1 => before = 1 /\ command_strobe_delay = 0

FreeFifo == augend \in (Depth - 1)..Depth

IInv == TypeOK /\ CommandInv /\ FreeFifo

LEMMA InitInv == Init => IInv
<1> SUFFICES ASSUME Init PROVE IInv
  OBVIOUS
<1>1. TypeOK
  BY DepthAssumption DEF Init, FifoInit, TypeOK
<1>2. CommandInv
  BY DEF Init, CommandInv, Rising, command_strobe_pulse
<1> QED BY <1>1, <1>2, DepthAssumption DEF Init, FifoInit, IInv, FreeFifo

LEMMA StepType ==
  ASSUME IInv, Clock
  PROVE  TypeOK' /\ FreeFifo'
<1>1. PICK vio_write \in {0, 1}, busy \in BOOLEAN, write \in BOOLEAN, txdata \in Byte :
        SendCommand(vio_write, busy) /\ FifoClock(write, monitor_read, txdata)
  BY DEF Clock
<1>2. FifoInv /\ monitor_read \in BOOLEAN
  BY DepthAssumption DEF IInv, TypeOK, FreeFifo, FifoInv, monitor_read
<1>3. augend' = augend + addend(write, TRUE) /\ FifoInv'
  BY <1>1, <1>2, PointerMoves DEF monitor_read
<1>4. FreeFifo'
  BY <1>3, DepthAssumption
  DEF IInv, FreeFifo, addend, valid_write, valid_read, full, data_present
<1>5. /\ before' \in {0, 1} /\ last' \in {0, 1}
      /\ command_strobe' \in {0, 1} /\ command_strobe_delay' \in {0, 1}
  BY <1>1 DEF IInv, TypeOK, SendCommand, Strobe
<1>6. owed' \in 0..3
  <2>1. command_strobe_pulse => owed >= 1
    BY DEF IInv, CommandInv
  <2> QED BY <1>1, <2>1 DEF IInv, TypeOK, SendCommand, Least
<1>7. augend' \in 0..(2 * Depth - 1) /\ srl' \in [Address -> Byte]
  <2>1. augend' \in (Depth - 1)..(2 * Depth - 1) /\ srl' \in [Address -> Byte]
    BY <1>3 DEF FifoInv
  <2> HIDE DEF Address
  <2> QED BY <2>1, DepthAssumption
<1>8. given' \in Byte \cup {None} /\ taken' \in Byte \cup {None}
  <2>1. augend \in Depth..(2 * Depth - 1) => data_out \in Byte
    <3>1. augend % Depth \in Address
      BY <1>2, DepthAssumption DEF FifoInv, Address
    <3> QED BY <1>2, <3>1 DEF FifoInv, data_out
  <2>2. valid_read(monitor_read) => data_out \in Byte
    BY <1>2, <2>1, DepthAssumption DEF FifoInv, valid_read, data_present
  <2> QED BY <1>1, <2>2 DEF FifoClock
<1>9. TypeOK'
  <2> HIDE DEF Address
  <2> QED BY <1>5, <1>6, <1>7, <1>8 DEF TypeOK
<1> QED BY <1>4, <1>9

LEMMA StepCommand ==
  ASSUME IInv, Clock
  PROVE  CommandInv'
<1>1. PICK vio_write \in {0, 1}, busy \in BOOLEAN : SendCommand(vio_write, busy)
  BY DEF Clock
<1>2. command_strobe' = 1 => before' = 1 /\ command_strobe_delay' = 0
  BY <1>1 DEF IInv, TypeOK, CommandInv, SendCommand, Strobe
<1>3. /\ Rising' => last = 0 /\ vio_write = 1
      /\ command_strobe' = 1 => Rising
      /\ command_strobe_pulse' => command_strobe = 1
  BY <1>1 DEF SendCommand, Strobe, Rising, command_strobe_pulse
<1>4. owed' = Least(3, owed + (IF last = 0 /\ vio_write = 1 THEN 1 ELSE 0))
              - (IF command_strobe_pulse THEN 1 ELSE 0)
  BY <1>1 DEF SendCommand
<1> QED BY <1>2, <1>3, <1>4 DEF IInv, TypeOK, CommandInv, Rising, Least, command_strobe_pulse

LEMMA Step == IInv /\ [Clock]_vars => IInv'
<1> SUFFICES ASSUME IInv, [Clock]_vars PROVE IInv'
  OBVIOUS
<1>1. CASE Clock
  BY <1>1, StepType, StepCommand DEF IInv
<1>2. CASE UNCHANGED vars
  BY <1>2 DEF vars, fifo, command, IInv, TypeOK, CommandInv, Rising,
              command_strobe_pulse, FreeFifo
<1> QED BY <1>1, <1>2

THEOREM Invariance == Spec => []IInv
BY InitInv, Step, PTL DEF Spec

(* Presses are never outnumbered by the commands they cause.                 *)
THEOREM SendsOnePerPress == Spec => []OneCommandPerPress
<1>1. IInv => OneCommandPerPress
  BY DEF IInv, TypeOK, CommandInv, OneCommandPerPress
<1> QED BY <1>1, Invariance, PTL

(* With the logic analyser reading in every clock no byte of the monitor is   *)
(* lost or overtaken, although the shift registers ignore full: it never is.  *)
THEOREM MonitorIsAQueue == Depth > 1 /\ Spec => MonitorInOrder
<1> SUFFICES ASSUME Depth > 1 PROVE Spec => MonitorInOrder
  OBVIOUS
<1>1. IInv /\ [Clock]_vars => [Queue!Next]_Seen
  <2> SUFFICES ASSUME IInv, [Clock]_vars PROVE [Queue!Next]_Seen
    OBVIOUS
  <2>1. FifoInv /\ ~full
    BY DepthAssumption DEF IInv, TypeOK, FreeFifo, FifoInv, full
  <2>2. CASE Clock
    <3>1. PICK write \in BOOLEAN, txdata \in Byte : FifoClock(write, TRUE, txdata)
      BY <2>2 DEF Clock, monitor_read
    <3> QED BY <2>1, <3>1, FifoStep
  <2>3. CASE UNCHANGED vars
    BY <2>3 DEF vars, fifo, Waiting, Count, Seen
  <2> QED BY <2>2, <2>3
<1>2. Init => Queue!Init
  BY FifoStarts DEF Init
<1> QED BY <1>1, <1>2, Invariance, PTL DEF Spec, MonitorInOrder, Queue!Spec, Seen
==============================================================================
