----------------------------- MODULE MonitorQueue -----------------------------
(* What the monitor FIFO of SEM promises: every byte that is given to it is   *)
(* handed on, in the order in which they came, and at most Depth of them     *)
(* wait.  A byte may be given in the clock in which another is taken, but    *)
(* only when there was room before.                                          *)
EXTENDS Naturals, Sequences

CONSTANTS Depth, Byte, None
VARIABLES queue,
          given, taken   \* the bytes of the last clock, or None

Init == queue = <<>> /\ given = None /\ taken = None

Take(read) == IF read /\ queue # <<>>
              THEN taken' = Head(queue) ELSE taken' = None
Left(read) == IF read /\ queue # <<>> THEN Tail(queue) ELSE queue

Next == \E read \in BOOLEAN :
          /\ Take(read)
          /\ \/ given' = None /\ queue' = Left(read)
             \/ /\ given' \in Byte /\ Len(queue) < Depth
                /\ queue' = Append(Left(read), given')

Spec == Init /\ [][Next]_<<queue, given, taken>>
==============================================================================
