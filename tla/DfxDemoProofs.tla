---------------------------- MODULE DfxDemoProofs ----------------------------
(***************************************************************************)
(* dfx-demo with any sockets, bitstreams, buffers and states in which the   *)
(* managers may be when it starts: the tables change only in shutdown, no    *)
(* trigger is lost, and a manager loads its own bitstream.                  *)
(***************************************************************************)
EXTENDS DfxDemo, TLAPS

(* The tables of main.c: their lengths, and the rows they name.             *)
LEMMA Lengths ==
  /\ N \in Nat /\ N > 0 /\ Len(Vsm) \in Nat /\ Len(Vsm) > 0
  /\ DOMAIN Vsm = 1 .. Len(Vsm) /\ DOMAIN Bitstreams = 1 .. N
BY BitstreamsAssumption DEF N

LEMMA Sockets ==
  /\ \A j \in DOMAIN Vsm : Vsm[j] \in Vs
  /\ \A vs \in Vs : \E j \in DOMAIN Vsm : Vsm[j] = vs
BY DEF Vs

LEMMA RowTypes ==
  ASSUME NEW n \in Streams
  PROVE  /\ Bitstreams[n].vs \in Vs /\ Bitstreams[n].rm \in Rows
         /\ Bitstreams[n].size \in Nat /\ RowOf(n) \in Vs \X Rows
<1> DEFINE Bitstream == [vs : Vs, rm : Nat, size : Nat \ {0}]
<1>1. Bitstreams \in Seq(Bitstream)
  BY BitstreamsAssumption
<1> HIDE DEF Bitstream
<1>2. Bitstreams[n] \in Bitstream
  BY <1>1 DEF N, Streams
<1> QED BY <1>2 DEF Bitstream, Rows, RowOf

LEMMA RowsDiffer == \A n, m \in Streams : RowOf(n) = RowOf(m) => n = m
BY BitstreamsAssumption DEF RowOf
------------------------------------------------------------------------------
(* The initial state: whatever the managers do, nothing is held yet.        *)
LEMMA InitInv == Init => IInv
<1> SUFFICES ASSUME Init PROVE IInv
  OBVIOUS
<1>1. /\ pc = "read_address" /\ k = 1 /\ i = 1 /\ buffer = <<>> /\ placed = <<>>
      /\ \A vs \in Vs : cmd[vs] = "none"
      /\ \A vs \in down : state[vs] # "RM_LOAD"
  BY DEF Init
<1>2. k \in 1 .. Len(Vsm) /\ i \in 1 .. N + 1
  BY <1>1, Lengths
<1>3. bufSize \in Nat
  BY BitstreamsAssumption DEF Init
<1>4. /\ buffer \in Seq(Streams \X Nat) /\ Len(buffer) <= bufSize
      /\ placed \in Seq(Nat) /\ Len(placed) = 0
  BY <1>1, <1>3
<1>5. TypeOK
  BY <1>2, <1>4 DEF Init, TypeOK, Nowhere
<1>6. Phases
  BY <1>1, <1>4 DEF Phases, HeldDown, Programmed, Before
<1>7. Copies
  BY <1>1 DEF Copies
<1> QED BY <1>5, <1>6, <1>7 DEF IInv

(* What the places say of the bitstream that is handled.                    *)
LEMMA AtStream ==
  ASSUME TypeOK, Phases
  PROVE  /\ k \in 1 .. Len(Vsm) /\ Vsm[k] \in Vs
         /\ pc \in {"set_size", "set_address", "loop", "send", "poll"} =>
              i \in Streams /\ RowOf(i) \in Vs \X Rows /\ Socket \in Vs
         /\ pc = "set_address" => placed[i] \in Nat
<1>1. k \in 1 .. Len(Vsm) /\ i \in 1 .. N + 1 /\ placed \in Seq(Nat)
  BY DEF TypeOK
<1>2. /\ pc \in {"set_size", "set_address", "loop", "send", "poll"} => i <= N
      /\ pc = "set_address" => Len(placed) = N
  BY DEF Phases, Before
<1>3. pc \in {"set_size", "set_address", "loop", "send", "poll"} => i \in Streams
  BY <1>1, <1>2, Lengths DEF Streams
<1>4. pc = "set_address" => placed[i] \in Nat
  BY <1>1, <1>2, <1>3, Lengths DEF Streams
<1>5. Vsm[k] \in Vs
  BY <1>1, Lengths, Sockets
<1> QED BY <1>1, <1>3, <1>4, <1>5, RowTypes DEF Socket
------------------------------------------------------------------------------
(* Types.                                                                   *)

(* Copying the bitstreams: what is written past the end is cut off.         *)
LEMMA CopyType == TypeOK /\ Copy => TypeOK'
<1> SUFFICES ASSUME TypeOK, Copy PROVE TypeOK'
  OBVIOUS
<1>1. /\ i \in 1 .. N + 1 /\ bufSize \in BufSizes /\ physAddr \in Nat
      /\ buffer \in Seq(Streams \X Nat) /\ placed \in Seq(Nat)
      /\ Len(buffer) <= bufSize
  BY DEF TypeOK
<1>2. i \in Streams /\ i + 1 \in 1 .. N + 1 /\ bufSize \in Nat
  BY <1>1, Lengths, BitstreamsAssumption DEF Copy, Streams
<1> DEFINE written == buffer \o Bytes(i)
           kept == IF Len(written) > bufSize THEN bufSize ELSE Len(written)
<1>3. Bitstreams[i].size \in Nat
  BY <1>2, RowTypes
<1>4. Bytes(i) \in Seq(Streams \X Nat)
  BY <1>2, <1>3 DEF Bytes
<1>5. written \in Seq(Streams \X Nat)
  BY <1>1, <1>4
<1>6. /\ SubSeq(written, 1, kept) \in Seq(Streams \X Nat)
      /\ Len(SubSeq(written, 1, kept)) <= bufSize
  <2> HIDE DEF written
  <2> QED BY <1>2, <1>5
<1>7. /\ physAddr + Bitstreams[i].size \in Nat
      /\ Append(placed, physAddr) \in Seq(Nat)
  BY <1>1, <1>3
<1>8. i' \in 1 .. N + 1 /\ physAddr' \in Nat /\ placed' \in Seq(Nat)
  BY <1>1, <1>2, <1>7 DEF Copy
<1>9. buffer' \in Seq(Streams \X Nat) /\ Len(buffer') <= bufSize'
  <2> HIDE DEF written
  <2> QED BY <1>1, <1>6 DEF Copy, written
<1> QED BY <1>8, <1>9 DEF TypeOK, Copy, managers, tables

(* The other steps of the application.                                      *)
LEMMA AppType == TypeOK /\ Phases /\ App => TypeOK'
<1> SUFFICES ASSUME TypeOK, Phases, App PROVE TypeOK'
  OBVIOUS
<1>0. k + 1 \in Nat /\ 1 \in 1 .. Len(Vsm) /\ 1 \in 1 .. N + 1
      /\ (i < N => i + 1 \in 1 .. N + 1)
  BY AtStream, Lengths DEF TypeOK
<1> USE DEF TypeOK, copied, managers, tables
<1>1. CASE ReadAddress
  BY <1>1 DEF ReadAddress
<1>2. CASE ReadSize
  BY <1>2, BitstreamsAssumption DEF ReadSize, ReadSysnode
<1>3. CASE MapBuffer
  BY <1>3, BitstreamsAssumption DEF MapBuffer
<1>4. CASE Copy
  BY <1>4, CopyType
<1>5. CASE OpenController
  BY <1>5 DEF OpenController
<1>6. CASE SendShutdown
  BY <1>6 DEF SendShutdown
<1>7. CASE AwaitShutdown
  BY <1>7, <1>0 DEF AwaitShutdown, NextSocket
<1>8. CASE SetBsSize
  BY <1>8, AtStream, RowTypes DEF SetBsSize
<1>9. CASE SetBsAddress
  BY <1>9, <1>0, AtStream DEF SetBsAddress, Streams
<1>10. CASE SendRestart
  BY <1>10 DEF SendRestart
<1>11. CASE AwaitRestart
  BY <1>11, <1>0 DEF AwaitRestart, NextSocket
<1>12. CASE CheckPending
  BY <1>12, <1>0 DEF CheckPending, NextStream
<1>13. CASE SendSwTrigger
  BY <1>13, AtStream, RowTypes DEF SendSwTrigger
<1>14. CASE AwaitFull
  BY <1>14, <1>0 DEF AwaitFull, NextStream
<1> QED BY <1>1, <1>2, <1>3, <1>4, <1>5, <1>6, <1>7, <1>8, <1>9, <1>10, <1>11, <1>12,
           <1>13, <1>14 DEF App

(* The steps of a manager.                                                  *)
LEMMA ManagerType ==
  ASSUME TypeOK, NEW vs \in Vs, Manager(vs)
  PROVE  TypeOK'
<1> USE DEF TypeOK, app, copied, tables
<1>1. CASE ObeyCommand(vs)
  BY <1>1 DEF ObeyCommand
<1>2. CASE StartLoad(vs)
  <2>1. trigger[vs] \in Rows
    BY <1>2 DEF StartLoad
  <2>2. fetching' \in [Vs -> (Nat \union {None}) \X (Nat \union {None})]
    BY <1>2, <2>1 DEF StartLoad
  <2> QED BY <1>2, <2>1, <2>2 DEF StartLoad
<1>3. CASE EndLoad(vs)
  BY <1>3 DEF EndLoad
<1>4. CASE FailLoad(vs)
  BY <1>4 DEF FailLoad
<1> QED BY <1>1, <1>2, <1>3, <1>4 DEF Manager
------------------------------------------------------------------------------
(* The phases.  Each conjunct by its name, for the steps to refer to.       *)
NotUnderLoad == \A vs \in down : state[vs] # "RM_LOAD"
Held == \A vs \in HeldDown : vs \in down /\ cmd[vs] # "restart"
NotRestarted ==
  pc \in Before \cup {"shutdown", "await_shutdown", "set_size", "set_address"} =>
    \A vs \in Vs : cmd[vs] # "restart"
Written ==
  /\ \A n \in Programmed : /\ bsSize[RowOf(n)] = Bitstreams[n].size
                           /\ bsAddress[RowOf(n)] = placed[n]
  /\ pc = "set_address" => bsSize[RowOf(i)] = Bitstreams[i].size
Counters ==
  /\ pc \in Before => k = 1 /\ Len(placed) = i - 1
  /\ pc \notin Before \cup {"exit"} => Len(placed) = N
  /\ pc \in {"set_size", "set_address", "loop", "send", "poll"} => i <= N
  /\ pc \in {"restart", "await_restart"} => i = 1
Idle == pc = "send" => trigger[Socket] = None

LEMMA PhasesByName ==
  Phases <=> NotUnderLoad /\ Held /\ NotRestarted /\ Counters /\ Written /\ Idle
BY DEF Phases, NotUnderLoad, Held, NotRestarted, Counters, Written, Idle

(* A manager leaves shutdown only when it is told to restart, and takes a    *)
(* trigger, but sets none.                                                  *)
LEMMA ManagerPhases ==
  ASSUME TypeOK, Phases, NEW vs \in Vs, Manager(vs)
  PROVE  Phases'
<1>1. UNCHANGED <<pc, k, i, placed, bsSize, bsAddress>>
  BY DEF Manager, ObeyCommand, StartLoad, EndLoad, FailLoad, app, copied, tables
<1>2. HeldDown' = HeldDown /\ Programmed' = Programmed /\ Socket' = Socket
  BY <1>1 DEF HeldDown, Programmed, Socket
<1>3. HeldDown \subseteq Vs
  BY Sockets, Lengths DEF HeldDown, TypeOK
<1>4. \A other \in Vs : cmd'[other] = cmd[other] \/ cmd'[other] = "none"
  BY DEF Manager, ObeyCommand, StartLoad, EndLoad, FailLoad, TypeOK
<1>5. \A other \in Vs : trigger'[other] = trigger[other] \/ trigger'[other] = None
  BY DEF Manager, ObeyCommand, StartLoad, EndLoad, FailLoad, TypeOK
<1>7. \A other \in down \ down' : cmd[other] = "restart"
  BY DEF Manager, ObeyCommand, StartLoad, EndLoad, FailLoad, TypeOK
<1>8. NotUnderLoad'
  BY DEF Manager, ObeyCommand, StartLoad, EndLoad, FailLoad, TypeOK, NotUnderLoad, Phases
<1>9. Held'
  BY <1>2, <1>3, <1>4, <1>7, PhasesByName DEF Held
<1>10. NotRestarted'
  BY <1>1, <1>4, PhasesByName DEF NotRestarted
<1>11. Counters' /\ Written'
  BY <1>1, <1>2, PhasesByName DEF Counters, Written, RowOf
<1>12. Idle'
  BY <1>1, <1>2, <1>5, PhasesByName, AtStream DEF Idle
<1> QED BY <1>8, <1>9, <1>10, <1>11, <1>12
        DEF Phases, NotUnderLoad, Held, NotRestarted, Counters, Written, Idle

(* The steps of the application, conjunct by conjunct.                      *)

\* The managers act in steps of their own.
LEMMA AppUnderLoad == TypeOK /\ Phases /\ App => NotUnderLoad'
BY PhasesByName
DEF App, ReadAddress, ReadSize, MapBuffer, Copy, OpenController, SendShutdown, AwaitShutdown,
    SetBsSize, SetBsAddress, SendRestart, AwaitRestart, CheckPending, SendSwTrigger,
    AwaitFull, managers, copied, NotUnderLoad

LEMMA AppNotRestarted == TypeOK /\ Phases /\ App => NotRestarted'
<1> SUFFICES ASSUME TypeOK, Phases, App PROVE NotRestarted'
  OBVIOUS
<1>1. NotRestarted /\ Vsm[k] \in Vs
  BY PhasesByName, AtStream
<1>2. CASE SendShutdown
  BY <1>1, <1>2 DEF SendShutdown, NotRestarted, Before, TypeOK
<1>3. CASE SendRestart
  BY <1>3 DEF SendRestart, NotRestarted, Before
<1>4. CASE UNCHANGED cmd
  BY <1>1, <1>4
  DEF App, ReadAddress, ReadSize, MapBuffer, Copy, OpenController, SendShutdown, AwaitShutdown,
      SetBsSize, SetBsAddress, SendRestart, AwaitRestart, CheckPending, SendSwTrigger,
      AwaitFull, NextSocket, NotRestarted, Before
<1> QED
  BY <1>2, <1>3, <1>4
  DEF App, ReadAddress, ReadSize, MapBuffer, Copy, OpenController, AwaitShutdown,
      SetBsSize, SetBsAddress, AwaitRestart, CheckPending, SendSwTrigger, AwaitFull

LEMMA AppCounters == TypeOK /\ Phases /\ App => Counters'
<1> SUFFICES ASSUME TypeOK, Phases, App PROVE Counters'
  OBVIOUS
<1>1. Counters /\ i \in 1 .. N + 1 /\ placed \in Seq(Nat) /\ physAddr \in Nat
  BY PhasesByName DEF TypeOK
<1>2. CASE Copy
  BY <1>1, <1>2, Lengths DEF Copy, Counters, Before
<1>3. CASE OpenController
  BY <1>1, <1>3, Lengths DEF OpenController, Counters, Before, copied
<1>4. CASE ReadAddress \/ ReadSize \/ MapBuffer
  BY <1>1, <1>4 DEF ReadAddress, ReadSize, MapBuffer, Counters, Before, copied
<1>5. CASE SendShutdown \/ AwaitShutdown \/ SetBsSize \/ SetBsAddress
  BY <1>1, <1>5, Lengths
  DEF SendShutdown, AwaitShutdown, SetBsSize, SetBsAddress, NextSocket, Counters, Before, copied
<1>6. CASE SendRestart \/ AwaitRestart
  BY <1>1, <1>6, Lengths DEF SendRestart, AwaitRestart, NextSocket, Counters, Before, copied
<1>7. CASE CheckPending \/ SendSwTrigger \/ AwaitFull
  BY <1>1, <1>7, Lengths
  DEF CheckPending, SendSwTrigger, AwaitFull, NextStream, Counters, Before, copied
<1> QED BY <1>2, <1>3, <1>4, <1>5, <1>6, <1>7 DEF App

\* A row that is written keeps what it was given: rows differ.
LEMMA AppWritten == TypeOK /\ Phases /\ App => Written'
<1> SUFFICES ASSUME TypeOK, Phases, App PROVE Written'
  OBVIOUS
<1>1. Written /\ Counters /\ i \in 1 .. N + 1
  BY PhasesByName DEF TypeOK
<1>2. CASE Copy \/ OpenController \/ ReadAddress \/ ReadSize \/ MapBuffer
  BY <1>2 DEF Copy, OpenController, ReadAddress, ReadSize, MapBuffer, Written, Programmed
<1>3. CASE SendShutdown \/ AwaitShutdown
  BY <1>3 DEF SendShutdown, AwaitShutdown, NextSocket, Written, Programmed
<1>4. CASE SetBsSize
  <2>1. i \in Streams /\ pc' = "set_address" /\ i' = i /\ placed' = placed
    BY <1>4, AtStream DEF SetBsSize, copied
  <2>2. \A n \in 1 .. i - 1 : n \in Streams /\ RowOf(n) # RowOf(i)
    BY <2>1, Lengths, RowsDiffer DEF Streams
  <2>3. \A n \in Streams : RowOf(n)' = RowOf(n)
    BY DEF RowOf
  <2>4. \A n \in 1 .. i - 1 : bsSize'[RowOf(n)] = bsSize[RowOf(n)]
    BY <1>4, <2>2, RowTypes DEF SetBsSize, TypeOK
  <2>5. bsSize'[RowOf(i)] = Bitstreams[i].size
    BY <1>4, <2>1, RowTypes DEF SetBsSize, TypeOK
  <2> QED BY <1>1, <1>4, <2>1, <2>4, <2>5 DEF SetBsSize, Written, Programmed, RowOf
<1>5. CASE SetBsAddress
  <2>1. i \in Streams /\ RowOf(i) \in Vs \X Rows /\ placed' = placed /\ bsSize' = bsSize
    BY <1>5, AtStream DEF SetBsAddress, copied
  <2>2. \A n \in 1 .. i - 1 : n \in Streams /\ RowOf(n) # RowOf(i)
    BY <2>1, Lengths, RowsDiffer DEF Streams
  <2>3. bsAddress'[RowOf(i)] = placed[i]
    BY <1>5, <2>1 DEF SetBsAddress, TypeOK
  <2>4. \A n \in 1 .. i - 1 : bsAddress'[RowOf(n)] = bsAddress[RowOf(n)]
    BY <1>5, <2>2, RowTypes DEF SetBsAddress, TypeOK
  <2>5. Programmed' = 1 .. i /\ Programmed = 1 .. i - 1
    BY <1>1, <1>5, <2>1, Lengths DEF SetBsAddress, Programmed, Streams
  <2>6. bsSize[RowOf(i)] = Bitstreams[i].size
    BY <1>1, <1>5 DEF SetBsAddress, Written
  <2>7. pc' # "set_address"
    BY <1>5 DEF SetBsAddress
  <2> QED BY <1>1, <2>1, <2>3, <2>4, <2>5, <2>6, <2>7 DEF Written, RowOf
<1>6. CASE SendRestart \/ AwaitRestart
  BY <1>1, <1>6 DEF SendRestart, AwaitRestart, NextSocket, Written, Programmed, copied, tables
<1>7. CASE CheckPending \/ SendSwTrigger \/ AwaitFull
  BY <1>1, <1>7
  DEF CheckPending, SendSwTrigger, AwaitFull, Written, Programmed, copied, tables
<1> QED BY <1>2, <1>3, <1>4, <1>5, <1>6, <1>7 DEF App

\* Sockets are shut down, and restarted, in the order of main.c.
LEMMA AppHeld == TypeOK /\ Phases /\ App => Held'
<1> SUFFICES ASSUME TypeOK, Phases, App PROVE Held'
  OBVIOUS
<1>1. Held /\ NotRestarted /\ k \in 1 .. Len(Vsm) /\ Vsm[k] \in Vs /\ Len(Vsm) \in Nat
  BY PhasesByName, AtStream, Lengths
<1>2. CASE Copy \/ OpenController \/ ReadAddress \/ ReadSize \/ MapBuffer
  <2>1. k = 1
    BY <1>2, PhasesByName
    DEF Copy, OpenController, ReadAddress, ReadSize, MapBuffer, Counters, Before
  <2>2. HeldDown' = {}
    BY <1>2, <2>1 DEF Copy, OpenController, ReadAddress, ReadSize, MapBuffer, HeldDown
  <2> QED BY <2>2 DEF Held
<1>3. CASE SendShutdown
  <2>1. HeldDown' = HeldDown /\ down' = down
    BY <1>3 DEF SendShutdown, HeldDown, managers
  <2>2. \A vs \in Vs : cmd'[vs] = cmd[vs] \/ cmd'[vs] = "shutdown"
    BY <1>3 DEF SendShutdown, TypeOK
  <2>3. HeldDown \subseteq Vs
    BY <1>1, <1>3, Lengths, Sockets DEF SendShutdown, HeldDown
  <2> QED BY <1>1, <2>1, <2>2, <2>3 DEF Held
<1>4. CASE AwaitShutdown
  <2>1. HeldDown = {Vsm[j] : j \in 1 .. k - 1} /\ Vsm[k] \in down /\ down' = down /\ cmd' = cmd
    BY <1>4 DEF AwaitShutdown, HeldDown, managers
  <2>2. HeldDown' = {Vsm[j] : j \in 1 .. k}
    BY <1>1, <1>4, Lengths DEF AwaitShutdown, NextSocket, HeldDown, Vs
  <2>3. \A j \in 1 .. k : j = k \/ j \in 1 .. k - 1
    BY <1>1
  <2>4. cmd[Vsm[k]] # "restart"
    BY <1>1, <1>4 DEF AwaitShutdown, NotRestarted
  <2> QED BY <1>1, <2>1, <2>2, <2>3, <2>4 DEF Held
<1>5. CASE SetBsSize \/ SetBsAddress
  <2>1. HeldDown = Vs /\ down' = down /\ cmd' = cmd
    BY <1>5 DEF SetBsSize, SetBsAddress, HeldDown, managers
  <2>2. HeldDown' \subseteq Vs
    BY <1>1, <1>5, Lengths, Sockets DEF SetBsSize, SetBsAddress, HeldDown
  <2> QED BY <1>1, <2>1, <2>2 DEF Held
<1>6. CASE SendRestart
  <2>1. HeldDown = {Vsm[j] : j \in k .. Len(Vsm)} /\ HeldDown' = {Vsm[j] : j \in k + 1 .. Len(Vsm)}
    BY <1>6 DEF SendRestart, HeldDown
  <2>2. \A j \in k + 1 .. Len(Vsm) : j \in k .. Len(Vsm) /\ Vsm[j] # Vsm[k] /\ Vsm[j] \in Vs
    <3> SUFFICES ASSUME NEW j \in k + 1 .. Len(Vsm)
                 PROVE  j \in k .. Len(Vsm) /\ Vsm[j] # Vsm[k] /\ Vsm[j] \in Vs
      OBVIOUS
    <3>1. j \in k .. Len(Vsm) /\ j \in 1 .. Len(Vsm) /\ j # k
      BY <1>1
    <3>2. j \in DOMAIN Vsm /\ k \in DOMAIN Vsm
      BY <1>1, <3>1, Lengths
    <3>3. Vsm[j] # Vsm[k]
      BY <3>1, <3>2, BitstreamsAssumption
    <3> QED BY <3>1, <3>2, <3>3, Sockets
  <2>3. down' = down /\ \A vs \in Vs : vs # Vsm[k] => cmd'[vs] = cmd[vs]
    BY <1>6 DEF SendRestart, managers, TypeOK
  <2> QED BY <1>1, <2>1, <2>2, <2>3 DEF Held
<1>7. CASE AwaitRestart
  <2>1. HeldDown = {Vsm[j] : j \in k + 1 .. Len(Vsm)} /\ down' = down /\ cmd' = cmd
    BY <1>7 DEF AwaitRestart, HeldDown, managers
  <2>2. HeldDown' = HeldDown \/ HeldDown' = {}
    BY <1>7 DEF AwaitRestart, NextSocket, HeldDown
  <2> QED BY <1>1, <2>1, <2>2 DEF Held
<1>8. CASE CheckPending \/ SendSwTrigger \/ AwaitFull
  <2>1. HeldDown' = {}
    BY <1>8 DEF CheckPending, SendSwTrigger, AwaitFull, HeldDown
  <2> QED BY <2>1 DEF Held
<1> QED BY <1>2, <1>3, <1>4, <1>5, <1>6, <1>7, <1>8 DEF App

\* The socket found without a trigger is still the one that is triggered.
LEMMA AppIdle == TypeOK /\ Phases /\ App => Idle'
BY PhasesByName
DEF App, ReadAddress, ReadSize, MapBuffer, Copy, OpenController, SendShutdown, AwaitShutdown,
    SetBsSize, SetBsAddress, SendRestart, AwaitRestart, CheckPending, SendSwTrigger,
    AwaitFull, NextSocket, NextStream, Idle, Socket, managers, copied
------------------------------------------------------------------------------
(* The copies.                                                              *)

\* What is appended to a sequence and cut off at a length.
LEMMA CutOff ==
  ASSUME NEW S, NEW b \in Seq(S), NEW c \in Seq(S), NEW m \in Nat, Len(b) <= m,
         NEW r, r = SubSeq(b \o c, 1, IF Len(b \o c) > m THEN m ELSE Len(b \o c))
  PROVE  /\ Len(r) = IF Len(b) + Len(c) > m THEN m ELSE Len(b) + Len(c)
         /\ \A p \in 1 .. Len(b) : r[p] = b[p]
         /\ \A j \in 1 .. Len(c) : Len(b) + j <= m => r[Len(b) + j] = c[j]
<1> DEFINE w == b \o c
           kept == IF Len(w) > m THEN m ELSE Len(w)
<1>1. /\ w \in Seq(S) /\ Len(w) = Len(b) + Len(c)
      /\ \A p \in 1 .. Len(b) : w[p] = b[p]
      /\ \A j \in 1 .. Len(c) : w[Len(b) + j] = c[j]
  OBVIOUS
<1>2. r = SubSeq(w, 1, kept)
  OBVIOUS
<1> HIDE DEF w
<1>3. kept \in 0 .. Len(w) /\ Len(b) <= kept
  BY <1>1
<1>4. Len(r) = kept /\ \A p \in 1 .. kept : r[p] = w[p]
  <2> HIDE DEF kept
  <2> QED BY <1>1, <1>2, <1>3
<1>5. \A p \in 1 .. Len(b) : r[p] = b[p]
  <2> HIDE DEF kept
  <2> QED BY <1>1, <1>3, <1>4
<1>6. \A j \in 1 .. Len(c) : Len(b) + j <= m => r[Len(b) + j] = c[j]
  <2> SUFFICES ASSUME NEW j \in 1 .. Len(c), Len(b) + j <= m PROVE r[Len(b) + j] = c[j]
    OBVIOUS
  <2>1. Len(b) + j \in 1 .. kept
    BY <1>1
  <2> QED BY <1>1, <1>4, <2>1
<1> QED BY <1>1, <1>4, <1>5, <1>6

\* A byte of what lies at a and ends within the buffer is in the buffer: d bytes
\* have been copied, size is the length of the bitstream, m that of the buffer.
LEMMA InTheBuffer ==
  ASSUME NEW at \in Nat, NEW from \in Nat, NEW to \in Nat, NEW bytes \in Nat, NEW m \in Nat,
         from <= at, at + bytes - from <= to - from, at + bytes - from <= m,
         NEW j \in 1 .. bytes
  PROVE  at - from + j \in 1 .. (IF to - from > m THEN m ELSE to - from)
OBVIOUS

\* A copy leaves those before it in place; it is whole if it ends in the buffer.
LEMMA CopyCopies == TypeOK /\ Phases /\ Copies /\ Copy => Copies'
<1> SUFFICES ASSUME TypeOK, Phases, Copies, Copy PROVE Copies'
  OBVIOUS
<1>1. /\ pc = "copy" /\ pc' \in {"copy", "exit"} /\ i \in Streams
      /\ bufSize \in Nat /\ bufSize' = bufSize
      /\ buffer \in Seq(Streams \X Nat) /\ Len(buffer) <= bufSize
      /\ physAddr \in Nat /\ PhysAddr \in Nat
      /\ placed \in Seq(Nat) /\ Len(placed) = i - 1
      /\ Bitstreams[i].size \in Nat
  BY Lengths, RowTypes, BitstreamsAssumption DEF TypeOK, Phases, Before, Copy, Streams
<1>2. CASE pc' = "exit"
  BY <1>2 DEF Copies
<1>3. CASE pc' = "copy"
  <2> DEFINE d == physAddr - PhysAddr
             s == Bitstreams[i].size
  <2>0. bufSize \in Nat /\ physAddr \in Nat /\ PhysAddr \in Nat /\ s \in Nat
    BY <1>1
  <2>1. /\ placed' = Append(placed, physAddr) /\ physAddr' = physAddr + s
        /\ buffer' = SubSeq(buffer \o Bytes(i), 1,
                            IF Len(buffer \o Bytes(i)) > bufSize THEN bufSize
                            ELSE Len(buffer \o Bytes(i)))
    BY <1>1, <1>3 DEF Copy
  <2>2. /\ Bytes(i) \in Seq(Streams \X Nat) /\ Len(Bytes(i)) = s
        /\ \A j \in 1 .. s : Bytes(i)[j] = <<i, j>>
    <3>1. Bytes(i) = [j \in 1 .. s |-> <<i, j>>] /\ s \in Nat
      BY <1>1 DEF Bytes
    <3>2. \A j \in 1 .. s : <<i, j>> \in Streams \X Nat
      BY <1>1
    <3> HIDE DEF s
    <3> QED BY <3>1, <3>2
  <2>3. /\ Len(buffer') = IF Len(buffer) + s > bufSize THEN bufSize ELSE Len(buffer) + s
        /\ \A p \in 1 .. Len(buffer) : buffer'[p] = buffer[p]
        /\ \A j \in 1 .. s : Len(buffer) + j <= bufSize => buffer'[Len(buffer) + j] = <<i, j>>
    <3> HIDE DEF s
    <3>1. /\ Len(buffer') = IF Len(buffer) + Len(Bytes(i)) > bufSize THEN bufSize
                            ELSE Len(buffer) + Len(Bytes(i))
          /\ \A p \in 1 .. Len(buffer) : buffer'[p] = buffer[p]
          /\ \A j \in 1 .. Len(Bytes(i)) :
               Len(buffer) + j <= bufSize => buffer'[Len(buffer) + j] = Bytes(i)[j]
      <4>1. buffer \in Seq(Streams \X Nat) /\ bufSize \in Nat /\ Len(buffer) <= bufSize
        BY <1>1
      <4>2. PICK c \in Seq(Streams \X Nat) : c = Bytes(i)
        BY <2>2
      <4>3. PICK r : r = buffer'
        OBVIOUS
      <4>4. r = SubSeq(buffer \o c, 1, IF Len(buffer \o c) > bufSize THEN bufSize
                                       ELSE Len(buffer \o c))
        BY <2>1, <4>2, <4>3
      <4>5. /\ Len(r) = IF Len(buffer) + Len(c) > bufSize THEN bufSize ELSE Len(buffer) + Len(c)
            /\ \A p \in 1 .. Len(buffer) : r[p] = buffer[p]
            /\ \A j \in 1 .. Len(c) : Len(buffer) + j <= bufSize => r[Len(buffer) + j] = c[j]
        <5> DEFINE S == Streams \X Nat
        <5>1. buffer \in Seq(S) /\ c \in Seq(S)
          BY <4>1
        <5> HIDE DEF S
        <5> QED BY <4>1, <4>4, <5>1, CutOff
      <4> QED BY <4>2, <4>3, <4>5, Zenon
    <3> QED BY <2>2, <3>1
  <2>4. /\ PhysAddr <= physAddr /\ d \in Nat /\ s \in Nat
        /\ Len(buffer) = IF d > bufSize THEN bufSize ELSE d
    BY <1>1 DEF Copies
  <2>5. PhysAddr <= physAddr' /\ physAddr' - PhysAddr = d + s
    <3>1. physAddr' = physAddr + s
      BY <2>1
    <3> HIDE DEF s
    <3> QED BY <2>0, <2>4, <3>1
  <2>6. Len(buffer') = IF physAddr' - PhysAddr > bufSize' THEN bufSize' ELSE physAddr' - PhysAddr
    <3> HIDE DEF d, s
    <3> QED BY <1>1, <2>3, <2>4, <2>5
  <2>7. ASSUME NEW n \in DOMAIN placed'
        PROVE  /\ PhysAddr <= placed'[n] /\ EndOf(n)' <= physAddr' - PhysAddr
               /\ EndOf(n)' <= bufSize' =>
                    \A j \in 1 .. Bitstreams[n].size :
                      buffer'[placed'[n] - PhysAddr + j] = <<n, j>>
    <3>1. n \in 1 .. i
      <4>1. Len(placed') = i /\ placed' \in Seq(Nat) /\ i \in Nat
        BY <1>1, <2>1 DEF Streams
      <4> QED BY <4>1
    <3>2. CASE n = i
      <4>1. placed'[n] = physAddr
        BY <1>1, <2>1, <3>2
      <4>2. EndOf(n)' = d + s
        BY <1>1, <3>2, <4>1 DEF EndOf
      <4>3. ASSUME d + s <= bufSize, NEW j \in 1 .. s PROVE buffer'[d + j] = <<i, j>>
        <5> HIDE DEF d, s
        <5>1. Len(buffer) = d /\ d + j <= bufSize
          BY <1>1, <2>4, <4>3
        <5> QED BY <2>3, <4>3, <5>1
      <4> QED BY <1>1, <2>4, <2>5, <3>2, <4>1, <4>2, <4>3
    <3>3. CASE n # i
      <4>1. n \in DOMAIN placed /\ placed'[n] = placed[n] /\ placed[n] \in Nat /\ n \in Streams
        <5>1. n \in 1 .. i - 1
          BY <1>1, <3>1, <3>3 DEF Streams
        <5>2. n \in DOMAIN placed /\ placed[n] \in Nat
          BY <1>1, <5>1
        <5>3. placed'[n] = placed[n]
          BY <1>1, <2>1, <5>1
        <5>4. n \in Streams
          BY <1>1, <5>1, Lengths DEF Streams
        <5> QED BY <5>2, <5>3, <5>4
      <4>2. EndOf(n)' = EndOf(n) /\ EndOf(n) = placed[n] - PhysAddr + Bitstreams[n].size
            /\ Bitstreams[n].size \in Nat
        BY <1>1, <4>1, RowTypes DEF EndOf
      <4>3. /\ PhysAddr <= placed[n] /\ EndOf(n) <= d
            /\ EndOf(n) <= bufSize =>
                 \A j \in 1 .. Bitstreams[n].size : buffer[placed[n] - PhysAddr + j] = <<n, j>>
        BY <1>1, <4>1 DEF Copies
      <4>4. ASSUME EndOf(n) <= bufSize, NEW j \in 1 .. Bitstreams[n].size
            PROVE  buffer'[placed[n] - PhysAddr + j] = <<n, j>>
        <5>1. placed[n] - PhysAddr + j \in 1 .. Len(buffer)
          <6>1. /\ placed[n] + Bitstreams[n].size - PhysAddr <= physAddr - PhysAddr
                /\ placed[n] + Bitstreams[n].size - PhysAddr <= bufSize
            BY <4>3, <4>4 DEF EndOf
          <6> QED BY <2>0, <2>4, <4>1, <4>2, <4>3, <6>1, InTheBuffer
        <5>2. buffer'[placed[n] - PhysAddr + j] = buffer[placed[n] - PhysAddr + j]
          BY <2>3, <5>1
        <5> QED BY <4>3, <4>4, <5>2
      <4>5. EndOf(n) <= d + s
        <5> HIDE DEF d, s
        <5> QED BY <1>1, <2>4, <4>1, <4>2, <4>3
      <4> QED BY <1>1, <2>5, <4>1, <4>2, <4>3, <4>4, <4>5
    <3> QED BY <3>2, <3>3
  <2> HIDE DEF d, s
  <2> QED BY <1>3, <2>5, <2>6, <2>7 DEF Copies
<1> QED BY <1>1, <1>2, <1>3

\* Nothing else writes to the buffer.
LEMMA AppCopies == TypeOK /\ Phases /\ Copies /\ App => Copies'
<1> SUFFICES ASSUME TypeOK, Phases, Copies, App PROVE Copies'
  OBVIOUS
<1>1. CASE Copy
  BY <1>1, CopyCopies
<1>2. CASE MapBuffer
  <2>1. /\ buffer = <<>> /\ placed = <<>> /\ bufSize \in Nat /\ PhysAddr \in Nat
        /\ buffer' = buffer /\ placed' = placed /\ bufSize' = bufSize
        /\ pc' = "copy" => physAddr' = PhysAddr
        /\ pc' \in {"copy", "exit"}
    BY <1>2, BitstreamsAssumption DEF MapBuffer, Copies, TypeOK
  <2> QED BY <2>1 DEF Copies
<1>3. CASE ~ (Copy \/ MapBuffer)
  <2>1. UNCHANGED <<bufSize, buffer, placed>>
    BY <1>3
    DEF App, ReadAddress, ReadSize, OpenController, SendShutdown, AwaitShutdown, SetBsSize,
        SetBsAddress, SendRestart, AwaitRestart, CheckPending, SendSwTrigger, AwaitFull, copied
  <2>2. UNCHANGED physAddr
    BY <1>3
    DEF App, ReadAddress, ReadSize, OpenController, SendShutdown, AwaitShutdown, SetBsSize,
        SetBsAddress, SendRestart, AwaitRestart, CheckPending, SendSwTrigger, AwaitFull, copied
  <2>3. /\ pc' \in {"read_address", "read_size", "map"} => pc \in {"read_address", "read_size", "map"}
        /\ pc' \notin {"read_address", "read_size", "map", "exit"} =>
             pc \notin {"read_address", "read_size", "map", "exit"}
    BY <1>3
    DEF App, ReadAddress, ReadSize, OpenController, SendShutdown, AwaitShutdown, SetBsSize,
        SetBsAddress, SendRestart, AwaitRestart, CheckPending, SendSwTrigger, AwaitFull,
        NextSocket
  <2>4. \A n : EndOf(n)' = EndOf(n)
    BY <2>1 DEF EndOf
  <2> QED BY <2>1, <2>2, <2>3, <2>4 DEF Copies
<1> QED BY <1>1, <1>2, <1>3

LEMMA ManagerCopies ==
  ASSUME Copies, NEW vs \in Vs, Manager(vs)
  PROVE  Copies'
<1>1. UNCHANGED <<pc, bufSize, buffer, placed, physAddr>>
  BY DEF Manager, ObeyCommand, StartLoad, EndLoad, FailLoad, app, copied
<1> QED BY <1>1 DEF Copies, EndOf
------------------------------------------------------------------------------
(* Every step of the application and of the managers keeps the invariant.   *)
LEMMA StepInv == IInv /\ [Next]_vars => IInv'
<1> SUFFICES ASSUME TypeOK, Phases, Copies, [Next]_vars PROVE TypeOK' /\ Phases' /\ Copies'
  BY DEF IInv
<1>1. CASE App
  <2>1. TypeOK'
    BY <1>1, AppType
  <2>2. NotUnderLoad' /\ Held' /\ NotRestarted' /\ Counters' /\ Written' /\ Idle'
    BY <1>1, AppUnderLoad, AppHeld, AppNotRestarted, AppCounters, AppWritten, AppIdle
  <2> QED BY <1>1, <2>1, <2>2, AppCopies
          DEF Phases, NotUnderLoad, Held, NotRestarted, Counters, Written, Idle
<1>2. CASE \E vs \in Vs : Manager(vs)
  BY <1>2, ManagerType, ManagerPhases, ManagerCopies
<1>3. CASE UNCHANGED vars
  <2>1. TypeOK'
    BY <1>3 DEF vars, app, copied, managers, tables, TypeOK
  <2>2. Phases'
    BY <1>3 DEF vars, app, copied, managers, tables, Phases, HeldDown, Programmed, RowOf, Socket
  <2>3. Copies'
    BY <1>3 DEF vars, app, copied, Copies, EndOf
  <2> QED BY <2>1, <2>2, <2>3
<1> QED BY <1>1, <1>2, <1>3 DEF Next

(* The managers are held in shutdown from the time main.c has seen them      *)
(* there until it restarts them, whatever they do.                          *)
THEOREM Invariance == Spec => []IInv
<1> QED BY InitInv, StepInv, PTL DEF Spec

(* The tables of a manager are changed only while it is in shutdown and does *)
(* not load, for any sockets and bitstreams, and whatever the managers were  *)
(* doing when the application started.                                      *)
THEOREM ProgrammedInShutdown == Spec => TablesChangeInShutdown
<1>1. IInv /\ [Next]_vars =>
        [\A vs \in Vs, row \in Rows :
           \/ /\ bsSize'[<<vs, row>>] = bsSize[<<vs, row>>]
              /\ bsAddress'[<<vs, row>>] = bsAddress[<<vs, row>>]
           \/ vs \in down /\ state[vs] # "RM_LOAD"]_vars
  <2> SUFFICES ASSUME IInv, Next, NEW vs \in Vs, NEW row \in Rows
               PROVE  \/ /\ bsSize'[<<vs, row>>] = bsSize[<<vs, row>>]
                         /\ bsAddress'[<<vs, row>>] = bsAddress[<<vs, row>>]
                      \/ vs \in down /\ state[vs] # "RM_LOAD"
    OBVIOUS
  <2>1. CASE SetBsSize \/ SetBsAddress
    <3>1. HeldDown = Vs
      BY <2>1 DEF SetBsSize, SetBsAddress, HeldDown
    <3> QED BY <3>1, PhasesByName DEF IInv, Held, NotUnderLoad
  <2>2. CASE UNCHANGED tables
    BY <2>2 DEF tables
  <2> QED
    BY <2>1, <2>2
    DEF Next, App, Manager, ReadAddress, ReadSize, MapBuffer, Copy, OpenController,
        SendShutdown, AwaitShutdown, SendRestart, AwaitRestart, CheckPending, SendSwTrigger,
        AwaitFull, ObeyCommand, StartLoad, EndLoad, FailLoad
<1> QED BY <1>1, Invariance, PTL DEF Spec, TablesChangeInShutdown

(* A trigger stays pending until the manager loads the module it names: the  *)
(* application never overwrites it, although it polls a state that may be    *)
(* that of the module before.                                               *)
THEOREM NoTriggerLost == Spec => TriggersAreTaken
<1>1. IInv /\ [Next]_vars =>
        [\A vs \in Vs : trigger[vs] # None /\ trigger'[vs] # trigger[vs]
                          => rm'[vs] = trigger[vs] /\ state'[vs] = "RM_LOAD"]_vars
  <2> SUFFICES ASSUME IInv, Next, NEW vs \in Vs, trigger[vs] # None, trigger'[vs] # trigger[vs]
               PROVE  rm'[vs] = trigger[vs] /\ state'[vs] = "RM_LOAD"
    OBVIOUS
  <2>1. CASE SendSwTrigger
    BY <2>1, PhasesByName DEF IInv, TypeOK, Idle, SendSwTrigger
  <2>2. ASSUME NEW other \in Vs, StartLoad(other)
        PROVE  rm'[vs] = trigger[vs] /\ state'[vs] = "RM_LOAD"
    BY <2>2 DEF StartLoad, IInv, TypeOK
  <2>3. trigger' # trigger
    OBVIOUS
  <2> QED
    BY <2>1, <2>2, <2>3
    DEF Next, App, Manager, ReadAddress, ReadSize, MapBuffer, Copy, OpenController,
        SendShutdown, AwaitShutdown, SetBsSize, SetBsAddress, SendRestart, AwaitRestart,
        CheckPending, AwaitFull, ObeyCommand, EndLoad, FailLoad, tables
<1> QED BY <1>1, Invariance, PTL DEF Spec, TriggersAreTaken

(* A manager loads the bytes of its own bitstream, all of them and in order, *)
(* for any bitstreams and any buffer that begins at the address main.c takes *)
(* it to have, if the copy of that bitstream ended within it.               *)
THEOREM LoadsItsOwn == Spec => LoadsItsBitstream
<1>1. IInv /\ [Next]_vars =>
        [\A vs \in Vs, n \in Streams :
           /\ state[vs] # "RM_LOAD" /\ state'[vs] = "RM_LOAD"
           /\ pc \in {"restart", "await_restart", "loop", "send", "poll"}
           /\ RowOf(n) = <<vs, rm'[vs]>>
           /\ bufAddr = PhysAddr /\ EndOf(n) <= bufSize
           => /\ fetching'[vs][2] = Bitstreams[n].size
              /\ \A j \in 1 .. Bitstreams[n].size :
                   ByteAt(fetching'[vs][1] + j - 1) = <<n, j>>]_vars
  <2> SUFFICES ASSUME IInv, Next, NEW vs \in Vs, NEW n \in Streams,
                      state[vs] # "RM_LOAD", state'[vs] = "RM_LOAD",
                      pc \in {"restart", "await_restart", "loop", "send", "poll"},
                      RowOf(n) = <<vs, rm'[vs]>>,
                      bufAddr = PhysAddr, EndOf(n) <= bufSize
               PROVE  /\ fetching'[vs][2] = Bitstreams[n].size
                      /\ \A j \in 1 .. Bitstreams[n].size :
                           ByteAt(fetching'[vs][1] + j - 1) = <<n, j>>
    OBVIOUS
  <2>1. PICK other \in Vs : Manager(other)
    BY DEF Next, App, ReadAddress, ReadSize, MapBuffer, Copy, OpenController, SendShutdown,
           AwaitShutdown, SetBsSize, SetBsAddress, SendRestart, AwaitRestart, CheckPending,
           SendSwTrigger, AwaitFull, managers
  <2>2. other = vs /\ StartLoad(vs)
    BY <2>1 DEF Manager, ObeyCommand, StartLoad, EndLoad, FailLoad, IInv, TypeOK
  <2>3. /\ rm'[vs] = trigger[vs]
        /\ fetching'[vs] = <<bsAddress[<<vs, trigger[vs]>>], bsSize[<<vs, trigger[vs]>>]>>
    BY <2>2 DEF StartLoad, IInv, TypeOK
  <2>4. fetching'[vs] = <<placed[n], Bitstreams[n].size>>
    BY <2>3 DEF IInv, Phases, Programmed
  <2>5. /\ n \in DOMAIN placed /\ placed[n] \in Nat /\ PhysAddr \in Nat
        /\ Bitstreams[n].size \in Nat
        /\ physAddr \in Nat /\ bufSize \in Nat
        /\ buffer \in Seq(Streams \X Nat)
    <3>1. placed \in Seq(Nat) /\ Len(placed) = N /\ n \in 1 .. N
      BY DEF IInv, TypeOK, Phases, Before, Streams
    <3>2. n \in DOMAIN placed /\ placed[n] \in Nat
      BY <3>1, Lengths
    <3>3. /\ physAddr \in Nat /\ bufSize \in Nat /\ PhysAddr \in Nat
          /\ buffer \in Seq(Streams \X Nat)
      BY BitstreamsAssumption DEF IInv, TypeOK
    <3> QED BY <3>2, <3>3, RowTypes
  <2>6. /\ PhysAddr <= placed[n] /\ EndOf(n) <= physAddr - PhysAddr
        /\ \A j \in 1 .. Bitstreams[n].size : buffer[placed[n] - PhysAddr + j] = <<n, j>>
        /\ Len(buffer) = IF physAddr - PhysAddr > bufSize THEN bufSize ELSE physAddr - PhysAddr
    BY <2>5 DEF IInv, Copies
  <2>7. ASSUME NEW j \in 1 .. Bitstreams[n].size, NEW addr, addr = placed[n] + j - 1
        PROVE  ByteAt(addr) = <<n, j>>
    <3>1. PICK p : p = placed[n] - PhysAddr + j
      OBVIOUS
    <3>2. addr - bufAddr + 1 = p
      BY <2>5, <2>7, <3>1
    <3>3. Len(buffer) \in Nat /\ DOMAIN buffer = 1 .. Len(buffer)
      BY <2>5
    <3>4. p \in DOMAIN buffer
      BY <2>5, <2>6, <3>1, <3>3, InTheBuffer DEF EndOf
    <3>5. ByteAt(addr) = buffer[p]
      BY <3>2, <3>4 DEF ByteAt
    <3> QED BY <2>6, <3>1, <3>5
  <2> QED BY <2>4, <2>7
<1> QED BY <1>1, Invariance, PTL DEF Spec, LoadsItsBitstream
==============================================================================
