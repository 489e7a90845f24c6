---------------------------- MODULE SpiBootProofs ----------------------------
(***************************************************************************)
(* The boot loader for every FIFO depth, flash, chunk and image size, when *)
(* a command and an identification fit the FIFO: it identifies the flash   *)
(* it finds; no byte is dropped at a full FIFO unless a page is longer     *)
(* than the RX FIFO; RAM holds the image in order until then, and main     *)
(* jumps to nothing else.                                                  *)
(***************************************************************************)
EXTENDS SpiBoot, TLAPS

\* What the theorem assumes of the sizes; an identification has three bytes.
Fits == OpLen <= FifoDepth /\ 3 <= FifoDepth

\* Until the flash is identified there is no page size.
Unfound == /\ step \in Nat
           /\ SettingUp \/ pc \in {"start", "select", "opcode", "reply"} => pageSize = 0

(* The sizes, without the flashes.                                          *)
LEMMA Sizes ==
  /\ FifoDepth \in Nat \ {0} /\ OpLen \in Nat \ {0}
  /\ ChunkSize \in Nat \ {0} /\ ImageLen \in Nat
  /\ FlashStart \in Nat /\ AddrSpace \in Nat \ {0}
  /\ FlashStart + ImageLen <= AddrSpace
BY SizesAssumption

(* An entry of the table of flashes.                                        *)
LEMMA FlashTypesType ==
  ASSUME NEW k \in DOMAIN FlashTypes
  PROVE  /\ FlashTypes[k] \in [id : Seq(Nat), page_size : Nat \ {0}]
         /\ FlashTypes[k].page_size \in Nat \ {0}
<1> DEFINE Entries == [id : Seq(Nat), page_size : Nat \ {0}]
<1>1. FlashTypes[k] \in Entries
  <2>1. FlashTypes \in Seq(Entries)
    BY SizesAssumption
  <2> HIDE DEF Entries
  <2> QED BY <2>1
<1> QED BY <1>1

(* Lesser is the minimum.                                                   *)
LEMMA LesserType ==
  ASSUME NEW a \in Nat, NEW b \in Nat
  PROVE  Lesser(a, b) \in Nat /\ Lesser(a, b) <= a /\ Lesser(a, b) <= b
BY DEF Lesser

(* Putting a byte into a FIFO and taking its oldest byte out.               *)
LEMMA FifoPut ==
  ASSUME NEW S, NEW q \in Seq(S), NEW e \in S
  PROVE  Append(q, e) \in Seq(S) /\ Len(Append(q, e)) = Len(q) + 1
OBVIOUS

LEMMA FifoGet ==
  ASSUME NEW S, NEW q \in Seq(S), q # <<>>
  PROVE  /\ Head(q) \in S /\ Tail(q) \in Seq(S)
         /\ Len(Tail(q)) = Len(q) - 1 /\ Len(q) \in Nat /\ Len(q) > 0
OBVIOUS

(* The only positive natural number up to 1.                                *)
LEMMA OneOnly ==
  ASSUME NEW k \in Nat, k # 0, k <= 1
  PROVE  k = 1
OBVIOUS

(* The five selections of init_spi_flash, and what they ask for.            *)
LEMMA TransactionType ==
  /\ Len(Transactions) = 5
  /\ \A k \in 1 .. 5 : /\ Transactions[k].op \in Ops
                        /\ Transactions[k].reply \in {0, 3}
BY DEF Transactions, Ops

(* A byte that goes out is a byte.                                          *)
LEMMA TxByteType ==
  ASSUME TypeOK
  PROVE  TxByte \in OutByte
<1>1. CASE phase # "command"
  BY <1>1 DEF TxByte, Zero, OutByte, Ops
<1>2. CASE phase = "command" /\ SettingUp
  <2>1. step \in 1 .. 5
    BY <1>2, TransactionType DEF SettingUp, TypeOK
  <2> QED BY <1>2, <2>1, TransactionType DEF TxByte, OutByte
<1>3. CASE phase = "command" /\ ~SettingUp
  <2>1. addr % AddrSpace \in Nat
    BY Sizes DEF TypeOK
  <2>2. TxByte = [op |-> "FAST_READ", addr |-> addr % AddrSpace]
    BY <1>3 DEF TxByte
  <2> QED BY <2>1, <2>2 DEF OutByte, Ops
<1> QED BY <1>1, <1>2, <1>3

(* Unselecting the flash leaves it in one of its modes.                     *)
LEMMA ModeType ==
  ASSUME TypeOK
  PROVE  ModeAfter \in {"dirty", "enabled", "clean"}
BY DEF ModeAfter, TypeOK

(* The loader starts with any controller, and none of its own bytes.        *)
LEMMA InitInv ==
  ASSUME Fits, Init
  PROVE  Accounted
<1>1. <<Zero>> \in Seq(OutByte) /\ <<>> \in Seq(OutByte)
  BY DEF Zero, OutByte, Ops
<1>2. <<Junk>> \in Seq(InByte) /\ <<>> \in Seq(InByte)
  BY DEF InByte
<1>3. step = 1 /\ Len(Transactions) = 5
  BY TransactionType DEF Init
<1>4. /\ tx \in Seq(OutByte) /\ shift \in Seq(OutByte) /\ rx \in Seq(InByte)
      /\ recv \in Seq(InByte) /\ ram \in Seq(InByte) /\ id \in Seq(Nat)
  BY <1>1, <1>2, SizesAssumption DEF Init
<1>5. step \in 1 .. Len(Transactions) + 1 /\ op \in Ops /\ pc \in Places
  BY <1>3 DEF Init, Ops, Places
<1>6. /\ len \in Nat /\ addr \in Nat /\ nbytes \in Nat /\ pageSize \in Nat
      /\ remaining \in Nat /\ n \in Nat /\ owed \in Int /\ lost \subseteq {"tx", "rx"}
      /\ phase \in {"command", "reply", "data"} /\ cmdLen \in Nat /\ pos \in Nat
      /\ trans \in {"inhibited", "running"} /\ cs \in {"high", "low"}
      /\ mode \in {"dirty", "enabled", "clean"}
  BY Sizes DEF Init
<1>7. TypeOK
  BY <1>4, <1>5, <1>6 DEF TypeOK
<1> QED
  BY <1>3, <1>7, Sizes DEF Init, Accounted, Setup, SettingUp

(* The page size is chosen once, and it is 0 before.                        *)
LEMMA UnfoundStep ==
  ASSUME Unfound, [Next]_vars
  PROVE  Unfound' /\ (pageSize' = pageSize \/ pageSize = 0)
<1> USE TransactionType DEF Unfound, SettingUp
<1>1. CASE InitSpi \/ EndTransaction \/ EndChunk
  BY <1>1 DEF InitSpi, EndTransaction, EndChunk, setup
<1>2. CASE Identify
  BY <1>2 DEF Identify
<1>3. CASE SelectFlash \/ SendOpcode \/ ReadReply \/ SendCommand \/ ReadPage
  BY <1>3 DEF SelectFlash, SendOpcode, ReadReply, SendCommand, ReadPage,
      StartTransfer,
              setup
<1>4. CASE ReadChunk \/ Go \/ StartBatch \/ FillTx \/ Filled \/ PollTx \/ EndTransfer
  BY <1>4 DEF ReadChunk, Go, StartBatch, FillTx, Filled, PollTx, EndTransfer, setup
<1>5. CASE PopWhileSending \/ PopRest
  BY <1>5 DEF PopWhileSending, PopRest, PopRx
<1>6. CASE LoadShift
  BY <1>6 DEF LoadShift, setup
<1>7. CASE Exchange
  <2>1. UNCHANGED <<pc, setup>>
    BY <1>7 DEF Exchange
  <2> QED BY <2>1 DEF setup
<1>8. CASE UNCHANGED vars
  BY <1>8 DEF vars, setup
<1> QED
  BY <1>1, <1>2, <1>3, <1>4, <1>5, <1>6, <1>7, <1>8 DEF Next, Processor

(* A batch that fits the empty TX FIFO.                                     *)
LEMMA FitsEmpty ==
  \A b \in Nat, l \in Nat : b <= FifoDepth /\ l = 0 => b + l <= FifoDepth
BY Sizes

(* The accounting is inductive, and leaves room for every byte.             *)
LEMMA StepInv ==
  ASSUME Fits, Unfound, Accounted, [Next]_vars
  PROVE  Accounted'
<1> USE Sizes
<1>t. TypeOK /\ Setup /\ (pc # "start" => Accounting /\ OneBatch)
  BY DEF Accounted
<1>l. /\ Len(tx) \in Nat /\ Len(rx) \in Nat /\ Len(shift) \in Nat
      /\ (tx = <<>>) <=> (Len(tx) = 0)
      /\ (rx = <<>>) <=> (Len(rx) = 0)
      /\ (shift = <<>>) <=> (Len(shift) = 0)
  BY <1>t DEF TypeOK
<1> SUFFICES TypeOK' /\ Setup' /\ (pc' # "start" => Accounting' /\ OneBatch')
  BY DEF Accounted
<1>1. CASE InitSpi
  <2>1. ModeAfter \in {"dirty", "enabled", "clean"}
    BY <1>t, ModeType
  <2>2. <<>> \in Seq(OutByte) /\ <<>> \in Seq(InByte) /\ Len(<<>>) = 0
    OBVIOUS
  <2>3. TypeOK'
    BY <1>t, <1>1, <2>1, <2>2
       DEF InitSpi, Unselect, TypeOK, Places, setup, main, read, command
  <2> QED
    BY <1>t, <1>l, <1>1, <2>2, <2>3
       DEF InitSpi, Unselect, TypeOK, Setup, SettingUp, Accounting, Transferring, Starving,
           OneBatch, Places, setup, main, read, transfer, fifos,
           command, flash
<1>2. CASE SelectFlash
  BY <1>t, <1>l, <1>2
     DEF SelectFlash, Select, Ops, TypeOK, Setup, SettingUp, Accounting, Transferring, Starving,
         OneBatch, Places, setup, main, read, transfer, fifos,
         command, flash
<1>3. CASE SendOpcode
  BY <1>t, <1>l, <1>3
     DEF SendOpcode, StartTransfer, Fits, TypeOK, Setup, SettingUp,
         Accounting, Transferring, Starving, OneBatch, Places, setup, main, read, transfer,
         fifos, command, flash
<1>4. CASE ReadReply
  <2>1. Transactions[step].reply \in {0, 3}
    BY <1>t, <1>4, TransactionType DEF ReadReply, TypeOK, Setup, SettingUp
  <2> QED
    BY <1>t, <1>l, <1>4, <2>1
       DEF ReadReply, StartTransfer, Fits, TypeOK, Setup, SettingUp,
           Accounting, Transferring, Starving, OneBatch, Places, setup, main, read,
           transfer, fifos, command, flash
<1>5. CASE EndTransaction
  <2>1. ModeAfter \in {"dirty", "enabled", "clean"}
    BY <1>t, ModeType
  <2>2. step' \in 1 .. Len(Transactions) + 1
    BY <1>t, <1>5, TransactionType DEF EndTransaction, TypeOK, Setup, SettingUp
  <2> QED
    BY <1>t, <1>l, <1>5, <2>1, <2>2
       DEF EndTransaction, Unselect, TypeOK, Setup, SettingUp, Accounting, Transferring, Starving,
           OneBatch, Places, setup, main, read, transfer, fifos,
           command, flash
<1>6. CASE Identify
  <2>1. pageSize' \in Nat
    BY <1>t, <1>6, FlashTypesType DEF Identify, TypeOK, Setup
  <2>2. pc' \in {"error", "chunk"}
    BY <1>6 DEF Identify
  <2> QED
    BY <1>t, <1>l, <1>6, <2>1, <2>2
       DEF Identify, TypeOK, Setup, SettingUp, Accounting, Transferring, Starving, OneBatch,
           Places, setup, main, read, transfer, fifos, command,
           flash
<1>7. CASE ReadChunk
  BY <1>t, <1>l, <1>7, LesserType
     DEF ReadChunk, Select, Ops, TypeOK, Setup, SettingUp, Accounting, Transferring, Starving,
         OneBatch, Places, setup, main, read, transfer, fifos,
         command, flash
<1>8. CASE Go
  BY <1>t, <1>l, <1>8
     DEF Go, TypeOK, Setup, SettingUp, Accounting, Transferring, Starving, OneBatch, 
         Places, setup, main, read, transfer, fifos, command, flash
<1>9. CASE SendCommand
  BY <1>t, <1>l, <1>9
     DEF SendCommand, StartTransfer, Fits, TypeOK, Setup, SettingUp,
         Accounting, Transferring, Starving, OneBatch, Places, setup, main, read, transfer,
         fifos, command, flash
<1>10. CASE ReadPage
  <2>1. /\ Lesser(nbytes, pageSize) \in Nat
        /\ Lesser(nbytes, pageSize) <= nbytes
        /\ Lesser(nbytes, pageSize) <= pageSize
    BY <1>t, LesserType DEF TypeOK
  <2> QED
    BY <1>t, <1>l, <1>10, <2>1
       DEF ReadPage, StartTransfer, TypeOK, Setup, SettingUp, Accounting, Transferring, Starving,
           OneBatch, Places, setup, main, read, transfer, fifos,
           command, flash
<1>11. CASE EndChunk
  <2>1. ModeAfter \in {"dirty", "enabled", "clean"}
    BY <1>t, ModeType
  <2>2. /\ Lesser(len, ChunkSize) \in Nat
        /\ Lesser(len, ChunkSize) <= len
    BY <1>t, LesserType DEF TypeOK
  <2>3. len' \in Nat /\ addr' \in Nat
    <3> DEFINE size == Lesser(len, ChunkSize)
    <3>1. len' = len - size /\ addr' = addr + size
      BY <1>11 DEF EndChunk
    <3>2. size \in Nat /\ size <= len /\ len \in Nat /\ addr \in Nat
      BY <1>t, <2>2 DEF TypeOK
    <3> HIDE DEF size
    <3> QED BY <3>1, <3>2
  <2>4. TypeOK'
    BY <1>t, <1>11, <2>1, <2>3
       DEF EndChunk, Unselect, TypeOK, Places, setup, read, transfer, fifos, command
  <2>5. Accounting' /\ OneBatch'
    BY <1>t, <1>l, <1>11 DEF EndChunk, Accounting, Transferring, Starving, OneBatch, transfer, fifos
  <2> QED
    BY <1>t, <1>l, <1>11, <2>4, <2>5
       DEF EndChunk, Unselect, TypeOK, Setup, SettingUp, Accounting, Transferring, Starving,
           OneBatch, Places, setup, main, read, transfer, fifos,
           command, flash
<1>12. CASE StartBatch
  <2>1. TxVacancy = FifoDepth
    BY <1>t, <1>12 DEF StartBatch, TxVacancy, Accounting
  <2>2. /\ pc = "batch" /\ pc' = "fill" /\ n = 0 /\ tx = <<>>
        /\ n' \in Nat /\ n' <= FifoDepth /\ n' <= remaining
        /\ remaining <= FifoDepth => n' = remaining
        /\ remaining' = remaining - n' /\ owed' = owed + n'
        /\ UNCHANGED <<setup, main, read, ram, fifos, trans, cs, flash>>
    BY <1>t, <1>12, <2>1 DEF StartBatch, Lesser, TypeOK, Accounting
  <2>3. remaining \in Nat /\ owed \in Int /\ pageSize \in Nat
    BY <1>t DEF TypeOK
  <2>4. /\ remaining' \in Nat /\ owed' \in Int /\ owed' + remaining' = owed + remaining
        /\ n' = remaining => remaining' = 0
        /\ \A s, t \in Nat : owed = 0 + 0 + s + t => owed' = n' + 0 + s + t
        /\ \A s, t \in Nat : owed > 0 + 0 + s + t => owed' > n' + 0 + s + t
    <3> DEFINE b == n'  r == remaining'  o == owed'
    <3>1. b \in Nat /\ b <= remaining /\ r = remaining - b /\ o = owed + b
      BY <2>2
    <3> HIDE DEF b, r, o
    <3>2. /\ r \in Nat /\ o \in Int /\ o + r = owed + remaining
          /\ b = remaining => r = 0
          /\ \A s, t \in Nat : owed = 0 + 0 + s + t => o = b + 0 + s + t
          /\ \A s, t \in Nat : owed > 0 + 0 + s + t => o > b + 0 + s + t
      BY <2>3, <3>1
    <3> QED BY <3>2 DEF b, r, o
  <2>5. TypeOK' /\ Setup'
    BY <1>t, <2>2, <2>4 DEF TypeOK, Setup, SettingUp, Places, setup, main, read, fifos,
                      command, flash
  <2>6. Accounting'
    <3>1. /\ Transferring /\ Transferring' /\ UNCHANGED <<lost, phase, pageSize, tx, shift, rx>>
          /\ n = 0 /\ Len(tx) = 0 /\ pc' = "fill"
      BY <2>2 DEF Transferring, setup, read, fifos
    <3>2. n' + Len(tx) <= FifoDepth
      BY <2>2, <3>1, <1>l, FitsEmpty, ZenonT(30)
    <3>3. \/ owed' = n' + Len(tx) + Len(shift) + Len(rx) /\ lost = {}
          \/ Starving'
      <4>1. CASE Starving
        <5>1. owed > 0 + 0 + Len(shift) + Len(rx)
          BY <3>1, <4>1 DEF Starving
        <5>2. owed' > n' + 0 + Len(shift) + Len(rx)
          BY <1>l, <2>4, <5>1, Zenon
        <5> QED BY <3>1, <4>1, <5>2 DEF Starving
      <4>2. CASE lost = {} /\ owed = n + Len(tx) + Len(shift) + Len(rx)
        <5>1. owed = 0 + 0 + Len(shift) + Len(rx)
          BY <3>1, <4>2
        <5>2. owed' = n' + 0 + Len(shift) + Len(rx)
          BY <1>l, <2>4, <5>1, Zenon
        <5> QED BY <3>1, <4>2, <5>2
      <4> QED BY <1>t, <2>2, <4>1, <4>2 DEF Accounting
    <3> QED BY <1>t, <2>2, <3>1, <3>2, <3>3 DEF Accounting
  <2>7. OneBatch'
    <3>1. UNCHANGED <<phase, pageSize>>
      BY <2>2 DEF setup, read
    <3>2. ASSUME phase # "data" \/ pageSize <= FifoDepth
          PROVE  owed' + remaining' <= FifoDepth /\ remaining' = 0
      <4>1. owed + remaining <= FifoDepth /\ owed = 0
        BY <1>t, <2>2, <3>2 DEF OneBatch
      <4>2. remaining <= FifoDepth
        BY <2>3, <4>1
      <4> QED BY <2>2, <2>4, <4>1, <4>2
    <3> QED BY <2>2, <3>1, <3>2 DEF OneBatch
  <2> QED BY <2>5, <2>6, <2>7
<1>13. CASE FillTx
  <2>1. Len(tx) < FifoDepth
    BY <1>t, <1>l, <1>13 DEF FillTx, TypeOK, Accounting
  <2>2. TxByte \in OutByte
    BY <1>t, TxByteType
  <2>3. Append(tx, TxByte) \in Seq(OutByte) /\ Len(Append(tx, TxByte)) = Len(tx) + 1
    BY <1>t, <2>2, FifoPut DEF TypeOK
  <2>4. tx' = Append(tx, TxByte) /\ lost' = lost /\ n' = n - 1 /\ n' \in Nat
    BY <1>t, <1>13, <2>1 DEF FillTx, TypeOK
  <2>5. tx' \in Seq(OutByte) /\ Len(tx') = Len(tx) + 1
    BY <2>3, <2>4
  <2>6. pc = "fill" /\ UNCHANGED <<pc, setup, main, read, remaining, owed, ram,
                                   rx, shift, trans, cs, flash>>
    BY <1>13 DEF FillTx
  <2>7. TypeOK' /\ Setup'
    BY <1>t, <2>4, <2>5, <2>6
       DEF TypeOK, Setup, SettingUp, Places, setup, main, read, command, flash
  <2>8. UNCHANGED <<pc, phase, pageSize, lost, owed, remaining, shift, rx>>
    BY <2>4, <2>6 DEF setup, read
  <2>9. n' + Len(tx') = n + Len(tx) /\ n' + Len(tx') + Len(shift') + Len(rx')
                                        = n + Len(tx) + Len(shift) + Len(rx)
    BY <1>t, <1>l, <2>4, <2>5, <2>8 DEF TypeOK
  <2>10. Starving => Starving'
    BY <2>8, <2>9 DEF Starving, Transferring
  <2>11. Accounting'
    BY <1>t, <2>6, <2>8, <2>9, <2>10 DEF Accounting, Transferring
  <2>12. OneBatch'
    BY <1>t, <2>8, <2>6 DEF OneBatch
  <2> QED BY <2>7, <2>11, <2>12
<1>14. CASE Filled
  BY <1>t, <1>l, <1>14
     DEF Filled, TypeOK, Setup, SettingUp, Accounting, Transferring, Starving, OneBatch, 
         Places, setup, main, read, transfer, fifos, command, flash
<1>15. CASE PollTx
  BY <1>t, <1>l, <1>15
     DEF PollTx, TypeOK, Setup, SettingUp, Accounting, Transferring, Starving, OneBatch, 
         Places, setup, main, read, transfer, fifos, command, flash
<1>p. ASSUME PopRx(pc'), (pc = "pop" /\ pc' = "poll") \/ (pc = "rest" /\ pc' = "rest")
      PROVE  TypeOK' /\ Setup' /\ Accounting' /\ OneBatch'
  <2>0. /\ UNCHANGED <<phase, pageSize, lost, n, remaining, tx, shift>>
        /\ Transferring /\ Transferring' /\ pc # "start" /\ pc' # "start"
    BY <1>p DEF PopRx, Transferring, read
  <2>1. CASE rx = <<>>
    <3>1. UNCHANGED <<step, recv, main, read, owed, ram, rx, trans, cs, flash>>
      BY <1>p, <2>1 DEF PopRx
    <3>2. TypeOK' /\ Setup'
      BY <1>t, <1>p, <2>0, <3>1 DEF TypeOK, Setup, SettingUp, Places, main, read, command, flash
    <3>3. Accounting'
      BY <1>t, <1>p, <2>0, <3>1 DEF Accounting, Starving
    <3>4. OneBatch'
      BY <1>t, <1>p, <2>0, <3>1 DEF OneBatch
    <3> QED BY <3>2, <3>3, <3>4
  <2>2. CASE rx # <<>>
    <3>1. /\ Head(rx) \in InByte /\ Tail(rx) \in Seq(InByte)
          /\ Len(Tail(rx)) = Len(rx) - 1
      BY <1>t, <2>2, FifoGet DEF TypeOK
    <3>2. /\ Append(ram, Head(rx)) \in Seq(InByte)
          /\ Append(recv, Head(rx)) \in Seq(InByte)
      BY <1>t, <3>1, FifoPut DEF TypeOK
    <3>3. /\ rx' = Tail(rx) /\ owed' = owed - 1
          /\ UNCHANGED <<step, pageSize, main, read, remaining, n, tx, shift,
                         lost, trans, cs, flash>>
      BY <1>p, <2>2 DEF PopRx
    <3>4. ram' \in Seq(InByte) /\ recv' \in Seq(InByte)
      <4>1. ram' = ram \/ ram' = Append(ram, Head(rx))
        BY <1>p, <2>2 DEF PopRx
      <4>2. recv' = recv \/ recv' = Append(recv, Head(rx))
        BY <1>p, <2>2 DEF PopRx
      <4> QED BY <1>t, <3>2, <4>1, <4>2 DEF TypeOK
    <3>5. rx' \in Seq(InByte) /\ Len(rx') = Len(rx) - 1
      BY <3>1, <3>3
    <3>6. TypeOK'
      BY <1>t, <1>p, <3>3, <3>4, <3>5 DEF TypeOK, Places, main, read, command, flash
    <3>7. Setup'
      BY <1>t, <1>p, <3>3 DEF Setup, SettingUp, main, read
    <3>8. n + Len(tx) + Len(shift) + Len(rx') = n + Len(tx) + Len(shift) + Len(rx) - 1
      BY <1>t, <1>l, <3>5 DEF TypeOK
    <3>9. Accounting'
      <4>1. /\ owed \in Int /\ n \in Nat /\ Len(tx) \in Nat /\ Len(shift) \in Nat
            /\ Len(rx) \in Nat
        BY <1>t, <1>l DEF TypeOK
      <4>2. Starving => Starving'
        <5>1. owed > n + Len(tx) + Len(shift) + Len(rx)
                => owed - 1 > n + Len(tx) + Len(shift) + Len(rx')
          BY <3>5, <4>1
        <5> QED BY <2>0, <3>3, <5>1 DEF Starving
      <4>3. owed = n + Len(tx) + Len(shift) + Len(rx)
              => owed' = n' + Len(tx') + Len(shift') + Len(rx')
        <5>1. owed = n + Len(tx) + Len(shift) + Len(rx)
                => owed - 1 = n + Len(tx) + Len(shift) + Len(rx')
          BY <3>5, <4>1
        <5> QED BY <2>0, <3>3, <5>1
      <4> QED BY <1>t, <1>p, <2>0, <4>2, <4>3 DEF Accounting
    <3>10. OneBatch'
      BY <1>t, <1>p, <2>0, <3>3 DEF TypeOK, OneBatch
    <3> QED BY <3>6, <3>7, <3>9, <3>10
  <2> QED BY <2>1, <2>2
<1>16. CASE PopWhileSending
  <2>1. PopRx(pc')
    BY <1>16 DEF PopWhileSending, PopRx
  <2>2. pc = "pop" /\ pc' = "poll"
    BY <1>16 DEF PopWhileSending, PopRx
  <2>3. (pc = "pop" /\ pc' = "poll") \/ (pc = "rest" /\ pc' = "rest")
    BY <2>2
  <2> QED BY <1>p, <2>1, <2>3
<1>17. CASE PopRest
  <2>1. PopRx(pc') /\ pc = "rest" /\ pc' = "rest"
    BY <1>17 DEF PopRest, PopRx
  <2> QED BY <1>p, <2>1
<1>18. CASE EndTransfer
  BY <1>t, <1>l, <1>18
     DEF EndTransfer, TypeOK, Setup, SettingUp, Accounting, Transferring, Starving, OneBatch,
         Places, setup, main, read, transfer, fifos, command, flash
<1>19. CASE LoadShift
  <2>1. /\ Head(tx) \in OutByte /\ Tail(tx) \in Seq(OutByte)
        /\ Len(Tail(tx)) = Len(tx) - 1
    BY <1>t, <1>19, FifoGet DEF LoadShift, TypeOK
  <2>2. <<Head(tx)>> \in Seq(OutByte) /\ Len(<<Head(tx)>>) = 1
    BY <2>1
  <2>3. /\ shift = <<>> /\ shift' = <<Head(tx)>> /\ tx' = Tail(tx)
        /\ UNCHANGED <<pc, setup, main, read, transfer, ram, rx, lost, trans, cs, flash>>
    BY <1>19 DEF LoadShift
  <2>4. /\ Len(shift) = 0 /\ Len(shift') = 1 /\ Len(tx') = Len(tx) - 1 /\ tx # <<>>
        /\ shift' \in Seq(OutByte) /\ tx' \in Seq(OutByte)
    BY <1>l, <1>19, <2>1, <2>2, <2>3 DEF LoadShift
  <2> QED
    BY <1>t, <1>l, <2>3, <2>4
       DEF TypeOK, Setup, SettingUp, Accounting, Transferring, Starving, OneBatch, Places,
           setup, main, read, transfer, command, flash
<1>20. CASE Exchange
  <2>8. /\ shift # <<>> /\ shift' = <<>>
        /\ UNCHANGED <<pc, setup, main, read, transfer, ram, tx, trans, cs, id, mode>>
    BY <1>20 DEF Exchange
  <2>2. Head(shift) \in OutByte
    BY <1>t, <1>20, FifoGet DEF Exchange, TypeOK
  <2>3. Head(shift).op \in Ops /\ Head(shift).addr \in Nat
    BY <2>2 DEF OutByte
  <2>4. op' \in Ops /\ cmdLen' \in Nat /\ pos' \in Nat
    <3>1. op' = op \/ op' = Head(shift).op
      BY <1>20 DEF Exchange
    <3>2. cmdLen' = cmdLen \/ cmdLen' = cmdLen + 1
      BY <1>20 DEF Exchange
    <3>3. pos' = pos + 1 \/ pos' = Head(shift).addr \/ pos' = 1
      BY <1>20 DEF Exchange
    <3>4. op \in Ops /\ cmdLen \in Nat /\ pos \in Nat
      BY <1>t DEF TypeOK
    <3> QED BY <2>3, <3>1, <3>2, <3>3, <3>4
  <2>5. /\ \/ Len(rx) < FifoDepth /\ rx' = Append(rx, Answer) /\ lost' = lost
           \/ Len(rx) >= FifoDepth /\ rx' = rx /\ lost' = lost \union {"rx"}
        /\ Answer \in InByte /\ lost' \subseteq {"tx", "rx"}
    <3>1. /\ Junk \in InByte /\ pos \in InByte
          /\ \A p \in DOMAIN id : id[p] \in InByte
      BY <1>t DEF TypeOK, InByte
    <3>2. lost \subseteq {"tx", "rx"}
      BY <1>t DEF TypeOK
    <3>3. Answer \in InByte
      BY <3>1 DEF Answer
    <3>4. IF Len(rx) < FifoDepth
            THEN rx' = Append(rx, Answer) /\ UNCHANGED lost
            ELSE lost' = lost \union {"rx"} /\ UNCHANGED rx
      BY <1>20 DEF Exchange
    <3>5. CASE Len(rx) < FifoDepth
      BY <3>2, <3>3, <3>4, <3>5
    <3>6. CASE ~(Len(rx) < FifoDepth)
      <4>1. Len(rx) >= FifoDepth
        BY <1>l, <3>6
      <4>2. lost' = lost \union {"rx"} /\ rx' = rx
        BY <3>4, <3>6
      <4>3. lost' \subseteq {"tx", "rx"}
        BY <3>2, <4>2
      <4> QED BY <3>3, <4>1, <4>2, <4>3
    <3> QED BY <3>5, <3>6
  <2>6. Append(rx, Answer) \in Seq(InByte) /\ Len(Append(rx, Answer)) = Len(rx) + 1
    BY <1>t, <2>5, FifoPut DEF TypeOK
  <2>7. /\ rx' \in Seq(InByte)
        /\ \/ Len(rx') = Len(rx) + 1 /\ lost' = lost
           \/ Len(rx) >= FifoDepth /\ Len(rx') = Len(rx) /\ lost' = lost \union {"rx"}
    BY <1>t, <2>5, <2>6 DEF TypeOK
  <2>9. pc # "start" => Len(shift) = 1
    BY <1>t, <1>l, <2>8, OneOnly DEF Accounting
  <2>10. Len(shift') = 0 /\ shift' \in Seq(OutByte)
    BY <2>8
  <2>11. TypeOK'
    BY <1>t, <2>4, <2>5, <2>7, <2>8, <2>10 DEF TypeOK, setup, main, read, transfer
  <2>12. Setup'
    BY <1>t, <2>8 DEF Setup, SettingUp, setup, main, read, transfer
  <2>13. /\ pc' = pc /\ tx' = tx /\ owed' = owed /\ n' = n /\ remaining' = remaining
         /\ Len(tx') = Len(tx) /\ phase' = phase /\ pageSize' = pageSize
         /\ (Transferring' <=> Transferring)
    BY <2>8 DEF transfer, read, setup, Transferring
  <2>14. ASSUME pc # "start" PROVE Accounting'
    <3>1. /\ owed \in Int /\ n \in Nat /\ Len(rx) \in Nat /\ Len(tx) \in Nat
          /\ Len(shift) = 1 /\ Len(shift') = 0
      BY <1>t, <1>l, <2>9, <2>10, <2>14 DEF TypeOK
    <3>2. Accounting /\ OneBatch
      BY <1>t, <2>14
    <3>3. CASE Len(rx') = Len(rx) + 1 /\ lost' = lost
      <4>1. n' + Len(tx') + Len(shift') + Len(rx') = n + Len(tx) + Len(shift) + Len(rx)
        BY <2>13, <3>1, <3>3
      <4> QED BY <2>13, <3>1, <3>2, <3>3, <4>1 DEF Accounting, Starving
    <3>4. CASE Len(rx) >= FifoDepth /\ Len(rx') = Len(rx) /\ lost' = lost \union {"rx"}
      <4>1. owed >= n + Len(tx) + 1 + Len(rx)
        BY <3>1, <3>2 DEF Accounting, Starving
      <4>2. Transferring
        BY <3>1, <3>2, <4>1 DEF Accounting
      <4>3. phase = "data" /\ pageSize > FifoDepth
        <5>1. remaining \in Nat /\ pageSize \in Nat
          BY <1>t DEF TypeOK
        <5> QED BY <3>1, <3>2, <3>4, <4>1, <5>1 DEF OneBatch
      <4>4. lost' = {"rx"}
        BY <3>2, <3>4 DEF Accounting, Starving
      <4>5. owed > n + Len(tx) + 0 + Len(rx)
        BY <3>1, <4>1
      <4>6. Starving'
        BY <2>13, <3>1, <3>4, <4>2, <4>3, <4>4, <4>5 DEF Starving
      <4> QED BY <2>13, <3>1, <3>2, <4>2, <4>6 DEF Accounting
    <3> QED BY <2>7, <3>3, <3>4
  <2>15. ASSUME pc # "start" PROVE OneBatch'
    BY <1>t, <2>13, <2>15 DEF OneBatch
  <2> QED BY <2>11, <2>12, <2>13, <2>14, <2>15
<1>21. CASE UNCHANGED vars
  BY <1>t, <1>l, <1>21
     DEF vars, TypeOK, Setup, SettingUp, Accounting, Transferring, Starving, OneBatch, Places,
         setup, main, read, transfer, fifos, command, flash
<1> QED
  BY <1>1, <1>2, <1>3, <1>4, <1>5, <1>6, <1>7, <1>8, <1>9, <1>10, <1>11,
      <1>12, <1>13, <1>14, <1>15, <1>16, <1>17, <1>18, <1>19, <1>20, <1>21 DEF
      Next, Processor

(* What the transactions send and ask for.                                  *)
LEMMA TransactionOps ==
  /\ Transactions[1].op = "WREN" /\ Transactions[2].op = "NONE"
  /\ Transactions[3].op = "RSTEN" /\ Transactions[4].op = "RSTMEM"
  /\ Transactions[5].op = "RDID"
  /\ \A k \in 1 .. 4 : Transactions[k].reply = 0
  /\ Transactions[5].reply = 3
BY DEF Transactions

(* The lengths of the FIFOs, and when they are empty.                       *)
LEMMA Lengths ==
  ASSUME TypeOK
  PROVE  /\ Len(tx) \in Nat /\ Len(rx) \in Nat /\ Len(shift) \in Nat
         /\ Len(recv) \in Nat /\ Len(ram) \in Nat
         /\ (tx = <<>>) <=> (Len(tx) = 0)
         /\ (rx = <<>>) <=> (Len(rx) = 0)
         /\ (shift = <<>>) <=> (Len(shift) = 0)
         /\ (recv = <<>>) <=> (Len(recv) = 0)
         /\ (ram = <<>>) <=> (Len(ram) = 0)
BY DEF TypeOK

(* Outside a transfer the controller is empty, and nothing was lost.        *)
LEMMA Quiet ==
  ASSUME Accounted, pc \notin {"start", "batch", "fill", "poll", "pop", "rest"}
  PROVE  /\ tx = <<>> /\ rx = <<>> /\ shift = <<>> /\ lost = {}
         /\ n = 0 /\ remaining = 0 /\ owed = 0 /\ OnItsWay = 0
<1>1. TypeOK /\ Accounting
  BY DEF Accounted
<1>2. /\ owed = n + Len(tx) + Len(shift) + Len(rx) /\ lost = {}
      /\ n = 0 /\ owed = 0 /\ remaining = 0
  BY <1>1 DEF Accounting, Starving, Transferring
<1>3. Len(tx) = 0 /\ Len(shift) = 0 /\ Len(rx) = 0
  BY <1>1, <1>2, Lengths
<1>4. OnItsWay = 0
  BY <1>2, <1>3 DEF OnItsWay
<1> QED BY <1>1, <1>2, <1>3, <1>4, Lengths

(* What the bytes of a transfer carry does not change during it.            *)
LEMMA SameBytes ==
  ASSUME UNCHANGED <<phase, step, addr>>
  PROVE  TxByte' = TxByte
BY DEF TxByte, SettingUp

(* All bytes of a transfer are alike.                                       *)
LEMMA SendingStep ==
  ASSUME Accounted, Sending, [Next]_vars
  PROVE  Sending'
<1>t. TypeOK
  BY DEF Accounted
<1>1. CASE InitSpi
  BY <1>1 DEF InitSpi, Sending, Transferring
<1>2. CASE SelectFlash \/ ReadChunk
  BY <1>2 DEF SelectFlash, ReadChunk, Select, Sending, Transferring
<1>3. CASE SendOpcode \/ ReadReply \/ SendCommand \/ ReadPage
  <2>1. UNCHANGED <<fifos, cs>> /\ pc \in {"opcode", "reply", "command", "page"}
    BY <1>3 DEF SendOpcode, ReadReply, SendCommand, ReadPage, StartTransfer
  <2>2. tx' = <<>> /\ shift' = <<>> /\ cs' = "low"
    BY <2>1, Quiet DEF Sending, fifos
  <2>3. <<>> \in Seq({TxByte'})
    OBVIOUS
  <2> QED BY <2>2, <2>3 DEF Sending
<1>4. CASE EndTransaction \/ Identify \/ Go \/ EndChunk \/ EndTransfer
  <2>1. CASE EndTransaction \/ Identify \/ Go \/ EndChunk
    BY <2>1 DEF EndTransaction, Identify, Go, EndChunk, Sending, Transferring
  <2>2. CASE EndTransfer
    BY <2>2 DEF EndTransfer, Sending, Transferring
  <2> QED BY <1>4, <2>1, <2>2
<1>5. CASE StartBatch \/ Filled \/ PollTx \/ PopWhileSending \/ PopRest \/ UNCHANGED vars
  <2>1. UNCHANGED <<phase, step, addr, tx, shift, cs>>
    BY <1>5 DEF StartBatch, Filled, PollTx, PopWhileSending, PopRest, PopRx,
                vars, setup, main, read, fifos
  <2>2. /\ Transferring' => Transferring
        /\ pc' \in {"opcode", "reply", "command", "page"} => pc' = pc
    BY <1>5 DEF StartBatch, Filled, PollTx, PopWhileSending, PopRest, PopRx,
                vars, Transferring
  <2> QED BY <2>1, <2>2, SameBytes DEF Sending
<1>6. CASE FillTx
  <2>1. UNCHANGED <<pc, phase, step, addr, shift, cs>> /\ Transferring
    BY <1>6 DEF FillTx, setup, main, read, Transferring
  <2>2. tx \in Seq({TxByte}) /\ (tx' = tx \/ tx' = Append(tx, TxByte))
    BY <1>6, <2>1 DEF FillTx, Sending
  <2>3. tx' \in Seq({TxByte})
    BY <2>2, FifoPut
  <2> QED BY <2>1, <2>3, SameBytes DEF Sending, Transferring
<1>7. CASE LoadShift
  <2>1. /\ UNCHANGED <<pc, phase, step, addr, cs>> /\ tx # <<>>
        /\ shift' = <<Head(tx)>> /\ tx' = Tail(tx)
    BY <1>7 DEF LoadShift, setup, main, read
  <2>2. ASSUME Transferring
        PROVE  tx' \in Seq({TxByte}) /\ shift' \in Seq({TxByte})
    <3>1. Head(tx) \in {TxByte} /\ Tail(tx) \in Seq({TxByte})
      BY <2>1, <2>2, FifoGet DEF Sending
    <3> QED BY <2>1, <3>1
  <2> QED BY <2>1, <2>2, SameBytes DEF Sending, Transferring
<1>8. CASE Exchange
  <2>1. UNCHANGED <<pc, phase, step, addr, tx, cs>> /\ shift' = <<>>
    BY <1>8 DEF Exchange, setup, main, read
  <2>2. <<>> \in Seq({TxByte})
    OBVIOUS
  <2> QED BY <2>1, <2>2, SameBytes DEF Sending, Transferring
<1> QED
  BY <1>1, <1>2, <1>3, <1>4, <1>5, <1>6, <1>7, <1>8 DEF Next, Processor

(* Nothing was lost since init_spi.                                         *)
NothingLost == pc # "start" => lost = {}

(* A byte is exchanged: in a transfer, and there is room for the answer.    *)
LEMMA ExchangeStep ==
  ASSUME Accounted, NothingLost', Sending, Exchange, pc # "start"
  PROVE  /\ Transferring
         /\ Len(shift) = 1 /\ shift' = <<>> /\ Len(shift') = 0
         /\ rx' = Append(rx, Answer) /\ Len(rx') = Len(rx) + 1
         /\ op' = IF cmdLen = 0 THEN TxByte.op ELSE op
         /\ cmdLen' = IF InCommand THEN cmdLen + 1 ELSE cmdLen
         /\ pos' = CASE ~InCommand -> pos + 1
                     [] InCommand /\ op' = "FAST_READ" -> TxByte.addr
                     [] OTHER -> 1
         /\ UNCHANGED <<pc, setup, main, read, transfer, ram, tx, cs, id, mode>>
<1>1. TypeOK /\ Accounting /\ OneBatch
  BY DEF Accounted
<1>2. shift # <<>> /\ shift' = <<>> /\ Len(shift') = 0
  BY DEF Exchange
<1>3. Transferring
  BY <1>1, <1>2, Quiet DEF Transferring, TypeOK, Places
<1>4. Len(shift) = 1
  BY <1>1, <1>2, Lengths, OneOnly DEF Accounting
<1>5. Head(shift) = TxByte
  BY <1>2, <1>3, FifoGet DEF Sending
<1>6. Len(rx) < FifoDepth
  <2>1. lost' = {}
    BY DEF NothingLost, Exchange
  <2> QED BY <2>1 DEF Exchange
<1>7. rx' = Append(rx, Answer)
  BY <1>6 DEF Exchange
<1>8. Len(rx') = Len(rx) + 1
  BY <1>1, <1>7 DEF TypeOK
<1>9. UNCHANGED <<pc, setup, main, read, transfer, ram, tx, cs, id, mode>>
  BY DEF Exchange
<1>10. /\ op' = IF cmdLen = 0 THEN TxByte.op ELSE op
       /\ cmdLen' = IF InCommand THEN cmdLen + 1 ELSE cmdLen
       /\ pos' = CASE ~InCommand -> pos + 1
                   [] InCommand /\ op' = "FAST_READ" -> TxByte.addr
                   [] OTHER -> 1
  BY <1>5 DEF Exchange
<1> QED BY <1>2, <1>3, <1>4, <1>7, <1>8, <1>9, <1>10

(* An address of the image is one that three bytes can name.                *)
LEMMA NoWrap ==
  ASSUME NEW a \in Nat, NEW m \in Nat \ {0}, a < m
  PROVE  a % m = a
OBVIOUS

(* A byte of a command says which command it is, and where to read.         *)
LEMMA CommandByte ==
  ASSUME TypeOK, Reading, Transferring, phase = "command"
  PROVE  /\ TxByte.op = CommandOp
         /\ CommandOp = "FAST_READ" => TxByte.addr = addr
<1>1. CASE SettingUp
  <2>1. step \in 1 .. 5
    BY <1>1, TransactionType DEF SettingUp, TypeOK
  <2>2. CommandOp # "FAST_READ"
    BY <1>1, <2>1, TransactionOps DEF CommandOp
  <2>3. TxByte = [op |-> Transactions[step].op, addr |-> 0]
    BY <1>1 DEF TxByte
  <2> QED BY <1>1, <2>2, <2>3 DEF CommandOp
<1>2. CASE ~SettingUp
  <2>1. len > 0 /\ addr = FlashStart + (ImageLen - len)
    BY <1>2 DEF Reading, ReadingChunk
  <2>2. addr < AddrSpace
    BY <2>1, Sizes DEF TypeOK
  <2>3. addr % AddrSpace = addr
    BY <2>2, NoWrap, Sizes DEF TypeOK
  <2>4. TxByte = [op |-> "FAST_READ", addr |-> addr]
    BY <1>2, <2>3 DEF TxByte
  <2> QED BY <1>2, <2>4 DEF CommandOp
<1> QED BY <1>1, <1>2

(* Bytes that move from what remains into the batch stay counted.           *)
LEMMA Moved ==
  ASSUME NEW before \in Nat, NEW batch \in Nat, NEW after \in Nat,
         after = before - batch
  PROVE  batch + after = before
OBVIOUS

LEMMA MovedOwed ==
  ASSUME NEW a \in Int, NEW b \in Int, NEW batch \in Int
  PROVE  (a + batch) + (b - batch) = a + b
OBVIOUS

(* What the flash and the bytes on their way make up does not change.       *)
LEMMA SameCommand ==
  ASSUME Commanded, UNCHANGED <<step, addr, op, cmdLen, pos>>, OnItsWay' = OnItsWay
  PROVE  Commanded'
BY DEF Commanded, CommandOp, CommandBytes, SettingUp

(* A byte of the command reaches the flash.                                 *)
LEMMA CommandExchanged ==
  ASSUME Accounted, Accounted', NothingLost', Sending, Commanding, Reading, Exchange,
         pc # "start",
         phase = "command"
  PROVE  Commanded'
<1>1. TypeOK
  BY DEF Accounted
<1>2. /\ Transferring
      /\ Len(shift) = 1 /\ Len(shift') = 0
      /\ op' = IF cmdLen = 0 THEN TxByte.op ELSE op
      /\ cmdLen' = IF InCommand THEN cmdLen + 1 ELSE cmdLen
      /\ pos' = CASE ~InCommand -> pos + 1
                  [] InCommand /\ op' = "FAST_READ" -> TxByte.addr
                  [] OTHER -> 1
      /\ UNCHANGED <<step, addr, n, remaining, tx>>
  BY ExchangeStep DEF setup, main, transfer
<1>3. Commanded
  BY <1>2 DEF Commanding
<1>4. TxByte.op = CommandOp /\ (CommandOp = "FAST_READ" => TxByte.addr = addr)
  BY <1>1, <1>2, CommandByte
<1>5. cmdLen \in Nat /\ n \in Nat /\ remaining \in Nat /\ Len(tx) \in Nat
  BY <1>1, Lengths DEF TypeOK
<1>6. cmdLen < CommandBytes /\ CommandBytes \in Nat
  <2>1. cmdLen + (n + Len(tx) + 1 + remaining) = CommandBytes
    BY <1>2, <1>3 DEF Commanded, OnItsWay
  <2>2. CommandBytes \in Nat
    BY Sizes DEF CommandBytes
  <2> HIDE DEF CommandBytes
  <2> QED BY <1>5, <2>1, <2>2
<1>7. CommandOp # "NONE"
  BY <1>5, <1>6 DEF CommandBytes, CommandOp
<1>8. InCommand
  <2>1. CASE cmdLen = 0
    BY <2>1 DEF InCommand
  <2>2. CASE cmdLen # 0
    <3>1. op = CommandOp
      BY <2>2, <1>3 DEF Commanded
    <3>2. ~SettingUp
      BY <1>5, <1>6, <2>2 DEF CommandBytes
    <3> QED BY <1>6, <3>1, <3>2 DEF InCommand, CommandLen, CommandOp, CommandBytes
  <2> QED BY <2>1, <2>2
<1>9. op' = CommandOp
  BY <1>2, <1>3, <1>4 DEF Commanded
<1>10. pos' = IF CommandOp = "FAST_READ" THEN addr ELSE 1
  BY <1>2, <1>4, <1>8, <1>9
<1>11. CommandOp' = CommandOp /\ CommandBytes' = CommandBytes
  BY <1>2 DEF CommandOp, CommandBytes, SettingUp
<1>12. cmdLen' = cmdLen + 1 /\ cmdLen' # 0
  BY <1>2, <1>5, <1>8
<1>13. cmdLen' + OnItsWay' = CommandBytes
  <2>1. OnItsWay = n + Len(tx) + 1 + remaining /\ OnItsWay' = n + Len(tx) + 0 + remaining
    BY <1>2 DEF OnItsWay
  <2>2. (cmdLen + 1) + (n + Len(tx) + 0 + remaining) = cmdLen + (n + Len(tx) + 1 + remaining)
    BY <1>5
  <2> QED BY <1>3, <1>12, <2>1, <2>2 DEF Commanded
<1> QED BY <1>2, <1>9, <1>10, <1>11, <1>12, <1>13 DEF Commanded

(* A command and what is on its way make up the command.                    *)
LEMMA CommandingStep ==
  ASSUME Accounted, Accounted', NothingLost', Sending, Commanding, Replying, Reading,
         [Next]_vars
  PROVE  Commanding'
<1>t. TypeOK /\ TypeOK' /\ Setup
  BY DEF Accounted
<1>l. /\ Len(tx) \in Nat /\ Len(shift) \in Nat /\ n \in Nat /\ remaining \in Nat
      /\ Len(tx') \in Nat /\ Len(shift') \in Nat /\ n' \in Nat /\ remaining' \in Nat
      /\ cmdLen \in Nat
  <2>1. /\ n' \in Nat /\ remaining' \in Nat
        /\ tx' \in Seq(OutByte) /\ shift' \in Seq(OutByte)
    BY <1>t DEF TypeOK
  <2>2. Len(tx') \in Nat /\ Len(shift') \in Nat
    BY <2>1
  <2> QED BY <1>t, <2>1, <2>2, Lengths DEF TypeOK
<1>1. CASE InitSpi
  BY <1>1 DEF InitSpi, Commanding, Transferring
<1>2. CASE SelectFlash
  <2>1. /\ tx' = <<>> /\ shift' = <<>> /\ n' = 0 /\ remaining' = 0
        /\ op' = "NONE" /\ cmdLen' = 0 /\ step' = step /\ SettingUp
        /\ phase' = "command"
        /\ pc' = IF CommandOp = "NONE" THEN "reply" ELSE "opcode"
    BY <1>2, Quiet DEF SelectFlash, Select, setup, transfer, fifos, CommandOp
  <2>2. CommandOp' = CommandOp /\ CommandBytes' = CommandBytes
    BY <2>1 DEF CommandOp, CommandBytes, SettingUp
  <2>3. OnItsWay' = 0
    BY <2>1 DEF OnItsWay
  <2>4. CommandOp = "NONE" => CommandBytes = 0
    BY <2>1 DEF CommandBytes
  <2> QED BY <2>1, <2>2, <2>3, <2>4 DEF Commanding, Commanded, Transferring
<1>3. CASE ReadChunk
  BY <1>3 DEF ReadChunk, Select, Commanding, Transferring
<1>4. CASE SendOpcode \/ SendCommand
  <2>1. /\ tx' = <<>> /\ shift' = <<>> /\ n' = 0
        /\ op' = "NONE" /\ cmdLen' = 0 /\ step' = step /\ pc' = "batch"
        /\ remaining' = CommandBytes
    <3>1. CASE SendOpcode
      <4>1. CommandBytes = 1
        BY <1>t, <3>1 DEF SendOpcode, Setup, Commanding, CommandBytes
      <4> QED
        BY <3>1, <4>1, Quiet
           DEF SendOpcode, StartTransfer, Commanding, setup, flash, command, fifos
    <3>2. CASE SendCommand
      <4>1. CommandBytes = OpLen
        BY <1>t, <3>2 DEF SendCommand, Setup, CommandBytes
      <4> QED
        BY <3>2, <4>1, Quiet
           DEF SendCommand, StartTransfer, Commanding, setup, flash, command, fifos
    <3> QED BY <1>4, <3>1, <3>2
  <2>2. CommandOp' = CommandOp /\ CommandBytes' = CommandBytes
    BY <2>1 DEF CommandOp, CommandBytes, SettingUp
  <2>3. OnItsWay' = CommandBytes
    <3>1. Len(tx') = 0 /\ Len(shift') = 0 /\ CommandBytes \in Nat
      BY <2>1, Sizes DEF CommandBytes
    <3>2. OnItsWay' = 0 + 0 + 0 + CommandBytes
      BY <2>1, <3>1 DEF OnItsWay
    <3> QED BY <3>1, <3>2
  <2>4. cmdLen' + OnItsWay' = CommandBytes'
    <3>1. CommandBytes \in Nat
      BY Sizes DEF CommandBytes
    <3>2. cmdLen' + OnItsWay' = 0 + CommandBytes
      BY <2>1, <2>3
    <3> QED BY <2>2, <3>1, <3>2
  <2> QED BY <2>1, <2>4 DEF Commanding, Commanded
<1>5. CASE ReadReply \/ ReadPage
  <2>1. phase' # "command" /\ pc' = "batch"
    BY <1>5 DEF ReadReply, ReadPage, StartTransfer
  <2> QED BY <2>1 DEF Commanding
<1>6. CASE EndTransaction \/ Identify \/ Go \/ EndChunk
  <2>1. pc' \in {"select", "error", "chunk", "go"}
    BY <1>6 DEF EndTransaction, Identify, Go, EndChunk
  <2> QED BY <2>1 DEF Commanding, Transferring
<1>7. ASSUME UNCHANGED <<step, addr, op, cmdLen, pos, phase>>,
             OnItsWay' = OnItsWay,
             \/ pc' = pc
             \/ Transferring /\ (Transferring' \/ pc' \in {"reply", "page"})
      PROVE  Commanding'
  <2>1. Commanded => Commanded'
    BY <1>7, SameCommand
  <2>2. CommandOp' = CommandOp
    BY <1>7 DEF CommandOp, SettingUp
  <2> QED BY <1>7, <2>1, <2>2 DEF Commanding, Transferring
<1>8. CASE StartBatch \/ Filled \/ PollTx \/ PopWhileSending \/ PopRest \/ EndTransfer
  <2>1. /\ UNCHANGED <<step, addr, op, cmdLen, pos, phase, tx, shift>>
        /\ Transferring /\ (Transferring' \/ pc' \in {"reply", "page"})
    BY <1>8 DEF StartBatch, Filled, PollTx, PopWhileSending, PopRest, PopRx, EndTransfer,
                Transferring, setup, main, read, fifos, flash, command
  <2>2. n' + remaining' = n + remaining
    <3>1. CASE StartBatch
      <4>1. n = 0
        BY <3>1 DEF StartBatch, Accounted, Accounting
      <4>2. remaining' = remaining - n'
        BY <3>1 DEF StartBatch
      <4>3. remaining \in Nat /\ n' \in Nat /\ remaining' \in Nat
        BY <1>l
      <4>4. n' + remaining' = remaining
        BY <4>2, <4>3, Moved, ZenonT(30)
      <4>5. n + remaining = remaining
        BY <4>1, <4>3
      <4> QED BY <4>4, <4>5
    <3>2. CASE Filled \/ PollTx \/ PopWhileSending \/ PopRest \/ EndTransfer
      BY <3>2 DEF Filled, PollTx, PopWhileSending, PopRest, PopRx, EndTransfer, transfer
    <3> QED BY <1>8, <3>1, <3>2
  <2>3. OnItsWay' = OnItsWay
    <3> DEFINE t == Len(tx)
               s == Len(shift)
    <3>1. /\ n \in Nat /\ remaining \in Nat /\ n' \in Nat /\ remaining' \in Nat
          /\ t \in Nat /\ s \in Nat
      BY <1>l
    <3> HIDE DEF t, s
    <3>2. n' + t + s + remaining' = (n' + remaining') + (t + s)
      BY <3>1
    <3>3. n + t + s + remaining = (n + remaining) + (t + s)
      BY <3>1
    <3>4. n' + t + s + remaining' = n + t + s + remaining
      BY <2>2, <3>2, <3>3, Zenon
    <3> QED BY <2>1, <3>4 DEF t, s, OnItsWay
  <2> QED BY <1>7, <2>1, <2>3
<1>9. CASE FillTx
  <2>1. /\ UNCHANGED <<pc, step, addr, op, cmdLen, pos, phase, shift, remaining>>
        /\ pc = "fill" /\ n > 0 /\ n' = n - 1
    BY <1>9 DEF FillTx, setup, main, read, flash, command
  <2>2. Len(tx) < FifoDepth
    <3>1. n + Len(tx) <= FifoDepth
      BY <2>1 DEF Accounted, Accounting
    <3> QED BY <1>l, <2>1, <3>1, Sizes
  <2>3. tx' = Append(tx, TxByte)
    BY <1>9, <2>2 DEF FillTx
  <2>4. Len(tx') = Len(tx) + 1
    BY <1>t, <2>3 DEF TypeOK
  <2>5. OnItsWay' = OnItsWay
    <3>1. OnItsWay' = (n - 1) + (Len(tx) + 1) + Len(shift) + remaining
      BY <2>1, <2>4 DEF OnItsWay
    <3>2. (n - 1) + (Len(tx) + 1) + Len(shift) + remaining = n + Len(tx) + Len(shift) + remaining
      BY <1>l
    <3> QED BY <3>1, <3>2 DEF OnItsWay
  <2> QED BY <1>7, <2>1, <2>5
<1>10. CASE LoadShift
  <2>1. /\ UNCHANGED <<pc, step, addr, op, cmdLen, pos, phase, remaining, n>>
        /\ shift = <<>> /\ tx # <<>> /\ shift' = <<Head(tx)>> /\ tx' = Tail(tx)
    BY <1>10 DEF LoadShift, setup, main, read, transfer, flash, command
  <2>2. Len(tx') = Len(tx) - 1 /\ Len(shift) = 0 /\ Len(shift') = 1
    BY <1>t, <2>1, FifoGet DEF TypeOK
  <2>3. OnItsWay' = OnItsWay
    <3>1. /\ OnItsWay' = n + (Len(tx) - 1) + 1 + remaining
          /\ OnItsWay = n + Len(tx) + 0 + remaining
      BY <2>1, <2>2 DEF OnItsWay
    <3>2. n + (Len(tx) - 1) + 1 + remaining = n + Len(tx) + 0 + remaining
      BY <1>l
    <3> QED BY <3>1, <3>2
  <2> QED BY <1>7, <2>1, <2>3
<1>11. CASE Exchange
  <2>1. CASE pc = "start"
    BY <1>11, <2>1 DEF Exchange, Commanding, Transferring
  <2>2. CASE pc # "start"
    <3>1. UNCHANGED <<pc, phase>> /\ Transferring
      BY <1>11, <2>2, ExchangeStep DEF read
    <3>2. phase = "command" => Commanded'
      BY <1>11, <2>2, CommandExchanged
    <3> QED BY <3>1, <3>2 DEF Commanding, Transferring
  <2> QED BY <2>1, <2>2
<1>12. CASE UNCHANGED vars
  <2>1. UNCHANGED <<pc, step, addr, op, cmdLen, pos, phase, tx, shift, n, remaining>>
    BY <1>12 DEF vars, setup, main, read, transfer, fifos, flash, command
  <2>2. OnItsWay' = OnItsWay
    BY <2>1 DEF OnItsWay
  <2> QED BY <1>7, <2>1, <2>2
<1> QED
  BY <1>1, <1>2, <1>3, <1>4, <1>5, <1>6, <1>8, <1>9, <1>10, <1>11, <1>12
     DEF Next, Processor

(* The reset is enabled and then asked for; the flash then stays reset.     *)
LEMMA ResetStep ==
  ASSUME Accounted, Commanding, Reset, Replying, Reading, [Next]_vars
  PROVE  Reset'
<1>t. TypeOK /\ Setup
  BY DEF Accounted
<1>c. mode = "clean" => ModeAfter = "clean"
  BY DEF ModeAfter
<1>1. CASE InitSpi
  BY <1>1 DEF InitSpi, Reset, setup
<1>2. CASE EndTransaction
  <2>1. /\ pc = "reply" /\ Replied /\ step' = step + 1 /\ mode' = ModeAfter
        /\ pc' = "select"
    BY <1>2 DEF EndTransaction, Unselect
  <2>2. SettingUp /\ step \in 1 .. 5
    BY <1>t, <2>1, TransactionType DEF Setup, SettingUp, TypeOK
  <2>3. ASSUME step \in {3, 4}
        PROVE  op = Transactions[step].op
    <3>1. phase = "command"
      BY <1>t, <2>2, <2>3 DEF Replying, Identifying, Reading, TypeOK
    <3>2. Commanded
      BY <2>1, <3>1 DEF Commanding
    <3>3. OnItsWay = 0
      BY <2>1, Quiet
    <3>4. cmdLen + 0 = CommandBytes /\ cmdLen \in Nat
      BY <1>t, <3>2, <3>3 DEF Commanded, TypeOK
    <3>5. CommandOp = Transactions[step].op /\ CommandBytes = 1
      BY <2>2, <2>3, TransactionOps DEF CommandOp, CommandBytes
    <3> QED BY <3>2, <3>4, <3>5 DEF Commanded
  <2>4. CASE step \in {1, 2}
    BY <2>1, <2>4 DEF Reset
  <2>5. CASE step = 3
    <3>1. op = "RSTEN"
      BY <2>3, <2>5, TransactionOps
    <3>2. ModeAfter # "dirty"
      BY <1>c, <3>1 DEF ModeAfter
    <3> QED BY <2>1, <2>5, <3>2 DEF Reset
  <2>6. CASE step = 4
    <3>1. op = "RSTMEM" /\ mode \in {"enabled", "clean"}
      BY <1>t, <2>3, <2>6, TransactionOps DEF Reset, TypeOK
    <3>2. ModeAfter = "clean"
      BY <1>c, <3>1 DEF ModeAfter
    <3> QED BY <2>1, <2>6, <3>2 DEF Reset
  <2>7. CASE step = 5
    BY <1>c, <2>1, <2>7 DEF Reset
  <2> QED BY <2>2, <2>4, <2>5, <2>6, <2>7
<1>3. CASE EndChunk
  <2>1. step' = step /\ mode' = ModeAfter /\ pc' = "chunk" /\ pc = "page"
    BY <1>3 DEF EndChunk, Unselect, setup
  <2>2. step > 4
    BY <1>t, <2>1, TransactionType DEF Setup, SettingUp, TypeOK
  <2> QED BY <1>c, <2>1, <2>2 DEF Reset
<1>4. ASSUME UNCHANGED <<step, mode>>, pc' = "start" => pc = "start"
      PROVE  Reset'
  BY <1>4 DEF Reset
<1>5. CASE \/ SelectFlash \/ SendOpcode \/ ReadReply \/ Identify \/ ReadChunk \/ Go
           \/ SendCommand \/ ReadPage
  <2>1. UNCHANGED <<step, mode>> /\ pc' # "start"
    BY <1>5 DEF SelectFlash, SendOpcode, ReadReply, Identify, ReadChunk, Go, SendCommand,
                ReadPage, StartTransfer, Select, setup, flash
  <2> QED BY <1>4, <2>1
<1>6. CASE \/ StartBatch \/ FillTx \/ Filled \/ PollTx \/ PopWhileSending \/ PopRest
           \/ EndTransfer
  <2>1. UNCHANGED <<step, mode>> /\ pc' # "start"
    BY <1>6 DEF StartBatch, FillTx, Filled, PollTx, PopWhileSending, PopRest, PopRx,
                EndTransfer, setup, flash
  <2> QED BY <1>4, <2>1
<1>7. CASE LoadShift \/ Exchange \/ UNCHANGED vars
  <2>1. UNCHANGED <<step, mode, pc>>
    <3>1. CASE LoadShift
      BY <3>1 DEF LoadShift, setup, flash
    <3>2. CASE Exchange
      BY <3>2 DEF Exchange, setup
    <3>3. CASE UNCHANGED vars
      BY <3>3 DEF vars, setup, flash
    <3> QED BY <1>7, <3>1, <3>2, <3>3
  <2> QED BY <1>4, <2>1
<1> QED
  BY <1>1, <1>2, <1>3, <1>5, <1>6, <1>7 DEF Next, Processor

(* The oldest byte of a FIFO that holds a part of some contents goes behind  *)
(* the bytes taken out before it: the contents stay in order.               *)
LEMMA TakeInOrder ==
  ASSUME NEW q \in Seq(InByte), NEW r \in Seq(InByte), q # <<>>, NEW c,
         Follows(q, Len(r), c), Follows(r, 0, c),
         NEW t, t = Tail(q), NEW a, a = Append(r, Head(q))
  PROVE  /\ Len(a) = Len(r) + 1 /\ Len(t) = Len(q) - 1
         /\ Follows(t, Len(a), c) /\ Follows(a, 0, c)
<1>1. /\ Head(q) \in InByte /\ Head(q) = q[1] /\ t \in Seq(InByte) /\ Len(t) = Len(q) - 1
      /\ Len(q) \in Nat /\ Len(q) > 0 /\ Len(r) \in Nat
      /\ \A i \in 1 .. Len(q) - 1 : t[i] = q[i + 1]
  OBVIOUS
<1>2. /\ Len(a) = Len(r) + 1 /\ a[Len(r) + 1] = Head(q)
      /\ \A i \in 1 .. Len(r) : a[i] = r[i]
  BY <1>1
<1>3. ASSUME NEW i \in 1 .. Len(t)
      PROVE  t[i] = c[Len(a) + i]
  <2>1. t[i] = q[i + 1] /\ i + 1 \in 1 .. Len(q)
    BY <1>1
  <2>2. q[i + 1] = c[Len(r) + (i + 1)]
    BY <2>1 DEF Follows
  <2>3. Len(r) + (i + 1) = Len(a) + i
    BY <1>1, <1>2
  <2> QED BY <2>1, <2>2, <2>3
<1>4. ASSUME NEW i \in 1 .. Len(a)
      PROVE  a[i] = c[0 + i]
  <2>1. CASE i \in 1 .. Len(r)
    BY <1>2, <2>1 DEF Follows
  <2>2. CASE i = Len(r) + 1
    <3>1. 1 \in 1 .. Len(q) /\ Len(r) + 1 = 0 + i
      BY <1>1, <2>2
    <3>2. q[1] = c[Len(r) + 1]
      BY <3>1 DEF Follows
    <3> QED BY <1>1, <1>2, <2>2, <3>1, <3>2
  <2> QED BY <1>1, <1>2, <2>1, <2>2
<1> QED BY <1>1, <1>2, <1>3, <1>4 DEF Follows

(* The next byte of some contents goes behind those in a FIFO.              *)
LEMMA PutInOrder ==
  ASSUME NEW q \in Seq(InByte), NEW k \in Nat, NEW e \in InByte, NEW c,
         Follows(q, k, c), e = c[k + Len(q) + 1],
         NEW a, a = Append(q, e)
  PROVE  Follows(a, k, c)
<1>1. /\ Len(a) = Len(q) + 1 /\ a[Len(q) + 1] = e /\ Len(q) \in Nat
      /\ \A i \in 1 .. Len(q) : a[i] = q[i]
  OBVIOUS
<1>2. ASSUME NEW i \in 1 .. Len(a)
      PROVE  a[i] = c[k + i]
  <2>1. CASE i \in 1 .. Len(q)
    BY <1>1, <2>1 DEF Follows
  <2>2. CASE i = Len(q) + 1
    <3>1. k + i = k + Len(q) + 1
      BY <1>1, <2>2
    <3> QED BY <1>1, <2>2, <3>1
  <2> QED BY <1>1, <2>1, <2>2
<1> QED BY <1>2 DEF Follows

(* What spi_transfer takes out of the RX FIFO, and where it puts it.        *)
LEMMA PopStep ==
  ASSUME Accounted, PopWhileSending \/ PopRest
  PROVE  /\ UNCHANGED <<step, pageSize, main, read, remaining, n, tx, shift, lost, cs,
                       flash>>
         /\ Transferring /\ Transferring'
         /\ \/ UNCHANGED <<rx, owed, ram, recv>>
            \/ /\ rx # <<>> /\ rx' = Tail(rx) /\ owed' = owed - 1
               /\ ram' = IF phase = "data" THEN Append(ram, Head(rx)) ELSE ram
               /\ recv' = IF phase = "reply" THEN Append(recv, Head(rx)) ELSE recv
<1>1. PopRx(pc') /\ Transferring /\ Transferring'
  BY DEF PopWhileSending, PopRest, PopRx, Transferring
<1> QED BY <1>1 DEF PopRx

(* A byte of the identification is received.                                *)
LEMMA IdentificationTaken ==
  ASSUME Accounted, Replying, PopWhileSending \/ PopRest, SettingUp, phase = "reply"
  PROVE  Identifying' /\ Follows(recv', 0, id')
<1>1. /\ TypeOK /\ Identifying /\ Transferring'
      /\ UNCHANGED <<step, remaining, id, op, cmdLen, pos>>
  BY PopStep DEF Accounted, Replying, flash, command
<1>2. CASE UNCHANGED <<rx, owed, ram, recv>>
  BY <1>1, <1>2 DEF Identifying, Replying
<1>3. CASE rx # <<>> /\ rx' = Tail(rx) /\ owed' = owed - 1 /\ recv' = Append(recv, Head(rx))
  <2>1. rx \in Seq(InByte) /\ recv \in Seq(InByte)
    BY <1>1 DEF TypeOK
  <2>2. Follows(rx, Len(recv), id) /\ Follows(recv, 0, id)
    BY <1>1 DEF Identifying, Replying
  <2>4. /\ Len(recv') = Len(recv) + 1 /\ Len(rx') = Len(rx) - 1
        /\ Follows(rx', Len(recv'), id) /\ Follows(recv', 0, id)
    <3>1. rx # <<>> /\ rx' = Tail(rx) /\ recv' = Append(recv, Head(rx))
      BY <1>3
    <3> QED BY <2>1, <2>2, <3>1, TakeInOrder
  <2>5. /\ Len(recv) \in Nat /\ Len(rx) \in Nat /\ owed \in Int /\ remaining \in Nat
    BY <1>1, Lengths DEF TypeOK
  <2>6. 1 + Len(recv) + Len(rx) = 1 + (Len(recv) + 1) + (Len(rx) - 1)
    BY <2>5
  <2>7. Len(recv) + owed + remaining = (Len(recv) + 1) + (owed - 1) + remaining
    BY <2>5
  <2>8. pos' = 1 + Len(recv') + Len(rx') /\ Len(recv') + owed' + remaining' = 3
    BY <1>1, <1>3, <2>4, <2>6, <2>7 DEF Identifying
  <2> QED BY <1>1, <2>4, <2>8 DEF Identifying
<1> QED BY <1>2, <1>3, PopStep

(* A byte of the identification comes in.                                   *)
LEMMA IdentificationComes ==
  ASSUME Accounted, NothingLost, NothingLost', Sending, Reset, Replying, Exchange,
         SettingUp, phase = "reply"
  PROVE  Identifying' /\ UNCHANGED recv
<1>1. TypeOK /\ Accounting /\ pc # "start" /\ Identifying
  BY DEF Accounted, Replying, Identifying, Transferring
<1>2. /\ Transferring /\ Len(shift) = 1
      /\ rx' = Append(rx, Answer) /\ Len(rx') = Len(rx) + 1
      /\ op' = IF cmdLen = 0 THEN TxByte.op ELSE op
      /\ cmdLen' = IF InCommand THEN cmdLen + 1 ELSE cmdLen
      /\ pos' = CASE ~InCommand -> pos + 1
                  [] InCommand /\ op' = "FAST_READ" -> TxByte.addr
                  [] OTHER -> 1
      /\ UNCHANGED <<pc, step, recv, owed, remaining, id, cs>>
  BY <1>1, ExchangeStep DEF setup, transfer
<1>3. ~InCommand
  BY <1>1 DEF InCommand, CommandLen, Identifying
<1>4. Answers
  BY <1>1, <1>2, <1>3 DEF Answers, Reset, Identifying, Sending
<1>5. /\ Len(recv) \in Nat /\ Len(rx) \in Nat /\ Len(tx) \in Nat /\ n \in Nat
      /\ remaining \in Nat /\ owed \in Int /\ rx \in Seq(InByte)
  BY <1>1, Lengths DEF TypeOK
<1>6. pos \in 1 .. 3
  <2>1. Len(recv) + (n + Len(tx) + 1 + Len(rx)) + remaining = 3
    BY <1>1, <1>2 DEF Accounting, Identifying, NothingLost, Starving
  <2> QED BY <1>1, <1>5, <2>1 DEF Identifying
<1>7. Answer = id[Len(recv) + Len(rx) + 1] /\ Answer \in InByte
  <2>1. pos \in DOMAIN id /\ id \in Seq(Nat)
    BY <1>1, <1>6 DEF Replying, TypeOK
  <2>2. Answer = id[pos]
    BY <1>1, <1>4, <2>1 DEF Answer, Identifying
  <2>3. pos = Len(recv) + Len(rx) + 1
    BY <1>1, <1>5 DEF Identifying
  <2> QED BY <2>1, <2>2, <2>3 DEF InByte
<1>8. Follows(rx', Len(recv), id)
  <2>1. Follows(rx, Len(recv), id)
    BY <1>1 DEF Identifying
  <2>2. rx \in Seq(InByte) /\ Answer \in InByte /\ Len(recv) \in Nat
    BY <1>5, <1>7
  <2>3. rx' = Append(rx, Answer) /\ Answer = id[Len(recv) + Len(rx) + 1]
    BY <1>2, <1>7
  <2> QED BY <2>1, <2>2, <2>3, PutInOrder
<1>9. op' = op /\ cmdLen' = cmdLen /\ pos' = pos + 1
  BY <1>1, <1>2, <1>3 DEF Identifying
<1>10. pos' = 1 + Len(recv') + Len(rx')
  BY <1>1, <1>2, <1>5, <1>9 DEF Identifying
<1> QED BY <1>1, <1>2, <1>8, <1>9, <1>10 DEF Identifying, Transferring

(* The flash stays the same, and it is identified in one step.              *)
LEMMA IdentifiedOnce ==
  ASSUME [Next]_vars
  PROVE  Identify \/ (UNCHANGED <<id, pageSize>> /\ (pc' = "error" => pc = "error"))
<1>1. CASE InitSpi \/ EndTransaction \/ EndChunk
  BY <1>1 DEF InitSpi, EndTransaction, EndChunk, Unselect, setup
<1>2. CASE SelectFlash \/ ReadChunk
  BY <1>2 DEF SelectFlash, ReadChunk, Select, setup
<1>3. CASE \/ SendOpcode \/ ReadReply \/ Go \/ SendCommand \/ ReadPage \/ StartBatch
  BY <1>3 DEF SendOpcode, ReadReply, Go, SendCommand, ReadPage, StartTransfer, StartBatch,
              setup, flash
<1>4. CASE \/ FillTx \/ Filled \/ PollTx \/ PopWhileSending \/ PopRest \/ EndTransfer
           \/ LoadShift
  BY <1>4 DEF FillTx, Filled, PollTx, PopWhileSending, PopRest, PopRx, EndTransfer,
              LoadShift, setup, flash
<1>5. CASE Exchange
  BY <1>5 DEF Exchange, setup
<1>6. CASE UNCHANGED vars
  BY <1>6 DEF vars, setup, flash
<1> QED BY <1>1, <1>2, <1>3, <1>4, <1>5, <1>6 DEF Next, Processor

(* The identification is received as the flash sends it.                    *)
LEMMA ReplyingStep ==
  ASSUME Accounted, Accounted', NothingLost, NothingLost', Sending, Commanding, Reset,
         Replying, Reading, [Next]_vars
  PROVE  Replying'
<1>t. TypeOK /\ TypeOK' /\ Setup
  BY DEF Accounted
<1>i. id' = id
  BY IdentifiedOnce DEF Identify, flash
<1>a. ASSUME UNCHANGED <<step, recv, phase>>, SettingUp /\ phase = "reply" => Identifying'
      PROVE  Replying'
  BY <1>i, <1>a DEF Replying, SettingUp
<1>1. CASE InitSpi
  <2>1. UNCHANGED <<step, recv, phase>> /\ pc = "start"
    BY <1>1 DEF InitSpi, setup, read
  <2>2. ~(SettingUp /\ phase = "reply")
    BY <2>1 DEF Replying, Identifying, Transferring
  <2> QED BY <1>a, <2>1, <2>2
<1>2. CASE SelectFlash
  <2>1. UNCHANGED <<step, recv>> /\ phase' = "command" /\ pc = "select" /\ SettingUp
    BY <1>2 DEF SelectFlash, setup
  <2>2. phase = "command"
    BY <1>t, <2>1 DEF Replying, Identifying, Transferring, Reading, TypeOK
  <2> QED BY <1>i, <2>1, <2>2 DEF Replying, SettingUp
<1>3. CASE SendOpcode
  <2>1. UNCHANGED <<step, recv, phase>> /\ phase = "command"
    BY <1>3 DEF SendOpcode, StartTransfer, Commanding, setup, read
  <2> QED BY <1>a, <2>1
<1>4. CASE ReadReply
  <2>1. /\ pc = "reply" /\ phase # "reply" /\ Transactions[step].reply # 0
        /\ phase' = "reply" /\ remaining' = Transactions[step].reply /\ pc' = "batch"
        /\ UNCHANGED <<step, recv, owed, rx, op, cmdLen, pos>>
    BY <1>4 DEF ReadReply, Replied, StartTransfer, setup, fifos, flash, command
  <2>2. SettingUp /\ step \in 1 .. 5
    BY <1>t, <2>1, TransactionType DEF Setup, SettingUp, TypeOK
  <2>3. step = 5 /\ remaining' = 3
    BY <2>1, <2>2, TransactionOps
  <2>4. phase = "command"
    BY <1>t, <2>1, <2>2 DEF Reading, TypeOK
  <2>5. recv = <<>> /\ Len(recv) = 0 /\ Len(recv') = 0
    BY <2>1, <2>2, <2>4 DEF Replying
  <2>6. rx = <<>> /\ owed = 0 /\ OnItsWay = 0
    BY <2>1, Quiet
  <2>7. CommandOp = "RDID" /\ CommandBytes = 1
    BY <2>2, <2>3, TransactionOps DEF CommandOp, CommandBytes
  <2>8. cmdLen = 1 /\ op = "RDID" /\ pos = 1
    <3>1. Commanded
      BY <2>1, <2>4 DEF Commanding
    <3>2. cmdLen + 0 = 1 /\ cmdLen \in Nat
      BY <1>t, <2>6, <2>7, <3>1 DEF Commanded, TypeOK
    <3> QED BY <2>7, <3>1, <3>2 DEF Commanded
  <2>9. Len(rx') = 0 /\ Follows(rx', Len(recv'), id')
    BY <2>1, <2>6 DEF Follows
  <2>10. Identifying'
    BY <2>1, <2>3, <2>5, <2>6, <2>8, <2>9 DEF Identifying, Transferring
  <2> QED BY <1>i, <2>1, <2>2, <2>10 DEF Replying, SettingUp
<1>5. CASE EndTransaction
  <2>1. pc = "reply" /\ Replied /\ step' = step + 1 /\ UNCHANGED <<recv, phase>>
    BY <1>5 DEF EndTransaction, read
  <2>2. SettingUp /\ step \in 1 .. 5
    BY <1>t, <2>1, TransactionType DEF Setup, SettingUp, TypeOK
  <2>3. CASE phase = "reply"
    <3>1. Identifying /\ step' = 6
      BY <2>1, <2>2, <2>3 DEF Replying, Identifying
    <3>2. ~SettingUp'
      BY <3>1, TransactionType DEF SettingUp
    <3>3. Len(recv) = 3
      <4>1. owed = 0 /\ remaining = 0
        BY <2>1, Quiet
      <4> QED BY <1>t, <3>1, <4>1, Lengths DEF Identifying
    <3>4. recv = id
      <4>1. recv \in Seq(InByte) /\ id \in Seq(Nat) /\ Len(id) = 3
        BY <1>t DEF TypeOK, Replying
      <4>2. \A i \in 1 .. 3 : recv[i] = id[0 + i]
        BY <3>3 DEF Replying, Follows
      <4>3. \A i \in 1 .. 3 : recv[i] = id[i]
        BY <4>2
      <4> QED BY <3>3, <4>1, <4>3
    <3> QED BY <1>i, <2>1, <3>2, <3>4 DEF Replying
  <2>4. CASE phase # "reply"
    <3>1. phase = "command" /\ step \in 1 .. 4
      <4>1. Transactions[step].reply = 0
        BY <2>1, <2>4 DEF Replied
      <4>2. step # 5
        BY <4>1, TransactionOps
      <4> QED BY <1>t, <2>2, <2>4, <4>2 DEF Reading, TypeOK
    <3>2. recv = <<>> /\ SettingUp'
      BY <2>1, <2>2, <3>1, TransactionType DEF Replying, SettingUp
    <3> QED BY <1>i, <2>1, <3>1, <3>2 DEF Replying
  <2> QED BY <2>3, <2>4
<1>6. CASE Identify \/ ReadChunk \/ Go \/ SendCommand \/ ReadPage \/ EndChunk
  <2>1. UNCHANGED <<step, recv>> /\ ~SettingUp
    BY <1>t, <1>6 DEF Identify, ReadChunk, Go, SendCommand, ReadPage, EndChunk,
                      StartTransfer, Setup, setup
  <2> QED BY <1>i, <2>1 DEF Replying, SettingUp
<1>7. CASE StartBatch \/ FillTx \/ Filled \/ PollTx \/ EndTransfer \/ LoadShift \/ UNCHANGED vars
  <2>1. UNCHANGED <<step, recv, phase, rx, op, cmdLen, pos>>
    BY <1>7 DEF StartBatch, FillTx, Filled, PollTx, EndTransfer, LoadShift, vars,
                setup, read, fifos, flash, command
  <2>2. owed' + remaining' = owed + remaining
    <3>1. CASE StartBatch
      <4>1. owed' = owed + n' /\ remaining' = remaining - n'
        BY <3>1 DEF StartBatch
      <4>2. owed \in Int /\ remaining \in Int /\ n' \in Int
        BY <1>t DEF TypeOK
      <4>3. (owed + n') + (remaining - n') = owed + remaining
        BY <4>2, MovedOwed, ZenonT(30)
      <4> QED BY <4>1, <4>3
    <3>2. CASE FillTx \/ Filled \/ PollTx \/ EndTransfer \/ LoadShift \/ UNCHANGED vars
      BY <3>2 DEF FillTx, Filled, PollTx, EndTransfer, LoadShift, vars, transfer
    <3> QED BY <1>7, <3>1, <3>2
  <2>3. SettingUp => \/ pc' = pc
                     \/ Transferring /\ (Transferring' \/ pc' = "reply")
    BY <1>7 DEF StartBatch, FillTx, Filled, PollTx, EndTransfer, LoadShift, vars,
                Transferring
  <2>4. SettingUp /\ phase = "reply" => Identifying'
    <3> SUFFICES ASSUME SettingUp, phase = "reply"
                 PROVE  Identifying'
      OBVIOUS
    <3>1. Identifying
      BY DEF Replying
    <3>2. Transferring' \/ pc' = "reply"
      BY <2>3, <3>1 DEF Identifying, Transferring
    <3>3. Len(recv') + owed' + remaining' = 3
      <4>1. /\ Len(recv) \in Nat /\ owed \in Int /\ remaining \in Nat
            /\ owed' \in Int /\ remaining' \in Nat
        BY <1>t, Lengths DEF TypeOK
      <4>2. /\ Len(recv) + owed' + remaining' = Len(recv) + (owed' + remaining')
            /\ Len(recv) + owed + remaining = Len(recv) + (owed + remaining)
        BY <4>1
      <4> QED BY <2>1, <2>2, <3>1, <4>2 DEF Identifying
    <3> QED BY <1>i, <2>1, <3>1, <3>2, <3>3 DEF Identifying
  <2> QED BY <1>a, <2>1, <2>4
<1>8. CASE PopWhileSending \/ PopRest
  <2>1. UNCHANGED <<step, phase>> /\ Transferring
    BY <1>8, PopStep DEF read
  <2>2. CASE SettingUp /\ phase = "reply"
    <3>1. Identifying' /\ Follows(recv', 0, id')
      BY <1>8, <2>2, IdentificationTaken
    <3> QED BY <1>i, <2>1, <2>2, <3>1 DEF Replying, SettingUp
  <2>3. CASE ~(SettingUp /\ phase = "reply")
    <3>1. phase # "reply"
      BY <2>1, <2>3 DEF Reading, ReadingChunk
    <3>2. recv' = recv
      BY <1>8, <3>1, PopStep
    <3> QED BY <1>a, <2>1, <2>3, <3>2
  <2> QED BY <2>2, <2>3
<1>9. CASE Exchange
  <2>1. UNCHANGED <<step, recv, phase>>
    BY <1>9 DEF Exchange, setup, read
  <2>2. SettingUp /\ phase = "reply" => Identifying'
    BY <1>9, IdentificationComes
  <2> QED BY <1>a, <2>1, <2>2
<1> QED
  BY <1>1, <1>2, <1>3, <1>4, <1>5, <1>6, <1>7, <1>8, <1>9 DEF Next, Processor

(* A byte of a page is stored.                                              *)
LEMMA ContentsTaken ==
  ASSUME Accounted, Reading, PopWhileSending \/ PopRest, ReadingChunk, phase = "data"
  PROVE  Streaming' /\ Follows(ram', 0, Image) /\ Len(ram') + owed' = Len(ram) + owed
<1>1. /\ TypeOK /\ Streaming /\ Follows(ram, 0, Image)
      /\ UNCHANGED <<op, cmdLen, pos>>
  BY PopStep DEF Accounted, Reading, flash, command
<1>2. CASE UNCHANGED <<rx, owed, ram, recv>>
  BY <1>1, <1>2 DEF Streaming
<1>3. CASE rx # <<>> /\ rx' = Tail(rx) /\ owed' = owed - 1 /\ ram' = Append(ram, Head(rx))
  <2>1. rx \in Seq(InByte) /\ ram \in Seq(InByte)
    BY <1>1 DEF TypeOK
  <2>2. Follows(rx, Len(ram), Image) /\ Follows(ram, 0, Image)
    BY <1>1 DEF Streaming
  <2>3. rx # <<>> /\ rx' = Tail(rx) /\ ram' = Append(ram, Head(rx))
    BY <1>3
  <2>4. /\ Len(ram') = Len(ram) + 1 /\ Len(rx') = Len(rx) - 1
        /\ Follows(rx', Len(ram'), Image) /\ Follows(ram', 0, Image)
    BY <2>1, <2>2, <2>3, TakeInOrder
  <2>5. Len(ram) \in Nat /\ Len(rx) \in Nat /\ owed \in Int
    BY <1>1, Lengths DEF TypeOK
  <2>6. /\ FlashStart + Len(ram) + Len(rx) = FlashStart + (Len(ram) + 1) + (Len(rx) - 1)
        /\ (Len(ram) + 1) + (owed - 1) = Len(ram) + owed
    BY <2>5, Sizes
  <2> QED BY <1>1, <1>3, <2>4, <2>6 DEF Streaming
<1> QED BY <1>2, <1>3, PopStep

(* A byte of the image comes in.                                            *)
LEMMA ContentsCome ==
  ASSUME Accounted, NothingLost', Sending, Reset, Reading, Exchange, ReadingChunk,
         phase = "data"
  PROVE  Streaming'
<1>1. TypeOK /\ Setup /\ pc # "start" /\ Streaming /\ ~SettingUp
  BY DEF Accounted, Reading, ReadingChunk, Transferring
<1>2. /\ Transferring /\ rx' = Append(rx, Answer) /\ Len(rx') = Len(rx) + 1
      /\ op' = IF cmdLen = 0 THEN TxByte.op ELSE op
      /\ cmdLen' = IF InCommand THEN cmdLen + 1 ELSE cmdLen
      /\ pos' = CASE ~InCommand -> pos + 1
                  [] InCommand /\ op' = "FAST_READ" -> TxByte.addr
                  [] OTHER -> 1
      /\ UNCHANGED ram
  BY <1>1, ExchangeStep
<1>3. ~InCommand
  BY <1>1, Sizes DEF InCommand, CommandLen, Streaming
<1>4. mode = "clean"
  BY <1>1, TransactionType DEF Reset, SettingUp, TypeOK
<1>5. Answer = pos /\ pos \in Nat
  BY <1>1, <1>2, <1>3, <1>4 DEF Answer, Answers, Sending, Streaming, TypeOK
<1>6. /\ Len(ram) \in Nat /\ Len(rx) \in Nat /\ rx \in Seq(InByte) /\ Answer \in InByte
  BY <1>1, <1>5, Lengths DEF TypeOK, InByte
<1>7. Answer = Image[Len(ram) + Len(rx) + 1]
  <2>1. Len(ram) + Len(rx) + 1 \in Nat
    BY <1>6
  <2>2. Image[Len(ram) + Len(rx) + 1] = FlashStart + (Len(ram) + Len(rx) + 1) - 1
    BY <2>1 DEF Image
  <2>3. pos = FlashStart + (Len(ram) + Len(rx) + 1) - 1
    BY <1>1, <1>6, Sizes DEF Streaming
  <2> QED BY <1>5, <2>2, <2>3
<1>8. Follows(rx', Len(ram), Image)
  <2>1. Follows(rx, Len(ram), Image)
    BY <1>1 DEF Streaming
  <2>2. rx' = Append(rx, Answer)
    BY <1>2
  <2> QED BY <1>6, <1>7, <2>1, <2>2, PutInOrder
<1>9. op' = op /\ cmdLen' = cmdLen /\ pos' = pos + 1
  BY <1>1, <1>2, <1>3, Sizes DEF Streaming
<1>10. pos' = FlashStart + Len(ram') + Len(rx')
  <2>1. FlashStart + Len(ram) + Len(rx) + 1 = FlashStart + Len(ram) + (Len(rx) + 1)
    BY <1>6, Sizes
  <2> QED BY <1>1, <1>2, <1>9, <2>1 DEF Streaming
<1> QED BY <1>1, <1>2, <1>8, <1>9, <1>10 DEF Streaming

(* The image is read in order, chunk by chunk and page by page.             *)
LEMMA ReadingStep ==
  ASSUME Accounted, Accounted', NothingLost, NothingLost', Sending, Commanding, Reset,
         Replying, Reading, [Next]_vars
  PROVE  Reading'
<1>t. TypeOK /\ TypeOK' /\ Setup
  BY DEF Accounted
<1>n. /\ len \in Nat /\ addr \in Nat /\ nbytes \in Nat /\ owed \in Int /\ remaining \in Nat
      /\ Len(ram) \in Nat
      /\ Lesser(len, ChunkSize) \in Nat /\ Lesser(len, ChunkSize) <= len
  <2>1. len \in Nat /\ ChunkSize \in Nat
    BY <1>t, Sizes DEF TypeOK
  <2>2. Lesser(len, ChunkSize) \in Nat /\ Lesser(len, ChunkSize) <= len
    BY <2>1, LesserType
  <2> QED BY <1>t, <2>2, Lengths DEF TypeOK
<1>a. ASSUME UNCHANGED <<len, addr, ram>>, ~ReadingChunk, ~ReadingChunk',
             pc' \notin {"command", "go"},
             SettingUp' => SettingUp /\ phase' # "data"
      PROVE  Reading'
  BY <1>a DEF Reading
<1>1. CASE InitSpi
  <2>1. UNCHANGED <<step, len, addr, ram, phase>> /\ pc = "start" /\ pc' = "select"
    BY <1>1 DEF InitSpi, setup, main, read
  <2>2. SettingUp => phase # "data"
    BY DEF Reading
  <2> QED BY <1>a, <2>1, <2>2 DEF ReadingChunk, Transferring, SettingUp
<1>2. CASE SelectFlash \/ SendOpcode \/ ReadReply
  <2>1. /\ UNCHANGED <<step, len, addr, ram>> /\ SettingUp
        /\ pc' \notin {"command", "go"} /\ phase' # "data"
    BY <1>t, <1>2
       DEF SelectFlash, SendOpcode, ReadReply, StartTransfer, Setup, Commanding,
           main, read, setup
  <2> QED BY <1>a, <2>1 DEF ReadingChunk, SettingUp
<1>3. CASE EndTransaction
  <2>1. /\ UNCHANGED <<len, addr, ram, phase>> /\ pc = "reply" /\ pc' = "select"
        /\ step' = step + 1
    BY <1>3 DEF EndTransaction, main, read
  <2>2. SettingUp /\ (SettingUp' => phase # "data")
    BY <1>t, <2>1 DEF Setup, Reading
  <2> QED BY <1>a, <2>1, <2>2 DEF ReadingChunk, Transferring
<1>4. CASE Identify
  <2>1. /\ UNCHANGED <<step, len, addr, ram, phase>> /\ pc = "select"
        /\ pc' \in {"error", "chunk"} /\ ~SettingUp
    BY <1>4 DEF Identify, main, read
  <2> QED BY <1>a, <2>1 DEF ReadingChunk, Transferring, SettingUp
<1>5. CASE ReadChunk \/ Go
  <2>1. CASE ReadChunk
    <3>1. /\ UNCHANGED <<step, len, addr, ram>> /\ pc = "chunk" /\ pc' = "command"
          /\ len > 0 /\ nbytes' = Lesser(len, ChunkSize)
      BY <2>1 DEF ReadChunk, main, setup
    <3> QED BY <1>t, <3>1 DEF Reading, ReadingChunk, Transferring, Setup, SettingUp
  <2>2. CASE Go
    <3>1. /\ UNCHANGED <<step, len, addr, ram>> /\ pc = "chunk" /\ pc' = "go" /\ len = 0
      BY <2>2 DEF Go, main, setup
    <3> QED BY <1>t, <3>1 DEF Reading, ReadingChunk, Transferring, Setup, SettingUp
  <2> QED BY <1>5, <2>1, <2>2
<1>6. CASE SendCommand
  <2>1. /\ UNCHANGED <<step, len, addr, ram, nbytes>> /\ pc = "command" /\ pc' = "batch"
        /\ phase' = "command" /\ ~SettingUp
    BY <1>t, <1>6 DEF SendCommand, StartTransfer, main, setup, Setup
  <2>2. /\ ~SettingUp' /\ Coming' = 0 /\ len > 0
        /\ Len(ram) = ImageLen - len /\ nbytes = Lesser(len, ChunkSize)
    BY <2>1 DEF SettingUp, Coming, Reading, ReadingChunk, Transferring
  <2>3. Len(ram') + Coming' + nbytes' = ImageLen - len + Lesser(len, ChunkSize)
    BY <1>n, <2>1, <2>2, Sizes
  <2> QED BY <2>1, <2>2, <2>3 DEF Reading
<1>7. CASE ReadPage
  <2> DEFINE size == Lesser(nbytes, pageSize)
  <2>1. /\ UNCHANGED <<step, len, addr, ram, owed, rx, op, cmdLen, pos>>
        /\ pc = "page" /\ pc' = "batch" /\ phase' = "data"
        /\ nbytes' = nbytes - size /\ remaining' = size
    BY <1>7 DEF ReadPage, StartTransfer, main, setup, fifos, flash, command
  <2>2. /\ ~SettingUp /\ ~SettingUp' /\ ReadingChunk
        /\ owed = 0 /\ remaining = 0 /\ OnItsWay = 0 /\ rx = <<>>
    BY <1>t, <2>1, Quiet DEF Setup, SettingUp, ReadingChunk
  <2>3. size \in Nat
    BY <1>t, LesserType DEF TypeOK
  <2>4. Coming = 0 /\ Coming' = size
    BY <2>1, <2>2, <2>3 DEF Coming
  <2>5. Len(ram') + Coming' + nbytes' = ImageLen - len + Lesser(len, ChunkSize)
    <3>1. Len(ram) + 0 + nbytes = ImageLen - len + Lesser(len, ChunkSize)
      BY <2>2, <2>4 DEF Reading
    <3> HIDE DEF size
    <3>2. Len(ram) + size + (nbytes - size) = Len(ram) + 0 + nbytes
      BY <1>n, <2>3
    <3> QED BY <2>1, <2>4, <3>1, <3>2
  <2>6. Streaming'
    <3>1. CASE phase = "data"
      <4>1. Streaming
        BY <2>2, <3>1 DEF Reading
      <4> QED BY <2>1, <4>1 DEF Streaming
    <3>2. CASE phase = "command"
      <4>1. Commanded /\ CommandBytes = OpLen /\ CommandOp = "FAST_READ"
        BY <2>1, <2>2, <3>2 DEF Commanding, CommandBytes, CommandOp
      <4>2. cmdLen + 0 = OpLen
        BY <2>2, <4>1 DEF Commanded
      <4>3. cmdLen = OpLen /\ cmdLen # 0
        BY <1>t, <4>2, Sizes DEF TypeOK
      <4>4. op = "FAST_READ" /\ pos = addr
        BY <4>1, <4>3 DEF Commanded
      <4>5. addr = FlashStart + Len(ram) + 0
        <5>1. addr = FlashStart + (ImageLen - len) /\ Len(ram) = ImageLen - len
          BY <3>2 DEF Reading
        <5> QED BY <1>n, <5>1, Sizes
      <4>6. Len(rx') = 0 /\ Follows(rx', Len(ram'), Image)
        BY <2>1, <2>2 DEF Follows
      <4> QED BY <2>1, <4>3, <4>4, <4>5, <4>6 DEF Streaming
    <3> QED BY <1>t, <2>2, <3>1, <3>2 DEF Reading, TypeOK
  <2>7. len > 0
    BY <2>2 DEF Reading
  <2> QED BY <2>1, <2>2, <2>5, <2>6, <2>7 DEF Reading, ReadingChunk, Transferring
<1>8. CASE EndChunk
  <2> DEFINE size == Lesser(len, ChunkSize)
  <2>1. /\ UNCHANGED <<step, ram, phase>> /\ pc = "page" /\ pc' = "chunk" /\ nbytes = 0
        /\ len' = len - size /\ addr' = addr + size
    BY <1>8 DEF EndChunk, setup, read
  <2>2. /\ ~SettingUp /\ ~SettingUp' /\ ReadingChunk /\ ~ReadingChunk'
        /\ owed = 0 /\ remaining = 0
    BY <1>t, <2>1, Quiet DEF Setup, SettingUp, ReadingChunk, Transferring
  <2>3. Coming = 0
    BY <2>2 DEF Coming
  <2>4. Len(ram) + 0 + 0 = ImageLen - len + size
    BY <2>1, <2>2, <2>3 DEF Reading
  <2>5. addr = FlashStart + (ImageLen - len) /\ len <= ImageLen
    BY DEF Reading
  <2>6. size \in Nat /\ size <= len
    BY <1>n
  <2> HIDE DEF size
  <2>7. /\ Len(ram) = ImageLen - (len - size) /\ len - size <= ImageLen
        /\ addr + size = FlashStart + (ImageLen - (len - size))
    BY <1>n, <2>4, <2>5, <2>6, Sizes
  <2> QED BY <2>1, <2>2, <2>7 DEF Reading
<1>b. ASSUME UNCHANGED <<step, phase, len, addr, ram, nbytes>>,
             \/ pc' = pc
             \/ Transferring /\ (Transferring' \/ pc' = IF SettingUp THEN "reply" ELSE "page"),
             ReadingChunk /\ phase = "data" => Streaming' /\ owed' + remaining' = owed + remaining
      PROVE  Reading'
  <2>1. SettingUp' <=> SettingUp
    BY <1>b DEF SettingUp
  <2>2. /\ ReadingChunk' <=> ReadingChunk
        /\ pc' \in {"command", "go"} => pc' = pc
    BY <1>b, <2>1 DEF ReadingChunk, Transferring
  <2>3. ReadingChunk => Coming' = Coming
    BY <1>b DEF Coming
  <2> QED BY <1>b, <2>1, <2>2, <2>3 DEF Reading
<1>9. CASE StartBatch \/ FillTx \/ Filled \/ PollTx \/ EndTransfer \/ LoadShift \/ UNCHANGED vars
  <2>1. UNCHANGED <<step, phase, len, addr, ram, nbytes, rx, op, cmdLen, pos>>
    BY <1>9 DEF StartBatch, FillTx, Filled, PollTx, EndTransfer, LoadShift, vars,
                setup, main, read, fifos, flash, command
  <2>2. owed' + remaining' = owed + remaining
    <3>1. CASE StartBatch
      <4>1. owed' = owed + n' /\ remaining' = remaining - n'
        BY <3>1 DEF StartBatch
      <4>2. owed \in Int /\ remaining \in Int /\ n' \in Int
        BY <1>t DEF TypeOK
      <4>3. (owed + n') + (remaining - n') = owed + remaining
        BY <4>2, MovedOwed, ZenonT(30)
      <4> QED BY <4>1, <4>3
    <3>2. CASE FillTx \/ Filled \/ PollTx \/ EndTransfer \/ LoadShift \/ UNCHANGED vars
      BY <3>2 DEF FillTx, Filled, PollTx, EndTransfer, LoadShift, vars, transfer
    <3> QED BY <1>9, <3>1, <3>2
  <2>3. \/ pc' = pc
        \/ Transferring /\ (Transferring' \/ pc' = IF SettingUp THEN "reply" ELSE "page")
    BY <1>9 DEF StartBatch, FillTx, Filled, PollTx, EndTransfer, LoadShift, vars,
                Transferring
  <2>4. ReadingChunk /\ phase = "data" => Streaming'
    BY <2>1 DEF Reading, Streaming
  <2> QED BY <1>b, <2>1, <2>2, <2>3, <2>4
<1>10. CASE PopWhileSending \/ PopRest
  <2>1. /\ UNCHANGED <<step, phase, len, addr, nbytes, remaining>>
        /\ Transferring /\ Transferring'
        /\ phase # "data" => ram' = ram
    BY <1>10, PopStep DEF main, read
  <2>2. CASE ReadingChunk /\ phase = "data"
    <3>1. Streaming' /\ Follows(ram', 0, Image) /\ Len(ram') + owed' = Len(ram) + owed
      BY <1>10, <2>2, ContentsTaken
    <3>2. /\ ReadingChunk' /\ ~SettingUp' /\ pc' \notin {"command", "go"}
          /\ Coming = owed + remaining /\ Coming' = owed' + remaining
      BY <2>1, <2>2 DEF ReadingChunk, SettingUp, Transferring, Coming
    <3>3. Len(ram') \in Nat /\ owed' \in Int
      <4>1. ram' \in Seq(InByte) /\ owed' \in Int
        BY <1>t DEF TypeOK
      <4> QED BY <4>1
    <3>4. Len(ram') + Coming' + nbytes' = Len(ram) + Coming + nbytes
      <4>1. /\ Len(ram') + (owed' + remaining) + nbytes = (Len(ram') + owed') + remaining + nbytes
            /\ Len(ram) + (owed + remaining) + nbytes = (Len(ram) + owed) + remaining + nbytes
        BY <1>n, <3>3
      <4> QED BY <2>1, <3>1, <3>2, <4>1
    <3> QED BY <2>1, <2>2, <3>1, <3>2, <3>4 DEF Reading
  <2>3. CASE ~(ReadingChunk /\ phase = "data")
    <3>1. phase # "data"
      BY <2>1, <2>3 DEF Reading, ReadingChunk
    <3> QED BY <1>b, <2>1, <2>3, <3>1
  <2> QED BY <2>2, <2>3
<1>11. CASE Exchange
  <2>1. UNCHANGED <<pc, step, phase, len, addr, ram, nbytes, owed, remaining>>
    BY <1>11 DEF Exchange, setup, main, read, transfer
  <2>2. ReadingChunk /\ phase = "data" => Streaming'
    BY <1>11, ContentsCome
  <2> QED BY <1>b, <2>1, <2>2
<1> QED
  BY <1>1, <1>2, <1>3, <1>4, <1>5, <1>6, <1>7, <1>8, <1>9, <1>10, <1>11
     DEF Next, Processor

(* At the start no byte was exchanged for the boot loader.                  *)
LEMMA ContentsInit ==
  ASSUME Init
  PROVE  Sending /\ Commanding /\ Reset /\ Replying /\ Reading
<1>1. Len(id) = 3 /\ Len(<<>>) = 0
  BY SizesAssumption DEF Init
<1>2. SettingUp /\ ~ReadingChunk
  BY TransactionType DEF Init, SettingUp, ReadingChunk
<1>3. Follows(<<>>, 0, id) /\ Follows(<<>>, 0, Image)
  BY <1>1 DEF Follows
<1> QED
  BY <1>1, <1>2, <1>3, Sizes
     DEF Init, Sending, Commanding, Reset, Replying, Reading, Transferring

(* A byte that was dropped is missed for ever.                              *)
LEMMA LostStays ==
  ASSUME Accounted, pc # "start", [Next]_vars
  PROVE  lost \subseteq lost' /\ pc' # "start"
<1>1. CASE \/ SelectFlash \/ SendOpcode \/ ReadReply \/ EndTransaction \/ Identify \/ ReadChunk
           \/ Go \/ SendCommand \/ ReadPage \/ EndChunk \/ StartBatch
  BY <1>1 DEF SelectFlash, SendOpcode, ReadReply, EndTransaction, Identify, ReadChunk, Go,
              SendCommand, ReadPage, EndChunk, StartBatch, StartTransfer, fifos
<1>2. CASE Filled \/ PollTx \/ PopWhileSending \/ PopRest \/ EndTransfer \/ UNCHANGED vars
  BY <1>2 DEF Filled, PollTx, PopWhileSending, PopRest, PopRx, EndTransfer, vars, fifos
<1>3. CASE FillTx \/ LoadShift \/ Exchange
  <2>1. CASE FillTx
    BY <2>1 DEF FillTx
  <2>2. CASE LoadShift
    BY <2>2 DEF LoadShift
  <2>3. CASE Exchange
    <3>1. pc' = pc /\ (lost' = lost \/ lost' = lost \union {"rx"})
      BY <2>3 DEF Exchange
    <3> QED BY <3>1
  <2> QED BY <1>3, <2>1, <2>2, <2>3
<1>4. CASE InitSpi
  BY <1>4 DEF InitSpi
<1> QED BY <1>1, <1>2, <1>3, <1>4 DEF Next, Processor

(* The invariant of the boot loader is inductive.                           *)
LEMMA IInvStep ==
  ASSUME Fits, Unfound, IInv, [Next]_vars
  PROVE  IInv'
<1>1. Accounted /\ Accounted'
  BY StepInv DEF IInv
<1>2. NothingLost' \/ Starving'
  BY <1>1 DEF Accounted, Accounting, NothingLost
<1>3. CASE Starving'
  BY <1>1, <1>3 DEF IInv
<1>4. CASE NothingLost' /\ ~Starving'
  <2>1. ~Starving
    <3> SUFFICES ASSUME Starving PROVE FALSE
      OBVIOUS
    <3>1. pc # "start" /\ lost = {"rx"}
      BY DEF Starving, Transferring
    <3>2. lost' # {} /\ pc' # "start"
      BY <1>1, <3>1, LostStays
    <3> QED BY <1>4, <3>2 DEF NothingLost
  <2>2. NothingLost
    BY <1>1, <2>1 DEF Accounted, Accounting, NothingLost
  <2>3. Sending /\ Commanding /\ Reset /\ Replying /\ Reading
    BY <2>1 DEF IInv, Contents
  <2>4. Sending' /\ Commanding' /\ Reset'
    BY <1>1, <1>4, <2>3, SendingStep, CommandingStep, ResetStep
  <2>5. Replying' /\ Reading'
    BY <1>1, <1>4, <2>2, <2>3, ReplyingStep, ReadingStep
  <2> QED BY <1>1, <2>4, <2>5 DEF IInv, Contents
<1> QED BY <1>2, <1>3, <1>4

(* The flash is identified by what was received from it.                    *)
LEMMA IdentifiesStep ==
  ASSUME IInv, Unfound, IdentifiesFlash, [Next]_vars
  PROVE  IdentifiesFlash'
<1>1. CASE Identify
  <2>1. pc = "select" /\ ~SettingUp /\ id' = id
    BY <1>1 DEF Identify, flash
  <2>2. pageSize = 0 /\ recv = id
    BY <2>1, Sizes DEF Unfound, IInv, Contents, Starving, Transferring, Replying
  <2>3. CASE pc' = "error" /\ pageSize' = pageSize
    BY <1>1, <2>1, <2>2, <2>3 DEF Identify, IdentifiesFlash
  <2>4. CASE pc' # "error"
    <3>1. PICK k \in DOMAIN FlashTypes : /\ FlashTypes[k].id = id
                                         /\ pageSize' = FlashTypes[k].page_size
      BY <1>1, <2>2, <2>4 DEF Identify
    <3>2. FlashTypes[k] = [id |-> id, page_size |-> pageSize']
      BY <3>1, FlashTypesType
    <3> QED BY <2>1, <2>4, <3>2 DEF IdentifiesFlash
  <2> QED BY <1>1, <2>3, <2>4 DEF Identify
<1>2. CASE UNCHANGED <<id, pageSize>> /\ (pc' = "error" => pc = "error")
  BY <1>2 DEF IdentifiesFlash
<1> QED BY <1>1, <1>2, IdentifiedOnce

(* The boot loader's invariant holds, whatever controller and flash are      *)
(* doing when it starts, for pages of any size, when a command and an        *)
(* identification fit the FIFO.                                              *)
THEOREM Invariance ==
  ASSUME Fits
  PROVE  Spec => [](IInv /\ IdentifiesFlash)
<1>1. Init => IInv /\ IdentifiesFlash /\ Unfound
  <2> SUFFICES ASSUME Init PROVE IInv /\ IdentifiesFlash /\ Unfound
    OBVIOUS
  <2>1. IInv
    BY InitInv, ContentsInit DEF IInv, Contents
  <2>2. pageSize = 0 /\ step = 1 /\ pc = "start"
    BY DEF Init
  <2> QED BY <2>1, <2>2 DEF Unfound, IdentifiesFlash
<1>2. (IInv /\ IdentifiesFlash /\ Unfound) /\ [Next]_vars
        => (IInv /\ IdentifiesFlash /\ Unfound)'
  BY IInvStep, IdentifiesStep, UnfoundStep
<1> QED BY <1>1, <1>2, PTL DEF Spec

(* No byte is dropped at a full TX FIFO, and none at a full RX FIFO while a  *)
(* page fits it (256 bytes do in the FIFO of the design, 512 do not).        *)
THEOREM NoLoss ==
  ASSUME Fits
  PROVE  Spec => []NoByteLost
<1>1. IInv => NoByteLost
  BY Sizes DEF IInv, Accounted, TypeOK, Accounting, Starving, NoByteLost
<1> QED BY <1>1, Invariance, PTL

(* What is in RAM is the image of the flash, in order, from its first byte   *)
(* on, until a byte is dropped, and all of it when main jumps to it, which   *)
(* it never does when a byte was dropped.                                    *)
THEOREM ImageInOrder ==
  ASSUME Fits
  PROVE  Spec => []RamHoldsImage
<1>1. IInv => RamHoldsImage
  <2> SUFFICES ASSUME IInv PROVE RamHoldsImage
    OBVIOUS
  <2>1. CASE Starving
    BY <2>1 DEF Starving, Transferring, RamHoldsImage
  <2>2. CASE Reading
    <3>1. ASSUME NEW i \in 1 .. Len(ram)
          PROVE  ram[i] = FlashStart + i - 1
      <4>1. ram[i] = Image[0 + i] /\ 0 + i = i
        BY <2>2 DEF Reading, Follows
      <4>2. Image[i] = FlashStart + i - 1
        BY DEF Image
      <4> QED BY <4>1, <4>2
    <3>2. ASSUME pc = "go"
          PROVE  Len(ram) = ImageLen
      <4>1. len = 0 /\ Len(ram) = ImageLen - len
        BY <2>2, <3>2 DEF Reading, ReadingChunk, Transferring
      <4> QED BY <4>1, Sizes
    <3> QED BY <3>1, <3>2 DEF RamHoldsImage
  <2> QED BY <2>1, <2>2 DEF IInv, Contents
<1> QED BY <1>1, Invariance, PTL

(* Whatever the flash was doing before, init_spi_flash identifies it: the    *)
(* page size is that of the flash, and it gives up only on a flash that is   *)
(* not in the table.                                                         *)
THEOREM FlashIdentified ==
  ASSUME Fits
  PROVE  Spec => []IdentifiesFlash
BY Invariance, PTL
==============================================================================
