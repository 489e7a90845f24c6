------------------------------- MODULE SpiBoot -------------------------------
(***************************************************************************)
(* The first-stage boot loader of the MicroBlaze (vitis/bobbyb): it resets  *)
(* the SPI controller and the flash and identifies the flash; main.c then   *)
(* copies the boot image from SPI flash to RAM in chunks, spi_flash.c reads *)
(* a chunk page by page, spi.c moves a page through the FIFOs of the AXI    *)
(* SPI controller, which shifts bytes while the processor fills and drains. *)
(*                                                                         *)
(* The processor is one thread; each of its steps makes at most one device *)
(* access that others see.  A flash byte is the address it was read from.   *)
(* Controller and flash are in any state when the boot loader starts: an    *)
(* earlier run may have been cut short.                                     *)
(***************************************************************************)
EXTENDS Integers, Sequences

CONSTANTS
  FifoDepth,   \* XPAR_SPI_0_FIFO_DEPTH
  FlashTypes,  \* flash_type[]: a sequence of [id, page_size]
  Ids,         \* the flashes that may be fitted: what RDID reads
  OpLen,       \* sizeof(op_code): phase, three address bytes, dummy byte
  ChunkSize,   \* C_CHUNK_SIZE
  ImageLen,    \* C_IMAGE_LEN
  FlashStart,  \* C_FLASH_START
  AddrSpace,   \* the addresses three address bytes can name
  Junk         \* what the flash drives while it receives a command

ASSUME SizesAssumption ==
  /\ FifoDepth \in Nat \ {0} /\ OpLen \in Nat \ {0}
  /\ ChunkSize \in Nat \ {0} /\ ImageLen \in Nat
  /\ FlashStart \in Nat /\ AddrSpace \in Nat \ {0}
  /\ FlashStart + ImageLen <= AddrSpace
  /\ FlashTypes \in Seq([id : Seq(Nat), page_size : Nat \ {0}])
  /\ Ids \subseteq Seq(Nat) /\ \A i \in Ids : Len(i) = 3

VARIABLES
  pc,          \* where the processor is
  step,        \* init_spi_flash: the transaction it is at
  recv,        \* get_spi_flash_info: recv_data
  pageSize,    \* flash_type->page_size
  len, addr,   \* main: bytes still to copy, flash address of the next chunk
  nbytes,      \* spi_flash_read: bytes of this chunk not yet asked for
  phase,       \* a command transfer drops its input, the others store it
  remaining,   \* spi_transfer: RemainingBytes, not yet given to the TX FIFO
  n,           \* spi_transfer: bytes of this batch not yet written
  owed,        \* stats.tx_bytes - stats.rx_bytes, all spi_transfer compares
  ram,         \* the bytes stored from C_RAM_START on
  tx, rx,      \* the controller's FIFOs
  shift,       \* its shift register: <<>> or the one byte being exchanged
  trans,       \* the transmitter: XSP_CR_TRANS_INHIBIT
  cs,          \* the flash's chip select, active low
  id,          \* flash: its identification
  mode,        \* flash: "dirty" until it is reset, "enabled" between RSTEN and
               \* RSTMEM, then "clean"
  op, cmdLen,  \* flash: the command since it was selected, its bytes so far
  pos,         \* flash: the address it reads from next
  lost         \* the FIFOs that dropped a byte because they were full

setup == <<step, recv, pageSize>>
main == <<len, addr>>
read == <<nbytes, phase>>
transfer == <<remaining, n, owed>>
fifos == <<tx, rx, shift, lost>>
command == <<op, cmdLen, pos>>
flash == <<id, mode, command>>
vars == <<pc, setup, main, read, transfer, ram, fifos, trans, cs, flash>>

Lesser(a, b) == IF a < b THEN a ELSE b

\* What goes out: the bytes of a command carry its opcode and its address.
Ops == {"WREN", "RSTEN", "RSTMEM", "RDID", "FAST_READ", "NONE"}
OutByte == [op : Ops, addr : Nat]
Zero == [op |-> "NONE", addr |-> 0]

\* A plausible bug: the reset is not enabled before it is asked for.
NotEnabled == << [op |-> "WREN", reply |-> 0], [op |-> "NONE", reply |-> 0],
                 [op |-> "RSTMEM", reply |-> 0], [op |-> "RDID", reply |-> 3] >>

\* init_spi_flash: spi_flash_reset (a pulse of the select line follows WREN)
\* and get_spi_flash_info, selection by selection.
Transactions ==
  << [op |-> "WREN", reply |-> 0], [op |-> "NONE", reply |-> 0],
     [op |-> "RSTEN", reply |-> 0], [op |-> "RSTMEM", reply |-> 0],
     [op |-> "RDID", reply |-> 3] >>

SettingUp == step <= Len(Transactions)

Init ==
  /\ pc = "start" /\ step = 1 /\ recv = <<>> /\ pageSize = 0
  /\ len = ImageLen /\ addr = FlashStart
  /\ nbytes = 0 /\ phase = "command"
  /\ remaining = 0 /\ n = 0 /\ owed = 0 /\ ram = <<>>
  /\ tx \in {<<>>, <<Zero>>} /\ rx \in {<<>>, <<Junk>>}
  /\ shift \in {<<>>, <<Zero>>} /\ lost = {}
  /\ trans \in {"inhibited", "running"} /\ cs \in {"high", "low"}
  /\ id \in Ids /\ mode \in {"dirty", "enabled", "clean"}
  /\ op \in {"NONE", "FAST_READ"} /\ cmdLen = 0 /\ pos = 0
------------------------------------------------------------------------------
(* init_spi_flash: init_spi, spi_flash_reset and get_spi_flash_info.        *)

\* The flash takes a command when it is unselected; a reset is taken only
\* right after it was enabled.
ModeAfter ==
  CASE op = "RSTEN" /\ mode # "clean"    -> "enabled"
    [] op = "RSTMEM" /\ mode = "enabled" -> "clean"
    [] op \notin {"NONE", "RSTEN", "RSTMEM"} /\ mode = "enabled" -> "dirty"
    [] OTHER -> mode

Select == cs' = "low" /\ op' = "NONE" /\ cmdLen' = 0 /\ UNCHANGED <<id, mode, pos>>

Unselect == cs' = "high" /\ mode' = ModeAfter /\ UNCHANGED <<id, command>>

\* A plausible bug: the controller is configured without being reset.
InitSpiUnreset ==
  /\ pc = "start"
  /\ owed' = 0 /\ trans' = "inhibited"
  /\ Unselect
  /\ pc' = "select"
  /\ UNCHANGED <<setup, main, read, remaining, n, ram, fifos>>

\* init_spi: the reset empties the FIFOs and inhibits the transmitter before
\* anything else is written; the registers written then change nothing more.
InitSpi ==
  /\ pc = "start"
  /\ owed' = 0
  /\ tx' = <<>> /\ rx' = <<>> /\ shift' = <<>> /\ lost' = {}
  /\ trans' = "inhibited"
  /\ Unselect
  /\ pc' = "select"
  /\ UNCHANGED <<setup, main, read, remaining, n, ram>>

SelectFlash ==
  /\ pc = "select" /\ SettingUp
  /\ Select
  /\ phase' = "command"
  /\ pc' = IF Transactions[step].op = "NONE" THEN "reply" ELSE "opcode"
  /\ UNCHANGED <<setup, main, nbytes, transfer, ram, fifos, trans>>

\* A plausible bug: the transmission stays inhibited.
StartTransferInhibited(bytes) ==
  /\ remaining' = bytes
  /\ pc' = "batch"
  /\ UNCHANGED <<setup, main, n, owed, ram, fifos, trans, cs, flash>>

\* spi_transfer's entry: start_transmission.
StartTransfer(bytes) ==
  /\ remaining' = bytes
  /\ trans' = "running"
  /\ pc' = "batch"
  /\ UNCHANGED <<setup, main, n, owed, ram, fifos, cs, flash>>

SendOpcode == /\ pc = "opcode"
              /\ UNCHANGED read
              /\ StartTransfer(1)

Replied == phase = "reply" \/ Transactions[step].reply = 0

ReadReply == /\ pc = "reply" /\ ~Replied
             /\ phase' = "reply"
             /\ UNCHANGED nbytes
             /\ StartTransfer(Transactions[step].reply)

EndTransaction ==
  /\ pc = "reply" /\ Replied
  /\ Unselect
  /\ step' = step + 1
  /\ pc' = "select"
  /\ UNCHANGED <<recv, pageSize, main, read, transfer, ram, fifos, trans>>

\* main stays in error_loop when no entry has the identification read.
Identify ==
  /\ pc = "select" /\ ~SettingUp
  /\ LET found == {k \in DOMAIN FlashTypes : FlashTypes[k].id = recv}
     IN  \/ /\ found = {} /\ pc' = "error" /\ UNCHANGED pageSize
         \/ \E k \in found : /\ \A j \in found : k <= j
                             /\ pageSize' = FlashTypes[k].page_size
                             /\ pc' = "chunk"
  /\ UNCHANGED <<step, recv, main, read, transfer, ram, fifos, trans, cs, flash>>
------------------------------------------------------------------------------
(* main and spi_flash_read.  spi_transfer never fails, so neither does      *)
(* spi_flash_read, whose result main ignores.                               *)

\* main: the next chunk; spi_flash_read selects the flash.
ReadChunk ==
  /\ pc = "chunk" /\ len > 0
  /\ nbytes' = Lesser(len, ChunkSize)
  /\ Select
  /\ pc' = "command"
  /\ UNCHANGED <<setup, main, phase, transfer, ram, fifos, trans>>

\* main: the image is copied, jump to it.
Go == /\ pc = "chunk" /\ len = 0
      /\ pc' = "go"
      /\ UNCHANGED <<setup, main, read, transfer, ram, fifos, trans, cs, flash>>

SendCommand == /\ pc = "command"
               /\ phase' = "command"
               /\ UNCHANGED nbytes
               /\ StartTransfer(OpLen)

\* A plausible bug: the length of the last page is not cut to the chunk.
PageUncut == /\ pc = "page" /\ nbytes > 0
             /\ phase' = "data"
             /\ nbytes' = nbytes - Lesser(nbytes, pageSize)
             /\ StartTransfer(pageSize)

ReadPage == /\ pc = "page" /\ nbytes > 0
            /\ LET size == Lesser(nbytes, pageSize)
               IN  /\ phase' = "data"
                   /\ nbytes' = nbytes - size
                   /\ StartTransfer(size)

\* spi_flash_read unselects the flash and returns; main advances by a chunk.
EndChunk == /\ pc = "page" /\ nbytes = 0
            /\ Unselect
            /\ LET size == Lesser(len, ChunkSize)
               IN  len' = len - size /\ addr' = addr + size
            /\ pc' = "chunk"
            /\ UNCHANGED <<setup, read, transfer, ram, fifos, trans>>
------------------------------------------------------------------------------
(* spi_transfer moves all of a transfer, a FIFO-full of bytes at a time.    *)

\* The TFO register reads one less than the occupancy, and 0 when empty.
TxVacancy == FifoDepth - (IF tx = <<>> THEN 0 ELSE Len(tx) - 1)

StartBatch ==
  /\ pc = "batch" /\ remaining > 0
  /\ n' = Lesser(TxVacancy, remaining)
  /\ remaining' = remaining - n'
  /\ owed' = owed + n'
  /\ pc' = "fill"
  /\ UNCHANGED <<setup, main, read, ram, fifos, trans, cs, flash>>

\* Command bytes carry the opcode and the 24-bit address, the others are zero.
TxByte ==
  CASE phase # "command" -> Zero
    [] phase = "command" /\ SettingUp ->
         [op |-> Transactions[step].op, addr |-> 0]
    [] OTHER -> [op |-> "FAST_READ", addr |-> addr % AddrSpace]

FillTx ==
  /\ pc = "fill" /\ n > 0
  /\ IF Len(tx) < FifoDepth
       THEN tx' = Append(tx, TxByte) /\ UNCHANGED lost
       ELSE lost' = lost \union {"tx"} /\ UNCHANGED tx
  /\ n' = n - 1
  /\ UNCHANGED <<pc, setup, main, read, remaining, owed, ram, rx, shift,
                 trans, cs, flash>>

Filled == /\ pc = "fill" /\ n = 0
          /\ pc' = "poll"
          /\ UNCHANGED <<setup, main, read, transfer, ram, fifos, trans, cs, flash>>

\* A plausible bug: the next batch is begun while the last one is going out.
PollTxEarly == /\ pc = "poll"
               /\ pc' = IF remaining > 0 THEN "batch" ELSE IF tx # <<>> THEN "pop" ELSE "rest"
               /\ UNCHANGED <<setup, main, read, transfer, ram, fifos, trans, cs, flash>>

\* while(!get_tx_fifo_empty(inst)): drain, or look for the next batch.
PollTx == /\ pc = "poll"
          /\ pc' = IF tx # <<>> THEN "pop"
                   ELSE IF remaining > 0 THEN "batch" ELSE "rest"
          /\ UNCHANGED <<setup, main, read, transfer, ram, fifos, trans, cs, flash>>

\* pop_rx_fifo, called with back as the place to return to.
PopRx(back) ==
  /\ pc' = back
  /\ IF rx = <<>>
       THEN UNCHANGED <<rx, owed, ram, recv>>
       ELSE /\ rx' = Tail(rx)
            /\ owed' = owed - 1
            /\ ram' = IF phase = "data" THEN Append(ram, Head(rx)) ELSE ram
            /\ recv' = IF phase = "reply" THEN Append(recv, Head(rx)) ELSE recv
  /\ UNCHANGED <<step, pageSize, main, read, remaining, n, tx, shift, lost,
                 trans, cs, flash>>

PopWhileSending == pc = "pop" /\ PopRx("poll")

\* while(rx_bytes != tx_bytes)
PopRest == pc = "rest" /\ owed # 0 /\ PopRx("rest")

\* A plausible bug: the bytes still on their way are not awaited.
EndTransferEarly ==
  /\ pc = "rest"
  /\ trans' = "inhibited"
  /\ pc' = IF SettingUp THEN "reply" ELSE "page"
  /\ UNCHANGED <<setup, main, read, transfer, ram, fifos, cs, flash>>

\* stop_transmission, and the return to the caller.
EndTransfer ==
  /\ pc = "rest" /\ owed = 0
  /\ trans' = "inhibited"
  /\ pc' = IF SettingUp THEN "reply" ELSE "page"
  /\ UNCHANGED <<setup, main, read, transfer, ram, fifos, cs, flash>>
------------------------------------------------------------------------------
(* The SPI controller and the flash (external).                             *)

\* The controller takes the next byte out of the TX FIFO.
LoadShift == /\ trans = "running" /\ shift = <<>> /\ tx # <<>>
             /\ shift' = <<Head(tx)>> /\ tx' = Tail(tx)
             /\ UNCHANGED <<pc, setup, main, read, transfer, ram, rx, lost,
                            trans, cs, flash>>

CommandLen == IF op = "FAST_READ" THEN OpLen ELSE 1
InCommand == cmdLen = 0 \/ cmdLen < CommandLen

\* What the flash drives: once it has the command, its identification or its
\* contents, if it is selected and not in some other mode.
Answers == ~InCommand /\ mode = "clean" /\ cs # "high"

Answer == CASE Answers /\ op = "FAST_READ" -> pos
            [] Answers /\ op = "RDID" /\ pos \in DOMAIN id -> id[pos]
            [] OTHER -> Junk

\* A byte went out and one came in; a full RX FIFO drops it.  The flash
\* latches the address with the last command byte.
Exchange ==
  /\ shift # <<>>
  /\ shift' = <<>>
  /\ LET out == Head(shift)
     IN  /\ op' = IF cmdLen = 0 THEN out.op ELSE op
         /\ cmdLen' = IF InCommand THEN cmdLen + 1 ELSE cmdLen
         /\ pos' = CASE ~InCommand -> pos + 1
                     [] InCommand /\ op' = "FAST_READ" -> out.addr
                     [] OTHER -> 1
  /\ IF Len(rx) < FifoDepth
       THEN rx' = Append(rx, Answer) /\ UNCHANGED lost
       ELSE lost' = lost \union {"rx"} /\ UNCHANGED rx
  /\ UNCHANGED <<pc, setup, main, read, transfer, ram, tx, trans, cs, id, mode>>
------------------------------------------------------------------------------
Processor == \/ InitSpi \/ SelectFlash \/ SendOpcode \/ ReadReply
             \/ EndTransaction \/ Identify
             \/ ReadChunk \/ Go \/ SendCommand \/ ReadPage \/ EndChunk
             \/ StartBatch \/ FillTx \/ Filled \/ PollTx
             \/ PopWhileSending \/ PopRest \/ EndTransfer

Next == Processor \/ LoadShift \/ Exchange

\* The boot loader never gives up the processor, and the controller keeps
\* shifting while it is not inhibited.
Fairness == WF_vars(Processor) /\ WF_vars(LoadShift) /\ WF_vars(Exchange)

Spec == Init /\ [][Next]_vars /\ Fairness
------------------------------------------------------------------------------
Places == {"start", "select", "opcode", "reply", "error", "chunk", "command",
           "page", "batch", "fill", "poll", "pop", "rest", "go"}

InByte == Nat \union {Junk}

TypeOK ==
  /\ pc \in Places
  /\ step \in 1 .. Len(Transactions) + 1 /\ recv \in Seq(InByte) /\ pageSize \in Nat
  /\ len \in Nat /\ addr \in Nat /\ nbytes \in Nat
  /\ phase \in {"command", "reply", "data"}
  /\ remaining \in Nat /\ n \in Nat /\ owed \in Int
  /\ ram \in Seq(InByte)
  /\ tx \in Seq(OutByte) /\ rx \in Seq(InByte) /\ shift \in Seq(OutByte)
  /\ lost \subseteq {"tx", "rx"}
  /\ trans \in {"inhibited", "running"} /\ cs \in {"high", "low"}
  /\ id \in Seq(Nat) /\ mode \in {"dirty", "enabled", "clean"}
  /\ op \in Ops /\ cmdLen \in Nat /\ pos \in Nat

Transferring == pc \in {"batch", "fill", "poll", "pop", "rest"}

(* A byte was dropped at the full RX FIFO, in a page that does not fit it:  *)
(* more is awaited than can still come, and the transfer never ends.        *)
Starving ==
  /\ lost = {"rx"} /\ phase = "data" /\ pageSize > FifoDepth
  /\ Transferring
  /\ owed > n + Len(tx) + Len(shift) + Len(rx)

(* Every byte spi_transfer still waits for is in the controller or about    *)
(* to be written to it, unless one was lost; outside a transfer the         *)
(* controller is empty.  A batch starts with the TX FIFO empty, where TFO   *)
(* tells the vacancy, and fits into it.                                     *)
Accounting ==
  /\ (lost = {} /\ owed = n + Len(tx) + Len(shift) + Len(rx)) \/ Starving
  /\ Len(shift) <= 1
  /\ n + Len(tx) <= FifoDepth
  /\ pc \notin {"fill"} => n = 0
  /\ ~Transferring => owed = 0 /\ remaining = 0
  /\ pc = "batch" => tx = <<>>
  /\ pc = "rest" => tx = <<>> /\ remaining = 0

(* With pages and commands that fit the FIFO, a batch is a whole transfer.  *)
OneBatch ==
  phase # "data" \/ pageSize <= FifoDepth =>
    /\ owed + remaining <= FifoDepth
    /\ pc \notin {"batch"} => remaining = 0
    /\ pc = "batch" => owed = 0

(* The flash is being set up exactly while its transactions are not done,   *)
(* and is read by pages of the size found for it.                           *)
Setup ==
  /\ pc = "start" => n = 0 /\ remaining = 0
  /\ pc \in {"opcode", "reply"} => SettingUp
  /\ pc \in {"chunk", "command", "page", "error", "go"} => ~SettingUp

\* Before init_spi, the controller holds what an earlier run left.
Accounted == TypeOK /\ Setup /\ (pc # "start" => Accounting /\ OneBatch)

ReadingChunk == ~SettingUp /\ (Transferring \/ pc = "page")

(* All that goes out in a transfer is alike, to a flash that is selected.   *)
Sending ==
  /\ Transferring => tx \in Seq({TxByte}) /\ shift \in Seq({TxByte})
  /\ Transferring \/ pc \in {"opcode", "reply", "command", "page"} => cs = "low"

(* What the flash has of a command and what is still on its way make up     *)
(* the command; when the flash has all of it, it is ready to answer.        *)
CommandOp == IF SettingUp THEN Transactions[step].op ELSE "FAST_READ"
CommandBytes ==
  IF ~SettingUp THEN OpLen ELSE IF CommandOp = "NONE" THEN 0 ELSE 1

OnItsWay == n + Len(tx) + Len(shift) + remaining

Commanded ==
  /\ cmdLen + OnItsWay = CommandBytes
  /\ op = IF cmdLen = 0 THEN "NONE" ELSE CommandOp
  /\ cmdLen # 0 => pos = IF CommandOp = "FAST_READ" THEN addr ELSE 1

Commanding ==
  /\ pc \in {"opcode", "command"} => op = "NONE" /\ cmdLen = 0
  /\ pc = "opcode" => phase = "command" /\ CommandOp # "NONE"
  /\ (Transferring \/ pc \in {"reply", "page"}) /\ phase = "command" => Commanded

(* The reset takes effect because it was enabled; then the flash answers.   *)
Reset ==
  /\ pc = "start" => step = 1
  /\ step = 4 => mode # "dirty"
  /\ step > 4 => mode = "clean"

\* q is what comes in contents behind its first k bytes.
Follows(q, k, contents) == \A i \in 1 .. Len(q) : q[i] = contents[k + i]

(* The reply is the identification of the flash from its first byte on:     *)
(* what was received, what is in the RX FIFO, and what the flash sends next.*)
Identifying ==
  /\ step = 5 /\ (Transferring \/ pc = "reply")
  /\ op = "RDID" /\ cmdLen = 1
  /\ pos = 1 + Len(recv) + Len(rx)
  /\ Follows(rx, Len(recv), id)
  /\ Len(recv) + owed + remaining = 3

Replying ==
  /\ Len(id) = 3
  /\ Follows(recv, 0, id)
  /\ SettingUp /\ phase = "command" => recv = <<>>
  /\ SettingUp /\ phase = "reply" => Identifying
  /\ ~SettingUp => recv = id

(* RAM has all chunks read before; in a chunk, RAM, the RX FIFO and what    *)
(* the flash sends next follow on each other, and what is still to be asked *)
(* for and what is on its way complete the chunk.                           *)
Image == [i \in Nat |-> FlashStart + i - 1]

Streaming ==
  /\ op = "FAST_READ" /\ cmdLen = OpLen
  /\ pos = FlashStart + Len(ram) + Len(rx)
  /\ Follows(rx, Len(ram), Image)

Coming == IF phase = "data" THEN owed + remaining ELSE 0

Reading ==
  /\ Follows(ram, 0, Image)
  /\ SettingUp => phase # "data" /\ len = ImageLen
  /\ len <= ImageLen /\ addr = FlashStart + (ImageLen - len)
  /\ ~ReadingChunk \/ phase = "command" => Len(ram) = ImageLen - len
  /\ pc = "command" => len > 0 /\ nbytes = Lesser(len, ChunkSize)
  /\ pc = "go" => len = 0
  /\ ReadingChunk =>
       /\ len > 0 /\ phase # "reply"
       /\ Len(ram) + Coming + nbytes = ImageLen - len + Lesser(len, ChunkSize)
       /\ phase = "data" => Streaming

\* What flash, FIFOs and RAM hold.
Contents == Sending /\ Commanding /\ Reset /\ Replying /\ Reading

IInv == Accounted /\ (Starving \/ Contents)

(* No byte is dropped at a full FIFO: TFO's off-by-one never lets the       *)
(* driver write into a full TX FIFO, whatever the size of a page, and the   *)
(* bytes that arrive while it fills the TX FIFO have room in the RX FIFO,   *)
(* as long as a page fits it.                                               *)
NoByteLost == pc # "start" =>
  /\ "tx" \notin lost
  /\ pageSize <= FifoDepth => "rx" \notin lost

(* What is in RAM is the image, from its first byte on, without a gap, a    *)
(* repetition or a byte of the command phase, until a byte is dropped.      *)
(* Whatever was dropped, main never jumps to an image that is not complete. *)
RamHoldsImage ==
  /\ lost = {} \/ pc = "go" => \A i \in 1 .. Len(ram) : ram[i] = FlashStart + i - 1
  /\ pc = "go" => Len(ram) = ImageLen

(* Whatever controller and flash were doing when the boot loader started,   *)
(* the identification it reads is that of the flash: it goes on with the    *)
(* page size of this flash, and gives up only on a flash it does not know.  *)
IdentifiesFlash ==
  /\ pageSize # 0 => \E k \in DOMAIN FlashTypes :
                       FlashTypes[k] = [id |-> id, page_size |-> pageSize]
  /\ pc = "error" => \A k \in DOMAIN FlashTypes : FlashTypes[k].id # id

(* With a flash it knows, the boot loader reaches the jump to the image     *)
(* (spi.c:203: "There might still be data in the rx fifo and arrive after   *)
(* we leave the loop above"); only a byte that was dropped, which NoByteLost *)
(* limits to pages longer than the FIFO, may keep it from it.               *)
ReachesImage ==
  (\E k \in DOMAIN FlashTypes : FlashTypes[k].id = id) => <>(pc = "go" \/ (pc # "start" /\ lost # {}))
==============================================================================
