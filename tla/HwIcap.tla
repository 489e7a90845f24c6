------------------------------- MODULE HwIcap -------------------------------
(***************************************************************************)
(* The HWICAP driver of dfx-demo-icap (drivers/icap/xhwicap*.c), with the   *)
(* device it drives: initialisation, DeviceWrite in polled and interrupt    *)
(* mode, the interrupt handler, DeviceRead, GetConfigReg, the functions that *)
(* read and write a frame, and the commands.                                *)
(*                                                                         *)
(* One thread calls the driver and the handler interrupts it; each step of *)
(* either makes at most one device access.  The FIFO holds the positions of *)
(* the words in the buffer that is written; the words themselves            *)
(* (HwIcapPackets) act on the configuration port when they leave it.  Those *)
(* read back are only valid or void.                                        *)
(***************************************************************************)
EXTENDS HwIcapPackets

CONSTANTS
  FifoDepth,   \* words each FIFO holds
  WriteSizes,  \* NumWords a client passes to DeviceWrite
  Addresses,   \* frame addresses a client passes to the frame functions
  DeviceCodes, \* where the IDCODE of the device may be listed
  MaxRetries   \* XHI_MAX_RETRIES

ASSUME DepthAssumption == FifoDepth \in Nat \ {0}
ASSUME WordsAssumption == WriteSizes \subseteq Nat \ {0}
ASSUME RetriesAssumption == MaxRetries \in Nat
ASSUME AddressAssumption ==
  Addresses \subseteq [block : Int, top : Int, row : Int, column : Int, minor : Int]
ASSUME CodeAssumption == DeviceCodes \subseteq Families \X Nat

VARIABLES
  pc,          \* where the thread is
  task,        \* the call the thread is in
  retries,     \* EosRetries, Retries
  vacancy,     \* DeviceWrite: WrFifoVacancy
  hpc,         \* where the interrupt handler is, "none" when it is not running
  hvacancy,    \* IntrHandler: WrFifoVacancy
  isReady, inProgress, polled,   \* IsReady, IsTransferInProgress, IsPolled
  requested, remaining,          \* RequestedWords, RemainingWords
  sendBuffer,  \* the buffer SendBufferPtr points into
  deviceFamily, deviceIdCode,    \* DeviceFamily, DeviceIdCode
  frame,       \* the arguments of a frame function
  saved,       \* the bits FlushFifo, Reset or SelfTest read and write back
  torn,        \* (history) the port took a part of a call that gave up, or is to
               \* take words of an array that is gone: it is not followed further
  regData,     \* the last word DeviceRead stored
  occupancy,   \* DeviceRead: RdFifoOccupancy
  wfifo,       \* the device: its write FIFO
  rfifo,       \*   its read FIFO
  size,        \*   the words it still has to read back
  cr,          \*   the bits READ and WRITE of the control register
  eos,         \*   the end-of-startup bit of the status register
  gie, ier, isr,  \* the global enable, and the WRP enable and status bits
  port,        \*   the configuration port
  icap,        \* the words the port has taken since a write was accepted
  called       \* the callbacks since then

thread == <<pc, task, retries, vacancy>>
handler == <<hpc, hvacancy>>
driver == <<isReady, inProgress, polled, requested, remaining>>
reading == <<regData, occupancy, rfifo, size>>
intr == <<gie, ier, isr>>
device == <<wfifo, cr, icap, port>>
client == <<deviceFamily, deviceIdCode, frame, saved, torn>>
other == <<eos, sendBuffer, client>>
vars == <<thread, handler, driver, reading, intr, device, other, called>>

Init ==
  /\ pc = "start" /\ task = "none" /\ retries = 0 /\ vacancy = 0
  /\ hpc = "none" /\ hvacancy = 0
  /\ isReady = FALSE /\ inProgress = FALSE /\ polled = TRUE
  /\ requested = 0 /\ remaining = 0
  /\ regData = "void" /\ occupancy = 0 /\ rfifo = <<>> /\ size = 0
  /\ wfifo = <<>> /\ cr = {} /\ icap = <<>> /\ called = 0
  /\ eos \in BOOLEAN /\ port = Closed
  /\ sendBuffer = <<>> /\ deviceFamily = "none" /\ frame \in Addresses
  /\ deviceIdCode \in {0, IdCode}   \* never assigned
  /\ saved = {} /\ torn = FALSE
  /\ gie = FALSE /\ ier = FALSE /\ isr = FALSE

\* XHwIcap_IsDeviceBusy: the DONE bit of the status register.
Busy == cr # {}

\* The thread runs only while the handler does not.
At(place) == pc = place /\ hpc = "none"
------------------------------------------------------------------------------
(* XHwIcap_CfgInitialize: read the IDCODE twice, desynchronise, reset.      *)

CfgInitialize ==
  /\ At("start")
  /\ isReady' = TRUE /\ inProgress' = FALSE /\ polled' = TRUE
  /\ pc' = "eos" /\ task' = "dummy_id" /\ retries' = 0
  /\ UNCHANGED <<vacancy, handler, requested, remaining, reading, intr,
                 device, other, called>>

\* A client reads a configuration register (main.c: the IDCODE).
GetConfigReg ==
  /\ At("idle")
  /\ pc' = "eos" /\ task' = "get_reg" /\ retries' = 0
  /\ UNCHANGED <<vacancy, handler, driver, reading, intr, device, other, called>>

\* GetConfigReg polls the end-of-startup bit.
PollEos ==
  /\ At("eos")
  /\ \/ eos /\ pc' = "write" /\ UNCHANGED <<retries, isReady>>
     \/ ~eos /\ retries < MaxRetries /\ retries' = retries + 1
        /\ UNCHANGED <<pc, isReady>>
     \/ /\ ~eos /\ retries >= MaxRetries
        /\ pc' = IF task = "get_reg" THEN "idle" ELSE "failed"
        /\ isReady' = (task = "get_reg")
        /\ UNCHANGED retries
  /\ UNCHANGED <<task, vacancy, handler, inProgress, polled, requested,
                 remaining, reading, intr, device, other, called>>

\* The end of CfgInitialize, which calls Reset.
Initialised ==
  /\ At("initialised")
  /\ isReady' = TRUE
  /\ \E code \in DeviceCodes : deviceFamily' = FindDeviceType(code)
  /\ pc' = "reset"
  /\ UNCHANGED <<task, retries, vacancy, handler, inProgress, polled, requested,
                 remaining, reading, intr, device, eos, sendBuffer, deviceIdCode,
                 frame, saved, torn, called>>

\* A client resets the device.
CallReset ==
  /\ At("idle") /\ ~inProgress
  /\ pc' = "reset" /\ task' = "reset"
  /\ UNCHANGED <<retries, vacancy, handler, driver, reading, intr, device, other,
                 called>>

\* Reset reads CR, pulses the reset, which clears the registers and the FIFOs
\* but not the driver's IsPolled, and writes back what it has read.
Reset ==
  /\ At("reset")
  /\ saved' = cr /\ pc' = "in_reset"
  /\ UNCHANGED <<task, retries, vacancy, handler, driver, reading, intr, device, eos,
                 sendBuffer, deviceFamily, deviceIdCode, frame, torn, called>>

SwReset ==
  /\ At("in_reset")
  /\ wfifo' = <<>> /\ rfifo' = <<>> /\ cr' = {} /\ size' = 0
  /\ gie' = FALSE /\ ier' = FALSE /\ isr' = FALSE
  /\ torn' = (torn \/ wfifo # <<>>)
  /\ pc' = "flushed"
  /\ UNCHANGED <<task, retries, vacancy, handler, driver, regData, occupancy, port,
                 icap, eos, sendBuffer, deviceFamily, deviceIdCode, frame, saved,
                 called>>
------------------------------------------------------------------------------
(* XHwIcap_DeviceWrite.                                                     *)

\* A client writes a buffer or sends a command.
Write ==
  /\ At("idle")
  /\ pc' = "write" /\ task' \in {"write", "command_desync", "capture"}
  /\ UNCHANGED <<retries, vacancy, handler, driver, reading, intr, device,
                 other, called>>

\* DeviceReadFrame: without a family there is no length, and nothing is sent.
ReadFrame ==
  /\ At("idle") /\ deviceFamily # "none"
  /\ pc' = "write" /\ task' = "read_frame" /\ frame' \in Addresses
  /\ UNCHANGED <<retries, vacancy, handler, driver, reading, intr, device, eos,
                 sendBuffer, deviceFamily, deviceIdCode, saved, torn, called>>

WriteFrame ==
  /\ At("idle")
  /\ pc' = "write" /\ task' = "write_frame" /\ frame' \in Addresses
  /\ UNCHANGED <<retries, vacancy, handler, driver, reading, intr, device, eos,
                 sendBuffer, deviceFamily, deviceIdCode, saved, torn, called>>

\* What the call passes to DeviceWrite.  Of a bitstream only its length is kept.
Buffers ==
  CASE task = "write" -> {[i \in 1..words |-> 0] : words \in WriteSizes}
    [] task \in {"dummy_id", "idcode", "get_reg"} -> {ConfigRegRead(Register.IDCODE)}
    [] task = "capture" -> {CommandCapture}
    [] task = "read_frame" -> {ReadFrameHeader(deviceFamily, frame)}
    [] task = "write_frame" -> {WriteFrameHeader(deviceIdCode, frame)}
    [] task = "frame" -> {Frame}
    [] task = "pad" -> {Pad}
    [] task = "park" -> {ParkFar}
    [] OTHER -> {CommandDesync}

\* A client selects how the next buffer is written.

IntrEnable ==
  /\ At("idle") /\ ~inProgress
  /\ ier' = TRUE /\ polled' = FALSE
  /\ UNCHANGED <<thread, handler, isReady, inProgress, requested, remaining,
                 reading, gie, isr, device, other, called>>

IntrDisable ==
  /\ At("idle") /\ ~inProgress
  /\ ier' = FALSE /\ polled' = TRUE
  /\ UNCHANGED <<thread, handler, isReady, inProgress, requested, remaining,
                 reading, gie, isr, device, other, called>>

\* A client runs XHwIcap_SelfTest: GIER and IPIER are saved and cleared, other
\* interrupts are enabled, then both are restored.  Each of the macros it uses
\* also sets IsPolled.
SelfTest ==
  /\ At("idle") /\ ~inProgress
  /\ saved' = {bit \in {"GIE", "WRP"} : IF bit = "GIE" THEN gie ELSE ier}
  /\ gie' = FALSE /\ ier' = FALSE /\ polled' = TRUE
  /\ pc' = "self_test"
  /\ UNCHANGED <<task, retries, vacancy, handler, isReady, inProgress, requested,
                 remaining, reading, isr, device, eos, sendBuffer, deviceFamily,
                 deviceIdCode, frame, torn, called>>

TestEnables ==
  /\ At("self_test")
  /\ polled' = FALSE
  /\ pc' = "tested"
  /\ UNCHANGED <<task, retries, vacancy, handler, isReady, inProgress, requested,
                 remaining, reading, intr, device, other, called>>

TestRestores ==
  /\ At("tested")
  /\ gie' = ("GIE" \in saved) /\ ier' = ("WRP" \in saved)
  /\ polled' = ("WRP" \notin saved)
  /\ saved' = {} /\ pc' = "idle"
  /\ UNCHANGED <<task, retries, vacancy, handler, isReady, inProgress, requested,
                 remaining, reading, isr, device, eos, sendBuffer, deviceFamily,
                 deviceIdCode, frame, torn, called>>

\* The steps of CfgInitialize, the calls that read, and the steps of WriteFrame.
Initialising == task \in {"dummy_id", "idcode", "desync"}
Reads == task \in {"dummy_id", "idcode", "get_reg", "read_frame"}
FollowedBy == [t \in {"write_frame", "frame", "pad", "park"} |->
                 CASE t = "write_frame" -> "frame" [] t = "frame" -> "pad"
                   [] t = "pad" -> "park" [] t = "park" -> "end_write"]
\* The steps that leave the port in the middle of something when they fail.
Midway == task \in {"frame", "pad", "park", "end_write", "end_read"}

\* FlushFifo reads CR, clears the FIFOs and writes back what it has read.
FlushFifo ==
  /\ At("idle") /\ ~inProgress
  /\ saved' = cr /\ pc' = "flush"
  /\ UNCHANGED <<task, retries, vacancy, handler, driver, reading, intr, device, eos,
                 sendBuffer, deviceFamily, deviceIdCode, frame, torn, called>>

FifoClear ==
  /\ At("flush")
  /\ wfifo' = <<>> /\ rfifo' = <<>> /\ cr' = saved
  /\ torn' = (torn \/ wfifo # <<>>)
  /\ pc' = "flushed"
  /\ UNCHANGED <<task, retries, vacancy, handler, driver, regData, occupancy, size,
                 intr, port, icap, eos, sendBuffer, deviceFamily, deviceIdCode,
                 frame, saved, called>>

\* The end of FlushFifo and of Reset.
Flushed ==
  /\ At("flushed")
  /\ cr' = saved /\ saved' = {} /\ pc' = "idle"
  /\ UNCHANGED <<task, retries, vacancy, handler, driver, reading, intr, wfifo,
                 port, icap, eos, sendBuffer, deviceFamily, deviceIdCode, frame,
                 torn, called>>

\* The commands whose words are in an array of the function that sends them, and
\* gone when it returns: what the handler still sends of them is undefined.
SentFromStack == task \in {"capture", "command_desync", "end_read", "end_write"}

\* What the callers of DeviceWrite do with its result.
WriteReturns(ok) ==
  /\ pc' = CASE ~ok -> IF Initialising THEN "failed" ELSE "idle"
             [] ok /\ Reads -> "busy"
             [] ok /\ task = "desync" -> "initialised"
             [] ok /\ task \in DOMAIN FollowedBy -> "write"
             [] OTHER -> "idle"
  /\ task' = CASE ~ok -> "none"
               [] ok /\ task \in DOMAIN FollowedBy -> FollowedBy[task]
               [] OTHER -> task
  /\ isReady' = (isReady /\ (Initialising => ok /\ task # "desync"))
  /\ torn' = (torn \/ (~ok /\ Midway) \/ (ok /\ SentFromStack /\ remaining > 0))

\* The last transfer must be over in the driver and in the device.
Refuse ==
  /\ At("write")
  /\ inProgress \/ Busy
  /\ WriteReturns(FALSE)
  /\ UNCHANGED <<retries, vacancy, handler, inProgress, polled, requested,
                 remaining, reading, intr, device, eos, sendBuffer,
                 deviceFamily, deviceIdCode, frame, saved, called>>

\* A plausible bug: DeviceWrite looks at the device only.
AcceptUnchecked ==
  /\ At("write")
  /\ ~Busy
  /\ inProgress' = TRUE
  /\ gie' = FALSE
  /\ sendBuffer' \in Buffers
  /\ requested' = Len(sendBuffer') /\ remaining' = requested'
  /\ icap' = <<>> /\ called' = 0
  /\ pc' = "vacancy"
  /\ UNCHANGED <<task, retries, vacancy, handler, isReady, polled, reading,
                 ier, isr, wfifo, cr, port, eos, client>>

Accept ==
  /\ At("write")
  /\ ~inProgress /\ ~Busy
  /\ inProgress' = TRUE
  /\ gie' = FALSE
  /\ sendBuffer' \in Buffers
  /\ requested' = Len(sendBuffer') /\ remaining' = requested'
  /\ icap' = <<>> /\ called' = 0
  /\ pc' = "vacancy"
  /\ UNCHANGED <<task, retries, vacancy, handler, isReady, polled, reading,
                 ier, isr, wfifo, cr, port, eos, client>>

ReadVacancy ==
  /\ At("vacancy")
  /\ vacancy' = FifoDepth - Len(wfifo)
  /\ pc' = "fill"
  /\ UNCHANGED <<task, retries, handler, driver, reading, intr, device,
                 other, called>>

\* XHwIcap_FifoWrite(*SendBufferPtr++): the pointer follows RemainingWords.
FifoWrite ==
  /\ wfifo' = Append(wfifo, requested - remaining + 1)
  /\ remaining' = remaining - 1

Fill ==
  /\ At("fill") /\ vacancy # 0 /\ remaining > 0
  /\ FifoWrite
  /\ vacancy' = vacancy - 1
  /\ UNCHANGED <<pc, task, retries, handler, isReady, inProgress, polled,
                 requested, reading, intr, cr, port, icap, other, called>>

\* XHwIcap_StartConfig
StartConfig ==
  /\ At("fill") /\ (vacancy = 0 \/ remaining = 0)
  /\ cr' = {"WRITE"}
  /\ pc' = "wait"
  /\ UNCHANGED <<task, retries, vacancy, handler, driver, reading, intr, wfifo,
                 port, icap, other, called>>

\* A plausible bug: the device is not waited for.
WriteNotWaited == At("wait")

\* while (CR & XHI_CR_WRITE_MASK)
WriteWaited == At("wait") /\ "WRITE" \notin cr

WriteMore ==
  /\ WriteWaited /\ remaining > 0
  /\ pc' = IF polled THEN "vacancy" ELSE "clear"
  /\ UNCHANGED <<task, retries, vacancy, handler, driver, reading, intr, device,
                 other, called>>

\* A plausible bug: the flag is left set.
WriteDoneKeepsFlag ==
  /\ WriteWaited /\ remaining = 0
  /\ requested' = 0
  /\ WriteReturns(TRUE)
  /\ UNCHANGED <<retries, vacancy, handler, inProgress, polled, remaining,
                 reading, intr, device, eos, sendBuffer,
                 deviceFamily, deviceIdCode, frame, saved, called>>

WriteDone ==
  /\ WriteWaited /\ remaining = 0
  /\ inProgress' = FALSE /\ requested' = 0
  /\ WriteReturns(TRUE)
  /\ UNCHANGED <<retries, vacancy, handler, polled, remaining, reading,
                 intr, device, eos, sendBuffer,
                 deviceFamily, deviceIdCode, frame, saved, called>>

\* The rest is left to the handler: clear the status, enable interrupts.
ClearStatus ==
  /\ At("clear")
  /\ isr' = FALSE
  /\ pc' = "enable"
  /\ UNCHANGED <<task, retries, vacancy, handler, driver, reading, gie, ier,
                 device, other, called>>

GlobalEnable ==
  /\ At("enable")
  /\ gie' = TRUE
  /\ WriteReturns(TRUE)
  /\ UNCHANGED <<retries, vacancy, handler, inProgress, polled, requested,
                 remaining, reading, ier, isr, device, eos, sendBuffer,
                 deviceFamily, deviceIdCode, frame, saved, called>>
------------------------------------------------------------------------------
(* XHwIcap_IntrHandler.                                                     *)

Interrupt ==
  /\ hpc = "none" /\ gie /\ ier /\ isr
  /\ hpc' = IF remaining > 0 THEN "vacancy"
            ELSE IF requested # 0 THEN "disable" ELSE "clear"
  /\ UNCHANGED <<thread, hvacancy, driver, reading, intr, device, other, called>>

HandlerVacancy ==
  /\ hpc = "vacancy"
  /\ hvacancy' = FifoDepth - Len(wfifo)
  /\ hpc' = "fill"
  /\ UNCHANGED <<thread, driver, reading, intr, device, other, called>>

HandlerFill ==
  /\ hpc = "fill" /\ hvacancy # 0 /\ remaining > 0
  /\ FifoWrite
  /\ hvacancy' = hvacancy - 1
  /\ UNCHANGED <<thread, hpc, isReady, inProgress, polled, requested, reading,
                 intr, cr, port, icap, other, called>>

\* A plausible bug: the handler leaves the transfer of what it wrote to others.
HandlerNoStart ==
  /\ hpc = "fill" /\ (hvacancy = 0 \/ remaining = 0)
  /\ hpc' = "clear"
  /\ UNCHANGED <<thread, hvacancy, driver, reading, intr, cr, wfifo, port, icap, other,
                 called>>

HandlerStart ==
  /\ hpc = "fill" /\ (hvacancy = 0 \/ remaining = 0)
  /\ cr' = {"WRITE"}
  /\ hpc' = "clear"
  /\ UNCHANGED <<thread, hvacancy, driver, reading, intr, wfifo, port, icap, other,
                 called>>

\* A plausible bug: the interrupts stay enabled.
HandlerKeepsInterrupts ==
  /\ hpc = "disable"
  /\ inProgress' = FALSE
  /\ hpc' = "callback"
  /\ UNCHANGED <<thread, hvacancy, isReady, polled, requested, remaining,
                 reading, intr, device, other, called>>

\* No more data: disable interrupts, then the transfer is over.
HandlerDisable ==
  /\ hpc = "disable"
  /\ gie' = FALSE
  /\ inProgress' = FALSE
  /\ hpc' = "callback"
  /\ UNCHANGED <<thread, hvacancy, isReady, polled, requested, remaining,
                 reading, ier, isr, device, other, called>>

StatusHandler ==
  /\ hpc = "callback"
  /\ called' = called + 1
  /\ hpc' = "clear"
  /\ UNCHANGED <<thread, hvacancy, driver, reading, intr, device, other>>

HandlerReturns ==
  /\ hpc = "clear"
  /\ isr' = FALSE
  /\ hpc' = "none"
  /\ UNCHANGED <<thread, hvacancy, driver, reading, gie, ier, device, other,
                 called>>
------------------------------------------------------------------------------
(* The rest of GetConfigReg and DeviceReadFrame: wait for the device, then  *)
(* XHwIcap_DeviceRead.                                                      *)

AwaitDevice ==
  /\ At("busy") /\ ~Busy
  /\ pc' = "read"
  /\ UNCHANGED <<task, retries, vacancy, handler, driver, reading, intr, device,
                 other, called>>

\* GetConfigReg ignores the result; CfgInitialize reads twice and judges the
\* second word.  DeviceReadFrame ends with CommandDesync.
ReadReturns(ok) ==
  /\ pc' = CASE task = "dummy_id" -> "eos"
             [] task = "idcode" -> IF regData = "void" THEN "failed" ELSE "write"
             [] task = "read_frame" -> IF ok THEN "write" ELSE "idle"
             [] OTHER -> "idle"
  /\ task' = CASE task = "dummy_id" -> "idcode"
               [] task = "idcode" -> "desync"
               [] task = "read_frame" /\ ok -> "end_read"
               [] OTHER -> task
  /\ torn' = (torn \/ ~ok)
  /\ retries' = 0

ReadRefused ==
  /\ At("read") /\ (inProgress \/ Busy)
  /\ ReadReturns(FALSE)
  /\ UNCHANGED <<vacancy, handler, driver, reading, intr, device, eos, sendBuffer,
                 deviceFamily, deviceIdCode, frame, saved, called>>

StartReadBack ==
  /\ At("read") /\ ~inProgress /\ ~Busy
  /\ inProgress' = TRUE
  /\ requested' = IF task = "read_frame" THEN TotalWords(deviceFamily) ELSE 1
  /\ remaining' = requested' /\ size' = requested'
  /\ cr' = {"READ"}
  /\ retries' = 0 /\ occupancy' = 0
  /\ pc' = "reading"
  /\ UNCHANGED <<task, vacancy, handler, isReady, polled, regData, rfifo, intr,
                 wfifo, port, icap, other, called>>

\* The inner loop; giving up leaves it, with nothing to read, for the outer.
PollOccupancy ==
  /\ At("reading") /\ remaining > 0 /\ occupancy = 0
  /\ occupancy' = Len(rfifo)
  /\ retries' = IF retries <= MaxRetries THEN retries + 1 ELSE retries
  /\ UNCHANGED <<pc, task, vacancy, handler, driver, regData, rfifo, size, intr,
                 device, other, called>>

FifoRead ==
  /\ At("reading") /\ remaining > 0 /\ occupancy # 0
  /\ regData' = Head(rfifo) /\ rfifo' = Tail(rfifo)
  /\ remaining' = remaining - 1 /\ occupancy' = occupancy - 1
  /\ UNCHANGED <<thread, handler, isReady, inProgress, polled, requested, size,
                 intr, device, other, called>>

ReadDone ==
  /\ At("reading") /\ remaining = 0 /\ "READ" \notin cr
  /\ inProgress' = FALSE /\ requested' = 0
  /\ ReadReturns(TRUE)
  /\ UNCHANGED <<vacancy, handler, isReady, polled, remaining, reading, intr,
                 device, eos, sendBuffer, deviceFamily, deviceIdCode, frame, saved,
                 called>>
------------------------------------------------------------------------------
(* The device (external).  The WRP status follows the level of the FIFO: a  *)
(* status cleared while the FIFO is at most half full is set again, else    *)
(* no interrupt would follow DeviceWrite, which clears it when it is empty. *)

HalfEmpty == /\ ~isr /\ Len(wfifo) <= FifoDepth \div 2
             /\ isr' = TRUE
             /\ UNCHANGED <<thread, handler, driver, reading, gie, ier, device,
                            other, called>>

Drain == /\ "WRITE" \in cr /\ wfifo # <<>>
         /\ icap' = Append(icap, Head(wfifo)) /\ wfifo' = Tail(wfifo)
         /\ port' = IF torn THEN Closed ELSE Take(port, sendBuffer[Head(wfifo)])
         /\ UNCHANGED <<thread, handler, driver, reading, intr, cr, other, called>>

Drained == /\ "WRITE" \in cr /\ wfifo = <<>>
           /\ cr' = {}
           /\ UNCHANGED <<thread, handler, driver, reading, intr, wfifo, port, icap,
                          other, called>>

ReadBack == /\ "READ" \in cr /\ size > 0 /\ Len(rfifo) < FifoDepth
            /\ \E word \in IF task = "idcode" THEN {"valid", "void"} ELSE {"valid"} :
                 rfifo' = Append(rfifo, word)
            /\ size' = size - 1
            /\ port' = [port EXCEPT !.answer = IF @ > 0 THEN @ - 1 ELSE 0]
            /\ UNCHANGED <<thread, handler, driver, regData, occupancy, intr,
                           wfifo, cr, icap, other, called>>

ReadEnds == /\ "READ" \in cr /\ size = 0
            /\ cr' = {}
            /\ UNCHANGED <<thread, handler, driver, reading, intr, wfifo, port, icap,
                           other, called>>

StartedUp == /\ ~eos /\ eos' = TRUE
             /\ UNCHANGED <<thread, handler, driver, reading, intr, device, sendBuffer,
                            client, called>>
------------------------------------------------------------------------------
InDeviceWrite == Accept \/ ReadVacancy \/ Fill \/ StartConfig \/ WriteMore
                 \/ WriteDone \/ ClearStatus \/ GlobalEnable \/ Refuse

InDriver == CfgInitialize \/ PollEos \/ InDeviceWrite \/ Initialised \/ Reset \/ SwReset
            \/ AwaitDevice \/ TestEnables \/ TestRestores
            \/ ReadRefused \/ StartReadBack \/ FifoClear \/ Flushed
            \/ PollOccupancy \/ FifoRead \/ ReadDone

Client == GetConfigReg \/ Write \/ ReadFrame \/ WriteFrame \/ FlushFifo \/ CallReset
          \/ SelfTest \/ IntrEnable \/ IntrDisable

Handler == Interrupt \/ HandlerVacancy \/ HandlerFill \/ HandlerStart
           \/ HandlerDisable \/ StatusHandler \/ HandlerReturns

Device == HalfEmpty \/ Drain \/ Drained \/ ReadBack \/ ReadEnds
          \/ StartedUp

Next == InDriver \/ Client \/ Handler \/ Device

\* The thread and the handler are scheduled; the device writes what it has.
Fairness == /\ WF_vars(InDriver) /\ WF_vars(Handler)
            /\ WF_vars(HalfEmpty) /\ WF_vars(Drain \/ Drained) /\ WF_vars(ReadEnds)

Spec == Init /\ [][Next]_vars /\ Fairness

\* A device that also answers every read.
FairSpec == Spec /\ WF_vars(ReadBack)
------------------------------------------------------------------------------
\* Where neither the driver nor the handler is in a transfer.
Between == {"start", "initialised", "reset", "in_reset", "flush", "flushed", "self_test",
            "tested"}

PlacesOK ==
  /\ pc \in {"eos", "write", "vacancy", "fill", "wait", "clear", "enable", "busy", "read",
             "reading", "idle", "failed"} \cup Between
  /\ task \in {"none", "dummy_id", "idcode", "desync", "get_reg", "write", "capture",
                "command_desync", "read_frame", "end_read", "write_frame", "frame",
                "pad", "park", "end_write", "reset"}
  /\ hpc \in {"none", "vacancy", "fill", "disable", "callback", "clear"}
  /\ deviceFamily \in Families \cup {"none"} /\ deviceIdCode \in {0, IdCode}
  /\ frame \in Addresses

FlagsOK ==
  /\ isReady \in BOOLEAN /\ inProgress \in BOOLEAN /\ polled \in BOOLEAN
  /\ eos \in BOOLEAN /\ gie \in BOOLEAN /\ ier \in BOOLEAN /\ isr \in BOOLEAN
  /\ torn \in BOOLEAN

BitsOK ==
  /\ cr \in {{}, {"READ"}, {"WRITE"}} /\ saved \subseteq {"READ", "WRITE", "GIE", "WRP"}

CountsOK ==
  /\ retries \in Nat /\ vacancy \in Nat /\ hvacancy \in Nat /\ occupancy \in Nat
  /\ requested \in Nat /\ remaining \in Nat /\ size \in Nat /\ called \in Nat

WordsOK ==
  /\ sendBuffer \in Seq(Int) /\ wfifo \in Seq(Nat) /\ icap \in Seq(Nat)
  /\ regData \in {"valid", "void"} /\ rfifo \in Seq({"valid", "void"})

TypeOK == PlacesOK /\ FlagsOK /\ BitsOK /\ CountsOK /\ WordsOK

\* The words of the buffer that were given to the FIFO, in order.
Written == icap \o wfifo

(* Wherever the thread is interrupted, the port and the FIFO together hold a *)
(* prefix of the buffer: no word is lost, repeated, reordered, or written    *)
(* into a full FIFO on the stale vacancy either of them read.                *)
StreamInOrder ==
  /\ \A i \in DOMAIN Written : Written[i] = i
  /\ Len(wfifo) <= FifoDepth
  /\ inProgress /\ pc # "reading" => Len(Written) = requested - remaining

(* What protects a transfer from the next: words wait in the FIFO only while *)
(* they are being written or the device is busy with them.                   *)
FifoOwned ==
  /\ wfifo # <<>> => cr = {"WRITE"} \/ pc = "fill" \/ hpc = "fill"
  /\ ~inProgress => remaining = 0 /\ ~gie
  /\ pc = "fill" => vacancy <= FifoDepth - Len(wfifo)
  /\ hpc = "fill" => hvacancy <= FifoDepth - Len(wfifo)
  /\ pc \in {"vacancy", "fill", "wait", "clear", "enable", "reading"} =>
       inProgress /\ ~gie
  /\ pc \in {"vacancy", "clear", "enable"} => cr = {}
  /\ pc = "reading" => wfifo = <<>>
  /\ hpc \notin {"none", "callback", "clear"} => inProgress /\ gie
  /\ hpc = "callback" => ~inProgress
  /\ hpc \in {"disable", "callback"} => remaining = 0

(* What a call may rely on where it is: no transfer was left to the handler  *)
(* before a reset or while the driver initialises, nor in polled mode before *)
(* the next part of a call of several transfers, and what is written back    *)
(* starts nothing anew.                                                     *)
CallOwns ==
  /\ pc \in Between => ~inProgress
  /\ pc = "initialised" => task = "desync"
  /\ pc = "eos" => task \in {"dummy_id", "idcode", "get_reg"}
  /\ task = "read_frame" => deviceFamily # "none"
  /\ Initialising /\ pc \notin Between \cup {"idle"} => polled
  /\ pc \in {"clear", "enable"} => ~polled
  /\ polled /\ (pc \in {"busy", "read"} \/ (pc = "write" /\ Midway)) =>
       ~inProgress /\ cr = {}
  /\ pc \in {"in_reset", "flush", "flushed"} => saved \in {{}, {"WRITE"}}
  /\ pc \in {"self_test", "tested"} => "GIE" \notin saved
  /\ pc = "flushed" => wfifo = <<>>
  /\ cr = {"READ"} => pc = "reading"
  /\ pc = "reading" => cr # {"WRITE"} /\ occupancy <= Len(rfifo)
  /\ (inProgress /\ pc # "reading") \/ hpc = "callback" => called = 0
  /\ called <= 1

(* How far the port is in a buffer, when it has taken n words of it: it      *)
(* awaits the value of a register where a packet has announced one, else    *)
(* the next packet.                                                         *)
Awaits(register) == port.synced /\ port.owed = 1 /\ port.register = register

InDesync(n) ==
  /\ port.answer = 0
  /\ IF n = 1 /\ port.synced THEN Awaits(Register.CMD) ELSE port.owed = 0
  /\ n >= 2 => ~port.synced

InCapture(n) ==
  /\ port.answer = 0 /\ (n >= 2 => port.synced)
  /\ IF n = 4 THEN Awaits(Register.CMD) ELSE port.owed = 0

InConfigRead(n) ==
  /\ port.owed = 0 /\ (n >= 2 => port.synced)
  /\ port.answer = IF n < 5 THEN 0 ELSE 1

InReadHeader(n) ==
  /\ n >= 5 => port.synced
  /\ CASE n \in {7, 15} -> Awaits(Register.CMD)
       [] n = 18 -> Awaits(Register.FAR)
       [] OTHER -> port.owed = 0
  /\ port.answer = IF n < 21 THEN 0 ELSE TotalWords(deviceFamily)

InWriteHeader(n) ==
  /\ port.answer = 0 /\ (n >= 2 => port.synced)
  /\ CASE n \in {5, 13} -> Awaits(Register.CMD)
       [] n = 9 -> Awaits(Register.IDCODE)
       [] n = 11 -> Awaits(Register.FAR)
       [] n \geq 16 /\ n = Len(sendBuffer) -> port.owed = 2 * WordsPerFrame
       [] OTHER -> port.owed = 0
  /\ n >= 10 => port.matches = (deviceIdCode = IdCode)
  /\ n >= 12 => port.far = SetupFar(frame)
  /\ n >= 14 => port.writing
  /\ n >= 16 => port.register = Register.FDRI /\ port.loaded = 0

\* What the port has loaded after n words of data.
Loaded(n) ==
  IF deviceIdCode = IdCode THEN port.loaded = n /\ (n > 0 => port.at = SetupFar(frame))
  ELSE port.loaded = 0

InData(n) ==
  /\ port.synced /\ port.answer = 0 /\ port.owed = 2 * WordsPerFrame - n
  /\ port.owed > 0 => port.register = Register.FDRI
  /\ port.writing /\ port.matches = (deviceIdCode = IdCode) /\ port.far = SetupFar(frame)
  /\ Loaded(n)

InPark(n) ==
  /\ port.synced /\ port.answer = 0
  /\ CASE n \in {1, 7} -> Awaits(Register.CMD)
       [] n = 5 -> Awaits(Register.FAR)
       [] OTHER -> port.owed = 0
  /\ Loaded(2 * WordsPerFrame)

\* The part of a call of several transfers that is in the buffer; "whole" if
\* what is in it is all that the port is to take.
InWrite == {"vacancy", "fill", "wait", "clear", "enable"}
Part ==
  CASE pc \in InWrite \cup {"busy", "read"} /\ (Reads \/ task \in DOMAIN FollowedBy) -> task
    [] pc = "write" /\ task = "frame" -> "write_frame"
    [] pc = "write" /\ task = "pad" -> "frame"
    [] pc = "write" /\ task = "park" -> "pad"
    [] pc = "write" /\ task = "end_write" -> "park"
    [] pc = "reading" -> "answer"
    [] OTHER -> "whole"

Whole ==
  \/ sendBuffer = CommandDesync /\ InDesync(Len(icap))
  \/ sendBuffer = CommandCapture /\ InCapture(Len(icap))
  \/ /\ \A i \in DOMAIN sendBuffer : sendBuffer[i] = 0
     /\ port.owed = 0 /\ port.answer = 0
  \/ wfifo = <<>> /\ remaining = 0 /\ port.owed = 0 /\ port.answer = 0

(* What the port has taken of the call that is made: it is where the words   *)
(* sent so far have brought it, in the order in which the call sends them.   *)
PortFollows ==
  CASE Part = "write_frame" -> /\ sendBuffer = WriteFrameHeader(deviceIdCode, frame)
                               /\ InWriteHeader(Len(icap))
    [] Part = "frame" -> sendBuffer = Frame /\ InData(Len(icap))
    [] Part = "pad" -> sendBuffer = Pad /\ InData(WordsPerFrame + Len(icap))
    [] Part = "park" -> sendBuffer = ParkFar /\ InPark(Len(icap))
    [] Part = "read_frame" -> /\ sendBuffer = ReadFrameHeader(deviceFamily, frame)
                              /\ InReadHeader(Len(icap))
    [] Part \in {"dummy_id", "idcode", "get_reg"} ->
         sendBuffer = ConfigRegRead(Register.IDCODE) /\ InConfigRead(Len(icap))
    [] Part = "answer" -> port.owed = 0 /\ port.answer = size
    [] OTHER -> Whole

\* After the last part the port is closed; where it is not, the call is not over.
PortCloses ==
  /\ pc # "write" /\ task \in {"end_read", "end_write", "command_desync"} =>
       sendBuffer = CommandDesync /\ InDesync(Len(icap))
  /\ pc # "write" /\ task = "end_write" => Loaded(2 * WordsPerFrame)

\* Every word of the buffer is in the port, in the FIFO or still to be sent,
\* and every word that was asked for is read, in the FIFO or still to come.
WordsAccounted ==
  /\ IF pc = "reading" THEN ~torn => Len(icap) = Len(sendBuffer)
     ELSE ~torn => Len(Written) = Len(sendBuffer) - remaining
  /\ IF pc = "reading" THEN remaining = size + Len(rfifo) ELSE rfifo = <<>>

PortOK ==
  /\ port \in Ports
  /\ pc \in {"busy", "read", "reading"} => Reads

PortInv == PortOK /\ WordsAccounted /\ (~torn => PortFollows /\ PortCloses)

TransferInv == TypeOK /\ StreamInOrder /\ FifoOwned /\ CallOwns

IInv == TransferInv /\ PortInv

(* A write is accepted only when nothing of the last one is left, in the     *)
(* driver or in the FIFO, even though the handler finishes in the background.*)
WritesDoNotOverlap ==
  [][pc = "write" /\ pc' = "vacancy" => wfifo = <<>> /\ remaining = 0]_vars

(* DeviceWrite blocks in polled mode: when it clears the flag, the port has  *)
(* taken the whole buffer.                                                   *)
SuccessMeansWritten ==
  [][pc = "wait" /\ inProgress /\ ~inProgress' => Len(icap) = requested]_vars

(* The callback reports each transfer at most once, after its last word was  *)
(* given to the FIFO: not, as the comments on the flag and on the callback   *)
(* have it (xhwicap.c), after the last word has left the FIFO for the port.  *)
CalledOnce == called <= 1 /\ (called = 1 => remaining = 0 \/ pc = "reading")

(* WriteFrame reports success only when the port has loaded the frame and    *)
(* then the pad at the address that was asked for, unless the IDCODE it sent *)
(* was not that of the device: it is five transfers, and any of them may     *)
(* have been left to the handler.                                            *)
FrameIsWritten ==
  [][pc = "wait" /\ task = "end_write" /\ pc' = "idle" /\ ~torn =>
       IF deviceIdCode = IdCode
       THEN port.loaded = 2 * WordsPerFrame /\ port.at = SetupFar(frame)
       ELSE port.loaded = 0]_vars

(* A call is torn only in interrupt mode, where it gives up midway because a *)
(* transfer is still left to the handler, or returns while the handler has   *)
(* yet to send words of an array that is then gone; or by a client that      *)
(* flushes or resets what the port has not taken.                           *)
TornByOthers == [][torn' /\ ~torn => ~polled \/ pc \in {"flush", "in_reset"}]_vars

(* Between two calls the port waits for no word of a packet and holds no     *)
(* answer that was not read, and after a frame function or a desync it is    *)
(* closed: what a client sends next is not taken for the rest of the last    *)
(* call.  The exception is a call that is torn.                             *)
PortFreed ==
  /\ [](pc = "idle" /\ ~inProgress /\ ~Busy /\ wfifo = <<>> /\ ~torn =>
         /\ port.owed = 0 /\ port.answer = 0
         /\ task \in {"end_read", "end_write", "command_desync"} => ~port.synced)
  /\ TornByOthers

(* No transfer hangs, in either mode, if the device answers.  The exception  *)
(* is a transfer in interrupt mode after a Reset, which clears the interrupt *)
(* enable register behind IsPolled, so that no interrupt finishes it.        *)
TransferEnds == inProgress ~> (~inProgress \/ (~polled /\ ~ier))

(* xhwicap.c:518-520: DeviceRead returns XST_FAILURE if "there is a timeout".*)
DeviceReadReturns == pc = "reading" ~> pc # "reading"
==============================================================================
