# Formal models of the DFX target reference design

The repository holds one design, `src/dfx/avs-dfx-trd-aup15-2023.2/xa-tmp`
(written `B` below): an Artix UltraScale+ board whose MicroBlaze runs Linux and
swaps parts of the FPGA while the rest runs (dynamic function exchange, DFX).
This directory holds TLA+ modules of its parts that keep state, the configurations
TLC checks them with, and proofs that TLAPS checks. `PROJECT.json` lists the runs, the
theorems, the hazards and the source lines of every definition.

## 1. The system and its parts

```
 flash --SPI--> boot loader --copies--> U-Boot, Linux
                                          |
          u-dma-buf (kernel module) --- dfx-demo ------ registers ---> DFX controller
             DMA buffer <--- fread ------'  |                          (VSM per socket)
                                            |                              |  request/grant
                            dfx-demo-icap --+--> HWICAP            icap_mux (arbiter)
                                                                           |  request/grant
                                             SEM core <-- sem_wrapper -----'----> ICAP
                                                |
                                          monitor FIFO --> logic analyser
```

| part | source | state it keeps | operations | what makes it correct | modules |
|---|---|---|---|---|---|
| ICAP arbiter | `B/vivado/sources/hdl/icap_mux.v` | the FSM, four registered outputs, per-socket status registers | one clock edge | one owner; nobody is evicted; a waiting master is served | `IcapMux`, `IcapArbiter` |
| SEM wrapper and commands | `B/vivado/sources/hdl/sem_wrapper_ssi.v`, `sem_command.v` | the samples of the operator's press and the delay of the strobe | one clock edge | at most one command for a press; the monitor's bytes in order | `Sem` |
| SEM monitor FIFO | `sem_monitor_fifo.v` | shift registers and a pointer | write, read, both at once | no byte is lost or repeated | `SemMonitorFifo`, `MonitorQueue` |
| SPI boot loader | `B/vitis/bobbyb/src` | loop counters, the controller's FIFOs and shift register | reset, identify, copy a chunk, read pages, transfer bytes | RAM holds the image; no byte is lost; the jump is reached | `SpiBoot` |
| HWICAP driver and frames | `.../dfx-demo-icap/files/src/drivers/icap` | flags and counters of the one transfer in flight | initialise, reset, flush, self-test, write (polled or by interrupt), read, read or write a frame, handler | transfers do not overlap; words arrive once and in order; a frame arrives whole; the port is closed again; transfers end | `HwIcap`, `HwIcapPackets` |
| DFX controller driver | `.../dfx-demo/files/src/drivers/prc` | the instance, and the device's registers | look-up and initialisation, setters and getters of the tables, commands, triggers, status | entries are independent; what is set, sent or reported is what the other side gets | `PrcRegs`, `PrcTables` |
| dfx-demo | `.../dfx-demo/files/src/main.c`, `sysnode.c` | where each bitstream is | find and map the buffer, copy, shut down, program, restart, trigger | tables change only in shutdown; a manager loads its own bitstream; no trigger is lost | `DfxDemo` |
| u-dma-buf registry | `.../recipes-modules/udmabuf/files/u-dma-buf.c` | list of devices, minor numbers, class and platform devices | load, probe, create, remove, unload | all or nothing; an entry does not outlive its device; nothing is left | `Udmabuf` |
| u-dma-buf probe and mappings | same file | the object as the probe sets it up, the mappings | probe property by property, remove, open, mmap, fault, `sync_mode` | a mapping shows the buffer only, cached as asked; a probe ends and leaves nothing | `UdmabufDevice` |
| u-dma-buf object | same file | buffer, sync attributes, file positions | read, write, seek, sysfs attributes, sync and getmap from the kernel | a copy touches only bytes the processor owns; a sync hands over the range it was asked for; no path leaves the mutex locked | `UdmabufObject` |
| ICAP wrappers, top, LED modules, libraries, headers, recipes, Vivado project | see `PROJECT.json` | counters, none | wiring, text, configuration | - | - |

How the parts interact: the boot loader runs alone, before everything else.
`dfx-demo` gets its memory from u-dma-buf through `/dev/udmabuf0` and gives a
physical address to the DFX controller, one virtual socket manager (VSM) per
socket, through memory-mapped registers; a VSM fetches the bitstream and writes
it to the ICAP. `icap_mux` was written to share the ICAP between the DFX
controller and the SEM core, and listens to the status streams of the VSMs. In
the committed `top.vhd` neither `icap_mux` nor the SEM wrapper is instantiated:
each is verified as the component it is. `dfx-demo-icap` drives a HWICAP
instead of the controller.

What is hard here: two processes on one port that talk by request and grant one
clock late (arbiter); a FIFO that moves while software fills it and whose
occupancy register is off by one (boot loader); a controller and a flash that an
earlier, interrupted run left in any state (boot loader); an interrupt handler and a
thread that share counters without a lock, and a configuration port that is left in the
middle of a packet when a call gives up (HWICAP); managers that run beside
the program that programs them and outlive it, and a buffer that is not where
the program takes it to be (dfx-demo); kernel threads that
take a lock for the search and again for the insertion, and error paths that
undo different steps in different orders (u-dma-buf registry); a device whose file can
be opened before its probe has set it up (u-dma-buf probe); a sync command and its range
that sit in attributes any thread may overwrite (u-dma-buf object). The list is
`hazards` in `PROJECT.json`.

## 2. Modules and how they correspond to the code

**`IcapMux`** - one action is one rising edge of `icap_clk`, one action per state
of the case statement (`Idle`, `SemOwns`, `SemWaitRel`, `DfxcOwns`,
`DfxcWaitRel`). Each includes `SampleStatus`, the always blocks that track the
status streams (`vs_X_err`, `vs_X_loading`, the two-stage shift and the one-clock
pulse `vs_loading_end`), and an arbitrary new value of the two requests. Sets of sockets
replace one register per socket. The `default` state cannot be reached and is
left out; so is the asynchronous reset, which is the initial state.
**`IcapArbiter`** is the promise: an arbiter with an owner and a set of requests.
`IcapMux!ImplementsArbiter` maps owner to the registered grants. **`MCIcapMux`**
adds the disciplined masters of the run on the release condition.

**`SemMonitorFifo`** - the 32-bit shift registers `srl` shift on `write`, the pointer
`augend` moves by `addend`, which is computed from `valid_write` and
`valid_read`: `FifoClock` is one clock with given `write`, `read` and byte. **`MonitorQueue`**
is the promise, a queue of bounded length; the mapping reads the waiting bytes out
of the shift registers. **`Sem`** extends it with the rest of `sem_wrapper` and
`sem_command`: the edge of `vio_write`, which a busy core makes it drop (such a press is
lost, nothing sends it later), and the FIFO as the wrapper connects it (a read in
every clock in which a byte is there, and `full` left open). A history variable, `owed`, counts the
presses without a command. The wrapper's idle detection (`sem_wrapper_ssi.v:90-115`) is left
out: what it computes, `icap_rel_int`, goes to the logic analyser only (section 4).

**`SpiBoot`** - `main`, `spi_flash_read` and `spi_transfer` as one thread with a
program counter (`pc`), one device access per step, beside the controller and
the flash (`LoadShift`, `Exchange`). `Transactions` is the sequence that `init_spi` sends
before the first read: enable and perform the reset, read the identification; each
goes through the same `spi_transfer`. Before `InitSpi` the controller and the
flash are in any state (`Init`). A flash byte is the address it was read
from, so order and completeness of the copy can be stated. `TxVacancy` is the
driver's reading of the TFO register, off by one as in `spi.c:83`. Only the
difference of the two byte counters matters and is kept (`owed`).

**`HwIcap`** - the thread's `pc` walks CfgInitialize, GetConfigReg, DeviceWrite
and DeviceRead; `hpc` walks the interrupt handler, which suspends the thread
(`At`). The frame functions, the reset, the flush and the self-test are the `task`s
a client may be in; a task of several writes goes on at the next one
(`FollowedBy`, `Midway`). In the FIFO a word is its position in the buffer. The driver keeps
a pointer to the caller's array: a client of DeviceWrite is assumed to keep its buffer until the
callback, but the driver's own functions build their packets in arrays of their own
(`SentFromStack`), which are gone when the function returns. The global
interrupt enable, the WRP enable and status bits, the FIFOs and the control register are the
device's. **`HwIcapPackets`** has what the words are: the packets that
`xhwicap_srp.c` builds, type 1 or type 2 by length, the IDCODE tables with
the truncated `Listed` loops, and the configuration port (external) that they drive: whether it is
synchronised, what it expects next, which frame it has written. A
call that is cut short, or that returns while the handler still sends words of its array, is
`torn`: what the port takes from then on is not followed.

**`PrcRegs`** - the registers as a function from addresses to values, the address
computed as `XPrc_GetRegisterOffset` does from the look-up of the device, with its
8-bit row; each setter and getter of the configuration tables with its shifts and masks, the
command words, the trigger with its pending bit, and what `XPrc_PrintVsmStatus`
makes of a status word. A history variable, `call`, has the call of the last step with the
arguments as the user gave them. **`PrcTables`** is the
promise: independent tables of named entries, the last order and the last
trigger of each manager, and a print that says what the manager's state is. `TSet` gives
the entry that `call` names the value it names and leaves all others alone, `TSend` and
`TTrigger` give the manager that very command and trigger. Only the two bitstream indexes of a
row share a register: setting the one clears the clearing index, and setting a clearing
index merges it into the one that is there (`Written`, as `xprc.c:373-376` and 435 say).

**`DfxDemo`** - `load_bitsteams` and `dxfDemo`, one register access per step, beside
one manager per socket (`ObeyCommand`, `StartLoad`, `EndLoad`, `FailLoad`). The
managers start in any state: the application may have been killed and started again.
The size and address of the buffer are read from sysfs with `strtol`'s limit
(`ReadSysnode`); the address is then not used, as in the code, which takes
`PhysAddr`; each `fread` is bounded by the whole buffer, so `Copy` may run beyond its
end. A manager loads the bytes that lie at the address in its table (`ByteAt`).

**`Udmabuf`** - one thread per device, each step takes a lock at most once, each
allocation may fail. The kinds of device (device tree, static, platform, child)
differ in the order in which they are made and undone (`Steps`). Loading registers region,
class and driver, each of which may fail and undoes what came before it (`Register`); the `bind`
parameter selects a bus and a parent, and with it whether static devices are
children or platform devices (`AsChild`). Loading, use and unloading of the module are phases.

**`UdmabufDevice`** - `udmabuf_device_probe` on one device-tree node: size, mask,
memory region, `Configure` with each property that may be refused, the offset and length of
the sync range with the conversions of their types (`AsInt`, `AsWord`, and `AsSize` for a
`size_t`, which has 32 bits on the MicroBlaze), allocation, and
each error path. Beside it a process opens the file, maps it (`CheckRange`, `TestAlways`,
`SetProt`) and faults its pages in, and another writes `sync_mode`, from the
moment `udmabuf_object_create` has made file and attributes. A setter that waits for the mutex may
be interrupted, and inserting the pages may fail. mmap and fault take no lock.

**`UdmabufObject`** - one live device. Each thread has a place (`pc`) and a call
with its arguments (`call`); the mutex is `sem`, and each byte of the buffer has an
`owner`, the processor or the device, which the DMA sync functions change. The
driver's handlers for read and write are the same but for the copy's direction:
`Take`, `Copy` or `Fault`, `GiveBack`. `SetAttribute` is the body that the macro
`DEF_ATTR_SET` expands to for each attribute, with `SyncFor` as the action it runs
under the mutex. `CallSync` and `SetRange` are `u_dma_buf_device_sync`, which only tries the
mutex, as `CallGetMap` does. The kernel's own part of a system call is modelled around them: it copies
the file's position before the handler (`CallTransfer`) and stores it after
(`Return`). llseek reads the position itself and stores it without a lock, in two steps
(`CallSeek`, `Llseek`). The words are scaled: a 64-bit attribute ranges below `Word`, a
command holds an offset above `Half` and a size in units of `Grain`. Left out: the
data, the DMA direction, `sync_owner` and `is_open`, which no code
reads but to show them.

The `MC` modules hold the constants' values. Operators whose comment begins "A
plausible bug" are variants of the action below them; nothing but the `mutants`
of `PROJECT.json` uses them: each property is shown to fail with one of them.

## 3. What is checked

| run | distinct states | what it shows |
|---|---|---|
| `icap_mux` | 16 128 | `MutualExclusion`, `ReleaseAsksTheOwner`, `ImplementsArbiter` for arbitrary requests and status streams; `DfxcServed`, `SemHeard` under fairness |
| `icap_mux_release` | counterexample | finding 1 |
| `sem` | 1 024 | `OneCommandPerPress`, and `MonitorInOrder`: the FIFO implements the queue |
| `spi_boot` | 20 591 | `NoByteLost`, `RamHoldsImage`, `IdentifiesFlash`, `ReachesImage` from any state of controller and flash |
| `hwicap` | 300 410 | `CalledOnce`, `WritesDoNotOverlap`, `SuccessMeansWritten`, `FrameIsWritten`, `PortFreed`, `TransferEnds` |
| `hwicap_timeout` | counterexample | finding 2 |
| `prc_regs` | 17 651 | `ImplementsTables`, the refinement |
| `dfx_demo` | 95 484 | `TablesChangeInShutdown`, `LoadsItsBitstream`, `TriggersAreTaken`, `DemoGoesOn` |
| `udmabuf` | 273 218 | `AllOrNothing`, `EntriesAreLive`, `ExitReleasesAll`, `ExitEnds` |
| `udmabuf_handle` | counterexample | finding 3 |
| `udmabuf_device` | 60 735 | `MapsBuffer`, `CachingWasAsked`, `ProbeEnds` |
| `udmabuf_object` | 249 070 | `CopyIsOwned`, `HandsBack`, `SyncsItsRange`, `PositionInBuffer`, `CallsEnd` |

The runs of `SpiBoot`, `HwIcap`, `DfxDemo`, `Udmabuf` and `UdmabufDevice` also check
the module's `IInv`: the type invariant with the conjuncts that make the other
properties inductive. All of them are proved, and so are those of `IcapMux`,
`UdmabufObject` and `Sem`, which no run checks (section 5).

### Bounds, and why they are enough

- `icap_mux`: the design's two sockets. Sockets matter only through "some
  socket ended", "no socket failed"; two are needed to have one end while
  another has failed. The safety theorems hold for any set of sockets.
- `sem`: a FIFO of 3 in place of 32, two bytes (the shift registers treat each bit
  alike); the history of presses stops at 3, the
  strobe takes at most two clocks to leave. The theorems hold for any depth above 1.
- `spi_boot`: FIFO and pages of the source divided by 32 (`Scale`), so that their relation
  stays: a FIFO of 8 for the design's 256 (`create_bd.tcl:588`); the table of flash types
  of the source with pages of 1, 8 and 16 for 16, 256 and 512; a command of 5. The flashes that may
  be fitted have a page of each of these sizes, or are not in the table. A chunk of 20 and an image of
  26 give full and short pages of each size, pages of one and of several batches, and a short last
  chunk. The image lies within the addresses that can be named (`SizesAssumption`), as in the
  U-Boot configuration that is built; the start of the other one would not fit three bytes. The
  theorems hold for any sizes that satisfy the assumptions of section 5, those of the source
  among them.
- `hwicap`: a client's buffers of 1, 4 and 9 words with a FIFO of 4: less than a FIFO, exactly
  one, several refills in thread and handler. Of the driver's own commands the desync (4 words)
  fits the FIFO, the capture (7) and the packets around a frame do not, so that calls in interrupt
  mode that are `torn` and such that are not both happen.
  `MaxRetries` 1: the loops only compare with it. A frame of two words, one
  address; the IDCODE of the device is the last that is listed (13) or the first behind it (14).
  `called` and `icap` restart with every accepted write.
- `prc_regs`: the register layout of `xparameters.h`, two sockets, two rows. Of the
  indexes 6 and 255, a 6 merged into 255 leaves 255 and not 6; the controls and
  signals have each bit of a field set and clear, and no two that read alike. `Half` is 256 and
  not 2^16, and `Pending` 2^15 and not 2^31, because TLC's integers have 32 bits: the packing arithmetic is the same for any `Half`. At most two
  registers are not as they were at the start (`MaxSet`): a setter touches one register, so a
  disturbance needs one that is set and one that is written.
- `dfx_demo`: the two sockets and four bitstreams of `main.c`, different sizes with a total of
  8; a buffer of 8 bytes, which holds them, or 7; at the address
  `main.c` takes it to be at, or the next. `LongMax` lies below both, as the largest long of the
  MicroBlaze may lie below the address of the buffer.
- `udmabuf`: the device-tree node of the board, a static device, and three
  clients whose names and numbers collide with each other's; three minor
  numbers, so that they run out.
- `udmabuf_device`: fourteen nodes: good ones with and without reserved memory, one whose
  offset does not fit an int, one whose range wraps around, one with an offset and no length, one whose
  size is truncated, and one for each property that is
  refused. Words of 5 bits with
  sizes and ints of 4, pages of 2 bytes, one process that maps and one that sets `sync_mode`: the
  handlers share nothing but the object, so more of a kind bring no new order of steps for
  one mapping. Requests lie in the buffer, at its end and beyond.
- `udmabuf_object`: two threads on one file, a buffer of two bytes, words of four bits:
  a read or write may begin in the middle and end beyond the buffer. The offset 15
  ends beyond the buffer with a size of 0, so that the sync is refused, and wraps around the word of 16
  with a size of 2, so that it passes. A command is none, a flag or a range. The attributes take
  a few values each, the in-kernel sync four combinations (`MCUdmabufObject`). `Synchronous` is empty, so that only the
  attribute `sync_mode`, which another thread may change, decides on syncs. The
  theorems of section 5 hold for any threads, files, sizes and values.

### Fairness

- `icap_mux`: the clock never stops, and each master asked to release withdraws
  its request eventually: that is what `cap_rel` means to the SEM core and to
  the controller. `SemHeard` promises SEM only that the controller is asked.
- `spi_boot`: the processor runs, the controller shifts while it is not inhibited.
- `hwicap`: the thread and the handler are scheduled, the device sends what it
  has and raises its status bit. Only `FairSpec` adds that the device answers a read; the run on the
  time-out uses `Spec`, since a device that does not answer is what it is about.
- `dfx_demo`: the application runs, a manager obeys, starts and ends.
  `DemoGoesOn` assumes in addition that no load fails and the application does not exit, as
  the polls have no bound.
- `udmabuf`: a thread inside the module runs on, and so does unloading. Nobody
  is required to call anything.
- `udmabuf_device`, `udmabuf_object`: a probe or a call that is running goes on (weak
  fairness), and a thread that waits for the mutex gets it if it is free again and again
  (strong fairness of the lock steps): the kernel's mutex queues its waiters and hands itself
  over to one that has waited too long. Nobody is required to call anything, and a signal
  may end a wait.
- `prc_regs` and `sem` state none: their properties are about safety.

Deadlock is checked in `icap_mux`, `sem`, `prc_regs` and `udmabuf_object`. The others may stop:
the boot loader jumps to the image or stops at a flash it does not know, initialisation of the
HWICAP may fail, `dfx-demo` may exit, an unloaded kernel module and an unbound
device do nothing.

## 4. Findings

1. `icap_mux.v:184` - after a load without an error the controller is to release
   the ICAP (comment at line 183), but the release condition needs the one-clock
   pulse `vs_loading_end` in the very clock in which it is evaluated. If SEM
   requests the port after the load has ended, the pulse is over and the port
   stays with the controller until another load happens to end at the right time.
2. `xhwicap.c:602` - the retry limit of DeviceRead leaves only the inner loop;
   the call never returns `XST_FAILURE`.
3. `u-dma-buf.c:2389` - `u_dma_buf_device_create` looks the device it has made
   up again by name and number and may return another thread's.

What the models also show, where no doc says that it should be otherwise:

- `u-dma-buf.c`: a property that is refused makes the probe return 0; the driver stays bound
  to a device without an object (place `empty` of `UdmabufDevice`). A process that opens and maps the file
  before the probe is done finds `alloc_size` set and `phys_addr` still zero, and may map
  frames that are not the buffer's: `MapsBuffer` speaks of the mappings begun later. It takes the
  frames that the probe allocated for the buffer's also after they have been freed (line 1187):
  nothing in the driver takes them out of a mapping that is still there. An offset
  and a size whose sum wraps around 64 bits pass the range check of a sync, and the probe's
  check of the default range (line 1888). A node that gives `sync-offset` and no `sync-size` gets the
  whole size as its length (1893-1894): the default range then ends beyond the
  buffer and every sync of it is refused (290) until a range is set. `RangeInBuffer` states
  all three cases: which nodes give a range that lies in the buffer, and which do not.
- `main.c` of `dfx-demo`: the address of the buffer is a constant, and `fread` may run beyond the
  buffer: `LoadsItsBitstream` speaks of a buffer that is there, and of the bitstreams whose copy
  ended within it; those that come before one that is cut off are unharmed. A buffer elsewhere and
  one that is too small are in the run.
- `xhwicap.c`: Reset clears the interrupt enables while `IsPolled` goes on saying that
  interrupts are in use. `DeviceIdCode`, which WriteFrame sends, is assigned nowhere. In
  interrupt mode WriteFrame's second write may be refused and leaves the port open, and
  a command longer than the FIFO is finished by the handler from an array on the stack of
  a function that has returned (`xhwicap_srp.c:88`, `133` and `184`,
  `xhwicap_device_write_frame.c:96`, `xhwicap_device_read_frame.c:90`):
  `PortFreed` speaks of calls that were not cut short in either way, and `torn` says which were.

Where a comment says otherwise, the property follows the code:

- `xhwicap.c:271-272` says that the status callback is called "when the entire buffer has been sent",
  and lines 332-335 that the flag is cleared "when the transfer is entirely done from the FIFO to the
  ICAP". In interrupt mode the code clears the flag and calls back (`xhwicap_intr.c:156-160`)
  at the interrupt that finds no word left to give to the FIFO, while words may still be in it.
  `CalledOnce` claims no more than that all words have been given to the FIFO.
  The next write does wait for the FIFO, because it asks the device (`XHwIcap_IsDeviceBusy`);
  `WritesDoNotOverlap` rests on that.
- `bobbyb`'s `main.c:8` says that "the page size of 256 doesn't work" and suspects the SPI
  driver. The model does not show this: with the committed FIFO of 256 bytes
  (`create_bd.tcl:588`) a page of 256 is one batch from an empty FIFO, and no byte is
  lost. A page that is longer than the FIFO can lose bytes, so the comment could
  be true of any smaller FIFO; the repository does not say what hardware it is about, nor
  whether its cause lies in what the model leaves external (clocking, the flash itself), so it is
  neither confirmed nor explained here. The flashes with pages of 512 in the table
  (`spi_flash.c:90-115`) do not fit the FIFO: the RX FIFO, which nothing drains while the next
  batch is written, may drop a byte, `spi_transfer` then waits for ever (`spi.c:204`), and
  `main` never jumps, neither to an incomplete image nor at all (`Starving`). They are in the
  run: `NoByteLost` and `ReachesImage` name the exception. The reading of TFO, off by one (`spi.c:83`),
  does no harm, because a batch begins only with the TX FIFO empty.
- `sem_wrapper_ssi.v:114` says that SEM accepts the release "during specified status only", and
  line 115 computes it; line 147 wires the core to the ungated `icap_rel`, and the gated signal
  goes to the logic analyser. What the core does with a release is its own, so that nothing is
  claimed of it.

## 5. What is proved

`IcapMuxProofs` (any set `VS` of sockets, any inputs):

- `Invariance`: `Spec => []IInv`. `MutualExclusion` is not inductive: a grant
  rises one clock after the state that grants it, so the proof needs
  `GrantsFollowState`, what the outputs are in each state (in particular, a grant is
  always high in the state that waits for its release). Lemmas `InitInv` and
  `StepInv`, one step per action; `InputsType` for what the actions share.
- `GrantsExclude`, `OwnerReleases`: the two safety properties, from it.
- `Refinement`: `Spec => ImplementsArbiter`. `StepRefines` maps each action, under
  `IInv`, to a grant, a release or a mere change of the requests.

`SemProofs` (any `Depth > 1`, any bytes):

- `FifoIsAQueue`: a writer that heeds `full` sees a queue. The mapping `Waiting` reads the
  bytes from the shift registers; a clock appends, removes, does both or neither,
  although a write also shifts where the pointer does not move.
- `MonitorIsAQueue`: the FIFO as the wrapper connects it is a queue for any writer, because
  a byte is read in every clock in which there is one, and at most one waits.
- `SendsOnePerPress`: from `Invariance`, which says how many presses are owed for the
  samples and the strobe that are under way.

`SpiBootProofs` (any sizes and any table of flashes that satisfy `SizesAssumption`, a command
and an identification that fit the FIFO, which is `Fits`; whatever controller and flash are
doing at the start). `Invariance`: `Spec => [](IInv /\ IdentifiesFlash)`, for pages of any size:
`IInv == Accounted /\ (Starving \/ Contents)`. With a page longer than the FIFO a byte may be dropped, and then
the loader is `Starving`: more is awaited than can still come, so that it stays in this transfer. Otherwise
`Contents` says what flash, FIFOs and RAM hold. The conjuncts of the two:

- `Accounted`: each awaited byte is in one of four places (`Accounting`: `owed = n + Len(tx) +
  Len(shift) + Len(rx)`) unless one was dropped, a batch begins with the TX FIFO empty and fits into it,
  and with pages that fit the FIFO a transfer is a single batch (`OneBatch`: `owed + remaining <=
  FifoDepth`), so that neither FIFO is full when a byte arrives. From it `NoLoss`.
- `Sending` and `Commanding`: all bytes of a transfer are alike, and what the flash has of a
  command and what is on its way make up the command. Without the second, the flash could take
  the first byte of a page for an address byte.
- `Reset` and `Replying`: the flash is clean when it is asked for its identification, and the
  reply is that, first byte first. From them `FlashIdentified`:
  the identification is read before a page size is known (`Unfound`, `IdentifiedOnce`).
- `Reading`: RAM, the RX FIFO and what the flash sends next follow on each other in the image
  (`Follows`), and what has still to be asked for and what is on its way complete the chunk. From it
  `ImageInOrder`; a loader that starves never jumps. The image is copied by induction over steps, not over data, so no
  recursion is needed.

`DfxDemoProofs` (any sockets, bitstreams, buffers and addresses; managers in any state):

- `Invariance`: `Spec => []IInv`. `Phases` says, by the place in `main.c`, which managers
  have been shut down (`HeldDown`: a manager that is in shutdown and has not
  been restarted stays there), which rows of the tables are already final (`Programmed`), and
  that a trigger is pending at no place where one is sent. The managers' steps disturb none of it,
  because all they can do in shutdown is to obey a restart (`ManagerPhases`).
  The application's steps are one lemma for each conjunct (`AppUnderLoad` to `AppIdle`).
- `Copies`, a conjunct of its own: the bitstreams lie end to end from the assumed address, and each
  that ends within the buffer is there as a whole. A later copy lies behind all
  earlier ones, and one that runs over the end is cut off there (`CutOff`).
- `ProgrammedInShutdown`, `NoTriggerLost`, `LoadsItsOwn`: `TablesChangeInShutdown`,
  `TriggersAreTaken` and `LoadsItsBitstream`, action properties, from it. The last combines
  `Phases` (the row of the table is that of the bitstream, and of no other: `RowsDiffer`)
  with `Copies`.

`HwIcapProofs` (any depth of FIFO, length of a frame, families, packets and retries, any sizes of buffer; the
handler interrupts wherever it may). `Invariance`: `Spec => []IInv` in two layers:

- `TransferInv`, the transfer of one buffer. `StreamInOrder`: port and FIFO hold a prefix of
  the buffer. `FifoOwned` says by the places of thread and handler which of them may
  touch FIFO and counters; it is what makes the vacancy that either has read still
  valid when it is used. `CallOwns`: what a call may rely on where it is. From it
  `WritesAreApart`, `WholeBufferWritten` and `CallbackIsOnce`.
- `PortInv`, the calls of several transfers. `WordsAccounted`: each word is in the port, in the FIFO or to
  be sent. `PortFollows`: for each `Part` of a call, the port is where the words taken so far
  bring it (`InDesync` to `InPark`). `PortCloses`: after the last part it is closed. A
  call that was cut short, or whose array was gone before the handler had sent it (`torn`), is
  excepted; `PolledCallsComplete` says when that can be. From it
  `FrameReported` and `PortIsFreed`.
- The lemmas below it: what each packet does to the port (`TakeSync` to `TakeValue`), which
  words each buffer consists of (`DesyncWords` to `DataWords`), and from the two, buffer by
  buffer, how one more word moves the port (`DesyncStep` to `ReadHeaderStep`). `DrainFollows` applies
  them at whichever place of the thread the device drains the FIFO; `AcceptFollows` is the
  step from one part of a call to the next, where the whole buffer must have been taken.

`UdmabufProofs` (any devices of any kinds, any names, numbers and supply of minor numbers):

- `Invariance`: `Spec => []IInv`. The properties speak of devices at rest; the proof
  needs to know what a device has in the middle. `Progress` says so: a device in
  creation has exactly what the steps it has done give (`Building`, `HasDone`, over the kind's
  own order `Steps`), and one that is being undone has nothing without what it rests on
  (`Undoing`). `MinorsAccounted`: each number taken is one object's, or reserved for a static
  device still to come. `ListedOnce` and `ToDo` complete it.
- The steps of four kinds are proved together, by lemmas about the place that
  follows another (`StepsOf`, `AfterIs`, `Starts`, `Advances`, `GivesUp`); `Others` shows that no
  thread changes what another device has.
- `AllOrNone`, `EntriesLive`, `ExitLeavesNothing`: the three properties of the run, from it.

`UdmabufDeviceProofs` (any nodes, page size, width of words and number of processes):

- `Invariance`: `Spec => []IInv`. `Configured`: what the probe has made of its node at each place.
  `AreaInv`: for each process, how far its mmap has come, what it shows, and which modes were in
  force during it; `Settled` is what an area relies on in an object that it shares with the probe.
  A step of the probe and a step of another process keep an area (`DriverArea`, `OtherArea`).
- `OnlyTheBuffer` and `CachedAsAsked`, the properties of the run; `ErrorPathsUndo` and
  `DefaultRange` for the parts of `IInv` that are properties in their own right. The latter has
  three parts: a length that is given keeps the range in the buffer unless offset and length wrap,
  a length that is not given does so only with an offset of zero, and the offset is the node's where
  the size fits an int.

`UdmabufObjectProofs` (any threads, files, buffer size, words and inputs that satisfy
the module's assumptions):

- `Invariance`: `Spec => []IInv`. The four properties relate a thread's call to
  the state all threads share, so each needs to know that nobody else moves that
  state. `LockInv` says that exactly the thread between lock and unlock holds
  the mutex; `StepOfOne` that a step changes the place and call of one thread, and
  owners and attributes only if that thread has the mutex before or
  after the step; `OthersKeep` concludes that all the other threads keep their part of
  the invariant. What remains is the thread that steps: `SelfOutside`, `SelfTransfer`,
  `SelfSync`. `CommandInv` carries what a sync call has stored to the step that
  uses it; `CallPositions` bounds the copies of a position in flight.
- `CopiesOwnTheirBytes`, `TransfersHandBack`, `SyncsKeepTheirRange`,
  `PositionsStayInBuffer`: the four properties of the run, from it.

Every invariant and every safety property of the passing runs is stated by a theorem, with one
exception. Only model-checked are `ImplementsTables` (the setter of a
clearing index takes the bitwise or of two words, an operator that is recursive and that tlapm cannot
reason about), and the liveness properties `DfxcServed`, `SemHeard`,
`ReachesImage`, `TransferEnds`, `DemoGoesOn`, `ExitEnds`, `ProbeEnds` and `CallsEnd`, because
TLAPS does not reason about fairness.

What the proofs changed in the models: some `CASE` expressions had arms that overlap, of which
TLA+ may take any while TLC takes the first. They are disjoint now. Invariants that
TLC accepted were not inductive for every constant: static devices need
numbers of their own below the number of minors, and a packet of type 2 counts its words in 27
bits. Both are assumptions now (section 6).

## 6. Assumptions about what is outside the code

Of the environment:

- SEM core and operator: free in every clock.
- HWICAP: the WRP status bit follows the level of the FIFO: cleared while the
  FIFO is at most half full, it is set again. DeviceWrite clears it when the
  FIFO is empty and then waits for it, so the driver relies on this.
- HWICAP clients: a buffer that is passed to DeviceWrite is not changed or freed until the transfer is
  reported. (The driver's own functions do not keep to this: section 4.)
- Configuration port: synchronises on the sync word, counts the words of a packet,
  loses synchronisation with DESYNC, takes frame data only after the IDCODE of the device.
- VSM: obeys the control register between loads, shuts down after an error,
  and trigger `t` loads module `t` from row `t`, the identity mapping of
  the design's configuration; a trigger register keeps its trigger until the load starts.
- u-dma-buf: a client removes a handle once, and the module is unloaded when no
  call is in progress (the kernel counts the users of a module); the
  probes of one driver registration run one after the other; what a client does
  with a handle that is not its own is not followed further than finding 3.
- u-dma-buf device: `device_destroy` waits until the attribute handlers that run have
  returned, and the file stays usable to those that have opened it.
- u-dma-buf object: the kernel's mutex excludes, and its `read` and `write` system calls
  hand the driver a copy of the file's position and store it afterwards without a
  lock between two of them.
- SPI flash: latches the address with the last command byte, then streams; resets on RSTMEM
  right after RSTEN, each as a command of its own.

Of the constants, as `ASSUME`s that TLC evaluates on the values of the runs and the proofs use:

- `SpiBoot`: the image lies within the addresses that three bytes can name, and an
  identification has three bytes (`SizesAssumption`).
- `HwIcap`, `HwIcapPackets`: a frame of at least one word, and a buffer of frame, pad and extra
  words whose length a type-2 packet can state (`FrameAssumption`, `FamilyAssumption`: below 2^27); a
  type-1 packet counts at most 2047 words. The other ones are types.
- `DfxDemo`: no two bitstreams are for one module of one socket, as in the table of `main.c`
  (`BitstreamsAssumption`).
- `Udmabuf`: static devices have numbers of their own below the number of minors
  (`RequestAssumption`): the module parameter `udmabuf<N>` makes device `N`.
- `UdmabufDevice`: a word has at least the values of an unsigned int and of a `size_t`
  (`WordAssumption`), and processes have other names than the holders of the mutex (`ProcessAssumption`).
- `UdmabufObject`: the size fits a word, and a word the modes of sync.

## 7. What is not modelled

- HWICAP driver: Abort, lite mode, 8 and 16-bit ports, a status callback that calls the
  driver again, and Reset or the self-test while a transfer is left to the handler: nothing in
  the repository does these.
- u-dma-buf: an attribute handler that runs before the mutex is initialised (a step of
  `CreateObject` here), what is done with the file of a freed object, the DMA direction and the
  debug attributes, and the data that is copied.
- SEM: the idle detection, whose result only the logic analyser sees; the core, the FRAME_ECC primitives and the logic analyser are external;
  `edge_det.v` and `timer_flag.v` are instantiated nowhere.
- Functions that nothing calls: `write_sysnode`, `show_buffer`, the DFX controller's
  self-test, the CRC of the boot loader.
- No state of interest: the wrappers of the ICAP primitive, the top level and the LED modules
  (data paths of their own), vendored headers and configuration tables, number formatting,
  generated IP, constraints, board configuration, device tree, packaging and start scripts.
  These headers and register maps are a large part of the implementation's lines; what
  of them the modelled functions use is in the modules as constants.

## 8. Plan

Done: every component of section 1 that keeps state is modelled and checked; the arbiter and the
SEM wrapper and FIFO with their refinements, the boot loader, the HWICAP driver with its frames,
`dfx-demo`, and the three parts of u-dma-buf are proved; the DFX controller driver is checked
to implement its tables.

What is left:

1. `ImplementsTables`: the bitwise or by bit positions instead of recursion, shown equal to it by TLC;
   then the lemmas that a field that was packed is unpacked again
   and leaves the others alone, and the refinement from them.
2. Attribute handlers that run before the mutex is initialised (a hazard without a property), for
   which `CreateObject` has to be split where `device_create` publishes the attributes.
