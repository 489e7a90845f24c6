---------------------------- MODULE UdmabufDevice ----------------------------
(***************************************************************************)
(* A u-dma-buf device of the device tree from probe to removal, and the     *)
(* processes that meanwhile open its file, map it, fault its pages in and   *)
(* set sync_mode in sysfs (u-dma-buf.c).  The file and the attributes exist *)
(* once udmabuf_object_create has run (in this model a single step), before *)
(* the probe sets the object up; mmap and the fault handler take no lock.   *)
(*                                                                         *)
(* Sizes are in bytes, frames and pages in units of PageSize.               *)
(***************************************************************************)
EXTENDS Integers

CONSTANTS
  Mappers, Setters,  \* the processes that map the file, and that set sync_mode
  Trees,     \* the device-tree nodes considered
  PageSize,  \* 1 << PAGE_SHIFT
  Base,      \* the frame where dma_alloc_coherent places the buffer
  Word,      \* 2^64
  SizeWord,  \* SIZE_MAX + 1: 2^32 on the MicroBlaze, and as many unsigned longs
  IntMax,    \* the largest int
  DmaCoherent,  \* IS_DMA_COHERENT
  Requests,  \* the [first, pages, sync] of mmap: vm_pgoff, vma_pages, O_SYNC
  SetMode    \* what is written to sync_mode

Process == Mappers \cup Setters
Absent == -1
SyncMode == 0..7           \* two bits of mode and SYNC_ALWAYS
QuirkModes == {"off", "on", "auto"}
DefaultQuirk == "auto"     \* on a processor that is not an ARM, as here
TreeNode == [size : Nat \cup {Absent}, mask : Nat \cup {Absent},
             region : {"none", "reserved", "bad"}, quirks : SUBSET QuirkModes,
             mode : Nat \cup {Absent}, always : BOOLEAN, direction : Nat \cup {Absent},
             offset : Nat \cup {Absent}, length : Nat \cup {Absent}]

ASSUME TreeAssumption == Trees \subseteq TreeNode
ASSUME PageAssumption == PageSize \in Nat \ {0} /\ Base \in Nat \ {0}
ASSUME WordAssumption ==
  /\ IntMax \in Nat /\ Word \in Nat /\ 2 * (IntMax + 1) <= Word
  /\ SizeWord \in 1..Word
ASSUME RequestAssumption == Requests \subseteq [first : Nat, pages : Nat \ {0}, sync : BOOLEAN]
ASSUME ProcessAssumption == {"none", "probe"} \cap Process = {}
ASSUME SetAssumption == SetMode \subseteq Nat /\ DmaCoherent \in BOOLEAN

VARIABLES
  tree,     \* the node
  probe,    \* where probe or remove is
  refused,  \* the probe was left for a property: retval is still 0
  obj,      \* the members of the object; NoObject before and after
  sem,      \* who holds the mutex of the object
  region,   \* reserved memory is attached to the device
  file,     \* of each process: closed, open, or stray: open on a freed object
  pc, vma,  \* where each process is, and the area it maps
  asked,    \* the modes in force since its mmap began
  early,    \* its mmap began before the probe had ended
  mapped    \* the frames its page table holds

vars == <<tree, refused, probe, obj, sem, region, file, pc, vma, asked, early, mapped>>
mapVars == <<vma, asked, early, mapped>>

None == "none"
Probe == "probe"
NoObject == [size |-> 0, alloc |-> 0, phys |-> 0, live |-> FALSE, mode |-> 1,
             offset |-> 0, length |-> 0, direction |-> 0, quirk |-> DefaultQuirk,
             reserved |-> FALSE]
NoArea == [first |-> 0, pages |-> 0, sync |-> FALSE, prot |-> "cached", ops |-> FALSE]

Init ==
  /\ tree \in Trees /\ probe = "unbound" /\ refused = FALSE /\ obj = NoObject /\ sem = None
  /\ region = FALSE
  /\ file = [p \in Process |-> "closed"]
  /\ pc = [p \in Process |-> "idle"]
  /\ vma = [p \in Process |-> NoArea] /\ asked = [p \in Process |-> {}]
  /\ early = [p \in Process |-> FALSE] /\ mapped = [p \in Process |-> {}]
------------------------------------------------------------------------------
(* Probe: what udmabuf_platform_device_probe makes of the node.             *)

Given(value) == value # Absent
AsInt(n) == LET m == n % (2 * (IntMax + 1)) IN
            IF m > IntMax THEN m - 2 * (IntMax + 1) ELSE m
AsWord(n) == n % Word
AsSize(n) == n % SizeWord

\* udmabuf_get_size_property, of_property_read_ulong: a u64, kept in a size_t.
SizeOf(node) == IF Given(node.size) THEN AsSize(node.size) ELSE 0

MaskFits(node) == Given(node.mask) => node.mask \in 12..64
ModeFits(node) == Given(node.mode) => node.mode \in 1..3
DirectionFits(node) == Given(node.direction) => node.direction <= 2
OffsetFits(node) == Given(node.offset) => node.offset < SizeOf(node)

\* A plausible bug: the size is compared without the offset.
LengthFitsAlone(node, offset) == Given(node.length) => node.length <= SizeOf(node)

LengthFits(node, offset) ==
  Given(node.length) => (offset + node.length) % Word <= SizeOf(node)

\* this->sync_offset as the later tests see it: cast to int, then to u64.
StoredOffset(node) == IF Given(node.offset) THEN AsWord(AsInt(node.offset)) ELSE 0

\* Without sync-size, all of the size, whatever the offset is.
LengthOf(node, size) == IF Given(node.length) THEN AsSize(node.length) ELSE size

SyncFits(node) == /\ ModeFits(node) /\ DirectionFits(node) /\ OffsetFits(node)
                  /\ LengthFits(node, StoredOffset(node))

Mode(node, mode) ==
  LET base == IF Given(node.mode) THEN (mode \div 4) * 4 + node.mode ELSE mode
  IN IF node.always THEN 4 + (base % 4) ELSE base

\* udmabuf_set_quirk_mmap_mode, for each property in turn: the last one wins.
Quirk(node) == CASE "auto" \in node.quirks -> "auto"
                 [] "auto" \notin node.quirks /\ "off" \in node.quirks -> "off"
                 [] node.quirks = {"on"} -> "on"
                 [] OTHER -> NoObject.quirk

\* Without a size the probe fails before there is an object.
CreateObject ==
  /\ probe = "unbound" /\ SizeOf(tree) > 0
  /\ obj' = [NoObject EXCEPT !.live = TRUE] /\ probe' = "created"
  /\ UNCHANGED <<tree, refused, sem, region, file, pc, mapVars>>

LockObject ==
  /\ probe = "created" /\ sem = None
  /\ sem' = Probe /\ probe' = "configure"
  /\ UNCHANGED <<tree, refused, obj, region, file, pc, mapVars>>

AttachRegion ==
  /\ probe = "configure"
  /\ LET good == MaskFits(tree) /\ tree.region # "bad"
     IN /\ probe' = IF good THEN "sync" ELSE "undo"
        /\ region' = (good /\ tree.region = "reserved")
  /\ refused' = ~MaskFits(tree)
  /\ obj' = [obj EXCEPT !.size = SizeOf(tree), !.reserved = region']
  /\ UNCHANGED <<tree, sem, file, pc, mapVars>>

\* of_dma_configure may fail; then the sync-* properties are read in turn.
Configure ==
  /\ probe = "sync"
  /\ \/ /\ SyncFits(tree) /\ probe' = "setup" /\ UNCHANGED refused
        /\ obj' = [obj EXCEPT
             !.mode = Mode(tree, @), !.quirk = Quirk(tree), !.offset = StoredOffset(tree),
             !.direction = IF Given(tree.direction) THEN tree.direction ELSE 0,
             !.length = LengthOf(tree, obj.size)]
     \/ /\ ~SyncFits(tree) /\ probe' = "undo" /\ refused' = TRUE
        /\ obj' = [obj EXCEPT !.quirk = Quirk(tree),
                     !.mode = IF ModeFits(tree) THEN Mode(tree, @) ELSE @]
     \/ probe' = "undo" /\ UNCHANGED <<refused, obj>>
  /\ asked' = [p \in Process |-> asked[p] \cup {obj'.mode}]
  /\ UNCHANGED <<tree, sem, region, file, pc, vma, early, mapped>>

\* udmabuf_object_setup: alloc_size is visible to mmap before the buffer is.
Pages(size) == AsSize(size + PageSize - 1) \div PageSize

SetAllocSize ==
  /\ probe = "setup"
  /\ obj' = [obj EXCEPT !.alloc = Pages(obj.size) * PageSize]
  /\ probe' = "alloc"
  /\ UNCHANGED <<tree, refused, sem, region, file, pc, mapVars>>

AllocBuffer ==
  /\ probe = "alloc"
  /\ \/ obj' = [obj EXCEPT !.phys = Base] /\ probe' = "bound" /\ sem' = None
     \/ probe' = "undo" /\ UNCHANGED <<obj, sem>>
  /\ UNCHANGED <<tree, refused, region, file, pc, mapVars>>
------------------------------------------------------------------------------
(* The error path of the probe, and remove: udmabuf_platform_device_remove.  *)

\* A plausible bug: the object is destroyed with its mutex held.
UndoLocked ==
  /\ probe = "undo" /\ probe' = "free"
  /\ UNCHANGED <<tree, refused, obj, sem, region, file, pc, mapVars>>

Undo ==
  /\ probe = "undo" /\ sem' = None /\ probe' = "free"
  /\ UNCHANGED <<tree, refused, obj, region, file, pc, mapVars>>

\* The driver is unbound, or the module unloaded.
Remove ==
  /\ probe = "bound" /\ probe' = "free"
  /\ UNCHANGED <<tree, refused, obj, sem, region, file, pc, mapVars>>

\* A device without an object is unbound: drvdata is NULL, nothing is done.
RemoveEmpty ==
  /\ probe = "empty" /\ probe' = "unbound"
  /\ UNCHANGED <<tree, refused, obj, sem, region, file, pc, mapVars>>

\* dma_free_coherent and cdev_del: no new file is opened.
FreeBuffer ==
  /\ probe = "free" /\ probe' = "drain"
  /\ UNCHANGED <<tree, refused, obj, sem, region, file, pc, mapVars>>

\* What a process does on a freed object is undefined: it is left out.
Forgotten ==
  /\ vma' = [p \in Process |-> NoArea] /\ asked' = [p \in Process |-> {}]
  /\ early' = [p \in Process |-> FALSE] /\ mapped' = [p \in Process |-> {}]

\* The driver stays bound to a device whose probe returns 0.
Returned == IF refused THEN "empty" ELSE "unbound"

\* device_destroy waits for the attribute handlers that run, then the object
\* is freed, whoever has its file open, and the reserved memory released.
Destroy ==
  /\ probe = "drain" /\ \A p \in Process : pc[p] \notin {"wait", "set"}
  /\ obj' = NoObject /\ sem' = None /\ probe' = Returned /\ refused' = FALSE
  /\ region' = (region /\ ~obj.reserved)
  /\ file' = [p \in Process |-> IF file[p] = "open" THEN "stray" ELSE file[p]]
  /\ pc' = [p \in Process |-> "idle"] /\ Forgotten
  /\ UNCHANGED tree
------------------------------------------------------------------------------
(* Attributes: udmabuf_set_sync_mode.                                       *)

At(p, place) == pc[p] = place
Go(p, place) == pc' = [pc EXCEPT ![p] = place]

EnterSet(p) ==
  /\ At(p, "idle") /\ obj.live /\ probe # "drain"
  /\ Go(p, "wait")
  /\ UNCHANGED <<tree, refused, probe, obj, sem, region, file, mapVars>>

LockSet(p) ==
  /\ At(p, "wait") /\ sem = None /\ sem' = p /\ Go(p, "set")
  /\ UNCHANGED <<tree, refused, probe, obj, region, file, mapVars>>

\* mutex_lock_interruptible: a signal ends the wait, -ERESTARTSYS.
InterruptSet(p) ==
  /\ At(p, "wait") /\ Go(p, "idle")
  /\ UNCHANGED <<tree, refused, probe, obj, sem, region, file, mapVars>>

Mapping(p) == pc[p] \in {"range", "always", "prot", "insert"}

SetSyncMode(p) ==
  /\ At(p, "set") /\ sem' = None /\ Go(p, "idle")
  /\ \E mode \in SetMode :
       obj' = [obj EXCEPT !.mode = IF mode <= 7 THEN mode ELSE @]
  /\ asked' = [q \in Process |-> IF Mapping(q) THEN asked[q] \cup {obj'.mode} ELSE asked[q]]
  /\ UNCHANGED <<tree, refused, probe, region, file, vma, early, mapped>>
------------------------------------------------------------------------------
(* The device file: udmabuf_device_file_open, _release and _mmap.            *)

Open(p) ==
  /\ At(p, "idle") /\ file[p] = "closed" /\ obj.live /\ probe # "drain"
  /\ file' = [file EXCEPT ![p] = "open"]
  /\ UNCHANGED <<tree, refused, probe, obj, sem, region, pc, mapVars>>

Release(p) ==
  /\ At(p, "idle") /\ file[p] = "open" /\ vma[p] = NoArea
  /\ file' = [file EXCEPT ![p] = "closed"]
  /\ UNCHANGED <<tree, refused, probe, obj, sem, region, pc, mapVars>>

Unmapped(p) ==
  /\ Go(p, "idle")
  /\ vma' = [vma EXCEPT ![p] = NoArea] /\ asked' = [asked EXCEPT ![p] = {}]
  /\ early' = [early EXCEPT ![p] = FALSE] /\ mapped' = [mapped EXCEPT ![p] = {}]

Mmap(p) ==
  /\ At(p, "idle") /\ file[p] = "open" /\ vma[p] = NoArea
  /\ \E r \in Requests :
       vma' = [vma EXCEPT ![p] = [NoArea EXCEPT !.first = r.first, !.pages = r.pages,
                                                !.sync = r.sync]]
  /\ asked' = [asked EXCEPT ![p] = {obj.mode}]
  /\ early' = [early EXCEPT ![p] = (probe # "bound")]
  /\ Go(p, "range")
  /\ UNCHANGED <<tree, refused, probe, obj, sem, region, file, mapped>>

\* A plausible bug: only the first page is compared with the buffer.
CheckFirst(p) ==
  /\ At(p, "range") /\ file[p] = "open"
  /\ IF vma[p].first > obj.alloc \div PageSize
     THEN Unmapped(p)
     ELSE Go(p, "always") /\ UNCHANGED mapVars
  /\ UNCHANGED <<tree, refused, probe, obj, sem, region, file>>

CheckRange(p) ==
  /\ At(p, "range") /\ file[p] = "open"
  /\ IF vma[p].first + vma[p].pages > obj.alloc \div PageSize
     THEN Unmapped(p)
     ELSE Go(p, "always") /\ UNCHANGED mapVars
  /\ UNCHANGED <<tree, refused, probe, obj, sem, region, file>>

TestAlways(p) ==
  /\ At(p, "always") /\ file[p] = "open"
  /\ Go(p, IF vma[p].sync \/ obj.mode >= 4 THEN "prot" ELSE "insert")
  /\ UNCHANGED <<tree, refused, probe, obj, sem, region, file, mapVars>>

\* _PGPROT_NONCACHED, _PGPROT_WRITECOMBINE and _PGPROT_DMACOHERENT.
ProtOf(mode) == LET m == mode % 4 IN
  CASE m = 0 -> "cached" [] m = 1 -> "noncached" [] m \in {2, 3} -> "writecombine"

\* A plausible bug: the type is looked up with the SYNC_ALWAYS bit in it.
SetProtUnmasked(p) ==
  /\ At(p, "prot") /\ file[p] = "open" /\ Go(p, "insert")
  /\ vma' = [vma EXCEPT ![p].prot = IF obj.mode \in 1..3 THEN ProtOf(obj.mode) ELSE @]
  /\ UNCHANGED <<tree, refused, probe, obj, sem, region, file, asked, early, mapped>>

SetProt(p) ==
  /\ At(p, "prot") /\ file[p] = "open" /\ Go(p, "insert")
  /\ vma' = [vma EXCEPT ![p].prot = ProtOf(obj.mode)]
  /\ UNCHANGED <<tree, refused, probe, obj, sem, region, file, asked, early, mapped>>

\* udmabuf_quirk_mmap_enable
QuirkEnabled == obj.quirk = "on" \/ (obj.quirk = "auto" /\ ~DmaCoherent)

\* The memory begins at Base; reserved memory has no struct page.
PfnValid(frame) == frame >= Base /\ ~region

Frames(p) == {obj.phys + vma[p].first + i : i \in 0..(vma[p].pages - 1)}

\* udmabuf_mmap_vm_ops brings the pages in one by one,
InsertFaults(p) ==
  /\ At(p, "insert") /\ file[p] = "open"
  /\ QuirkEnabled /\ PfnValid(obj.phys + vma[p].first)
  /\ vma' = [vma EXCEPT ![p].ops = TRUE] /\ Go(p, "mapped")
  /\ UNCHANGED <<tree, refused, probe, obj, sem, region, file, asked, early, mapped>>

\* and dma_mmap_coherent all at once, with a protection of its own; it may fail.
InsertAll(p) ==
  /\ At(p, "insert") /\ file[p] = "open"
  /\ ~(QuirkEnabled /\ PfnValid(obj.phys + vma[p].first))
  /\ \/ Unmapped(p)
     \/ /\ vma' = [vma EXCEPT ![p].prot = IF DmaCoherent THEN @ ELSE "dma"]
        /\ mapped' = [mapped EXCEPT ![p] = Frames(p)] /\ Go(p, "mapped")
        /\ UNCHANGED <<asked, early>>
  /\ UNCHANGED <<tree, refused, probe, obj, sem, region, file>>

\* udmabuf_mmap_vma_fault for the page at vm_pgoff + i.
Fault(p) ==
  /\ At(p, "mapped") /\ file[p] = "open" /\ vma[p].ops
  /\ \E i \in 0..(vma[p].pages - 1) :
       LET page == vma[p].first + i
           available == AsSize(obj.alloc - page * PageSize)
       IN /\ PageSize <= available /\ PfnValid(obj.phys + page)
          /\ mapped' = [mapped EXCEPT ![p] = @ \cup {obj.phys + page}]
  /\ UNCHANGED <<tree, refused, probe, obj, sem, region, file, pc, vma, asked, early>>

Munmap(p) ==
  /\ At(p, "mapped") /\ file[p] = "open" /\ Unmapped(p)
  /\ UNCHANGED <<tree, refused, probe, obj, sem, region, file>>
------------------------------------------------------------------------------
ProbeStep == LockObject \/ AttachRegion \/ Configure \/ SetAllocSize \/ AllocBuffer
             \/ Undo \/ FreeBuffer \/ Destroy
SetStep(p) == LockSet(p) \/ SetSyncMode(p)
MapStep(p) == Mmap(p) \/ CheckRange(p) \/ TestAlways(p) \/ SetProt(p)
              \/ InsertFaults(p) \/ InsertAll(p) \/ Fault(p) \/ Munmap(p)

Next == \/ CreateObject \/ Remove \/ RemoveEmpty \/ ProbeStep
        \/ \E p \in Mappers : Open(p) \/ Release(p) \/ MapStep(p)
        \/ \E p \in Setters : EnterSet(p) \/ InterruptSet(p) \/ SetStep(p)

Spec == Init /\ [][Next]_vars

\* The probing thread runs on, and so does a handler once it is called; the
\* mutex serves its waiters in order.
FairSpec ==
  /\ Spec /\ SF_vars(LockObject) /\ WF_vars(ProbeStep)
  /\ \A p \in Process : SF_vars(LockSet(p)) /\ WF_vars(SetSyncMode(p))
------------------------------------------------------------------------------
\* The members of the object, and of an area.
Object == [size : Nat, alloc : Nat, phys : Nat, live : BOOLEAN, mode : SyncMode,
           offset : 0..Word-1, length : Nat, direction : 0..2, quirk : QuirkModes,
           reserved : BOOLEAN]
Area == [first : Nat, pages : Nat, sync : BOOLEAN,
         prot : {"cached", "noncached", "writecombine", "dma"}, ops : BOOLEAN]

TypeOK ==
  /\ tree \in Trees
  /\ probe \in {"unbound", "created", "configure", "sync", "setup", "alloc", "bound",
                "undo", "free", "drain", "empty"} /\ refused \in BOOLEAN
  /\ obj \in Object
  /\ sem \in Process \cup {Probe, None} /\ region \in BOOLEAN
  /\ file \in [Process -> {"closed", "open", "stray"}]
  /\ pc \in [Process -> {"idle", "wait", "set", "range", "always", "prot", "insert",
                         "mapped"}]
  /\ vma \in [Process -> Area] /\ mapped \in [Process -> SUBSET Nat]
  /\ asked \in [Process -> SUBSET SyncMode] /\ early \in [Process -> BOOLEAN]

(* What the probe has made of the node when it is at each of its places.     *)
Configured ==
  /\ region = obj.reserved
  /\ probe \notin {"unbound", "empty"} => SizeOf(tree) > 0
  /\ refused => ~(MaskFits(tree) /\ SyncFits(tree))
  /\ probe \in {"sync", "setup", "alloc", "bound"} =>
       obj.size = SizeOf(tree) /\ (region <=> tree.region = "reserved")
  /\ probe \in {"setup", "alloc", "bound"} =>
       /\ SyncFits(tree) /\ obj.offset = StoredOffset(tree)
       /\ obj.length = LengthOf(tree, obj.size)
  /\ probe \in {"alloc", "bound"} => obj.alloc = Pages(obj.size) * PageSize
  /\ probe = "bound" => obj.phys = Base

(* Of the nodes the probe accepts, those that give the length of the default *)
(* range, or no offset but 0, have it in the buffer, and all others, where   *)
(* the length is then the whole size, have it end beyond, so that every sync *)
(* without arguments is refused: as long as the offset and the length given  *)
(* do not wrap around 64 bits, the probe's check decides it, and no          *)
(* conversion to the narrower types changes what it has found.  The offset   *)
(* is the node's own where the size fits an int, which it is cast to.        *)
RangeInBuffer ==
  probe = "bound" =>
    /\ Given(tree.length) /\ obj.offset + tree.length < Word =>
         obj.offset + obj.length <= obj.size
    /\ ~Given(tree.length) =>
         (obj.offset + obj.length <= obj.size <=> obj.offset = 0)
    /\ Given(tree.offset) /\ obj.size <= IntMax => obj.offset = tree.offset

(* Whichever property is refused, a device that is not bound has no object,  *)
(* no mutex held and no reserved memory attached, and one that is bound has  *)
(* the region its node names: no error path of the probe leaks or releases   *)
(* twice.  A refused property leaves the driver bound to a device that has   *)
(* none of these, because the probe then returns 0.                         *)
ProbeUndone ==
  /\ probe \in {"unbound", "empty"} =>
       /\ obj = NoObject /\ sem = None /\ ~region
       /\ \A p \in Process : pc[p] = "idle" /\ file[p] # "open"
  /\ probe = "empty" => ~(MaskFits(tree) /\ SyncFits(tree))
  /\ probe = "bound" => (region <=> tree.region = "reserved")

\* They count as the buffer's for as long as the device is there, although
\* dma_free_coherent gives them back while they may still be mapped.
BufferFrames == Base..(Base + Pages(SizeOf(tree)) - 1)

(* A mapping begun on a bound device holds frames of its buffer only,        *)
(* whichever pages are faulted in and in which order: the range is checked   *)
(* once in mmap, and the check in the fault handler wraps beyond the end.    *)
MapsBuffer ==
  \A p \in Process : file[p] = "open" /\ ~early[p] => mapped[p] \subseteq BufferFrames

\* The caching of a mapping is one that a mode in force during the call stands
\* for, and without O_SYNC it is cached unless a mode had SYNC_ALWAYS.
CachedAs(p) ==
  /\ vma[p].prot # "cached" => vma[p].prot \in {ProtOf(m) : m \in asked[p]}
  /\ vma[p].prot = "cached" =>
       \E m \in asked[p] : ProtOf(m) = "cached" \/ (~vma[p].sync /\ m < 4)
  /\ vma[p].prot # "cached" /\ ~vma[p].sync => \E m \in asked[p] : m >= 4

(* mmap reads sync_mode twice without the mutex.  The caching of a mapping   *)
(* whose pages fault in is still one that a mode in force during the call    *)
(* stands for, and a file without O_SYNC is mapped cached unless a mode with *)
(* SYNC_ALWAYS was in force.                                                *)
CachingWasAsked == \A p \in Process : At(p, "mapped") /\ vma[p].ops => CachedAs(p)

\* The device whose buffer a mapping shows is the one mmap found bound.
Settled == /\ probe \in {"bound", "free", "drain"} /\ obj.phys = Base
           /\ obj.size = SizeOf(tree) /\ obj.alloc = Pages(obj.size) * PageSize

(* An area, by how far its mmap has come: what it shows, and what it has     *)
(* seen of sync_mode.                                                       *)
AreaInv(p) ==
  /\ IF Mapping(p) \/ At(p, "mapped") THEN file[p] = "open"
     ELSE vma[p] = NoArea /\ mapped[p] = {} /\ ~early[p]
  /\ Mapping(p) => obj.mode \in asked[p] /\ mapped[p] = {} /\ ~vma[p].ops
  /\ pc[p] \in {"range", "always", "prot"} => vma[p].prot = "cached"
  /\ At(p, "prot") => vma[p].sync \/ \E m \in asked[p] : m >= 4
  /\ At(p, "insert") \/ (At(p, "mapped") /\ vma[p].ops) => CachedAs(p)
  /\ ~early[p] /\ (Mapping(p) \/ At(p, "mapped")) => Settled
  /\ ~early[p] /\ pc[p] \in {"always", "prot", "insert", "mapped"} =>
       vma[p].first + vma[p].pages <= Pages(SizeOf(tree))
  /\ ~early[p] => mapped[p] \subseteq BufferFrames

IInv == /\ TypeOK /\ Configured /\ RangeInBuffer /\ ProbeUndone
        /\ \A p \in Process : AreaInv(p)

(* A probe ends, whether it binds the device or undoes its steps, and so     *)
(* does a removal, although it waits for the attribute handlers, which wait  *)
(* for the mutex of the object.                                             *)
ProbeEnds == (probe = "created" \/ probe = "free") ~> probe \in {"bound", "unbound", "empty"}
==============================================================================
