-------------------------- MODULE UdmabufDeviceProofs --------------------------
(***************************************************************************)
(* The probe and the mappings of a u-dma-buf device, for every device tree, *)
(* page size, width of a word and number of processes.                      *)
(***************************************************************************)
EXTENDS UdmabufDevice, TLAPS

(* A whole number of pages has that many pages.                             *)
LEMMA WholePages ==
  ASSUME NEW n \in Nat, NEW k \in Nat \ {0}
  PROVE  (n * k) \div k = n
OBVIOUS

LEMMA PagesType ==
  ASSUME NEW size \in Nat
  PROVE  Pages(size) \in Nat
<1>1. AsSize(size + PageSize - 1) \in Nat
  BY PageAssumption, WordAssumption DEF AsSize
<1> QED BY <1>1, PageAssumption DEF Pages

LEMMA WordType ==
  ASSUME NEW n \in Int
  PROVE  AsInt(n) \in Int /\ AsWord(n) \in 0..Word-1
BY WordAssumption DEF AsInt, AsWord

(* What is read from the node into a size_t.                                *)
LEMMA SizeType ==
  ASSUME NEW node \in TreeNode
  PROVE  SizeOf(node) \in 0..SizeWord-1
BY WordAssumption DEF SizeOf, AsSize, TreeNode, Given, Absent

LEMMA LengthType ==
  ASSUME NEW node \in TreeNode, NEW size \in Nat
  PROVE  LengthOf(node, size) \in Nat
BY WordAssumption DEF LengthOf, AsSize, TreeNode, Given, Absent

(* An offset that fits an int is stored as it is.                           *)
LEMMA SmallOffset ==
  ASSUME NEW n \in Nat, n <= IntMax
  PROVE  AsWord(AsInt(n)) = n
BY WordAssumption DEF AsInt, AsWord

LEMMA ModeType ==
  ASSUME NEW node \in TreeNode, NEW mode \in SyncMode, ModeFits(node)
  PROVE  Mode(node, mode) \in SyncMode
BY DEF Mode, SyncMode, ModeFits, Given, Absent, TreeNode

LEMMA ProtType ==
  ASSUME NEW mode \in SyncMode
  PROVE  ProtOf(mode) \in {"cached", "noncached", "writecombine"}
BY DEF ProtOf, SyncMode

LEMMA QuirkType ==
  ASSUME NEW node
  PROVE  Quirk(node) \in QuirkModes
BY DEF Quirk, QuirkModes, NoObject, DefaultQuirk

(* The object before its probe has set it up, and a process without a map.  *)
LEMMA Empty ==
  /\ NoObject \in Object /\ [NoObject EXCEPT !.live = TRUE] \in Object
  /\ NoArea \in Area
<1>1. 0 \in 0..Word-1 /\ 1 \in SyncMode
  BY WordAssumption DEF SyncMode
<1>2. NoArea \in Area
  BY DEF NoArea, Area
<1>3. NoObject \in Object
  BY <1>1 DEF NoObject, Object, QuirkModes, DefaultQuirk
<1>4. [NoObject EXCEPT !.live = TRUE] \in Object
  BY <1>3 DEF Object
<1> QED BY <1>2, <1>3, <1>4

(* Initially there is no object and nobody has the file open.               *)
LEMMA InitInv == Init => IInv
<1> SUFFICES ASSUME Init PROVE IInv
  OBVIOUS
<1>2. TypeOK
  BY Empty DEF Init, TypeOK
<1>3. Configured /\ RangeInBuffer /\ ProbeUndone
  BY DEF Init, Configured, RangeInBuffer, ProbeUndone, NoObject
<1>4. \A p \in Process : AreaInv(p)
  BY DEF Init, AreaInv, Mapping, At, NoArea
<1> QED BY <1>2, <1>3, <1>4 DEF IInv

(* The steps of the probe and of the removal, and those of the processes.   *)
Driver == \/ CreateObject \/ Remove \/ RemoveEmpty \/ LockObject \/ AttachRegion \/ Configure
          \/ SetAllocSize \/ AllocBuffer \/ Undo \/ FreeBuffer \/ Destroy

LEMMA DriverType ==
  ASSUME TypeOK, Driver
  PROVE  TypeOK'
<1>n. /\ tree \in TreeNode /\ SizeOf(tree) \in Nat
      /\ Given(tree.length) => tree.length \in Nat
      /\ Given(tree.offset) => tree.offset \in Nat
      /\ DirectionFits(tree) /\ Given(tree.direction) => tree.direction \in 0..2
  BY TreeAssumption, SizeType DEF TypeOK, TreeNode, Given, DirectionFits, Absent
<1>1. CASE CreateObject
  BY <1>1, Empty DEF CreateObject, TypeOK, mapVars
<1>2. CASE AttachRegion
  BY <1>2, <1>n DEF AttachRegion, TypeOK, Object, mapVars
<1>3. CASE Configure
  <2>1. StoredOffset(tree) \in 0..Word-1
    BY <1>n, WordType, WordAssumption DEF StoredOffset
  <2>2. ModeFits(tree) => Mode(tree, obj.mode) \in SyncMode
    BY <1>n, ModeType DEF TypeOK, Object
  <2>3. obj' \in Object
    <3> DEFINE direction == IF Given(tree.direction) THEN tree.direction ELSE 0
               length == LengthOf(tree, obj.size)
    <3>1. obj \in Object /\ Quirk(tree) \in QuirkModes /\ length \in Nat
      BY <1>n, QuirkType, LengthType DEF TypeOK, Object
    <3>2. CASE SyncFits(tree) /\ obj' = [obj EXCEPT
                 !.mode = Mode(tree, @), !.quirk = Quirk(tree), !.offset = StoredOffset(tree),
                 !.direction = direction, !.length = length]
      <4>1. Mode(tree, obj.mode) \in SyncMode /\ direction \in 0..2
        BY <3>2, <2>2, <1>n DEF SyncFits
      <4> HIDE DEF direction, length
      <4> QED BY <3>1, <3>2, <4>1, <2>1 DEF Object
    <3>3. CASE obj' = [obj EXCEPT !.quirk = Quirk(tree),
                         !.mode = IF ModeFits(tree) THEN Mode(tree, @) ELSE @]
      BY <3>1, <3>3, <2>2 DEF Object
    <3>4. CASE obj' = obj
      BY <3>1, <3>4
    <3> QED BY <1>3, <3>2, <3>3, <3>4 DEF Configure
  <2>4. asked' \in [Process -> SUBSET SyncMode]
    BY <1>3, <2>3 DEF Configure, TypeOK, Object
  <2> QED BY <1>3, <2>3, <2>4 DEF Configure, TypeOK
<1>4. CASE SetAllocSize
  <2>1. Pages(obj.size) * PageSize \in Nat
    BY PagesType, PageAssumption DEF TypeOK, Object
  <2> QED BY <1>4, <2>1 DEF SetAllocSize, TypeOK, Object, mapVars
<1>5. CASE AllocBuffer
  BY <1>5, PageAssumption DEF AllocBuffer, TypeOK, Object, mapVars
<1>6. CASE Destroy
  BY <1>6, Empty DEF Destroy, Forgotten, Returned, TypeOK
<1>7. CASE Remove \/ RemoveEmpty \/ LockObject \/ Undo \/ FreeBuffer
  BY <1>7 DEF Remove, RemoveEmpty, LockObject, Undo, FreeBuffer, TypeOK, mapVars
<1> QED BY <1>1, <1>2, <1>3, <1>4, <1>5, <1>6, <1>7 DEF Driver

(* What a step of a process p may do.                                       *)
Step(p) == \/ Open(p) \/ Release(p) \/ Mmap(p) \/ CheckRange(p) \/ TestAlways(p) \/ SetProt(p)
           \/ InsertFaults(p) \/ InsertAll(p) \/ Fault(p) \/ Munmap(p)
           \/ EnterSet(p) \/ LockSet(p) \/ InterruptSet(p) \/ SetSyncMode(p)

LEMMA FramesType ==
  ASSUME TypeOK, NEW p \in Process
  PROVE  /\ Frames(p) \subseteq Nat
         /\ \A i \in 0..(vma[p].pages - 1) : obj.phys + (vma[p].first + i) \in Nat
BY DEF TypeOK, Frames, Object, Area

LEMMA ProcessType ==
  ASSUME TypeOK, NEW p \in Process, Step(p)
  PROVE  TypeOK'
<1>1. CASE Open(p) \/ Release(p) \/ TestAlways(p) \/ EnterSet(p) \/ LockSet(p)
             \/ InterruptSet(p)
  BY <1>1 DEF Open, Release, TestAlways, EnterSet, LockSet, InterruptSet, At, Go, TypeOK, mapVars
<1>2. CASE CheckRange(p) \/ Munmap(p)
  <2>1. NoArea \in Area
    BY DEF NoArea, Area
  <2> QED BY ZenonT(60), <1>2, <2>1 DEF CheckRange, Munmap, Unmapped, Go, TypeOK, mapVars
<1>3. CASE Mmap(p)
  <2>1. vma' \in [Process -> Area]
    <3>1. PICK r \in Requests :
            vma' = [vma EXCEPT ![p] = [NoArea EXCEPT !.first = r.first, !.pages = r.pages,
                                                     !.sync = r.sync]]
      BY <1>3 DEF Mmap
    <3>2. r.first \in Nat /\ r.pages \in Nat /\ r.sync \in BOOLEAN
      BY RequestAssumption
    <3> QED BY <3>1, <3>2, Empty DEF Area, TypeOK
  <2> QED BY <1>3, <2>1 DEF Mmap, Go, TypeOK, Object
<1>4. CASE SetProt(p)
  <2>1. ProtOf(obj.mode) \in {"cached", "noncached", "writecombine"}
    BY ProtType DEF TypeOK, Object
  <2>2. vma' \in [Process -> Area]
    BY <1>4, <2>1 DEF SetProt, Area, TypeOK
  <2> QED BY <1>4, <2>2 DEF SetProt, Go, TypeOK
<1>5. CASE InsertFaults(p)
  BY ZenonT(60), <1>5 DEF InsertFaults, Go, Area, TypeOK
<1>6. CASE InsertAll(p)
  <2>1. CASE Unmapped(p)
    BY ZenonT(60), <1>6, <2>1, Empty DEF InsertAll, Unmapped, Go, TypeOK
  <2>2. CASE ~Unmapped(p)
    <3>1. /\ vma' = [vma EXCEPT ![p].prot = IF DmaCoherent THEN @ ELSE "dma"]
          /\ mapped' = [mapped EXCEPT ![p] = Frames(p)] /\ pc' = [pc EXCEPT ![p] = "mapped"]
          /\ UNCHANGED <<tree, refused, probe, obj, sem, region, file, asked, early>>
      BY <1>6, <2>2 DEF InsertAll, Go
    <3>2. vma' \in [Process -> Area]
      BY <3>1 DEF Area, TypeOK
    <3> QED BY <3>1, <3>2, FramesType DEF TypeOK
  <2> QED BY <2>1, <2>2
<1>7. CASE Fault(p)
  BY <1>7, FramesType DEF Fault, TypeOK
<1>8. CASE SetSyncMode(p)
  <2>1. obj' \in Object
    BY <1>8, SetAssumption DEF SetSyncMode, Object, SyncMode, TypeOK
  <2>2. asked' \in [Process -> SUBSET SyncMode]
    BY <1>8, <2>1 DEF SetSyncMode, Object, TypeOK
  <2> QED BY <1>8, <2>1, <2>2 DEF SetSyncMode, Go, TypeOK
<1> QED BY <1>1, <1>2, <1>3, <1>4, <1>5, <1>6, <1>7, <1>8 DEF Step
------------------------------------------------------------------------------
(* The probe: what it has made of the node, and what an error path leaves.  *)

LEMMA DriverProbe ==
  ASSUME TypeOK, Configured, RangeInBuffer, ProbeUndone, Driver
  PROVE  Configured' /\ RangeInBuffer' /\ ProbeUndone'
<1>n. /\ tree \in TreeNode /\ SizeOf(tree) \in Nat
      /\ Given(tree.length) => tree.length \in Nat
      /\ Given(tree.offset) => tree.offset \in Nat
  BY TreeAssumption, SizeType DEF TypeOK, TreeNode, Given, Absent
<1>1. CASE CreateObject
  BY <1>1 DEF CreateObject, Configured, RangeInBuffer, ProbeUndone, NoObject, mapVars
<1>2. CASE LockObject \/ Remove \/ RemoveEmpty \/ Undo \/ FreeBuffer
  BY <1>2 DEF LockObject, Remove, RemoveEmpty, Undo, FreeBuffer, Configured, RangeInBuffer,
              ProbeUndone, mapVars
<1>3. CASE AttachRegion
  <2>1. /\ probe = "configure" /\ probe' \in {"sync", "undo"} /\ tree' = tree
        /\ obj'.size = SizeOf(tree)
        /\ obj'.reserved = region' /\ refused' = ~MaskFits(tree)
    BY <1>3 DEF AttachRegion, TypeOK, Object
  <2>2. probe' = "sync" => (region' <=> tree.region = "reserved")
    BY <1>3 DEF AttachRegion
  <2>a. Configured'
    BY <2>1, <2>2 DEF Configured
  <2>b. RangeInBuffer'
    BY <2>1, <2>2 DEF RangeInBuffer
  <2>c. ProbeUndone'
    BY <2>1, <2>2 DEF ProbeUndone
  <2> QED BY <2>a, <2>b, <2>c
<1>4. CASE Configure
  <2>1. /\ probe' \in {"setup", "undo"} /\ UNCHANGED <<tree, region>>
        /\ obj'.size = obj.size /\ obj'.reserved = obj.reserved
    BY <1>4 DEF Configure, TypeOK, Object
  <2>2. refused' => ~(MaskFits(tree) /\ SyncFits(tree))
    BY <1>4 DEF Configure, Configured
  <2>3. ASSUME probe' = "setup"
        PROVE  /\ SyncFits(tree) /\ obj'.offset = StoredOffset(tree)
               /\ obj'.length = LengthOf(tree, obj.size)
    <3>1. /\ SyncFits(tree)
          /\ obj' = [obj EXCEPT
               !.mode = Mode(tree, @), !.quirk = Quirk(tree), !.offset = StoredOffset(tree),
               !.direction = IF Given(tree.direction) THEN tree.direction ELSE 0,
               !.length = LengthOf(tree, obj.size)]
      BY <1>4, <2>3 DEF Configure
    <3> QED BY <3>1 DEF TypeOK, Object
  <2>5. Configured'
    BY <1>4, <2>1, <2>2, <2>3 DEF Configured, Configure
  <2>4. RangeInBuffer' /\ ProbeUndone'
    BY <2>1 DEF RangeInBuffer, ProbeUndone
  <2> QED BY <2>4, <2>5
<1>5. CASE SetAllocSize
  BY <1>5 DEF SetAllocSize, Configured, RangeInBuffer, ProbeUndone, TypeOK, Object, mapVars
<1>6. CASE AllocBuffer
  <2>1. Configured' /\ ProbeUndone'
    BY <1>6 DEF AllocBuffer, Configured, ProbeUndone, TypeOK, Object, mapVars
  <2>2. CASE probe' = "bound"
    <3>1. /\ SyncFits(tree) /\ obj.size = SizeOf(tree) /\ obj.offset = StoredOffset(tree)
          /\ obj.length = LengthOf(tree, obj.size) /\ obj.size \in 1..SizeWord-1
          /\ obj.offset \in Nat
      <4>1. obj.size > 0
        BY <1>6 DEF AllocBuffer, Configured
      <4>2. obj.offset \in Nat
        BY DEF TypeOK, Object
      <4> QED BY <4>1, <4>2, <1>6, <1>n, SizeType DEF AllocBuffer, Configured
    <3>2. /\ obj'.size = obj.size /\ obj'.offset = obj.offset /\ obj'.length = obj.length
          /\ tree' = tree
      BY <1>6 DEF AllocBuffer, TypeOK, Object
    <3>3. Given(tree.length) /\ obj.offset + tree.length < Word =>
            obj.offset + obj.length <= obj.size
      <4> SUFFICES ASSUME Given(tree.length), obj.offset + tree.length < Word
                   PROVE  obj.offset + obj.length <= obj.size
        OBVIOUS
      <4>1. (obj.offset + tree.length) % Word <= obj.size
        BY <3>1 DEF SyncFits, LengthFits
      <4>2. obj.offset + tree.length <= obj.size /\ tree.length \in 0..SizeWord-1
        BY <4>1, <1>n, <3>1, WordAssumption
      <4>3. obj.length = tree.length
        BY <3>1, <4>2, WordAssumption DEF LengthOf, AsSize
      <4> QED BY <4>2, <4>3
    <3>5. ~Given(tree.length) => (obj.offset + obj.length <= obj.size <=> obj.offset = 0)
      BY <3>1 DEF LengthOf
    <3>4. Given(tree.offset) /\ obj.size <= IntMax => obj.offset = tree.offset
      <4> SUFFICES ASSUME Given(tree.offset), obj.size <= IntMax
                   PROVE  obj.offset = tree.offset
        OBVIOUS
      <4>1. tree.offset \in Nat /\ tree.offset <= IntMax
        BY <1>n, <3>1, WordAssumption DEF SyncFits, OffsetFits
      <4> QED BY <3>1, <4>1, SmallOffset DEF StoredOffset
    <3> QED BY <2>1, <3>2, <3>3, <3>4, <3>5 DEF RangeInBuffer, Given
  <2> QED BY <2>1, <2>2 DEF RangeInBuffer
<1>7. CASE Destroy
  <2>1. /\ probe' \in {"unbound", "empty"} /\ tree' = tree /\ refused' = FALSE
        /\ probe' = "empty" => refused
        /\ obj' = NoObject /\ sem' = None
    BY <1>7 DEF Destroy, Returned
  <2>2. region' = FALSE
    BY <1>7 DEF Destroy, Configured, TypeOK, Object
  <2>3. \A p \in Process : pc'[p] = "idle" /\ file'[p] # "open"
    BY <1>7 DEF Destroy
  <2>4. NoObject.reserved = FALSE
    BY DEF NoObject
  <2>a. Configured'
    BY <2>1, <2>2, <2>3, <2>4 DEF Configured
  <2>b. RangeInBuffer'
    BY <2>1, <2>2, <2>3, <2>4 DEF RangeInBuffer
  <2>c. ProbeUndone'
    BY <2>1, <2>2, <2>3, <2>4 DEF ProbeUndone, Configured
  <2> QED BY <2>a, <2>b, <2>c
<1> QED BY <1>1, <1>2, <1>3, <1>4, <1>5, <1>6, <1>7 DEF Driver

(* A process changes nothing of the object but its mode, and has nothing to *)
(* do with a device that is not there.                                     *)
LEMMA ProcessFrame ==
  ASSUME TypeOK, ProbeUndone, NEW p \in Process, Step(p)
  PROVE  /\ UNCHANGED <<tree, refused, probe, region>>
         /\ probe \notin {"unbound", "empty"}
         /\ \E mode \in SyncMode : obj' = [obj EXCEPT !.mode = mode]
<1>1. probe \notin {"unbound", "empty"}
  <2>1. obj.live \/ file[p] = "open" \/ pc[p] # "idle"
    BY DEF Step, Open, Release, Mmap, CheckRange, TestAlways, SetProt, InsertFaults,
           InsertAll, Fault, Munmap, EnterSet, LockSet, InterruptSet, SetSyncMode, At
  <2> QED BY <2>1 DEF ProbeUndone, NoObject
<1>2. UNCHANGED <<tree, refused, probe, region>>
  BY DEF Step, Open, Release, Mmap, CheckRange, TestAlways, SetProt, InsertFaults, InsertAll,
         Fault, Munmap, EnterSet, LockSet, InterruptSet, SetSyncMode
<1>3. CASE SetSyncMode(p)
  <2>1. PICK mode \in SetMode : obj' = [obj EXCEPT !.mode = IF mode <= 7 THEN mode ELSE @]
    BY <1>3 DEF SetSyncMode
  <2>2. (IF mode <= 7 THEN mode ELSE obj.mode) \in SyncMode
    BY SetAssumption DEF SyncMode, TypeOK, Object
  <2> QED BY <1>1, <1>2, <2>1, <2>2
<1>4. CASE obj' = obj
  <2>1. obj.mode \in SyncMode /\ obj = [obj EXCEPT !.mode = obj.mode]
    BY DEF TypeOK, Object
  <2> QED BY <1>1, <1>2, <1>4, <2>1
<1> QED
  BY <1>3, <1>4 DEF Step, Open, Release, Mmap, CheckRange, TestAlways, SetProt, InsertFaults,
                    InsertAll, Fault, Munmap, EnterSet, LockSet, InterruptSet

LEMMA ProcessProbe ==
  ASSUME TypeOK, Configured, RangeInBuffer, ProbeUndone, NEW p \in Process, Step(p)
  PROVE  Configured' /\ RangeInBuffer' /\ ProbeUndone'
<1>1. PICK mode \in SyncMode : obj' = [obj EXCEPT !.mode = mode]
  BY ProcessFrame
<1>2. /\ obj'.size = obj.size /\ obj'.alloc = obj.alloc /\ obj'.phys = obj.phys
      /\ obj'.offset = obj.offset /\ obj'.length = obj.length
      /\ obj'.reserved = obj.reserved
  BY <1>1 DEF TypeOK, Object
<1> QED BY <1>2, ProcessFrame DEF Configured, RangeInBuffer, ProbeUndone
------------------------------------------------------------------------------
(* The areas.                                                               *)

(* The steps of others leave an area as it is; they may add to the modes in *)
(* force since its mmap, and must add the mode they set.                    *)
LEMMA AreaKept ==
  ASSUME NEW p \in Process, AreaInv(p), tree' = tree,
         pc'[p] = pc[p], file'[p] = file[p], vma'[p] = vma[p], early'[p] = early[p],
         mapped'[p] = mapped[p], asked[p] \subseteq asked'[p],
         Mapping(p) => obj'.mode \in asked'[p],
         ~early[p] /\ (Mapping(p) \/ At(p, "mapped")) => Settled'
  PROVE  AreaInv(p)'
<1>1. (Mapping(p)' <=> Mapping(p)) /\ \A place : At(p, place)' <=> At(p, place)
  BY DEF Mapping, At
<1>2. CachedAs(p) => CachedAs(p)'
  BY DEF CachedAs
<1>3. BufferFrames' = BufferFrames
  BY DEF BufferFrames
<1> QED BY <1>1, <1>2, <1>3 DEF AreaInv

LEMMA DriverArea ==
  ASSUME TypeOK, Configured, ProbeUndone, Driver, NEW p \in Process, AreaInv(p)
  PROVE  AreaInv(p)'
<1>1. CASE Destroy
  <2>1. /\ tree' = tree /\ pc'[p] = "idle" /\ vma'[p] = NoArea /\ mapped'[p] = {}
        /\ ~early'[p]
    BY <1>1 DEF Destroy, Forgotten
  <2> QED BY <2>1 DEF AreaInv, Mapping, At
<1>2. CASE CreateObject \/ RemoveEmpty
  <2>1. pc[p] = "idle" /\ UNCHANGED <<tree, pc, file, vma, early, mapped, asked>>
    BY <1>2 DEF CreateObject, RemoveEmpty, ProbeUndone, mapVars
  <2> QED BY <2>1, AreaKept DEF Mapping, At
<1>3. CASE Configure
  <2>1. /\ UNCHANGED <<tree, pc, file, vma, early, mapped>>
        /\ asked'[p] = asked[p] \cup {obj'.mode} /\ ~Settled
    BY <1>3 DEF Configure, Settled
  <2>2. ~early[p] => ~(Mapping(p) \/ At(p, "mapped"))
    BY <2>1 DEF AreaInv
  <2> QED BY <2>1, <2>2, AreaKept
<1>4. CASE LockObject \/ AttachRegion \/ SetAllocSize \/ AllocBuffer \/ Undo
  <2>1. /\ UNCHANGED <<tree, pc, file, vma, early, mapped, asked>>
        /\ obj'.mode = obj.mode /\ ~Settled
    BY <1>4 DEF LockObject, AttachRegion, SetAllocSize, AllocBuffer, Undo, Settled, mapVars,
                TypeOK, Object
  <2>2. /\ ~early[p] => ~(Mapping(p) \/ At(p, "mapped"))
        /\ Mapping(p) => obj.mode \in asked[p]
    BY <2>1 DEF AreaInv
  <2> QED BY <2>1, <2>2, AreaKept
<1>5. CASE Remove \/ FreeBuffer
  <2>1. /\ UNCHANGED <<tree, pc, file, vma, early, mapped, asked, obj>>
        /\ Settled => Settled'
    BY <1>5 DEF Remove, FreeBuffer, Settled, mapVars
  <2>2. /\ ~early[p] /\ (Mapping(p) \/ At(p, "mapped")) => Settled
        /\ Mapping(p) => obj.mode \in asked[p]
    BY DEF AreaInv
  <2> QED BY <2>1, <2>2, AreaKept
<1> QED BY <1>1, <1>2, <1>3, <1>4, <1>5 DEF Driver

LEMMA OtherArea ==
  ASSUME TypeOK, ProbeUndone, NEW q \in Process, Step(q), NEW p \in Process, p # q, AreaInv(p)
  PROVE  AreaInv(p)'
<1>1. PICK mode \in SyncMode : obj' = [obj EXCEPT !.mode = mode]
  BY ProcessFrame
<1>2. UNCHANGED <<tree, probe>> /\ (Settled => Settled')
  BY <1>1, ProcessFrame DEF Settled, TypeOK, Object
<1>3. /\ pc'[p] = pc[p] /\ file'[p] = file[p] /\ vma'[p] = vma[p] /\ early'[p] = early[p]
      /\ mapped'[p] = mapped[p]
  BY DEF Step, Open, Release, Mmap, CheckRange, TestAlways, SetProt, InsertFaults, InsertAll,
         Fault, Munmap, Unmapped, EnterSet, LockSet, InterruptSet, SetSyncMode, Go, mapVars,
         TypeOK
<1>4. asked[p] \subseteq asked'[p] /\ (Mapping(p) => obj'.mode \in asked'[p])
  <2>1. CASE SetSyncMode(q)
    BY <2>1 DEF SetSyncMode, TypeOK
  <2>2. CASE asked'[p] = asked[p] /\ obj' = obj
    BY <2>2 DEF AreaInv
  <2> QED
    BY <2>1, <2>2 DEF Step, Open, Release, Mmap, CheckRange, TestAlways, SetProt, InsertFaults,
         InsertAll, Fault, Munmap, Unmapped, EnterSet, LockSet, InterruptSet, mapVars, TypeOK
<1>5. ~early[p] /\ (Mapping(p) \/ At(p, "mapped")) => Settled'
  BY <1>2 DEF AreaInv
<1> QED BY <1>2, <1>3, <1>4, <1>5, AreaKept

(* The area a process is making, step by step.                              *)
LEMMA OwnArea ==
  ASSUME TypeOK, Configured, ProbeUndone, NEW p \in Process, Step(p), AreaInv(p)
  PROVE  AreaInv(p)'
<1>t. /\ UNCHANGED tree /\ pc[p] \in {"idle", "wait", "set", "range", "always", "prot",
                                      "insert", "mapped"}
      /\ vma[p].first \in Nat /\ vma[p].pages \in Nat /\ vma[p] \in Area
      /\ obj.mode \in SyncMode /\ PageSize \in Nat \ {0}
      /\ BufferFrames' = BufferFrames /\ Pages(SizeOf(tree))' = Pages(SizeOf(tree))
  BY ProcessFrame, PageAssumption DEF TypeOK, Area, Object, BufferFrames
<1>1. CASE Open(p) \/ Release(p) \/ EnterSet(p) \/ LockSet(p) \/ InterruptSet(p)
             \/ SetSyncMode(p)
  <2>1. /\ pc[p] \in {"idle", "wait", "set"} /\ pc'[p] \in {"idle", "wait", "set"}
        /\ vma' = vma /\ mapped' = mapped /\ early' = early
    BY <1>1 DEF Open, Release, EnterSet, LockSet, InterruptSet, SetSyncMode, At, Go, mapVars,
                TypeOK
  <2> QED BY <1>t, <2>1 DEF AreaInv, Mapping, At
<1>2. CASE Mmap(p)
  <2>1. PICK r \in Requests :
          vma' = [vma EXCEPT ![p] = [NoArea EXCEPT !.first = r.first, !.pages = r.pages,
                                                   !.sync = r.sync]]
    BY <1>2 DEF Mmap
  <2>2. vma'[p].prot = "cached" /\ vma'[p].ops = FALSE
    BY <2>1 DEF TypeOK, NoArea
  <2>3. /\ pc'[p] = "range" /\ file'[p] = "open" /\ asked'[p] = {obj.mode} /\ obj' = obj
        /\ early'[p] = (probe # "bound") /\ mapped'[p] = {} /\ probe' = probe
    BY <1>2 DEF Mmap, TypeOK, Go, At, AreaInv, Mapping
  <2>4. probe = "bound" => Settled'
    BY <1>t, <2>3 DEF Settled, Configured
  <2> QED BY <1>t, <2>2, <2>3, <2>4 DEF AreaInv, Mapping, At
<1>3. CASE Unmapped(p)
  <2>1. pc'[p] = "idle" /\ vma'[p] = NoArea /\ mapped'[p] = {} /\ ~early'[p]
    BY <1>3 DEF Unmapped, Go, TypeOK
  <2> QED BY <1>t, <2>1 DEF AreaInv, Mapping, At
<1>9. CASE CheckRange(p) /\ ~Unmapped(p)
  <2>1. /\ pc[p] = "range" /\ pc'[p] = "always" /\ file'[p] = "open"
        /\ vma[p].first + vma[p].pages <= obj.alloc \div PageSize
        /\ UNCHANGED <<obj, probe, vma, asked, early, mapped>>
    BY <1>9, <1>t DEF CheckRange, Go, At, mapVars, TypeOK, Object
  <2>2. ~early[p] => Settled /\ Settled'
    BY <1>t, <2>1 DEF AreaInv, Mapping, Settled
  <2>3. ~early[p] => vma[p].first + vma[p].pages <= Pages(SizeOf(tree))
    BY <1>t, <2>1, <2>2, WholePages, PagesType DEF Settled, TypeOK, Object
  <2> QED BY <1>t, <2>1, <2>2, <2>3 DEF AreaInv, Mapping, At
<1>4. CASE TestAlways(p)
  <2>1. /\ pc[p] = "always" /\ file'[p] = "open"
        /\ UNCHANGED <<obj, probe, vma, asked, early, mapped>>
        /\ IF vma[p].sync \/ obj.mode >= 4 THEN pc'[p] = "prot" ELSE pc'[p] = "insert"
    BY <1>4 DEF TestAlways, Go, At, mapVars, TypeOK
  <2>2. /\ obj.mode \in asked[p] /\ vma[p].prot = "cached" /\ (Settled => Settled')
    BY <1>t, <2>1 DEF AreaInv, Mapping, Settled
  <2>3. pc'[p] = "insert" => CachedAs(p)'
    BY <1>t, <2>1, <2>2 DEF CachedAs, SyncMode
  <2> QED BY <1>t, <2>1, <2>2, <2>3 DEF AreaInv, Mapping, At
<1>5. CASE SetProt(p)
  <2>1. /\ pc[p] = "prot" /\ file'[p] = "open" /\ pc'[p] = "insert"
        /\ UNCHANGED <<obj, probe, asked, early, mapped>>
        /\ vma'[p] = [vma[p] EXCEPT !.prot = ProtOf(obj.mode)]
    BY <1>5 DEF SetProt, Go, At, TypeOK
  <2>2. /\ vma'[p].first = vma[p].first /\ vma'[p].pages = vma[p].pages
        /\ vma'[p].sync = vma[p].sync /\ vma'[p].ops = vma[p].ops
        /\ vma'[p].prot = ProtOf(obj.mode)
    BY <1>t, <2>1 DEF Area
  <2>3. /\ obj.mode \in asked[p] /\ (Settled => Settled')
        /\ vma[p].sync \/ \E m \in asked[p] : m >= 4
    BY <1>t, <2>1 DEF AreaInv, Mapping, At, Settled
  <2>4. CachedAs(p)'
    BY <2>1, <2>2, <2>3 DEF CachedAs
  <2> QED BY <1>t, <2>1, <2>2, <2>3, <2>4 DEF AreaInv, Mapping, At
<1>6. CASE InsertFaults(p)
  <2>1. /\ pc[p] = "insert" /\ file'[p] = "open" /\ pc'[p] = "mapped"
        /\ UNCHANGED <<obj, probe, asked, early, mapped>>
        /\ vma'[p] = [vma[p] EXCEPT !.ops = TRUE]
    BY <1>6 DEF InsertFaults, Go, At, TypeOK
  <2>2. /\ vma'[p].first = vma[p].first /\ vma'[p].pages = vma[p].pages
        /\ vma'[p].sync = vma[p].sync /\ vma'[p].prot = vma[p].prot
    BY <1>t, <2>1 DEF Area
  <2>3. CachedAs(p) /\ CachedAs(p)' /\ (Settled => Settled')
    BY <1>t, <2>1, <2>2 DEF AreaInv, At, CachedAs, Settled
  <2> QED BY <1>t, <2>1, <2>2, <2>3 DEF AreaInv, Mapping, At
<1>7. CASE InsertAll(p) /\ ~Unmapped(p)
  <2>1. /\ pc[p] = "insert" /\ file'[p] = "open" /\ pc'[p] = "mapped"
        /\ UNCHANGED <<obj, probe, asked, early>> /\ mapped'[p] = Frames(p)
        /\ vma'[p].first = vma[p].first /\ vma'[p].pages = vma[p].pages
        /\ vma'[p].ops = vma[p].ops
    BY <1>7, <1>t DEF InsertAll, Go, At, TypeOK, Area
  <2>2. ASSUME ~early[p] PROVE Frames(p) \subseteq BufferFrames /\ Settled'
    <3>1. /\ Settled /\ Settled'
          /\ vma[p].first + vma[p].pages <= Pages(SizeOf(tree))
      BY <1>t, <2>1, <2>2 DEF AreaInv, Mapping, Settled
    <3>2. Pages(SizeOf(tree)) \in Nat /\ Base \in Nat
      BY <3>1, PagesType, PageAssumption DEF Settled, TypeOK, Object
    <3> QED BY <1>t, <3>1, <3>2 DEF Frames, BufferFrames, Settled
  <2>3. ~vma[p].ops
    BY <2>1 DEF AreaInv, Mapping
  <2> QED BY <1>t, <2>1, <2>2, <2>3 DEF AreaInv, Mapping, At
<1>8. CASE Fault(p)
  <2>1. PICK i \in 0..(vma[p].pages - 1) :
          mapped' = [mapped EXCEPT ![p] = @ \cup {obj.phys + (vma[p].first + i)}]
    BY <1>8 DEF Fault
  <2>2. pc[p] = "mapped" /\ UNCHANGED <<obj, probe, file, pc, vma, asked, early>>
    BY <1>8 DEF Fault, At
  <2>3. ASSUME ~early[p] PROVE mapped'[p] \subseteq BufferFrames /\ Settled'
    <3>1. /\ Settled /\ Settled' /\ mapped[p] \subseteq BufferFrames
          /\ vma[p].first + vma[p].pages <= Pages(SizeOf(tree))
      BY <1>t, <2>2, <2>3 DEF AreaInv, At, Settled
    <3>2. Pages(SizeOf(tree)) \in Nat /\ Base \in Nat
      BY <3>1, PagesType, PageAssumption DEF Settled, TypeOK, Object
    <3>3. obj.phys + (vma[p].first + i) \in BufferFrames
      BY <1>t, <3>1, <3>2 DEF BufferFrames, Settled
    <3> QED BY <2>1, <3>1, <3>3 DEF TypeOK
  <2>4. CachedAs(p)' <=> CachedAs(p)
    BY <2>2 DEF CachedAs
  <2> QED BY <1>t, <2>2, <2>3, <2>4 DEF AreaInv, Mapping, At
<1> QED BY <1>1, <1>2, <1>3, <1>4, <1>5, <1>6, <1>7, <1>8, <1>9 DEF Step, Munmap
------------------------------------------------------------------------------
LEMMA StepInv ==
  ASSUME IInv, [Next]_vars
  PROVE  IInv'
<1>1. TypeOK /\ Configured /\ RangeInBuffer /\ ProbeUndone /\ \A p \in Process : AreaInv(p)
  BY DEF IInv
<1>2. CASE Driver
  BY <1>1, <1>2, DriverType, DriverProbe, DriverArea DEF IInv
<1>3. ASSUME NEW q \in Process, Step(q) PROVE IInv'
  BY <1>1, <1>3, ProcessType, ProcessProbe, OwnArea, OtherArea DEF IInv
<1>4. CASE UNCHANGED vars
  <2>1. TypeOK' /\ Configured' /\ RangeInBuffer' /\ ProbeUndone'
    BY <1>1, <1>4 DEF vars, TypeOK, Configured, RangeInBuffer, ProbeUndone
  <2>2. ASSUME NEW p \in Process PROVE AreaInv(p)'
    BY <1>1, <1>4, AreaKept DEF vars, AreaInv, Settled
  <2> QED BY <2>1, <2>2 DEF IInv
<1>5. CASE Next
  <2>1. Driver \/ \E q \in Process : Step(q)
    BY <1>5 DEF Next, ProbeStep, SetStep, MapStep, Driver, Step, Process
  <2> QED BY <2>1, <1>2, <1>3
<1> QED BY <1>4, <1>5

(* The inductive invariant: what the probe has made of the node and what an *)
(* error path undoes, and of each process how far its mmap has come and the *)
(* modes it has seen.                                                       *)
THEOREM Invariance == Spec => []IInv
BY InitInv, StepInv, PTL DEF Spec

(* Whichever property the probe refuses, and wherever a removal comes, a    *)
(* device that is not bound has no object, no mutex and no reserved memory. *)
THEOREM ErrorPathsUndo == Spec => []ProbeUndone
<1>1. IInv => ProbeUndone
  BY DEF IInv
<1> QED BY <1>1, Invariance, PTL

(* Whatever the node, the default range of a bound device lies in its       *)
(* buffer if the node gives the length of it, unless the two numbers wrap   *)
(* around 64 bits; if the node gives no length, the range lies in the       *)
(* buffer only where the offset is 0.                                       *)
THEOREM DefaultRange == Spec => []RangeInBuffer
<1>1. IInv => RangeInBuffer
  BY DEF IInv
<1> QED BY <1>1, Invariance, PTL

(* However many processes map a bound device, from whichever page, and in   *)
(* whichever order their pages fault in, none ever holds a frame outside    *)
(* the buffer, although the check in the fault handler can wrap.            *)
THEOREM OnlyTheBuffer == Spec => []MapsBuffer
<1>1. IInv => MapsBuffer
  BY DEF IInv, AreaInv, MapsBuffer
<1> QED BY <1>1, Invariance, PTL

(* However sync_mode is set between the two reads of it in mmap, the        *)
(* caching of an area whose pages fault in is one that was asked for while  *)
(* the call ran.                                                            *)
THEOREM CachedAsAsked == Spec => []CachingWasAsked
<1>1. IInv => CachingWasAsked
  BY DEF IInv, AreaInv, CachingWasAsked
<1> QED BY <1>1, Invariance, PTL
==============================================================================
