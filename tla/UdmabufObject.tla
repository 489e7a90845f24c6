---------------------------- MODULE UdmabufObject ----------------------------
(***************************************************************************)
(* One live u-dma-buf device (u-dma-buf.c): threads read and write its      *)
(* buffer through the device file, set its sync_* attributes in sysfs and   *)
(* sync it through the in-kernel interface, all under the mutex sem of the  *)
(* object.  What matters of the buffer is who owns each byte, the processor *)
(* or the device: dma_sync_single_for_cpu and .._for_device hand bytes over.*)
(*                                                                         *)
(* Left out: the data, the DMA direction (it selects cache operations, not  *)
(* the owner), sync_owner and is_open, which no code reads but to show      *)
(* them, and mmap, which takes no lock (UdmabufDevice).                    *)
(***************************************************************************)
EXTENDS Integers

CONSTANTS
  Thread, File,
  Synchronous,  \* the files opened with O_SYNC
  Size,         \* this->size
  Word, Half,   \* 2^64 and 2^32: the range of an attribute and of half of it
  Grain,        \* 2^4: a command's bits below its size
  Count,        \* how many bytes a read or write asks for
  Value,        \* [Attribute -> what is written to it]
  KernelSync    \* what u_dma_buf_device_sync is called with

Attribute == {"sync_mode", "sync_offset", "sync_size", "sync_for_cpu",
              "sync_for_device"}
Settings == [Attribute -> 0..Word-1]

ASSUME SizeAssumption == Size \in Nat /\ Word \in Nat /\ Size < Word
ASSUME FieldAssumption == Half \in Nat \ {0} /\ Grain \in Nat \ {0}
ASSUME ModeAssumption == 7 < Word
ASSUME FileAssumption == Synchronous \subseteq File
ASSUME InputAssumption ==
  /\ Count \subseteq Nat
  /\ Value \in [Attribute -> SUBSET (0..Word-1)]
  /\ KernelSync \subseteq [command : 0..3, offset : 0..Word-1, size : -1..Word-1]

None == "none"
ASSUME NoneAssumption == None \notin Thread

VARIABLES
  sem,    \* the thread that holds this->sem
  owner,  \* of each byte of the buffer
  attr,   \* the sync_* members of the object
  fpos,   \* file->f_pos
  pc, call,  \* where each thread is, and in which call with what arguments
  ok      \* the call has not failed

vars == <<sem, owner, attr, fpos, pc, call, ok>>

Byte == 0..Size-1
Side == {"cpu", "device"}
Places == {"idle", "seek", "enter", "locked", "copy", "give", "sync", "unlock", "return"}

NoCall == [op |-> "none"]
Transfers == [op : {"transfer"}, file : File, pos : Nat, count : Nat]
Sets == [op : {"set"}, attr : Attribute, value : 0..Word-1]
Syncs == [op : {"sync"}, command : 0..3, offset : 0..Word-1, size : -1..Word-1]
Shows == {[op |-> "show"]}
Seeks == [op : {"seek"}, file : File, pos : Nat]
Calls == {NoCall} \cup Transfers \cup Sets \cup Syncs \cup Shows \cup Seeks

\* The initial values udmabuf_object_create gives the members; SYNC_MODE_NONCACHED
\* is 1.
Init ==
  /\ sem = None
  /\ owner = [b \in Byte |-> "cpu"]
  /\ attr = [a \in Attribute |-> IF a = "sync_mode" THEN 1 ELSE 0]
  /\ fpos = [f \in File |-> 0]
  /\ pc = [t \in Thread |-> "idle"]
  /\ call = [t \in Thread |-> NoCall]
  /\ ok = [t \in Thread |-> TRUE]
------------------------------------------------------------------------------
(* Ranges of bytes and who owns them.                                       *)

\* The bytes of the buffer among `size` bytes from phys_addr + offset, an
\* address that wraps around the word.
Reach(offset, size) == {b \in Byte : (b - offset) % Word < size}
HandOver(bytes, side) ==
  owner' = [b \in Byte |-> IF b \in bytes THEN side ELSE owner[b]]

\* A command is either a flag, which stands for the attributes sync_offset and
\* sync_size, or holds an offset and a size of its own.
HasArguments(command) == command \div 2 # 0
OffsetOf(command) ==
  IF HasArguments(command) THEN command \div Half ELSE attr["sync_offset"]
SizeOf(command) ==
  IF HasArguments(command)
  THEN ((command % Half) \div Grain) * Grain
  ELSE attr["sync_size"]

\* The sum wraps around the word.
RangeFits(offset, size) == (offset + size) % Word <= Size

\* A plausible bug: the count is not cut at the end of the buffer.
EndUncut(c) == IF c.pos >= Size THEN c.pos ELSE c.pos + c.count

\* *ppos when the transfer has succeeded, and the bytes it covers.
EndOf(c) == IF c.pos >= Size THEN c.pos
            ELSE IF c.pos + c.count >= Size THEN Size ELSE c.pos + c.count

Span(c) == {b \in Byte : c.pos <= b /\ b < EndOf(c)}

\* (file->f_flags & O_SYNC) | (this->sync_mode & SYNC_ALWAYS)
IsSynced(c) == c.file \in Synchronous \/ (attr["sync_mode"] \div 4) % 2 = 1
------------------------------------------------------------------------------
(* The calls begin and wait for the mutex.                                  *)

Go(t, place) == pc' = [pc EXCEPT ![t] = place]
Finish(t, good) == Go(t, "unlock") /\ ok' = [ok EXCEPT ![t] = good]
Forget(t) == call' = [call EXCEPT ![t] = NoCall] /\ ok' = [ok EXCEPT ![t] = TRUE]
At(t, place) == pc[t] = place
Calling(t, ops) == call[t].op \in ops

Begin(t, c) ==
  /\ At(t, "idle") /\ call' = [call EXCEPT ![t] = c]
  /\ Go(t, "enter") /\ UNCHANGED <<sem, owner, attr, fpos, ok>>

\* The system call copies the file's position before the driver's handler.
CallTransfer(t) ==
  \E f \in File, n \in Count :
    Begin(t, [op |-> "transfer", file |-> f, pos |-> fpos[f], count |-> n])

CallSet(t) ==
  \E a \in Attribute : \E v \in Value[a] :
    Begin(t, [op |-> "set", attr |-> a, value |-> v])

CallShow(t) == Begin(t, [op |-> "show"])

Lock(t) ==
  /\ At(t, "enter") /\ sem = None
  /\ sem' = t /\ Go(t, "locked")
  /\ UNCHANGED <<owner, attr, fpos, call, ok>>

\* A signal ends the wait: -ERESTARTSYS.
Interrupted(t) ==
  /\ At(t, "enter") /\ Go(t, "idle") /\ Forget(t)
  /\ UNCHANGED <<sem, owner, attr, fpos>>

\* A plausible bug: the in-kernel sync does not try the mutex.
CallSyncUnlocked(t) ==
  /\ At(t, "idle")
  /\ \E k \in KernelSync :
       call' = [call EXCEPT ![t] = [op |-> "sync", command |-> k.command,
                                    offset |-> k.offset, size |-> k.size]]
  /\ sem' = t /\ Go(t, "locked") /\ UNCHANGED <<owner, attr, fpos, ok>>

\* u_dma_buf_device_sync does not wait: without the mutex it changes nothing
\* and returns -EBUSY.
CallSync(t) ==
  /\ At(t, "idle") /\ sem = None
  /\ \E k \in KernelSync :
       call' = [call EXCEPT ![t] = [op |-> "sync", command |-> k.command,
                                    offset |-> k.offset, size |-> k.size]]
  /\ sem' = t /\ Go(t, "locked") /\ UNCHANGED <<owner, attr, fpos, ok>>

\* Nor does u_dma_buf_device_getmap, which only looks.
CallGetMap(t) ==
  /\ At(t, "idle") /\ sem = None
  /\ call' = [call EXCEPT ![t] = [op |-> "show"]]
  /\ sem' = t /\ Go(t, "locked") /\ UNCHANGED <<owner, attr, fpos, ok>>

\* The system call stores the position the handler leaves, whoever moved it
\* in between.
Return(t) ==
  /\ At(t, "return")
  /\ fpos' = [fpos EXCEPT ![call[t].file] =
                IF ok[t] THEN EndOf(call[t]) ELSE call[t].pos]
  /\ Go(t, "idle") /\ Forget(t)
  /\ UNCHANGED <<sem, owner, attr>>

\* SEEK_SET, SEEK_CUR and SEEK_END, without a lock: the position is read here
CallSeek(t) ==
  /\ At(t, "idle") /\ Go(t, "seek")
  /\ \E f \in File, from \in {"set", "cur", "end"}, offset \in -1..1 :
       LET start == [set |-> 0, cur |-> fpos[f], end |-> Size]
           position == start[from] + offset
       IN /\ position >= 0 /\ position <= Size
          /\ call' = [call EXCEPT ![t] = [op |-> "seek", file |-> f, pos |-> position]]
  /\ UNCHANGED <<sem, owner, attr, fpos, ok>>

\* and stored here, whoever moved it in between.
Llseek(t) ==
  /\ At(t, "seek")
  /\ fpos' = [fpos EXCEPT ![call[t].file] = call[t].pos]
  /\ Go(t, "idle") /\ Forget(t)
  /\ UNCHANGED <<sem, owner, attr>>
------------------------------------------------------------------------------
(* With the mutex: reads and writes.                                        *)

Unlock(t) ==
  /\ At(t, "unlock") /\ sem' = None
  /\ IF Calling(t, {"transfer"})
     THEN Go(t, "return") /\ UNCHANGED <<call, ok>>
     ELSE Go(t, "idle") /\ Forget(t)
  /\ UNCHANGED <<owner, attr, fpos>>

Take(t) ==
  /\ At(t, "locked") /\ Calling(t, {"transfer"})
  /\ IF call[t].pos >= Size
     THEN Finish(t, TRUE) /\ UNCHANGED owner
     ELSE /\ IF IsSynced(call[t]) THEN HandOver(Span(call[t]), "cpu")
                                  ELSE UNCHANGED owner
          /\ Go(t, "copy") /\ UNCHANGED ok
  /\ UNCHANGED <<sem, attr, fpos, call>>

Copy(t) ==
  /\ At(t, "copy") /\ Go(t, "give")
  /\ UNCHANGED <<sem, owner, attr, fpos, call, ok>>

\* A plausible bug: a fault returns without unlocking.
FaultKeepsSem(t) ==
  /\ At(t, "copy") /\ Go(t, "return") /\ ok' = [ok EXCEPT ![t] = FALSE]
  /\ UNCHANGED <<sem, owner, attr, fpos, call>>

\* copy_to_user or copy_from_user stops at a bad address.
Fault(t) ==
  /\ At(t, "copy") /\ Finish(t, FALSE)
  /\ UNCHANGED <<sem, owner, attr, fpos, call>>

\* A plausible bug: the second test forgets SYNC_ALWAYS.
GiveBackOfFile(t) ==
  /\ At(t, "give") /\ Finish(t, TRUE)
  /\ IF call[t].file \in Synchronous THEN HandOver(Span(call[t]), "device")
                                     ELSE UNCHANGED owner
  /\ UNCHANGED <<sem, attr, fpos, call>>

GiveBack(t) ==
  /\ At(t, "give") /\ Finish(t, TRUE)
  /\ IF IsSynced(call[t]) THEN HandOver(Span(call[t]), "device")
                          ELSE UNCHANGED owner
  /\ UNCHANGED <<sem, attr, fpos, call>>
------------------------------------------------------------------------------
(* With the mutex: attributes and sync commands.                            *)

CommandAttribute == [cpu |-> "sync_for_cpu", device |-> "sync_for_device"]
\* The side a call hands bytes to, None if it is no sync command.
Target(c) ==
  IF \/ c.op = "set" /\ c.attr = "sync_for_cpu"
     \/ c.op = "sync" /\ c.command = 1
  THEN "cpu"
  ELSE IF \/ c.op = "set" /\ c.attr = "sync_for_device"
          \/ c.op = "sync" /\ c.command = 2
       THEN "device" ELSE None

MaxOf(a) == IF a = "sync_mode" THEN 7 ELSE Word - 1

\* A plausible bug: an attribute that needs no sync is set without the mutex.
SetUnlocked(t) ==
  /\ Calling(t, {"set"})
  /\ \/ /\ At(t, "enter") /\ Target(call[t]) = None
        /\ attr' = [attr EXCEPT ![call[t].attr] = call[t].value]
        /\ Go(t, "idle") /\ Forget(t) /\ UNCHANGED <<sem, owner, fpos>>
     \/ /\ At(t, "locked")
        /\ attr' = [attr EXCEPT ![call[t].attr] = call[t].value]
        /\ Go(t, IF Target(call[t]) = None THEN "unlock" ELSE "sync")
        /\ UNCHANGED <<sem, owner, fpos, call, ok>>

SetAttribute(t) ==
  /\ At(t, "locked") /\ Calling(t, {"set"})
  /\ IF call[t].value > MaxOf(call[t].attr)
     THEN Finish(t, FALSE) /\ UNCHANGED attr
     ELSE /\ attr' = [attr EXCEPT ![call[t].attr] = call[t].value]
          /\ Go(t, IF Target(call[t]) = None THEN "unlock" ELSE "sync")
          /\ UNCHANGED ok
  /\ UNCHANGED <<sem, owner, fpos, call>>

Show(t) ==
  /\ At(t, "locked") /\ Calling(t, {"show"}) /\ Finish(t, TRUE)
  /\ UNCHANGED <<sem, owner, attr, fpos, call>>

\* A plausible bug: an offset of zero is taken for "no offset", as a size is.
SetRangeIfAny(t) ==
  /\ At(t, "locked") /\ Calling(t, {"sync"})
  /\ attr' = [a \in Attribute |->
       CASE a = "sync_offset" /\ call[t].offset > 0 -> call[t].offset
         [] a = "sync_size" /\ call[t].size > 0 -> call[t].size
         [] a = "sync_for_cpu" /\ Target(call[t]) = "cpu" -> 1
         [] a = "sync_for_device" /\ Target(call[t]) = "device" -> 1
         [] OTHER -> attr[a]]
  /\ IF Target(call[t]) = None THEN Finish(t, call[t].command = 0)
     ELSE Go(t, "sync") /\ UNCHANGED ok
  /\ UNCHANGED <<sem, owner, fpos, call>>

\* The attributes keep what the caller passed, even when the command is
\* unknown; 1 in the command's attribute says to use them.
SetRange(t) ==
  /\ At(t, "locked") /\ Calling(t, {"sync"})
  /\ attr' = [a \in Attribute |->
       CASE a = "sync_offset" -> call[t].offset
         [] a = "sync_size" /\ call[t].size > 0 -> call[t].size
         [] a = "sync_for_cpu" /\ Target(call[t]) = "cpu" -> 1
         [] a = "sync_for_device" /\ Target(call[t]) = "device" -> 1
         [] OTHER -> attr[a]]
  /\ IF Target(call[t]) = None THEN Finish(t, call[t].command = 0)
     ELSE Go(t, "sync") /\ UNCHANGED ok
  /\ UNCHANGED <<sem, owner, fpos, call>>

\* A command that fails stays in its attribute and is not tried again.
SyncFor(t) ==
  /\ At(t, "sync")
  /\ LET name == CommandAttribute[Target(call[t])]
         command == attr[name]
         offset == OffsetOf(command)
         size == SizeOf(command)
     IN \/ /\ command = 0 /\ Finish(t, TRUE)
           /\ UNCHANGED <<owner, attr>>
        \/ /\ command # 0 /\ ~RangeFits(offset, size)
           /\ Finish(t, FALSE) /\ UNCHANGED <<owner, attr>>
        \/ /\ command # 0 /\ RangeFits(offset, size)
           /\ HandOver(Reach(offset, size), Target(call[t]))
           /\ attr' = [attr EXCEPT ![name] = 0]
           /\ Finish(t, TRUE)
  /\ UNCHANGED <<sem, fpos, call>>
------------------------------------------------------------------------------
Inside(t) ==
  \/ Take(t) \/ Copy(t) \/ Fault(t) \/ GiveBack(t)
  \/ SetAttribute(t) \/ Show(t) \/ SetRange(t) \/ SyncFor(t)
  \/ Unlock(t) \/ Return(t) \/ Llseek(t)

Outside(t) ==
  \/ CallTransfer(t) \/ CallSet(t) \/ CallShow(t) \/ CallSync(t)
  \/ CallGetMap(t) \/ Interrupted(t) \/ CallSeek(t)

Next == \E t \in Thread : Outside(t) \/ Lock(t) \/ Inside(t)

Spec == Init /\ [][Next]_vars

\* A running call goes on, and the mutex, which serves its waiters in order,
\* does not pass one over for ever.
FairSpec ==
  Spec /\ \A t \in Thread : WF_vars(Inside(t)) /\ SF_vars(Lock(t))
------------------------------------------------------------------------------
TypeOK ==
  /\ sem \in Thread \cup {None}
  /\ owner \in [Byte -> Side]
  /\ attr \in Settings
  /\ fpos \in [File -> Nat]
  /\ pc \in [Thread -> Places]
  /\ call \in [Thread -> Calls]
  /\ ok \in [Thread -> BOOLEAN]

HoldsSem(t) == pc[t] \in {"locked", "copy", "give", "sync", "unlock"}
IsTransfer(c) == c.op = "transfer"
HasPosition(c) == c.op \in {"transfer", "seek"}

(* Exactly the thread between lock and unlock holds the mutex, and a thread's *)
(* place fits its call.                                                     *)
LockInv ==
  \A t \in Thread :
    /\ HoldsSem(t) <=> sem = t
    /\ pc[t] \in {"copy", "give", "return"} => IsTransfer(call[t])
    /\ pc[t] = "sync" => Target(call[t]) \in Side
    /\ pc[t] = "seek" => call[t].op = "seek"
    /\ ~ok[t] => pc[t] \in {"unlock", "return"}

(* What a sync call stored before the sync is still there when it syncs.     *)
CommandInv ==
  \A t \in Thread : pc[t] = "sync" =>
    LET command == attr[CommandAttribute[Target(call[t])]] IN
    /\ call[t].op = "set" => command = call[t].value
    /\ call[t].op = "sync" =>
         /\ command = 1 /\ attr["sync_offset"] = call[t].offset
         /\ call[t].size > 0 => attr["sync_size"] = call[t].size

(* A read or write copies only bytes that belong to the processor, if file   *)
(* or device ask for syncs, whatever sync commands and mode changes other    *)
(* threads issue meanwhile.                                                 *)
CopyIsOwned ==
  \A t \in Thread :
    pc[t] \in {"copy", "give"} /\ IsSynced(call[t]) =>
      \A b \in Span(call[t]) : owner[b] = "cpu"

(* ... and unless the copy faulted, all of them belong to the device when    *)
(* it unlocks: the two tests of O_SYNC and SYNC_ALWAYS agree.               *)
HandsBack ==
  \A t \in Thread :
    pc[t] = "unlock" /\ IsTransfer(call[t]) /\ ok[t] /\ IsSynced(call[t]) =>
      \A b \in Span(call[t]) : owner[b] = "device"

(* The bytes a sync call names itself: in its command or its parameters.     *)
OwnBytes(c) ==
  IF Target(c) = None THEN {}
  ELSE IF c.op = "sync"
       THEN IF c.size > 0 THEN Reach(c.offset, c.size) ELSE {}
       ELSE IF HasArguments(c.value)
            THEN Reach(OffsetOf(c.value), SizeOf(c.value)) ELSE {}

(* A sync call that names its range and succeeds hands over that range and   *)
(* not the one another thread stored in sync_offset and sync_size.          *)
SyncsItsRange ==
  \A t \in Thread :
    pc[t] = "unlock" /\ ok[t] =>
      \A b \in OwnBytes(call[t]) : owner[b] = Target(call[t])

(* A position stays within the buffer, though reads and writes of several    *)
(* threads and seeks overwrite each other's.                                *)
PositionInBuffer == \A f \in File : fpos[f] <= Size

\* ... nor do the copies of it that the calls in progress hold.
CallPositions ==
  \A t \in Thread : HasPosition(call[t]) => call[t].pos <= Size

IInv ==
  /\ TypeOK /\ LockInv /\ CommandInv /\ CallPositions
  /\ CopyIsOwned /\ HandsBack /\ SyncsItsRange /\ PositionInBuffer

(* Every call gets the mutex, unless interrupted, and returns: no path       *)
(* leaves it locked.                                                        *)
CallsEnd == \A t \in Thread : pc[t] = "enter" ~> pc[t] = "idle"
==============================================================================
