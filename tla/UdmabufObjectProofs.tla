------------------------- MODULE UdmabufObjectProofs -------------------------
(***************************************************************************)
(* A live u-dma-buf device with any number of threads and files, any buffer *)
(* and any commands: the mutex and the two tests of the sync mode protect   *)
(* who owns the bytes.                                                      *)
(***************************************************************************)
EXTENDS UdmabufObject, TLAPS

(* The initial state.                                                       *)
LEMMA InitInv == Init => IInv
<1> SUFFICES ASSUME Init PROVE IInv
  OBVIOUS
<1>1. TypeOK
  BY SizeAssumption, ModeAssumption
  DEF Init, TypeOK, Settings, Side, Places, Calls
<1>2. LockInv /\ CommandInv /\ CallPositions
  BY NoneAssumption
  DEF Init, LockInv, CommandInv, CallPositions, HoldsSem, IsTransfer, HasPosition, NoCall
<1>3. CopyIsOwned /\ HandsBack /\ SyncsItsRange /\ PositionInBuffer
  BY SizeAssumption
  DEF Init, CopyIsOwned, HandsBack, SyncsItsRange, PositionInBuffer
<1> QED BY <1>1, <1>2, <1>3 DEF IInv

(* Every step keeps the types.                                              *)
LEMMA StepType ==
  ASSUME TypeOK, LockInv, NEW t \in Thread, Outside(t) \/ Lock(t) \/ Inside(t)
  PROVE  TypeOK'
<1> USE DEF TypeOK, Go, Places
<1>1. CASE CallTransfer(t)
  BY <1>1, InputAssumption DEF CallTransfer, Begin, Calls, Transfers
<1>2. CASE CallSet(t)
  BY <1>2, InputAssumption DEF CallSet, Begin, Calls, Sets
<1>3. CASE CallShow(t)
  BY <1>3 DEF CallShow, Begin, Calls, Shows
<1>4. CASE CallSync(t)
  BY <1>4, InputAssumption DEF CallSync, Calls, Syncs
<1>4a. CASE CallGetMap(t)
  BY <1>4a DEF CallGetMap, Calls, Shows
<1>5. CASE Interrupted(t)
  BY <1>5 DEF Interrupted, Forget, Calls
<1>6. CASE CallSeek(t)
  BY <1>6, SizeAssumption DEF CallSeek, Calls, Seeks
<1>6a. CASE Llseek(t)
  <2>1. call[t] \in Seeks
    BY <1>6a DEF Llseek, At, LockInv, Calls, Transfers, Sets, Syncs, Shows, Seeks, NoCall
  <2> QED BY <1>6a, <2>1 DEF Llseek, Forget, Calls, Seeks
<1>7. CASE Lock(t)
  BY <1>7 DEF Lock
<1>8. CASE Take(t)
  BY <1>8 DEF Take, Finish, HandOver, Side
<1>9. CASE Copy(t)
  BY <1>9 DEF Copy
<1>10. CASE Fault(t)
  BY <1>10 DEF Fault, Finish
<1>11. CASE GiveBack(t)
  BY <1>11 DEF GiveBack, Finish, HandOver, Side
<1>12. CASE SetAttribute(t)
  <2>1. call[t] \in Sets
    BY <1>12 DEF SetAttribute, Calling, Calls, Transfers, Sets, Syncs, Shows, Seeks, NoCall
  <2> QED BY <1>12, <2>1 DEF SetAttribute, Finish, Sets, Settings
<1>13. CASE Show(t)
  BY <1>13 DEF Show, Finish
<1>14. CASE SetRange(t)
  <2>1. call[t] \in Syncs
    BY <1>14 DEF SetRange, Calling, Calls, Transfers, Sets, Syncs, Shows, Seeks, NoCall
  <2>2. attr' \in Settings
    BY <1>14, <2>1, ModeAssumption, SizeAssumption DEF SetRange, Syncs, Settings
  <2>3. ok' \in [Thread -> BOOLEAN] /\ pc' \in [Thread -> Places]
    BY <1>14 DEF SetRange, Finish
  <2> QED BY <1>14, <2>2, <2>3 DEF SetRange
<1>15. CASE SyncFor(t)
  <2>1. Target(call[t]) \in Side
    BY <1>15 DEF SyncFor, At, LockInv
  <2> DEFINE name == CommandAttribute[Target(call[t])]
  <2>2. attr' \in Settings
    <3>1. attr' = attr \/ attr' = [attr EXCEPT ![name] = 0]
      BY <1>15 DEF SyncFor
    <3>2. 0 \in 0..Word-1
      BY SizeAssumption
    <3> HIDE DEF name
    <3> QED BY <3>1, <3>2 DEF Settings
  <2>3. owner' \in [Byte -> Side]
    BY <1>15, <2>1 DEF SyncFor, HandOver
  <2>4. ok' \in [Thread -> BOOLEAN] /\ pc' \in [Thread -> Places]
    BY <1>15 DEF SyncFor, Finish
  <2> QED BY <1>15, <2>2, <2>3, <2>4 DEF SyncFor
<1>16. CASE Unlock(t)
  BY <1>16 DEF Unlock, Forget, Calls
<1>17. CASE Return(t)
  <2>1. call[t] \in Transfers
    BY <1>17 DEF Return, At, LockInv, IsTransfer, Calls, Transfers, Sets, Syncs,
                 Shows, Seeks, NoCall
  <2> QED BY <1>17, <2>1, SizeAssumption
          DEF Return, Forget, Calls, EndOf, Transfers
<1> QED
  BY <1>1, <1>2, <1>3, <1>4, <1>4a, <1>5, <1>6, <1>6a, <1>7, <1>8, <1>9, <1>10, <1>11, <1>12,
     <1>13, <1>14, <1>15, <1>16, <1>17
  DEF Outside, Inside

(* What the invariant says of one thread.                                   *)
ThreadInv(u) ==
  /\ HoldsSem(u) <=> sem = u
  /\ pc[u] \in {"copy", "give", "return"} => IsTransfer(call[u])
  /\ pc[u] = "sync" => Target(call[u]) \in Side
  /\ pc[u] = "seek" => call[u].op = "seek"
  /\ ~ok[u] => pc[u] \in {"unlock", "return"}
  /\ pc[u] = "sync" =>
       LET command == attr[CommandAttribute[Target(call[u])]] IN
       /\ call[u].op = "set" => command = call[u].value
       /\ call[u].op = "sync" =>
            /\ command = 1 /\ attr["sync_offset"] = call[u].offset
            /\ call[u].size > 0 => attr["sync_size"] = call[u].size
  /\ HasPosition(call[u]) => call[u].pos <= Size
  /\ pc[u] \in {"copy", "give"} /\ IsSynced(call[u]) =>
       \A b \in Span(call[u]) : owner[b] = "cpu"
  /\ pc[u] = "unlock" /\ IsTransfer(call[u]) /\ ok[u] /\ IsSynced(call[u]) =>
       \A b \in Span(call[u]) : owner[b] = "device"
  /\ pc[u] = "unlock" /\ ok[u] =>
       \A b \in OwnBytes(call[u]) : owner[b] = Target(call[u])

Step(t) == Outside(t) \/ Lock(t) \/ Inside(t)

LEMMA InvByThread ==
  IInv <=> TypeOK /\ PositionInBuffer /\ \A u \in Thread : ThreadInv(u)
BY DEF IInv, ThreadInv, LockInv, CommandInv, CallPositions, CopyIsOwned,
       HandsBack, SyncsItsRange

(* A thread changes owners and attributes only with the mutex, and takes and *)
(* frees it only for itself.                                                *)
LEMMA StepOfOne ==
  ASSUME TypeOK, NEW t \in Thread, ThreadInv(t), Step(t)
  PROVE  /\ \A u \in Thread \ {t} :
              pc'[u] = pc[u] /\ call'[u] = call[u] /\ ok'[u] = ok[u]
         /\ sem = t \/ UNCHANGED <<owner, attr>>
         /\ sem' = sem \/ (sem = None /\ sem' = t) \/ (sem = t /\ sem' = None)
<1> USE DEF TypeOK, Go, Finish, Forget, At, HoldsSem, ThreadInv
<1>1. CASE Outside(t)
  BY <1>1 DEF Outside, CallTransfer, CallSet, CallShow, Begin, CallSync,
              CallGetMap, Interrupted, CallSeek
<1>2. CASE Lock(t)
  BY <1>2 DEF Lock
<1>3. CASE Take(t) \/ Copy(t) \/ Fault(t) \/ GiveBack(t)
  BY <1>3 DEF Take, Copy, Fault, GiveBack
<1>4. CASE SetAttribute(t) \/ Show(t) \/ SetRange(t)
  BY <1>4 DEF SetAttribute, Show, SetRange
<1>5. CASE SyncFor(t)
  BY <1>5 DEF SyncFor
<1>6. CASE Unlock(t) \/ Return(t) \/ Llseek(t)
  BY <1>6 DEF Unlock, Return, Llseek
<1> QED BY <1>1, <1>2, <1>3, <1>4, <1>5, <1>6 DEF Step, Inside

(* A step of one thread leaves what the invariant says of another.          *)
LEMMA OthersKeep ==
  ASSUME TypeOK, NEW t \in Thread, NEW u \in Thread \ {t},
         ThreadInv(t), ThreadInv(u), Step(t)
  PROVE  ThreadInv(u)'
<1>1. /\ pc'[u] = pc[u] /\ call'[u] = call[u] /\ ok'[u] = ok[u]
      /\ sem' = u <=> sem = u
  BY StepOfOne, NoneAssumption
<1>2. CASE UNCHANGED <<owner, attr>>
  BY <1>1, <1>2 DEF ThreadInv, HoldsSem, IsTransfer, HasPosition, IsSynced, Span,
     OwnBytes, Target, OffsetOf, SizeOf, Reach, EndOf
<1>3. CASE sem = t
  <2>1. ~HoldsSem(u)
    BY <1>3 DEF ThreadInv
  <2>2. ~HoldsSem(u)'
    BY <1>1, <2>1 DEF HoldsSem
  <2> QED BY <1>1, <1>3, <2>1, <2>2 DEF ThreadInv, HoldsSem, IsTransfer, HasPosition
<1> QED BY <1>2, <1>3, StepOfOne

(* A call that begins or ends, and one that waits.                          *)
LEMMA SelfOutside ==
  ASSUME TypeOK, PositionInBuffer, NEW t \in Thread, ThreadInv(t),
         Outside(t) \/ Lock(t) \/ Unlock(t) \/ Return(t) \/ Llseek(t)
  PROVE  ThreadInv(t)'
<1> USE NoneAssumption DEF TypeOK, ThreadInv, Go, Forget, At, HoldsSem, IsTransfer, HasPosition
<1>1. CASE CallTransfer(t)
  BY <1>1 DEF CallTransfer, Begin, PositionInBuffer
<1>2. CASE CallSet(t) \/ CallShow(t)
  BY <1>2 DEF CallSet, CallShow, Begin
<1>3. CASE CallSync(t) \/ CallGetMap(t)
  BY <1>3 DEF CallSync, CallGetMap
<1>4. CASE Interrupted(t)
  BY <1>4 DEF Interrupted, NoCall
<1>5. CASE CallSeek(t)
  BY <1>5 DEF CallSeek
<1>9. CASE Llseek(t)
  BY <1>9 DEF Llseek, NoCall
<1>6. CASE Lock(t)
  BY <1>6 DEF Lock
<1>7. CASE Unlock(t)
  BY <1>7 DEF Unlock, NoCall, Calling
<1>8. CASE Return(t)
  BY <1>8 DEF Return, NoCall
<1> QED BY <1>1, <1>2, <1>3, <1>4, <1>5, <1>6, <1>7, <1>8, <1>9 DEF Outside

(* A read or write: what is taken is copied and given back, all in one mode. *)
LEMMA SelfTransfer ==
  ASSUME TypeOK, NEW t \in Thread, ThreadInv(t),
         Take(t) \/ Copy(t) \/ Fault(t) \/ GiveBack(t)
  PROVE  ThreadInv(t)'
<1> USE DEF TypeOK, ThreadInv, Go, Finish, At, HoldsSem, HasPosition
<1>1. IsTransfer(call[t]) /\ IsTransfer(call'[t]) /\ call' = call /\ attr' = attr
  BY DEF Take, Copy, Fault, GiveBack, Calling, IsTransfer
<1>2. Target(call[t]) = None /\ OwnBytes(call[t]) = {}
  BY <1>1 DEF Target, OwnBytes, IsTransfer, None
<1>3. OwnBytes(call[t])' = {} /\ IsSynced(call[t])' = IsSynced(call[t])
      /\ Span(call[t])' = Span(call[t])
  BY <1>1, <1>2 DEF OwnBytes, Target, IsSynced, Span, EndOf, IsTransfer, None
<1>4. Span(call[t]) \subseteq Byte
  BY DEF Span
<1>5. CASE Take(t)
  <2>1. CASE call[t].pos >= Size
    <3>1. call[t].pos \in Nat
      BY <1>1 DEF IsTransfer, Calls, Transfers, Sets, Syncs, Shows, Seeks, NoCall
    <3>2. Span(call[t]) = {}
      BY <2>1, <3>1, SizeAssumption DEF Span, EndOf, Byte
    <3> QED BY <1>1, <1>3, <1>5, <2>1, <3>2 DEF Take
  <2>2. CASE ~(call[t].pos >= Size)
    BY <1>1, <1>3, <1>4, <1>5, <2>2 DEF Take, HandOver
  <2> QED BY <2>1, <2>2
<1>6. CASE Copy(t)
  BY <1>1, <1>3, <1>6 DEF Copy
<1>7. CASE Fault(t)
  BY <1>1, <1>3, <1>7 DEF Fault
<1>8. CASE GiveBack(t)
  BY <1>1, <1>3, <1>4, <1>8 DEF GiveBack, HandOver
<1> QED BY <1>5, <1>6, <1>7, <1>8

(* A setter, a show or an in-kernel sync: what is synced is what the call    *)
(* stored.                                                                  *)
LEMMA SelfSync ==
  ASSUME TypeOK, NEW t \in Thread, ThreadInv(t),
         SetAttribute(t) \/ Show(t) \/ SetRange(t) \/ SyncFor(t)
  PROVE  ThreadInv(t)'
<1> USE DEF TypeOK, ThreadInv, Go, Finish, At, HoldsSem, HasPosition, Calling
<1>1. CASE SetAttribute(t)
  <2>1. call[t] \in Sets /\ call' = call
    BY <1>1 DEF SetAttribute, Calls, Transfers, Sets, Syncs, Shows, Seeks, NoCall
  <2>2. Target(call[t])' = Target(call[t])
    BY <2>1 DEF Target
  <2>3. Target(call[t]) = None => OwnBytes(call[t])' = {}
    BY <2>2 DEF OwnBytes
  <2>4. Target(call[t]) # None =>
          /\ Target(call[t]) \in Side
          /\ call[t].attr = CommandAttribute[Target(call[t])]
    BY <2>1 DEF Target, CommandAttribute, Sets, Side, None
  <2>5. ~IsTransfer(call[t]) /\ call[t].op # "sync"
    BY <2>1 DEF IsTransfer, Sets
  <2>6. call[t].attr \in Attribute
    BY <2>1 DEF Sets
  <2> QED BY <1>1, <2>1, <2>2, <2>3, <2>4, <2>5, <2>6
          DEF SetAttribute, IsTransfer, Settings
<1>2. CASE Show(t)
  BY <1>2 DEF Show, OwnBytes, Target, IsTransfer, None
<1>3. CASE SetRange(t)
  <2>1. call[t] \in Syncs /\ call' = call
    BY <1>3 DEF SetRange, Calls, Transfers, Sets, Syncs, Shows, Seeks, NoCall
  <2>2. Target(call[t])' = Target(call[t])
    BY <2>1 DEF Target
  <2>3. Target(call[t]) = None => OwnBytes(call[t])' = {}
    BY <2>2 DEF OwnBytes
  <2>4. ~IsTransfer(call[t]) /\ call[t].op = "sync"
    BY <2>1 DEF IsTransfer, Syncs
  <2>5. Target(call[t]) \in Side \cup {None}
    BY DEF Target, Side
  <2>6. CASE Target(call[t]) = None
    BY <1>3, <2>1, <2>2, <2>3, <2>4, <2>6 DEF SetRange, IsTransfer
  <2>7. CASE Target(call[t]) \in Side
    <3>1. /\ attr'[CommandAttribute[Target(call[t])]] = 1
          /\ attr'["sync_offset"] = call[t].offset
          /\ call[t].size > 0 => attr'["sync_size"] = call[t].size
      BY <1>3, <2>7 DEF SetRange, CommandAttribute, Side, Attribute
    <3>2. pc'[t] = "sync" /\ sem' = sem /\ ok' = ok
      BY <1>3, <2>7 DEF SetRange, Side, None
    <3> QED BY <1>3, <2>1, <2>2, <2>4, <2>7, <3>1, <3>2 DEF SetRange, IsTransfer
  <2> QED BY <2>5, <2>6, <2>7
<1>4. CASE SyncFor(t)
  <2> DEFINE side == Target(call[t])
             command == attr[CommandAttribute[side]]
  <2>1. side \in Side /\ call' = call /\ pc'[t] = "unlock" /\ sem' = sem
    BY <1>4 DEF SyncFor
  <2>2. Target(call[t])' = side
    BY <2>1 DEF Target
  <2>3. ~IsTransfer(call[t]) /\ call[t].op \in {"set", "sync"}
    BY <2>1 DEF IsTransfer, Target, Side, None
  <2>4. OwnBytes(call[t])' = OwnBytes(call[t])
    BY <2>1, <2>2 DEF OwnBytes, OffsetOf, SizeOf, HasArguments, Reach
  <2>5. ASSUME ok'[t] PROVE \A b \in OwnBytes(call[t]) : owner'[b] = side
    <3>1. ~HasArguments(0) /\ ~HasArguments(1)
      BY DEF HasArguments
    <3>2. OwnBytes(call[t]) # {} =>
            /\ command # 0
            /\ OwnBytes(call[t]) = Reach(OffsetOf(command), SizeOf(command))
      <4>1. CASE call[t].op = "sync"
        BY <1>4, <2>1, <3>1, <4>1 DEF SyncFor, OwnBytes, OffsetOf, SizeOf, Side, None
      <4>2. CASE call[t].op = "set"
        BY <1>4, <2>1, <3>1, <4>2 DEF SyncFor, OwnBytes, Side, None
      <4> QED BY <2>3, <4>1, <4>2
    <3>3. CASE command = 0
      BY <3>2, <3>3
    <3>4. CASE command # 0
      <4>1. HandOver(Reach(OffsetOf(command), SizeOf(command)), side)
        BY <1>4, <2>5, <3>4 DEF SyncFor
      <4>2. OwnBytes(call[t]) \subseteq Byte
        BY <3>2 DEF Reach
      <4> QED BY <3>2, <4>1, <4>2 DEF HandOver
    <3> QED BY <3>3, <3>4
  <2> QED BY <1>4, <2>1, <2>2, <2>3, <2>4, <2>5 DEF SyncFor, IsTransfer
<1> QED BY <1>1, <1>2, <1>3, <1>4

(* Positions are set to the end of a transfer or sought within the buffer.   *)
LEMMA PositionsStay ==
  ASSUME TypeOK, PositionInBuffer, NEW t \in Thread, ThreadInv(t), Step(t)
  PROVE  PositionInBuffer'
<1> USE SizeAssumption DEF TypeOK, PositionInBuffer
<1>1. CASE Return(t)
  <2>1. IsTransfer(call[t]) /\ call[t].pos <= Size
    BY <1>1 DEF Return, At, ThreadInv, IsTransfer, HasPosition
  <2>2. call[t] \in Transfers
    BY <2>1 DEF IsTransfer, Calls, Transfers, Sets, Syncs, Shows, Seeks, NoCall
  <2>3. EndOf(call[t]) <= Size
    BY <2>1, <2>2 DEF EndOf, Transfers
  <2> QED BY <1>1, <2>1, <2>3 DEF Return
<1>2. CASE Llseek(t)
  <2>1. call[t].op = "seek" /\ call[t].pos <= Size
    BY <1>2 DEF Llseek, At, ThreadInv, HasPosition
  <2> QED BY <1>2, <2>1 DEF Llseek
<1>3. CASE UNCHANGED fpos
  BY <1>3
<1> QED
  BY <1>1, <1>2, <1>3 DEF Step, Outside, Inside, CallTransfer, CallSet, CallShow,
     Begin, CallSync, CallGetMap, Interrupted, CallSeek, Lock, Take, Copy, Fault, GiveBack,
     SetAttribute, Show, SetRange, SyncFor, Unlock

(* Every step keeps the invariant.                                          *)
LEMMA StepInv == IInv /\ [Next]_vars => IInv'
<1> SUFFICES ASSUME IInv, [Next]_vars PROVE IInv'
  OBVIOUS
<1>t. TypeOK /\ LockInv /\ PositionInBuffer /\ \A u \in Thread : ThreadInv(u)
  BY InvByThread DEF IInv
<1>1. CASE UNCHANGED vars
  BY <1>t, <1>1 DEF vars, IInv, TypeOK, LockInv, CommandInv, CallPositions,
     CopyIsOwned, HandsBack, SyncsItsRange, PositionInBuffer, HoldsSem,
     HasPosition, IsTransfer, IsSynced, Span, EndOf, OwnBytes, Target, OffsetOf, SizeOf, Reach
<1>2. ASSUME NEW t \in Thread, Step(t) PROVE IInv'
  <2>1. TypeOK'
    BY <1>t, <1>2, StepType DEF Step
  <2>2. PositionInBuffer'
    BY <1>t, <1>2, PositionsStay
  <2>3. ASSUME NEW u \in Thread PROVE ThreadInv(u)'
    <3>1. CASE u = t
      BY <1>t, <1>2, <3>1, SelfOutside, SelfTransfer, SelfSync DEF Step, Inside
    <3>2. CASE u # t
      BY <1>t, <1>2, <3>2, OthersKeep
    <3> QED BY <3>1, <3>2
  <2>4. IInv' <=> (TypeOK /\ PositionInBuffer /\ \A u \in Thread : ThreadInv(u))'
    BY InvByThread, PTL
  <2> QED BY <2>1, <2>2, <2>3, <2>4
<1> QED BY <1>1, <1>2 DEF Next, Step

(* The invariant holds whatever threads, files, commands and sizes there are. *)
THEOREM Invariance == Spec => []IInv
BY InitInv, StepInv, PTL DEF Spec

(* While a synchronous read or write copies, no other thread's sync command  *)
(* or mode change takes its bytes from the processor.                       *)
THEOREM CopiesOwnTheirBytes == Spec => []CopyIsOwned
BY Invariance, PTL DEF IInv

(* A synchronous read or write that does not fault returns every byte it    *)
(* took to the device.                                                      *)
THEOREM TransfersHandBack == Spec => []HandsBack
BY Invariance, PTL DEF IInv

(* A sync call with a range of its own never acts on another thread's range. *)
THEOREM SyncsKeepTheirRange == Spec => []SyncsItsRange
BY Invariance, PTL DEF IInv

(* Racing reads, writes and seeks leave every file position in the buffer.   *)
THEOREM PositionsStayInBuffer == Spec => []PositionInBuffer
BY Invariance, PTL DEF IInv
==============================================================================
