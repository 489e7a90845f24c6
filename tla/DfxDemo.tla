------------------------------- MODULE DfxDemo -------------------------------
(***************************************************************************)
(* The dfx-demo application (recipes-apps/dfx-demo): main.c maps the DMA     *)
(* buffer and copies the partial bitstreams into it, tells the DFX          *)
(* controller where they are while the virtual socket managers are shut     *)
(* down, restarts them, and then loads one bitstream after the other by     *)
(* software triggers.  A process that exits or is killed is at "exit".      *)
(*                                                                         *)
(* The application is one thread; each of its steps makes at most one       *)
(* register access.  The managers (external) run beside it, and may be in   *)
(* any state when the application starts: it may have been killed before.   *)
(***************************************************************************)
EXTENDS Integers, Sequences, FiniteSets

CONSTANTS
  Vsm,         \* the virtual sockets, in the order main.c shuts them down
  Bitstreams,  \* arr_bitstream: a sequence of [vs, rm, size]
  BufSizes,    \* the sizes udmabuf0 may have been given
  BufAddrs,    \* the addresses udmabuf0 may have been given
  PhysAddr,    \* the address main.c takes the buffer to be at
  LongMax      \* the largest number strtol returns

N == Len(Bitstreams)
Streams == 1 .. N
Rows == {Bitstreams[i].rm : i \in Streams}
Vs == {Vsm[k] : k \in DOMAIN Vsm}

ASSUME BitstreamsAssumption ==
  /\ Bitstreams \in Seq([vs : Vs, rm : Nat, size : Nat \ {0}]) /\ N > 0
  /\ Vsm \in Seq(Vs) /\ Vsm # <<>>
  /\ \A i, j \in Streams :
       Bitstreams[i].vs = Bitstreams[j].vs /\ Bitstreams[i].rm = Bitstreams[j].rm
         => i = j
  /\ \A j, l \in DOMAIN Vsm : Vsm[j] = Vsm[l] => j = l
  /\ BufSizes \subseteq Nat \ {0} /\ BufAddrs \subseteq Nat
  /\ PhysAddr \in Nat /\ LongMax \in Nat

VARIABLES
  pc,          \* where main.c is
  k,           \* the socket it is concerned with
  i,           \* the bitstream it is concerned with
  bufSize, bufAddr,  \* udmabuf0 (external)
  size,        \* load_bitsteams: the size of the buffer, as read from sysfs
  buffer,      \* the bytes copied: <<bitstream, place in its file>>
  physAddr,    \* where the next bitstream goes
  placed,      \* arr_bitstream[].phys_addr of the bitstreams copied so far
  state,       \* the managers: EMPTY, RM_LOAD or FULL
  down,        \* the managers in the shutdown state
  rm,          \* the module a manager has loaded, or is loading
  fetching,    \* the <<address, size>> the manager is loading it from
  failed,      \* the managers whose last load failed
  cmd,         \* the control registers: a command not yet carried out
  trigger,     \* the software trigger registers: the pending trigger
  bsSize, bsAddress   \* the bitstream information tables

app == <<pc, k, i>>
copied == <<bufSize, bufAddr, size, buffer, physAddr, placed>>
managers == <<state, down, rm, fetching, failed>>
tables == <<bsSize, bsAddress>>
vars == <<app, copied, managers, cmd, trigger, tables>>

None == -1
Nowhere == <<None, None>>

Init ==
  /\ pc = "read_address" /\ k = 1 /\ i = 1
  /\ bufSize \in BufSizes /\ bufAddr \in BufAddrs
  /\ size = 0 /\ buffer = <<>> /\ physAddr = 0 /\ placed = <<>>
  /\ state \in [Vs -> {"EMPTY", "RM_LOAD", "FULL"}]
  /\ down \in SUBSET {vs \in Vs : state[vs] # "RM_LOAD"}
  /\ rm = [vs \in Vs |-> None] /\ fetching = [vs \in Vs |-> Nowhere]
  /\ failed = {}
  /\ cmd = [vs \in Vs |-> "none"]
  /\ trigger \in [Vs -> Rows \union {None}]
  /\ bsSize = [row \in Vs \X Rows |-> None]
  /\ bsAddress = [row \in Vs \X Rows |-> None]
------------------------------------------------------------------------------
(* load_bitsteams                                                           *)

\* read_sysnode: a number that does not fit is the largest one, and no line 0.
ReadSysnode(value) == {IF value > LongMax THEN LongMax ELSE value, 0}

\* The address is read, and only printed.
ReadAddress ==
  /\ pc = "read_address" /\ pc' \in {"read_size", "exit"}
  /\ UNCHANGED <<k, i, copied, managers, cmd, trigger, tables>>

ReadSize ==
  /\ pc = "read_size"
  /\ \/ size' \in ReadSysnode(bufSize) /\ pc' = "map"
     \/ pc' = "exit" /\ UNCHANGED size
  /\ UNCHANGED <<k, i, bufSize, bufAddr, buffer, physAddr, placed, managers, cmd,
                 trigger, tables>>

\* A plausible bug, which the comment in main.c speaks of: the address is the
\* one read from sysfs.
MapAtAddressRead ==
  /\ pc = "map"
  /\ \/ physAddr' \in ReadSysnode(bufAddr) /\ pc' = "copy"
     \/ pc' = "exit" /\ UNCHANGED physAddr
  /\ UNCHANGED <<k, i, bufSize, bufAddr, size, buffer, placed, managers, cmd, trigger,
                 tables>>

\* Without a device, or (at the first copy) without a mapping, it ends.
MapBuffer ==
  /\ pc = "map"
  /\ \/ physAddr' = PhysAddr /\ pc' = "copy"
     \/ pc' = "exit" /\ UNCHANGED physAddr
  /\ UNCHANGED <<k, i, bufSize, bufAddr, size, buffer, placed, managers, cmd, trigger,
                 tables>>

Bytes(n) == [j \in 1 .. Bitstreams[n].size |-> <<n, j>>]

\* fread is bounded by the size of the whole buffer.  What runs over the end
\* goes to the memory behind the mapping, if the process survives it.
Copy ==
  /\ pc = "copy" /\ i <= N
  /\ \/ /\ Bitstreams[i].size <= size
        /\ LET written == buffer \o Bytes(i) IN
           buffer' = SubSeq(written, 1, IF Len(written) > bufSize THEN bufSize
                                        ELSE Len(written))
        /\ placed' = Append(placed, physAddr)
        /\ physAddr' = physAddr + Bitstreams[i].size
        /\ i' = i + 1 /\ UNCHANGED pc
     \/ pc' = "exit" /\ UNCHANGED <<i, buffer, placed, physAddr>>
  /\ UNCHANGED <<k, bufSize, bufAddr, size, managers, cmd, trigger, tables>>

\* dxfDemo maps the registers, which can fail too.
OpenController ==
  /\ pc = "copy" /\ i > N
  /\ pc' \in {"shutdown", "exit"}
  /\ UNCHANGED <<k, i, copied, managers, cmd, trigger, tables>>
------------------------------------------------------------------------------
(* dxfDemo: shut the managers down, program them, restart them.             *)

\* The next socket, or the next phase, which begins with the first one.
NextSocket(this, next) ==
  IF k < Len(Vsm) THEN k' = k + 1 /\ pc' = this ELSE k' = 1 /\ pc' = next

SendShutdown ==
  /\ pc = "shutdown"
  /\ cmd' = [cmd EXCEPT ![Vsm[k]] = "shutdown"]
  /\ pc' = "await_shutdown"
  /\ UNCHANGED <<k, i, copied, managers, trigger, tables>>

\* A plausible bug: the manager is not waited for.
ShutdownNotAwaited ==
  /\ pc = "await_shutdown"
  /\ NextSocket("shutdown", "set_size") /\ i' = 1
  /\ UNCHANGED <<copied, managers, cmd, trigger, tables>>

\* XPrc_IsVsmInShutdown
AwaitShutdown ==
  /\ pc = "await_shutdown" /\ Vsm[k] \in down
  /\ NextSocket("shutdown", "set_size") /\ i' = 1
  /\ UNCHANGED <<copied, managers, cmd, trigger, tables>>

RowOf(n) == <<Bitstreams[n].vs, Bitstreams[n].rm>>

SetBsSize ==
  /\ pc = "set_size"
  /\ bsSize' = [bsSize EXCEPT ![RowOf(i)] = Bitstreams[i].size]
  /\ pc' = "set_address"
  /\ UNCHANGED <<k, i, copied, managers, cmd, trigger, bsAddress>>

SetBsAddress ==
  /\ pc = "set_address"
  /\ bsAddress' = [bsAddress EXCEPT ![RowOf(i)] = placed[i]]
  /\ IF i < N THEN i' = i + 1 /\ pc' = "set_size" ELSE i' = 1 /\ pc' = "restart"
  /\ UNCHANGED <<k, copied, managers, cmd, trigger, bsSize>>

SendRestart ==
  /\ pc = "restart"
  /\ cmd' = [cmd EXCEPT ![Vsm[k]] = "restart"]
  /\ pc' = "await_restart"
  /\ UNCHANGED <<k, i, copied, managers, trigger, tables>>

AwaitRestart ==
  /\ pc = "await_restart" /\ Vsm[k] \notin down
  /\ NextSocket("restart", "loop")
  /\ UNCHANGED <<i, copied, managers, cmd, trigger, tables>>
------------------------------------------------------------------------------
(* dxfDemo: load one bitstream after the other, forever.                    *)

Socket == Bitstreams[i].vs
NextStream == i' = IF i < N THEN i + 1 ELSE 1

\* A plausible bug: whether a trigger is pending is not looked at.
TriggerUnchecked ==
  /\ pc = "loop"
  /\ pc' = "send" /\ UNCHANGED i
  /\ UNCHANGED <<k, copied, managers, cmd, trigger, tables>>

\* XPrc_IsSwTriggerPending: a socket with a pending trigger is left alone.
CheckPending ==
  /\ pc = "loop"
  /\ IF trigger[Socket] = None THEN pc' = "send" /\ UNCHANGED i
     ELSE NextStream /\ UNCHANGED pc
  /\ UNCHANGED <<k, copied, managers, cmd, trigger, tables>>

SendSwTrigger ==
  /\ pc = "send"
  /\ trigger' = [trigger EXCEPT ![Socket] = Bitstreams[i].rm]
  /\ pc' = "poll"
  /\ UNCHANGED <<k, i, copied, managers, cmd, tables>>

\* A plausible bug: the load is over when the manager is in shutdown.
AwaitDown ==
  /\ pc = "poll" /\ Socket \in down
  /\ NextStream /\ pc' = "loop"
  /\ UNCHANGED <<k, copied, managers, cmd, trigger, tables>>

\* (status & 7) == 7
AwaitFull ==
  /\ pc = "poll" /\ state[Socket] = "FULL"
  /\ NextStream /\ pc' = "loop"
  /\ UNCHANGED <<k, copied, managers, cmd, trigger, tables>>
------------------------------------------------------------------------------
(* A virtual socket manager (external).  Trigger t loads module t, whose    *)
(* bitstream is in row t; it shuts down on an error, and obeys the control  *)
(* register between loads.                                                  *)

ObeyCommand(vs) ==
  /\ cmd[vs] # "none" /\ state[vs] # "RM_LOAD"
  /\ down' = IF cmd[vs] = "shutdown" THEN down \union {vs} ELSE down \ {vs}
  /\ cmd' = [cmd EXCEPT ![vs] = "none"]
  /\ UNCHANGED <<app, copied, state, rm, fetching, failed, trigger, tables>>

StartLoad(vs) ==
  /\ trigger[vs] # None /\ vs \notin down /\ state[vs] # "RM_LOAD"
  /\ state' = [state EXCEPT ![vs] = "RM_LOAD"]
  /\ rm' = [rm EXCEPT ![vs] = trigger[vs]]
  /\ fetching' = [fetching EXCEPT ![vs] =
                    <<bsAddress[<<vs, trigger[vs]>>], bsSize[<<vs, trigger[vs]>>]>>]
  /\ trigger' = [trigger EXCEPT ![vs] = None]
  /\ failed' = failed \ {vs}
  /\ UNCHANGED <<app, copied, down, cmd, tables>>

EndLoad(vs) ==
  /\ state[vs] = "RM_LOAD"
  /\ state' = [state EXCEPT ![vs] = "FULL"]
  /\ UNCHANGED <<app, copied, down, rm, fetching, failed, cmd, trigger, tables>>

FailLoad(vs) ==
  /\ state[vs] = "RM_LOAD"
  /\ state' = [state EXCEPT ![vs] = "EMPTY"]
  /\ failed' = failed \union {vs}
  /\ down' = down \union {vs}
  /\ UNCHANGED <<app, copied, rm, fetching, cmd, trigger, tables>>
------------------------------------------------------------------------------
App == ReadAddress \/ ReadSize \/ MapBuffer \/ Copy \/ OpenController \/ SendShutdown \/ AwaitShutdown \/ SetBsSize
       \/ SetBsAddress \/ SendRestart \/ AwaitRestart \/ CheckPending
       \/ SendSwTrigger \/ AwaitFull

Manager(vs) == ObeyCommand(vs) \/ StartLoad(vs) \/ EndLoad(vs) \/ FailLoad(vs)

Next == App \/ \E vs \in Vs : Manager(vs)

\* The application runs; a manager obeys, starts what is triggered and ends
\* what it started.
Fairness == /\ WF_vars(App)
            /\ \A vs \in Vs : /\ WF_vars(ObeyCommand(vs)) /\ WF_vars(StartLoad(vs))
                              /\ WF_vars(EndLoad(vs) \/ FailLoad(vs))

Spec == Init /\ [][Next]_vars /\ Fairness
------------------------------------------------------------------------------
TypeOK ==
  /\ pc \in {"read_address", "read_size", "map", "copy", "exit", "shutdown", "await_shutdown", "set_size", "set_address",
             "restart", "await_restart", "loop", "send", "poll"}
  /\ k \in 1 .. Len(Vsm) /\ i \in 1 .. N + 1
  /\ bufSize \in BufSizes /\ bufAddr \in BufAddrs /\ size \in Nat
  /\ buffer \in Seq(Streams \X Nat) /\ Len(buffer) <= bufSize /\ physAddr \in Nat /\ placed \in Seq(Nat)
  /\ state \in [Vs -> {"EMPTY", "RM_LOAD", "FULL"}]
  /\ down \in SUBSET Vs /\ failed \in SUBSET Vs
  /\ rm \in [Vs -> Rows \union {None}]
  /\ fetching \in [Vs -> (Nat \union {None}) \X (Nat \union {None})]
  /\ cmd \in [Vs -> {"none", "shutdown", "restart"}]
  /\ trigger \in [Vs -> Rows \union {None}]
  /\ bsSize \in [Vs \X Rows -> Nat \union {None}]
  /\ bsAddress \in [Vs \X Rows -> Nat \union {None}]

\* The sockets that main.c has seen in shutdown, or not yet restarted.
HeldDown ==
  CASE pc = "shutdown" \/ pc = "await_shutdown" -> {Vsm[j] : j \in 1 .. k - 1}
    [] pc = "set_size" \/ pc = "set_address" -> Vs
    [] pc = "restart" -> {Vsm[j] : j \in k .. Len(Vsm)}
    [] pc = "await_restart" -> {Vsm[j] : j \in k + 1 .. Len(Vsm)}
    [] OTHER -> {}

\* The bitstreams whose rows are written.
Programmed ==
  CASE pc = "set_size" \/ pc = "set_address" -> 1 .. i - 1
    [] pc \in {"restart", "await_restart", "loop", "send", "poll"} -> Streams
    [] OTHER -> {}

\* The places of load_bitsteams.
Before == {"read_address", "read_size", "map", "copy"}

(* Managers stay in shutdown until they are programmed and restarted, and a  *)
(* trigger is sent to a socket that has none.                               *)
Phases ==
  /\ \A vs \in down : state[vs] # "RM_LOAD"
  /\ \A vs \in HeldDown : vs \in down /\ cmd[vs] # "restart"
  /\ pc \in Before \cup {"shutdown", "await_shutdown", "set_size", "set_address"} =>
       \A vs \in Vs : cmd[vs] # "restart"
  /\ pc \in Before => k = 1 /\ Len(placed) = i - 1
  /\ pc \notin Before \cup {"exit"} => Len(placed) = N
  /\ pc \in {"set_size", "set_address", "loop", "send", "poll"} => i <= N
  /\ pc \in {"restart", "await_restart"} => i = 1
  /\ pc = "send" => trigger[Socket] = None
  /\ \A n \in Programmed : /\ bsSize[RowOf(n)] = Bitstreams[n].size
                           /\ bsAddress[RowOf(n)] = placed[n]
  /\ pc = "set_address" => bsSize[RowOf(i)] = Bitstreams[i].size

(* The bitstreams lie one behind the other from PhysAddr on, and those that  *)
(* end within the buffer are there as a whole.                              *)
EndOf(n) == placed[n] + Bitstreams[n].size - PhysAddr

Copies ==
  /\ pc \in {"read_address", "read_size", "map"} => buffer = <<>> /\ placed = <<>>
  /\ pc \notin {"read_address", "read_size", "map", "exit"} =>
       /\ PhysAddr <= physAddr
       /\ Len(buffer) = IF physAddr - PhysAddr > bufSize THEN bufSize ELSE physAddr - PhysAddr
       /\ \A n \in DOMAIN placed :
            /\ PhysAddr <= placed[n] /\ EndOf(n) <= physAddr - PhysAddr
            /\ EndOf(n) <= bufSize =>
                 \A j \in 1 .. Bitstreams[n].size : buffer[placed[n] - PhysAddr + j] = <<n, j>>

IInv == TypeOK /\ Phases /\ Copies

(* A bitstream table is changed only while its manager is in the shutdown   *)
(* state, so never under a load, whatever the managers were doing when the  *)
(* application started.                                                     *)
TablesChangeInShutdown ==
  [][\A vs \in Vs, row \in Rows :
       \/ /\ bsSize'[<<vs, row>>] = bsSize[<<vs, row>>]
          /\ bsAddress'[<<vs, row>>] = bsAddress[<<vs, row>>]
       \/ vs \in down /\ state[vs] # "RM_LOAD"]_vars

\* The byte at a physical address, as far as main.c has put one there.
ByteAt(addr) ==
  IF addr - bufAddr + 1 \in DOMAIN buffer THEN buffer[addr - bufAddr + 1] ELSE Nowhere

(* Once it is restarted, a manager loads a module from memory that holds    *)
(* the bytes of its bitstream, all of them and in order: if the buffer is   *)
(* where main.c takes it to be, and the copy did not run over its end.      *)
LoadsItsBitstream ==
  [][\A vs \in Vs, n \in Streams :
       /\ state[vs] # "RM_LOAD" /\ state'[vs] = "RM_LOAD"
       /\ pc \in {"restart", "await_restart", "loop", "send", "poll"}
       /\ RowOf(n) = <<vs, rm'[vs]>>
       /\ bufAddr = PhysAddr /\ EndOf(n) <= bufSize
       => /\ fetching'[vs][2] = Bitstreams[n].size
          /\ \A j \in 1 .. Bitstreams[n].size :
               ByteAt(fetching'[vs][1] + j - 1) = <<n, j>>]_vars

(* Although the FULL that main.c polls may be stale (the manager has not    *)
(* seen the trigger yet), a trigger is not lost: it stays pending until the *)
(* manager loads its module.                                                *)
TriggersAreTaken ==
  [][\A vs \in Vs : trigger[vs] # None /\ trigger'[vs] # trigger[vs]
                      => rm'[vs] = trigger[vs] /\ state'[vs] = "RM_LOAD"]_vars

(* While no load fails, the demonstration goes on.                          *)
DemoGoesOn == [](failed = {} /\ pc # "exit") => []<>(pc = "loop")
==============================================================================
