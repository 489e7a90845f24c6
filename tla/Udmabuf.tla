------------------------------- MODULE Udmabuf -------------------------------
(***************************************************************************)
(* The device registry of the u-dma-buf kernel module (u-dma-buf.c): how    *)
(* devices of every kind come and go while several threads create and       *)
(* remove them: from module parameters and the device tree when the module  *)
(* is loaded, through the in-kernel interface while it is, and all of them  *)
(* when it is unloaded.                                                     *)
(*                                                                         *)
(* A Device is the memory of one device with its object and list entry, and *)
(* the thread that creates or removes it.  Each step takes a lock at most   *)
(* once; any step that allocates may fail.                                  *)
(***************************************************************************)
EXTENDS Integers, SequencesExt

CONSTANTS
  Device,
  Kind,       \* [Device -> Kinds]
  Requests,   \* the [name, id] each device may be created with
  MinorMax    \* DEVICE_MAX_NUM

Kinds == {"dt",        \* probed from the device tree, not in the list
          "static",    \* a module parameter udmabuf0..7
          "platform",  \* u_dma_buf_device_create without a parent
          "child"}     \* u_dma_buf_device_create with a parent

ASSUME KindAssumption == Kind \in [Device -> Kinds]
ASSUME MinorAssumption == MinorMax \in Nat \ {0}

\* Module parameter udmabuf<N> makes device number N.
ASSUME RequestAssumption ==
  /\ \A d \in Device : Requests[d] # {}
  /\ \A d, e \in {s \in Device : Kind[s] = "static"} :
       \A q \in Requests[d], r \in Requests[e] :
         q.id \in 0..(MinorMax - 1) /\ (q.id = r.id <=> d = e)

VARIABLES
  phase,    \* of the module
  regs,     \* what the module has registered: the major number, class and driver
  parent,   \* what the parameter bind names: nothing, a device, or no device
  todo,     \* the devices that loading the module still has to create
  pc,       \* what the device's thread does, "idle" when it is in no call
  request,  \* the name and id it was last asked for
  created,  \* the create call it is in returns 0
  list,     \* udmabuf_device_list
  named,    \* its properties can be read
  bus,      \* its platform device is on the bus
  ida,      \* udmabuf_device_ida: the minor numbers taken
  minor,    \* its object's minor number, -1 when it has no object
  class,    \* the name in /sys/class/u-dma-buf and the number it stands for
  buffer,   \* its DMA buffer is allocated
  found,    \* the entry its search found
  handle    \* what u_dma_buf_device_create returned

vars == <<phase, regs, parent, todo, pc, request, created, list, named, bus, ida, minor,
          class, buffer, found, handle>>

None == "none"
NoName == <<>>
DriverName == <<"u-dma-buf">>
NumberedName(m) == <<"udmabuf", m>>    \* DEVICE_NAME_FORMAT
NoClass == [name |-> NoName, number |-> -1]

Clients == {d \in Device : Kind[d] \in {"platform", "child"}}
OfKind(kind) == {d \in Device : Kind[d] = kind}
Listed(d) == \E i \in DOMAIN list : list[i] = d
Quiet == \A d \in Device : pc[d] = "idle"
StaticMinors == UNION {{r.id : r \in Requests[d]} : d \in OfKind("static")}

\* With bind, udmabuf_static_device_create makes children of the device found.
AsChild(d) == Kind[d] = "child" \/ (Kind[d] = "static" /\ parent = "device")

(* The parameter bind, "device" or "bus/device".                            *)

\* udmabuf_available_bus_type_list, of a kernel with both buses.
FindBus(name) == IF name \in {"amba", "pci"} THEN name ELSE None

ParseBind(bind) == IF bind.bus = "" THEN "platform" ELSE FindBus(bind.bus)

\* udmabuf_static_parent_device, looked up once for all static devices.
StaticParent(bind) ==
  IF bind.bus = None THEN "none"
  ELSE IF ParseBind(bind) # None /\ bind.found THEN "device" ELSE "missing"

Binds == [bus : {None, "", "pci", "usb"}, found : BOOLEAN]

Init ==
  /\ phase = "load" /\ regs = {} /\ parent \in {StaticParent(b) : b \in Binds}
  /\ todo = OfKind("dt") \cup OfKind("static")
  /\ pc = [d \in Device |-> "idle"]
  /\ request = [d \in Device |-> CHOOSE r \in Requests[d] : TRUE]
  /\ created = [d \in Device |-> FALSE]
  /\ list = <<>>
  /\ named = [d \in Device |-> FALSE] /\ bus = [d \in Device |-> FALSE]
  /\ ida = {}
  /\ minor = [d \in Device |-> -1]
  /\ class = [d \in Device |-> NoClass]
  /\ buffer = [d \in Device |-> FALSE]
  /\ found = [d \in Device |-> None] /\ handle = [d \in Device |-> None]
------------------------------------------------------------------------------
(* u_dma_buf_init: three registrations, each of which may fail.             *)

Register(what, before) ==
  /\ phase = "load" /\ regs = before
  /\ \/ regs' = before \cup {what} /\ phase' = IF what = "driver" THEN "init" ELSE "load"
     \/ phase' = "exit" /\ UNCHANGED regs
  /\ UNCHANGED <<parent, todo, pc, request, created, list, named, bus, minor, class,
                 buffer, found, handle>>

AllocRegion == Register("major", {}) /\ UNCHANGED ida

\* The minor numbers of the static devices are reserved once the class exists.
CreateClass ==
  /\ Register("class", {"major"})
  /\ ida' = IF "class" \in regs' THEN StaticMinors ELSE ida

RegisterDriver == Register("driver", {"major", "class"}) /\ UNCHANGED ida
------------------------------------------------------------------------------
(* Calls begin.                                                             *)

Go(d, place) == pc' = [pc EXCEPT ![d] = place]
Fail(d) == Go(d, "undo") /\ created' = [created EXCEPT ![d] = FALSE]

\* udmabuf_child_device_create makes the object, then the entry, then the buffer;
ChildSteps == <<"minor", "device", "cdev", "check", "add", "setup">>

\* a probe makes the object and its buffer,
ProbeSteps == <<"minor", "device", "cdev", "setup">>

\* and udmabuf_platform_device_create adds to the bus, which probes it, a device
\* that has its entry.
PlatformSteps == <<"check", "add", "bus", "minor", "device", "cdev", "setup">>

Steps(d) == CASE Kind[d] = "dt" -> ProbeSteps [] AsChild(d) -> ChildSteps
              [] OTHER -> PlatformSteps

\* A client then looks for the device it has made.
After(d, place) ==
  LET last == Len(Steps(d))
      i == CHOOSE i \in 1..last : Steps(d)[i] = place
  IN IF i < last THEN Steps(d)[i + 1] ELSE IF d \in Clients THEN "search" ELSE "idle"

Continue(d) == Go(d, After(d, pc[d])) /\ UNCHANGED created

Begin(d) ==
  /\ \E r \in Requests[d] : request' = [request EXCEPT ![d] = r]
  /\ created' = [created EXCEPT ![d] = TRUE]
  /\ Go(d, Head(Steps(d)))

\* The bus probes the devices of the device tree when the driver is registered.
Probe(d) ==
  /\ phase = "init" /\ d \in todo /\ Quiet /\ Kind[d] = "dt"
  /\ Begin(d)
  /\ todo' = todo \ {d}
  /\ UNCHANGED <<phase, regs, parent, list, named, bus, ida, minor, class, buffer,
                 found, handle>>

\* CALL_UDMABUF_STATIC_DEVICE_CREATE: without the device that bind names there
\* is no static device, and its number is released all the same.
CreateStatic(d) ==
  /\ phase = "init" /\ d \in todo /\ Quiet
  /\ todo \cap OfKind("dt") = {} /\ Kind[d] = "static"
  /\ IF parent = "missing" THEN UNCHANGED <<pc, request, created>> ELSE Begin(d)
  /\ ida' = ida \ {request'[d].id}
  /\ todo' = todo \ {d}
  /\ UNCHANGED <<phase, regs, parent, list, named, bus, minor, class, buffer, found,
                 handle>>

\* A device that could not be created is forgotten, but a bind that names no
\* device fails the load.
Loaded ==
  /\ phase = "init" /\ todo = {} /\ Quiet
  /\ phase' = IF parent = "missing" /\ OfKind("static") # {} THEN "exit" ELSE "live"
  /\ UNCHANGED <<regs, parent, todo, pc, request, created, list, named, bus, ida, minor,
                 class, buffer, found, handle>>

\* u_dma_buf_device_create
Create(d) ==
  /\ phase = "live" /\ d \in Clients /\ pc[d] = "idle" /\ handle[d] = None
  /\ minor[d] = -1
  /\ Begin(d)
  /\ UNCHANGED <<phase, regs, parent, todo, list, named, bus, ida, minor, class, buffer,
                 found, handle>>

\* u_dma_buf_device_remove of the handle that create returned.  A client that
\* was returned the handle of another's device leaves it alone.
RemoveDevice(d) ==
  /\ phase = "live" /\ pc[d] = "idle" /\ handle[d] = d /\ Listed(d)
  /\ handle' = [handle EXCEPT ![d] = None]
  /\ Fail(d)
  /\ UNCHANGED <<phase, regs, parent, todo, request, list, named, bus, ida, minor,
                 class, buffer, found>>
------------------------------------------------------------------------------
(* udmabuf_object_create                                                    *)

AllocMinor(d) ==
  /\ pc[d] = "minor"
  /\ LET wanted == IF request[d].id >= 0 THEN {request[d].id} ELSE 0..(MinorMax - 1)
         free == (wanted \cap 0..(MinorMax - 1)) \ ida
     IN \/ \E m \in free :
             /\ \A k \in free : m <= k
             /\ minor' = [minor EXCEPT ![d] = m]
             /\ ida' = ida \cup {m}
             /\ Continue(d)
        \/ Fail(d) /\ UNCHANGED <<minor, ida>>
  /\ UNCHANGED <<phase, regs, parent, todo, request, list, named, bus, class, buffer,
                 found, handle>>

\* Both kinds of device fall back on the same name, "u-dma-buf".
ClassName(d) == IF request[d].name # NoName THEN request[d].name
                ELSE IF request[d].id < 0 THEN DriverName
                ELSE NumberedName(minor[d])

\* device_create refuses a name that the class has.
DeviceCreate(d) ==
  /\ pc[d] = "device"
  /\ \/ /\ \A e \in Device : class[e].name # ClassName(d)
        /\ class' = [class EXCEPT ![d] = [name |-> ClassName(d), number |-> minor[d]]]
        /\ Continue(d)
     \/ Fail(d) /\ UNCHANGED class
  /\ UNCHANGED <<phase, regs, parent, todo, request, list, named, bus, ida, minor,
                 buffer, found, handle>>

CdevAdd(d) ==
  /\ pc[d] = "cdev"
  /\ Continue(d) \/ Fail(d)
  /\ UNCHANGED <<phase, regs, parent, todo, request, list, named, bus, ida, minor,
                 class, buffer, found, handle>>

\* udmabuf_object_setup, the last step of every kind of creation.
Setup(d) ==
  /\ pc[d] = "setup"
  /\ \/ /\ buffer' = [buffer EXCEPT ![d] = TRUE]
        /\ Continue(d)
     \/ Fail(d) /\ UNCHANGED buffer
  /\ UNCHANGED <<phase, regs, parent, todo, request, list, named, bus, ida, minor,
                 class, found, handle>>
------------------------------------------------------------------------------
(* The list of devices.                                                     *)

\* The name and number of an entry are properties of its device.
HasName(e, name) == named[e] /\ request[e].name = name
HasId(e, id) == named[e] /\ request[e].id = id

\* udmabuf_device_list_search by name and id finds the last entry that matches.
Matches(name, id) == {i \in DOMAIN list : /\ name = NoName \/ HasName(list[i], name)
                                          /\ id < 0 \/ HasId(list[i], id)}

\* udmabuf_device_list_create_entry: it looks for a duplicate, then adds the
\* entry under another lock.
CheckEntry(d) ==
  /\ pc[d] = "check"
  /\ IF Matches(request[d].name, request[d].id) = {}
     THEN Continue(d)
     ELSE Fail(d)
  /\ UNCHANGED <<phase, regs, parent, todo, request, list, named, bus, ida, minor,
                 class, buffer, found, handle>>

\* Without memory for the entry the caller sees ERR_PTR(0), and returns 0.
AddEntry(d) ==
  /\ pc[d] = "add"
  /\ \/ /\ list' = Append(list, d)
        /\ named' = [named EXCEPT ![d] = TRUE]
        /\ Continue(d)
     \/ /\ Fail(d) \/ (Go(d, "undo") /\ UNCHANGED created)
        /\ UNCHANGED <<list, named>>
  /\ UNCHANGED <<phase, regs, parent, todo, request, bus, ida, minor, class, buffer,
                 found, handle>>

\* platform_device_add, which refuses a name the bus has and calls the probe.
PlatformAdd(d) ==
  /\ pc[d] = "bus"
  /\ \/ /\ \A e \in Device : bus[e] => request[e].id # request[d].id
        /\ bus' = [bus EXCEPT ![d] = TRUE]
        /\ Continue(d)
     \/ Fail(d) /\ UNCHANGED bus
  /\ UNCHANGED <<phase, regs, parent, todo, request, list, named, ida, minor, class,
                 buffer, found, handle>>

\* u_dma_buf_device_create looks for the device it has made by name and id,
SearchDevice(d) ==
  /\ pc[d] = "search"
  /\ LET matches == Matches(request[d].name, request[d].id)
     IN \/ matches = {} /\ found' = [found EXCEPT ![d] = None]
        \/ \E i \in matches : /\ \A j \in matches : j <= i
                              /\ found' = [found EXCEPT ![d] = list[i]]
  /\ Go(d, "handle")
  /\ UNCHANGED <<phase, regs, parent, todo, request, created, list, named, bus, ida,
                 minor, class, buffer, handle>>

\* and reads the entry after the lock is released.
ReturnHandle(d) ==
  /\ pc[d] = "handle"
  /\ handle' = [handle EXCEPT ![d] = found[d]]
  /\ found' = [found EXCEPT ![d] = None]
  /\ Go(d, "idle")
  /\ UNCHANGED <<phase, regs, parent, todo, request, created, list, named, bus, ida,
                 minor, class, buffer>>
------------------------------------------------------------------------------
(* Removal, and the error paths of creation: what was done is undone, by    *)
(* udmabuf_device_list_delete_entry, udmabuf_object_destroy and             *)
(* platform_device_del, in an order that depends on the kind.               *)

\* A child's entry is deleted before its object is destroyed, and a platform
\* device's after the bus has forgotten the device.
EntryGoesFirst(d) == AsChild(d)

\* A plausible bug: the entry is freed and stays in the list.
UnlistNothing(d) ==
  /\ pc[d] = "undo" /\ Listed(d)
  /\ EntryGoesFirst(d) \/ (minor[d] = -1 /\ ~bus[d])
  /\ named' = [named EXCEPT ![d] = FALSE]
  /\ UNCHANGED <<phase, regs, parent, todo, pc, request, created, list, bus, ida, minor,
                 class, buffer, found, handle>>

Unlist(d) ==
  /\ pc[d] = "undo" /\ Listed(d)
  /\ EntryGoesFirst(d) \/ (minor[d] = -1 /\ ~bus[d])
  /\ \E i \in DOMAIN list : list[i] = d /\ list' = RemoveAt(list, i)
  /\ named' = [named EXCEPT ![d] = FALSE]
  /\ UNCHANGED <<phase, regs, parent, todo, pc, request, created, bus, ida, minor,
                 class, buffer, found, handle>>

\* A plausible bug: the object of a child goes before its entry does.
DestroyEarly(d) ==
  /\ pc[d] = "undo" /\ class[d] # NoClass
  /\ class' = [e \in Device |-> IF class[e].number = minor[d] THEN NoClass ELSE class[e]]
  /\ buffer' = [buffer EXCEPT ![d] = FALSE]
  /\ UNCHANGED <<phase, regs, parent, todo, pc, request, created, list, named, bus, ida,
                 minor, found, handle>>

\* The buffer and cdev are released; device_destroy looks its device up by
\* number, so the number must still be the object's own.
DestroyDevice(d) ==
  /\ pc[d] = "undo" /\ class[d] # NoClass
  /\ EntryGoesFirst(d) => ~Listed(d)
  /\ class' = [e \in Device |-> IF class[e].number = minor[d] THEN NoClass ELSE class[e]]
  /\ buffer' = [buffer EXCEPT ![d] = FALSE]
  /\ UNCHANGED <<phase, regs, parent, todo, pc, request, created, list, named, bus, ida,
                 minor, found, handle>>

\* A plausible bug: the number is released while the class device has it.
ReleaseMinorFirst(d) ==
  /\ pc[d] = "undo" /\ minor[d] # -1
  /\ ida' = ida \ {minor[d]}
  /\ minor' = [minor EXCEPT ![d] = -1]
  /\ UNCHANGED <<phase, regs, parent, todo, pc, request, created, list, named, bus,
                 class, buffer, found, handle>>

ReleaseMinor(d) ==
  /\ pc[d] = "undo" /\ minor[d] # -1 /\ class[d] = NoClass
  /\ ida' = ida \ {minor[d]}
  /\ minor' = [minor EXCEPT ![d] = -1]
  /\ UNCHANGED <<phase, regs, parent, todo, pc, request, created, list, named, bus,
                 class, buffer, found, handle>>

PlatformDel(d) ==
  /\ pc[d] = "undo" /\ bus[d] /\ minor[d] = -1
  /\ bus' = [bus EXCEPT ![d] = FALSE]
  /\ named' = [named EXCEPT ![d] = FALSE]
  /\ UNCHANGED <<phase, regs, parent, todo, pc, request, created, list, ida, minor,
                 class, buffer, found, handle>>

\* A plausible bug: create does not look whether the probe failed.
UndoneOnBus(d) ==
  /\ pc[d] = "undo" /\ minor[d] = -1
  /\ EntryGoesFirst(d) => ~Listed(d)
  /\ Go(d, IF created[d] /\ d \in Clients THEN "search" ELSE "idle")
  /\ UNCHANGED <<phase, regs, parent, todo, request, created, list, named, bus, ida,
                 minor, class, buffer, found, handle>>

Undone(d) ==
  /\ pc[d] = "undo" /\ ~Listed(d) /\ ~bus[d] /\ minor[d] = -1
  /\ Go(d, IF created[d] /\ d \in Clients THEN "search" ELSE "idle")
  /\ UNCHANGED <<phase, regs, parent, todo, request, created, list, named, bus, ida,
                 minor, class, buffer, found, handle>>
------------------------------------------------------------------------------
(* u_dma_buf_cleanup, when no other module uses this one.                   *)

Exit ==
  /\ phase = "live" /\ Quiet
  /\ phase' = "exit"
  /\ handle' = [d \in Device |-> None]
  /\ UNCHANGED <<regs, parent, todo, pc, request, created, list, named, bus, ida, minor,
                 class, buffer, found>>

\* The list is emptied first, then the driver is unregistered.
Cleanup(d) ==
  /\ phase = "exit" /\ Quiet
  /\ IF list # <<>> THEN d = Head(list) ELSE Kind[d] = "dt" /\ minor[d] # -1
  /\ Fail(d)
  /\ UNCHANGED <<phase, regs, parent, todo, request, list, named, bus, ida, minor,
                 class, buffer, found, handle>>

\* A plausible bug: the driver stays registered.
ExitedRegistered ==
  /\ phase = "exit" /\ Quiet /\ list = <<>>
  /\ phase' = "exited" /\ ida' = {} /\ regs' = {} /\ todo' = {}
  /\ UNCHANGED <<parent, pc, request, created, list, named, bus, minor, class, buffer,
                 found, handle>>

Exited ==
  /\ phase = "exit" /\ Quiet /\ list = <<>>
  /\ \A d \in OfKind("dt") : minor[d] = -1
  /\ phase' = "exited" /\ ida' = {} /\ regs' = {} /\ todo' = {}
  /\ UNCHANGED <<parent, pc, request, created, list, named, bus, minor, class, buffer,
                 found, handle>>
------------------------------------------------------------------------------
CreateStep(d) == AllocMinor(d) \/ DeviceCreate(d) \/ CdevAdd(d) \/ Setup(d)
                 \/ CheckEntry(d) \/ AddEntry(d) \/ PlatformAdd(d)
                 \/ SearchDevice(d) \/ ReturnHandle(d)

UndoStep(d) == Unlist(d) \/ DestroyDevice(d) \/ ReleaseMinor(d) \/ PlatformDel(d)
               \/ Undone(d)

Call(d) == Probe(d) \/ CreateStatic(d) \/ Create(d) \/ RemoveDevice(d)

Next == \/ \E d \in Device : CreateStep(d) \/ UndoStep(d) \/ Call(d) \/ Cleanup(d)
        \/ AllocRegion \/ CreateClass \/ RegisterDriver \/ Loaded \/ Exit \/ Exited

Spec == Init /\ [][Next]_vars

\* A thread inside the kernel module runs on, and so does unloading it.
FairSpec == /\ Spec
            /\ \A d \in Device : WF_vars(CreateStep(d) \/ UndoStep(d))
            /\ WF_vars(Exited \/ \E d \in Device : Cleanup(d))
------------------------------------------------------------------------------
Places == {"idle", "minor", "device", "cdev", "setup", "check", "add", "bus",
           "search", "handle", "undo"}

AskedNames == UNION {{r.name : r \in Requests[d]} : d \in Device}
NumberedNames == {NumberedName(m) : m \in 0..(MinorMax - 1)}
ClassNames == {NoName, DriverName} \cup AskedNames \cup NumberedNames

TypeOK ==
  /\ phase \in {"load", "init", "live", "exit", "exited"} /\ todo \subseteq Device
  /\ regs \subseteq {"major", "class", "driver"} /\ parent \in {"none", "device", "missing"}
  /\ pc \in [Device -> Places]
  /\ request \in [Device -> UNION {Requests[d] : d \in Device}]
  /\ \A d \in Device : request[d] \in Requests[d]
  /\ created \in [Device -> BOOLEAN]
  /\ list \in Seq(Device) /\ named \in [Device -> BOOLEAN] /\ bus \in [Device -> BOOLEAN]
  /\ ida \subseteq 0..(MinorMax - 1)
  /\ minor \in [Device -> -1..(MinorMax - 1)]
  /\ class \in [Device -> [name : ClassNames, number : -1..(MinorMax - 1)]]
  /\ buffer \in [Device -> BOOLEAN]
  /\ found \in [Device -> Device \cup {None}] /\ handle \in [Device -> Device \cup {None}]

Reserved == IF "class" \in regs THEN {request[d].id : d \in todo \cap OfKind("static")}
                                ELSE {}

Taken == {minor[d] : d \in {e \in Device : minor[e] # -1}}

(* Every minor number taken has one object, or is reserved for a static      *)
(* device that is still to come; class devices are numbered as objects are.  *)
MinorsAccounted ==
  /\ ida = Reserved \cup Taken /\ Reserved \cap Taken = {}
  /\ \A d \in Device : class[d] # NoClass => class[d].number = minor[d] /\ minor[d] # -1
  /\ \A d, e \in Device : d # e /\ minor[d] # -1 => minor[d] # minor[e]

OnBus(d) == ~AsChild(d) /\ Kind[d] # "dt"

Nothing(d) == minor[d] = -1 /\ class[d] = NoClass /\ ~buffer[d] /\ ~bus[d] /\ ~Listed(d)

Everything(d) == /\ minor[d] # -1 /\ class[d] # NoClass /\ buffer[d]
                 /\ (bus[d] <=> OnBus(d)) /\ (Listed(d) <=> Kind[d] # "dt")

\* A creation has what the steps it has done give,
HasDone(d, place) ==
  \E i, j \in DOMAIN Steps(d) : i < j /\ Steps(d)[i] = place /\ Steps(d)[j] = pc[d]

Building(d) ==
  /\ \E i \in DOMAIN Steps(d) : Steps(d)[i] = pc[d]
  /\ minor[d] # -1 <=> HasDone(d, "minor")
  /\ class[d] # NoClass <=> HasDone(d, "device")
  /\ bus[d] <=> HasDone(d, "bus")
  /\ Listed(d) <=> HasDone(d, "add")
  /\ ~buffer[d]

\* and undoing it leaves nothing without what it rests on.
Undoing(d) ==
  /\ buffer[d] => class[d] # NoClass
  /\ bus[d] => OnBus(d)
  /\ Listed(d) => Kind[d] # "dt" /\ (AsChild(d) => class[d] # NoClass)

Resting == {"idle", "search", "handle"}

Doing(d) == /\ pc[d] \in Resting => Nothing(d) \/ Everything(d)
            /\ pc[d] = "undo" => Undoing(d)
            /\ pc[d] \notin Resting \cup {"undo"} => Building(d)

Progress == \A d \in Device : Doing(d)

ListedOnce == \A i, j \in DOMAIN list : list[i] = list[j] => i = j

\* What is still to be created does not exist yet, and nothing does before the
\* module has registered everything.
ToDo ==
  /\ \A d \in todo : Kind[d] \in {"dt", "static"} /\ pc[d] = "idle" /\ Nothing(d)
  /\ phase = "load" => /\ ("class" \notin regs => ida = {})
                       /\ todo = OfKind("dt") \cup OfKind("static")
                       /\ \A d \in Device : pc[d] = "idle" /\ Nothing(d)
  /\ phase = "init" => "class" \in regs

IInv == TypeOK /\ MinorsAccounted /\ Progress /\ ListedOnce /\ ToDo

Holds(d) ==
  {r \in {"minor", "class", "buffer", "bus", "list"} :
     CASE r = "minor" -> minor[d] # -1 [] r = "class" -> class[d] # NoClass
       [] r = "buffer" -> buffer[d] [] r = "bus" -> bus[d] [] r = "list" -> Listed(d)}

AllOf(d) == {"minor", "class", "buffer"}
            \cup (IF Kind[d] = "dt" THEN {} ELSE {"list"})
            \cup (IF AsChild(d) \/ Kind[d] = "dt" THEN {} ELSE {"bus"})

(* Whichever step of a creation fails, and whoever runs in between, a device *)
(* that no call is working on has all of its resources or none: no error     *)
(* path leaks, and none releases what belongs to another device.             *)
AllOrNothing == \A d \in Device : pc[d] = "idle" => Holds(d) \in {{}, AllOf(d)}

(* A search reads the device of every entry in the list, so an entry never   *)
(* outlives its device, and no device is listed twice.  A child's device is  *)
(* its class device; a platform device is released after it is unlisted.     *)
EntriesAreLive ==
  /\ \A d \in Device : Listed(d) /\ AsChild(d) => class[d] # NoClass
  /\ \A i, j \in DOMAIN list : list[i] = list[j] => i = j

(* A module that is unloaded, or whose load fails at any step, leaves no      *)
(* device behind, and no minor number of a device taken.                     *)
ExitReleasesAll ==
  [][phase = "exit" /\ phase' = "exited" =>
       ida \subseteq Reserved /\ \A d \in Device : Holds(d) = {}]_vars

(* The loop that empties the list ends.                                      *)
ExitEnds == phase = "exit" ~> phase = "exited"

(* u-dma-buf.c:2365-2371: u_dma_buf_device_create "Create u-dma-buf device", *)
(* "Return: handle to u-dma-buf device structure".                           *)
ReturnsItsDevice ==
  [][\A d \in Device :
       pc[d] = "handle" /\ pc'[d] = "idle" => handle'[d] \in {d, None}]_vars
==============================================================================
