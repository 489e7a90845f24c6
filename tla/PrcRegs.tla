------------------------------- MODULE PrcRegs -------------------------------
(***************************************************************************)
(* The registers of the DFX controller as its driver (drivers/prc/xprc.c)   *)
(* sees them: how a register is addressed, how values are packed into it,   *)
(* the setters and getters of the configuration tables, the commands, the   *)
(* software triggers and the status of a virtual socket manager.            *)
(*                                                                         *)
(* The driver does not lock ("not thread safe"), and a function makes one   *)
(* access that matters to others: a call is one step.  The managers         *)
(* (external) run beside it.                                                *)
(***************************************************************************)
EXTENDS Integers, FiniteSets, Sequences, Bitwise

CONSTANTS
  ConfigTable, \* XPrc_ConfigTable: what xparameters.h says of each device
  DeviceId,    \* the device that is looked up
  Mapped,      \* where the registers are mapped, EffectiveAddr
  Row,         \* the rows of a table that are used (triggers, RMs, bitstreams)
  Half,        \* 2^16: what a 16-bit field of a register can hold
  Pending,     \* XPRC_SW_TRIGGER_PENDING_MASK, 2^31
  Index,       \* the bitstream rows, sizes, addresses and ids that are written
  Controls,    \* the values of the fields of the RM control register
  Signals,     \* the arguments of a user control command
  Manager,     \* the states of a manager, [shutdown, state, error, rm, bs]
  MaxSet       \* bound: what is not as it was when the controller started

\* The members of a device's configuration that the calls read.
XPrc_Config ==
  [DeviceId : Nat, BaseAddress : Nat, NumberOfVsms : Nat \ {0},
   RegVsmLsb : Nat, RegBankLsb : Nat, RegSelectLsb : Nat]

ASSUME ConfigAssumption ==
  /\ \A n \in DOMAIN ConfigTable : ConfigTable[n] \in XPrc_Config
  /\ \E n \in DOMAIN ConfigTable : ConfigTable[n].DeviceId = DeviceId
  /\ Row \subseteq Nat /\ Mapped \in Nat
ASSUME ValuesAssumption ==
  /\ Half \in Nat \ {0} /\ Index \subseteq 0 .. Half - 1 /\ MaxSet \in Nat
  /\ Controls \subseteq (0 .. 3) \X (0 .. 1) \X (0 .. 3) \X (0 .. 255)
  /\ Signals \subseteq [1 .. 5 -> 0 .. 1]
  /\ Pending \in Nat /\ \A id \in Row : id < Pending
  /\ \A m \in Manager :
       m.shutdown \in 0 .. 1 /\ m.state \in 0 .. 7 /\ m.error \in 0 .. 15
         /\ m.rm \in 0 .. Half - 1 /\ m.bs \in 0 .. 255

VARIABLES
  instance,   \* the driver's instance, XPrc
  regs,       \* what the registers of the controller hold, by address
  control,    \* the last word written to a manager's control register
  manager,    \* the managers
  call        \* history: the call of the last step, with its arguments

vars == <<instance, regs, control, manager, call>>

NoCall == [name |-> "none"]
NoConfig == [DeviceId |-> -1]
NotReady == [IsReady |-> FALSE]
None == -1

LookupConfig(id) ==
  LET found == {n \in DOMAIN ConfigTable : ConfigTable[n].DeviceId = id}
  IN  IF found = {} THEN NoConfig
      ELSE ConfigTable[CHOOSE n \in found : \A m \in found : n <= m]

\* The configuration is copied, but for the address.
CfgInitialize(config, effectiveAddr) ==
  [IsReady |-> TRUE, Config |-> [config EXCEPT !.BaseAddress = effectiveAddr]]

Device == LookupConfig(DeviceId)
Vsm == 0 .. Device.NumberOfVsms - 1

GENERAL == 0
TRIGGER == 1
RM == 2
BS == 3

\* The bank a register is in, and its table within the bank.
BankId == [ STATUS_REG |-> GENERAL, CONTROL_REG |-> GENERAL,
            SW_TRIGGER_REG |-> GENERAL, TRIGGER_REG |-> TRIGGER,
            RM_BS_INDEX_REG |-> RM, RM_CONTROL_REG |-> RM,
            BS_ID_REG |-> BS, BS_ADDRESS_REG |-> BS, BS_SIZE_REG |-> BS ]

TableInBank == [ STATUS_REG |-> 0, CONTROL_REG |-> 0, SW_TRIGGER_REG |-> 1,
                 TRIGGER_REG |-> 0, RM_BS_INDEX_REG |-> 0, RM_CONTROL_REG |-> 1,
                 BS_ID_REG |-> 0, BS_ADDRESS_REG |-> 1, BS_SIZE_REG |-> 2 ]

\* The fields of a command and of an RM control register: the first bit and
\* the number of bits of each.
CommandField == [cmd |-> <<0, 8>>, byte |-> <<8, 8>>, halfword |-> <<16, 16>>]
RmControlField == << <<0, 2>>, <<2, 1>>, <<3, 2>>, <<5, 8>> >>

Put(field, value) == (value % 2^field[2]) * 2^field[1]
Part(field, word) == (word \div 2^field[1]) % 2^field[2]

Cmd == [shutdown |-> 0, restart |-> 1, restart_with_status |-> 2, proceed |-> 3,
        user_control |-> 4]

\* The trigger register, and the two 16-bit fields of a BS index register.
TriggerId(word)       == word % Pending
TriggerPending(word)  == word >= Pending
RmBsIndex(word)       == word % Half
ClearingBsIndex(word) == (word \div Half) % Half

\* ceil(log2) of the number of register types in a bank.
GetOffsetForTableType(bank) == CASE bank = RM -> 1 [] bank = BS -> 2 [] OTHER -> 0

\* A plausible bug: rows are not spread over the register types of the bank.
DenseRows(inst, vsm, bank, table, row) ==
  vsm * 2^inst.Config.RegVsmLsb + bank * 2^inst.Config.RegBankLsb
    + (row % 256) * 2^inst.Config.RegSelectLsb
    + table * 2^inst.Config.RegSelectLsb

\* TableRow is a u8 here although it is a u16 in GetRegisterAddress.
GetRegisterOffset(inst, vsm, bank, table, row) ==
  vsm * 2^inst.Config.RegVsmLsb + bank * 2^inst.Config.RegBankLsb
    + (row % 256) * 2^(inst.Config.RegSelectLsb + GetOffsetForTableType(bank))
    + table * 2^inst.Config.RegSelectLsb

GetRegisterAddress(inst, vsm, type, row) ==
  inst.Config.BaseAddress
    + GetRegisterOffset(inst, vsm, BankId[type], TableInBank[type], row)

TableTypes == {"TRIGGER_REG", "RM_BS_INDEX_REG", "RM_CONTROL_REG",
               "BS_ID_REG", "BS_ADDRESS_REG", "BS_SIZE_REG"}

\* The registers that can be read back: the tables, and the general bank's
\* only row.
Addresses ==
  LET Address(vsm, type, row) ==
        GetRegisterAddress(CfgInitialize(Device, Mapped), vsm, type, row)
  IN  {Address(vsm, type, row) : vsm \in Vsm, type \in TableTypes, row \in Row}
        \union {Address(vsm, "SW_TRIGGER_REG", 0) : vsm \in Vsm}
------------------------------------------------------------------------------
(* The controller (external).  Status and control share an address: what is *)
(* written there is a command, what is read there is the status.            *)

Init ==
  /\ instance = NotReady
  /\ regs = [address \in Addresses |-> 0]
  /\ control = [vsm \in Vsm |-> None]
  /\ manager \in [Vsm -> {m \in Manager : m.state = 0 /\ m.shutdown = 0}]
  /\ call = NoCall

RegisterInVsm(address) == (address - Mapped) % 2^Device.RegVsmLsb
VsmOf(address) == (address - Mapped) \div 2^Device.RegVsmLsb
ControlOffset == 0
TriggerOffset == 2^Device.RegSelectLsb

StatusWord(m) ==
  m.state + m.error * 8 + m.shutdown * 128 + m.rm * 256 + m.bs * (256 * Half)

WriteReg(vsm, type, row, data) ==
  LET address == GetRegisterAddress(instance, vsm, type, row)
  IN  /\ instance.IsReady
      /\ CASE RegisterInVsm(address) = ControlOffset ->
                control' = [control EXCEPT ![VsmOf(address)] = data]
                  /\ UNCHANGED regs
           [] RegisterInVsm(address) = TriggerOffset ->
                regs' = [regs EXCEPT ![address] = data + Pending]
                  /\ UNCHANGED control
           [] OTHER -> regs' = [regs EXCEPT ![address] = data] /\ UNCHANGED control
      /\ UNCHANGED <<instance, manager>>

ReadReg(vsm, type, row) ==
  LET address == GetRegisterAddress(instance, vsm, type, row)
  IN  IF RegisterInVsm(address) = ControlOffset THEN StatusWord(manager[VsmOf(address)])
      ELSE regs[address]

\* A manager takes its trigger, or its status changes.
TakeTrigger(vsm) ==
  LET address == Mapped + vsm * 2^Device.RegVsmLsb + TriggerOffset
  IN  /\ TriggerPending(regs[address])
      /\ regs' = [regs EXCEPT ![address] = @ - Pending]
      /\ call' = NoCall
      /\ UNCHANGED <<instance, control, manager>>

ChangeStatus(vsm) ==
  /\ \E m \in Manager : manager' = [manager EXCEPT ![vsm] = m]
  /\ call' = NoCall
  /\ UNCHANGED <<instance, regs, control>>

\* dxfDemo looks its device up and initialises the driver.
Initialize ==
  /\ ~instance.IsReady
  /\ instance' = CfgInitialize(Device, Mapped)
  /\ UNCHANGED <<regs, control, manager, call>>
------------------------------------------------------------------------------
(* The configuration tables.                                                *)

SetTriggerToRmMapping(vsm, trigger, rm) == WriteReg(vsm, "TRIGGER_REG", trigger, rm)
SetBsId(vsm, row, id)          == WriteReg(vsm, "BS_ID_REG", row, id)
SetBsSize(vsm, row, size)      == WriteReg(vsm, "BS_SIZE_REG", row, size)
SetBsAddress(vsm, row, addr)   == WriteReg(vsm, "BS_ADDRESS_REG", row, addr)
SetRmBsIndex(vsm, rm, bsIndex) == WriteReg(vsm, "RM_BS_INDEX_REG", rm, bsIndex)

GetTriggerToRmMapping(vsm, trigger) == ReadReg(vsm, "TRIGGER_REG", trigger)
GetBsId(vsm, row)      == ReadReg(vsm, "BS_ID_REG", row)
GetBsSize(vsm, row)    == ReadReg(vsm, "BS_SIZE_REG", row)
GetBsAddress(vsm, row) == ReadReg(vsm, "BS_ADDRESS_REG", row)
GetRmBsIndex(vsm, rm)  == RmBsIndex(ReadReg(vsm, "RM_BS_INDEX_REG", rm))
GetRmClearingBsIndex(vsm, rm) == 
  ClearingBsIndex(ReadReg(vsm, "RM_BS_INDEX_REG", rm))

\* A plausible bug: the register is not read before the index is put into it.
SetUnmerged(vsm, rm, bsIndex) ==
  WriteReg(vsm, "RM_BS_INDEX_REG", rm, bsIndex * Half)

\* Data |= (ClearingBsIndex << 16)
SetRmClearingBsIndex(vsm, rm, bsIndex) ==
  WriteReg(vsm, "RM_BS_INDEX_REG", rm,
           ReadReg(vsm, "RM_BS_INDEX_REG", rm) | (bsIndex * Half))

\* Shutdown, start-up, reset and reset duration.
SetRmControl(vsm, rm, values) ==
  LET Field(n) == Put(RmControlField[n], values[n])
  IN  WriteReg(vsm, "RM_CONTROL_REG", rm, Field(1) + Field(2) + Field(3) + Field(4))

GetRmControl(vsm, rm) ==
  LET data == ReadReg(vsm, "RM_CONTROL_REG", rm)
  IN  [n \in 1 .. 4 |-> Part(RmControlField[n], data)]
------------------------------------------------------------------------------
(* Commands, triggers and the status.                                       *)

\* The user control command's arguments go into bits 0 to 4 of the byte.
ControlByte(signals) ==
  signals[1] + signals[2] * 2 + signals[3] * 4 + signals[4] * 8 + signals[5] * 16

\* A plausible bug: the module's identifier goes into the byte field.
SendSwapped(vsm, cmd, byte, halfword) ==
  WriteReg(vsm, "CONTROL_REG", 0, Put(CommandField.cmd, cmd)
    + Put(CommandField.byte, halfword) + Put(CommandField.halfword, byte))

SendCommand(vsm, cmd, byte, halfword) ==
  WriteReg(vsm, "CONTROL_REG", 0, Put(CommandField.cmd, cmd)
    + Put(CommandField.byte, byte) + Put(CommandField.halfword, halfword))

SendShutdownCommand(vsm)            == SendCommand(vsm, Cmd.shutdown, 0, 0)
SendRestartWithNoStatusCommand(vsm) == SendCommand(vsm, Cmd.restart, 0, 0)
SendRestartWithStatusCommand(vsm, full, rm) ==
  SendCommand(vsm, Cmd.restart_with_status, full, rm)
SendProceedCommand(vsm)             == SendCommand(vsm, Cmd.proceed, 0, 0)
SendUserControlCommand(vsm, signals) ==
  SendCommand(vsm, Cmd.user_control, ControlByte(signals), 0)

SendSwTrigger(vsm, trigger) == WriteReg(vsm, "SW_TRIGGER_REG", 0, trigger)

\* The identifier is that of the last trigger, pending or not, in a u16.
IsSwTriggerPending(vsm) ==
  LET data == ReadReg(vsm, "SW_TRIGGER_REG", 0)
  IN  [id |-> TriggerId(data) % Half, pending |-> TriggerPending(data)]

ReadStatusReg(vsm) == ReadReg(vsm, "STATUS_REG", 0)

IsVsmInShutdown(status)    == (status \div 128) % 2
GetVsmState(status)        == status % 8
GetVsmErrorStatus(status)  == (status \div 8) % 16
GetRmIdFromStatus(status)  == (status \div 256) % Half
GetBsIdFromStatus(status)  == (status \div (256 * Half)) % 256

StateName == << "EMPTY", "HW SHUTDOWN", "SW SHUTDOWN", "RM UNLOAD", "RM LOAD",
                "SW STARTUP", "RM RESET", "FULL" >>

ErrorNames == << "NO ERROR", "BAD CONFIG", "BS", "CP LOST", "FETCH", "FETCH AND BS",
                 "FETCH AND CP LOST", "DECOMPRESS BAD SIZE", "DECOMPRESS BAD FORMAT" >>

ErrorName(error) == CASE error < Len(ErrorNames) -> ErrorNames[error + 1]
                      [] error = 14 -> "BS COMPATIBLE"
                      [] OTHER -> "UNKNOWN"

\* In shutdown, neither the state nor what is loaded is known.
PrintVsmStatus(vsm) ==
  LET status == ReadStatusReg(vsm)
      state  == GetVsmState(status)
      error  == ErrorName(GetVsmErrorStatus(status))
  IN  CASE IsVsmInShutdown(status) # 0 ->
             [mode |-> "SHUTDOWN", ack |-> state, error |-> error]
        [] IsVsmInShutdown(status) = 0 /\ state = 0 ->
             [mode |-> "ACTIVE", state |-> StateName[1], error |-> error]
        [] OTHER ->
             [mode |-> "ACTIVE", state |-> StateName[state + 1], error |-> error,
              rm |-> GetRmIdFromStatus(status), bs |-> GetBsIdFromStatus(status)]
------------------------------------------------------------------------------
(* What the user of the driver calls, and with which arguments: call keeps  *)
(* the names the user has for them, not what the driver makes of them.      *)

Set(vsm, field, row, value) ==
  call' = [name |-> "set", vsm |-> vsm, field |-> field, row |-> row, value |-> value]

SetTables(vsm) ==
  \E row \in Row :
    \/ \E value \in Index :
         \/ SetTriggerToRmMapping(vsm, row, value) /\ Set(vsm, "Trigger", row, value)
         \/ SetRmBsIndex(vsm, row, value) /\ Set(vsm, "BsIndex", row, value)
         \/ SetRmClearingBsIndex(vsm, row, value)
              /\ Set(vsm, "ClearingBsIndex", row, value)
         \/ SetBsId(vsm, row, value) /\ Set(vsm, "BsId", row, value)
         \/ SetBsSize(vsm, row, value) /\ Set(vsm, "BsSize", row, value)
         \/ SetBsAddress(vsm, row, value) /\ Set(vsm, "BsAddress", row, value)
    \/ \E values \in Controls :
         SetRmControl(vsm, row, values) /\ Set(vsm, "RmControl", row, values)

Ask(vsm, command) == call' = [name |-> "send", vsm |-> vsm, command |-> command]

Send(vsm) ==
  \/ SendShutdownCommand(vsm) /\ Ask(vsm, [name |-> "shutdown"])
  \/ SendRestartWithNoStatusCommand(vsm) /\ Ask(vsm, [name |-> "restart"])
  \/ \E full \in 0 .. 1, rm \in Index :
       /\ SendRestartWithStatusCommand(vsm, full, rm)
       /\ Ask(vsm, [name |-> "restart with status", full |-> full, rm |-> rm])
  \/ SendProceedCommand(vsm) /\ Ask(vsm, [name |-> "proceed"])
  \/ \E signals \in Signals :
       /\ SendUserControlCommand(vsm, signals)
       /\ Ask(vsm, [name |-> "user control", signals |-> signals])
  \/ \E id \in Row : /\ SendSwTrigger(vsm, id)
                      /\ call' = [name |-> "trigger", vsm |-> vsm, id |-> id]

Touched ==
  Cardinality({address \in Addresses : regs[address] # 0})
    + Cardinality({vsm \in Vsm : control[vsm] # None})
    + Cardinality({vsm \in Vsm : StatusWord(manager[vsm]) # 0})

Next == /\ \/ Initialize
           \/ \E vsm \in Vsm : \/ SetTables(vsm) \/ Send(vsm)
                               \/ TakeTrigger(vsm) \/ ChangeStatus(vsm)
        /\ Touched' <= MaxSet

Spec == Init /\ [][Next]_vars
------------------------------------------------------------------------------
(* Reading every entry back through the getters gives tables in which each  *)
(* call of a setter has given the entry it names the value it names, and    *)
(* changed no other: the address computation keeps sockets, banks, tables   *)
(* and rows apart, and the fields packed into one register do not disturb   *)
(* each other.  Only the two bitstream indexes of a row depend on the order *)
(* of the calls, in the way xprc.c:373-376 and 435 tell.  A manager is      *)
(* given the command with the arguments of the call and the trigger of the  *)
(* call, and what is printed of it is what its status is.                   *)
Fields == {"Trigger", "BsIndex", "ClearingBsIndex", "RmControl",
           "BsId", "BsSize", "BsAddress"}

\* Two indexes merged: the bits of either.
BothOf(old, value) == old | value

ValueOf(field) == IF field = "RmControl" THEN Controls ELSE Index
ZeroOf(field) == IF field = "RmControl" THEN <<0, 0, 0, 0>> ELSE 0

Get(vsm, field, row) ==
  IF ~instance.IsReady THEN ZeroOf(field)
  ELSE CASE field = "Trigger"         -> GetTriggerToRmMapping(vsm, row)
         [] field = "BsIndex"         -> GetRmBsIndex(vsm, row)
         [] field = "ClearingBsIndex" -> GetRmClearingBsIndex(vsm, row)
         [] field = "RmControl"       -> GetRmControl(vsm, row)
         [] field = "BsId"            -> GetBsId(vsm, row)
         [] field = "BsSize"          -> GetBsSize(vsm, row)
         [] field = "BsAddress"       -> GetBsAddress(vsm, row)

\* A control register's word as the manager reads it.
Bit(word, n) == (word \div 2^n) % 2

Ordered(word) ==
  IF word = None THEN [name |-> "none"]
  ELSE LET cmd == word % 256
       IN  CASE cmd = 0 -> [name |-> "shutdown"]
             [] cmd = 1 -> [name |-> "restart"]
             [] cmd = 2 -> [name |-> "restart with status",
                            full |-> (word \div 256) % 256, rm |-> word \div 65536]
             [] cmd = 3 -> [name |-> "proceed"]
             [] cmd = 4 -> [name |-> "user control",
                            signals |-> [n \in 1 .. 5 |-> Bit(word, 7 + n)]]

Commands ==
  [name : {"shutdown", "restart", "proceed"}]
    \union [name : {"restart with status"}, full : 0 .. 1, rm : Index]
    \union [name : {"user control"}, signals : Signals]

\* What a user is to be told of a manager.
Shown(m) ==
  LET told == [error |-> ErrorName(m.error)]
      Tell(more) == [f \in DOMAIN told \union DOMAIN more |->
                       IF f \in DOMAIN told THEN told[f] ELSE more[f]]
  IN  CASE m.shutdown = 1 -> Tell([mode |-> "SHUTDOWN", ack |-> m.state])
        [] m.shutdown = 0 /\ m.state = 0 ->
             Tell([mode |-> "ACTIVE", state |-> "EMPTY"])
        [] OTHER -> Tell([mode |-> "ACTIVE", state |-> StateName[m.state + 1],
                          rm |-> m.rm, bs |-> m.bs])

Tables == INSTANCE PrcTables
            WITH Field <- Fields, Value <- ValueOf, Zero <- ZeroOf,
                 Merged <- BothOf, Command <- Commands,
                 table <- [entry \in Vsm \X Fields \X Row |->
                             Get(entry[1], entry[2], entry[3])],
                 order <- [vsm \in Vsm |-> Ordered(control[vsm])],
                 trigger <- [vsm \in Vsm |->
                               IF instance.IsReady THEN IsSwTriggerPending(vsm)
                               ELSE [id |-> 0, pending |-> FALSE]],
                 printed <- [vsm \in Vsm |->
                               IF instance.IsReady THEN PrintVsmStatus(vsm)
                               ELSE Shown(manager[vsm])]

ImplementsTables == Tables!TSpec
==============================================================================
