---------------------------- MODULE HwIcapPackets ----------------------------
(***************************************************************************)
(* The words the HWICAP driver sends (xhwicap_srp.c, the frame functions    *)
(* and the packet macros of xhwicap_i.h), and the configuration port that   *)
(* takes them.  A word of 32 bits is a signed integer; the fields that the  *)
(* macros join with | do not overlap, so that they are added here.          *)
(***************************************************************************)
EXTENDS Integers, Sequences

CONSTANTS
  WordsPerFrame, \* WordsPerFrame
  MaxType1,      \* XHI_TYPE_1_PACKET_MAX_WORDS
  ExtraWords,    \* for each family, what ReadFrame reads beyond two frames
  NumNoops,      \*   and the words it sends after the read packet
  IdCode         \* the IDCODE of the device

(* FindDeviceType: an IDCODE is <<family, position>>, where the table of the *)
(* family has it; only the first Listed[family] entries are looked at.       *)
Families == {"7series", "ultra", "ultra_plus"}
Listed == [f \in Families |-> IF f = "7series" THEN 32 ELSE 13]
FindDeviceType(code) == IF code[2] <= Listed[code[1]] THEN code[1] ELSE "none"

\* A packet of type 2 counts its words in 27 bits.
ASSUME FrameAssumption == WordsPerFrame \in Nat \ {0} /\ 2 * WordsPerFrame < 2^27
ASSUME Type1Assumption == MaxType1 \in 1..2047
ASSUME IdAssumption == IdCode \in Int
ASSUME FamilyAssumption ==
  /\ ExtraWords \in [Families -> Nat] /\ NumNoops \in [Families -> Nat]
  /\ \A family \in Families : 2 * WordsPerFrame + ExtraWords[family] < 2^27

Sync == -1432791706  \* XHI_SYNC_PACKET, 0xAA995566
Dummy == -1          \* XHI_DUMMY_PACKET
BusWidth == 187      \* XHI_BUS_WTH_PACKET
BusDetect == 287440964  \* XHI_BUS_DET_PACKET

OpRead == 1
OpWrite == 2
Register == [FAR |-> 1, FDRI |-> 2, FDRO |-> 3, CMD |-> 4, IDCODE |-> 12]
Command == [WCFG |-> 1, RCFG |-> 4, RCRC |-> 7, GCAPTURE |-> 12, DESYNCH |-> 13]

Packet(type, op, register) == type * 2^29 + op * 2^27 + register * 2^13
Type1Read(register) == Packet(1, OpRead, register)
Type1Write(register) == Packet(1, OpWrite, register)
Type2Read(words) == Packet(2, OpRead, 0) + words
Type2Write(words) == Packet(2, OpWrite, 0) + words
Noop == Packet(1, 0, 0)
Noops(n) == [i \in 1..n |-> Noop]

SetRegister(register, value) == <<Type1Write(register) + 1, value>>

\* A frame address, [block, top, row, column, minor].
SetupFar(f) ==
  f.block * 2^23 + f.top * 2^22 + f.row * 2^17 + f.column * 2^7 + f.minor
Parked == [block |-> 0, top |-> 0, row |-> 3, column |-> 33, minor |-> 0]
------------------------------------------------------------------------------
(* The buffers passed to DeviceWrite.                                       *)

\* A plausible bug: the packet says that no word follows.
DesyncUncounted ==
  <<Type1Write(Register.CMD), Command.DESYNCH, Dummy, Dummy>>

CommandDesync == SetRegister(Register.CMD, Command.DESYNCH) \o <<Dummy, Dummy>>

CommandCapture ==
  <<Dummy, Sync, Noop>> \o SetRegister(Register.CMD, Command.GCAPTURE) \o <<Dummy, Dummy>>

ConfigRegRead(register) ==
  <<Dummy, Sync>> \o Noops(2) \o <<Type1Read(register) + 1>> \o Noops(2)

TotalWords(family) == 2 * WordsPerFrame + ExtraWords[family]

ReadFrameHeader(family, f) ==
  <<Dummy, BusWidth, BusDetect, Dummy, Sync, Noop>>
  \o SetRegister(Register.CMD, Command.RCRC) \o Noops(6)
  \o SetRegister(Register.CMD, Command.RCFG) \o Noops(1)
  \o SetRegister(Register.FAR, SetupFar(f))
  \o <<Type1Read(Register.FDRO), Type2Read(TotalWords(family))>>
  \o Noops(2 + NumNoops[family])

\* A plausible bug: the pad frame is not counted.
OneFramePacket ==
  IF 2 * WordsPerFrame < MaxType1 THEN <<Type1Write(Register.FDRI) + WordsPerFrame>>
  ELSE <<Type1Write(Register.FDRI), Type2Write(WordsPerFrame)>>

FramePacket ==
  IF 2 * WordsPerFrame < MaxType1 THEN <<Type1Write(Register.FDRI) + 2 * WordsPerFrame>>
  ELSE <<Type1Write(Register.FDRI), Type2Write(2 * WordsPerFrame)>>

WriteFrameHeader(idcode, f) ==
  <<Dummy, Sync>> \o Noops(2)
  \o SetRegister(Register.CMD, Command.RCRC) \o Noops(2)
  \o SetRegister(Register.IDCODE, idcode)
  \o SetRegister(Register.FAR, SetupFar(f))
  \o SetRegister(Register.CMD, Command.WCFG) \o Noops(1) \o FramePacket

ParkFar ==
  SetRegister(Register.CMD, Command.RCRC) \o Noops(2) \o SetRegister(Register.FAR, SetupFar(Parked))
  \o SetRegister(Register.CMD, Command.RCRC) \o Noops(2)

\* FrameData: the pad frame, then the frame; each word is its position.
FrameData == [i \in 1..(2 * WordsPerFrame) |-> i]
Pad == SubSeq(FrameData, 1, WordsPerFrame)
Frame == SubSeq(FrameData, WordsPerFrame + 1, 2 * WordsPerFrame)
------------------------------------------------------------------------------
(* The configuration port (external).  Of the data of a frame it keeps the   *)
(* address, and how many words came in the order Frame, Pad, or -1.          *)

Ports == [synced : BOOLEAN, register : Int, owed : Nat, answer : Nat, far : Int,
          writing : BOOLEAN, matches : BOOLEAN, at : Int, loaded : Int]

Closed == [synced |-> FALSE, register |-> 0, owed |-> 0, answer |-> 0, far |-> 0,
           writing |-> FALSE, matches |-> FALSE, at |-> 0, loaded |-> 0]

\* A word of frame data.
Load(port, word) ==
  IF ~(port.writing /\ port.matches) THEN port
  ELSE IF port.loaded \in 0..(2 * WordsPerFrame - 1) /\ word = (Frame \o Pad)[port.loaded + 1]
       THEN [port EXCEPT !.at = port.far, !.loaded = @ + 1]
       ELSE [port EXCEPT !.loaded = -1]

\* A word of the packet that was opened last.
Payload(port, word) ==
  LET left == [port EXCEPT !.owed = @ - 1,
                           !.register = IF port.owed = 1 THEN 0 ELSE @]
  IN CASE port.register = Register.FAR -> [left EXCEPT !.far = word]
       [] port.register = Register.CMD /\ word = Command.DESYNCH ->
            [Closed EXCEPT !.at = port.at, !.loaded = port.loaded]
       [] port.register = Register.CMD /\ word # Command.DESYNCH ->
            [left EXCEPT !.writing = word = Command.WCFG]
       [] port.register = Register.IDCODE -> [left EXCEPT !.matches = word = IdCode]
       [] port.register = Register.FDRI -> Load(left, word)
       [] OTHER -> left

\* A packet: an operation on a register, and how many words of it follow.
Opened(port, type, op, register, words) ==
  CASE type \in {1, 2} /\ op = OpWrite ->
         [port EXCEPT !.register = register, !.owed = words,
                      !.loaded = IF register = Register.FDRI THEN 0 ELSE @]
    [] type \in {1, 2} /\ op = OpRead ->
         [port EXCEPT !.answer = words, !.register = IF words = 0 THEN register ELSE 0]
    [] OTHER -> port

\* A type 1 packet names the register, a type 2 packet only how many words.
Open(port, word) ==
  LET type == (word \div 2^29) % 8
  IN Opened(port, type, (word \div 2^27) % 4,
            IF type = 1 THEN (word \div 2^13) % 32 ELSE port.register,
            word % (IF type = 1 THEN 2^11 ELSE 2^27))

Take(port, word) ==
  CASE ~port.synced /\ word = Sync -> [Closed EXCEPT !.synced = TRUE]
    [] ~port.synced /\ word # Sync -> port
    [] port.synced /\ port.owed > 0 -> Payload(port, word)
    [] OTHER -> Open(port, word)
==============================================================================
