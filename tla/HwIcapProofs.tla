----------------------------- MODULE HwIcapProofs -----------------------------
(***************************************************************************)
(* The HWICAP driver with its handler and the device, for every depth of    *)
(* the FIFO, every buffer, every family and every length of a frame.        *)
(***************************************************************************)
EXTENDS HwIcap, TLAPS

(* The buffers are sequences of words.                                      *)

LEMMA NoopsType ==
  ASSUME NEW n \in Nat
  PROVE  Noops(n) \in Seq(Int)
<1>1. Noop \in Int
  BY DEF Noop, Packet
<1> QED BY <1>1 DEF Noops

LEMMA PacketType ==
  ASSUME NEW n \in Int
  PROVE  /\ Type1Read(n) \in Int /\ Type1Write(n) \in Int
         /\ Type2Read(n) \in Int /\ Type2Write(n) \in Int /\ Noop \in Int
BY DEF Type1Read, Type1Write, Type2Read, Type2Write, Noop, Packet, OpRead, OpWrite

LEMMA SetType ==
  ASSUME NEW register \in Int, NEW value \in Int
  PROVE  SetRegister(register, value) \in Seq(Int)
BY PacketType DEF SetRegister

LEMMA NumberType ==
  /\ Register.FAR \in Int /\ Register.FDRI \in Int /\ Register.FDRO \in Int
  /\ Register.CMD \in Int /\ Register.IDCODE \in Int
  /\ Command.WCFG \in Int /\ Command.RCFG \in Int /\ Command.RCRC \in Int
  /\ Command.GCAPTURE \in Int /\ Command.DESYNCH \in Int
  /\ Dummy \in Int /\ Sync \in Int /\ BusWidth \in Int /\ BusDetect \in Int
BY DEF Register, Command, Dummy, Sync, BusWidth, BusDetect

LEMMA Joins ==
  ASSUME NEW s \in Seq(Int), NEW t \in Seq(Int)
  PROVE  s \o t \in Seq(Int)
OBVIOUS

LEMMA AddressType ==
  ASSUME NEW f \in [block : Int, top : Int, row : Int, column : Int, minor : Int]
  PROVE  SetupFar(f) \in Int
BY DEF SetupFar

LEMMA FamilyType ==
  ASSUME NEW family \in Families
  PROVE  TotalWords(family) \in Nat /\ NumNoops[family] \in Nat
BY FamilyAssumption, FrameAssumption DEF TotalWords

LEMMA FrameType == Pad \in Seq(Int) /\ Frame \in Seq(Int)
<1>1. FrameData \in Seq(Int) /\ Len(FrameData) = 2 * WordsPerFrame
  BY FrameAssumption DEF FrameData
<1> QED BY <1>1, FrameAssumption DEF Pad, Frame

LEMMA CommandsType ==
  /\ CommandDesync \in Seq(Int) /\ CommandCapture \in Seq(Int)
  /\ ConfigRegRead(Register.IDCODE) \in Seq(Int) /\ ParkFar \in Seq(Int)
<1>1. /\ SetRegister(Register.CMD, Command.DESYNCH) \in Seq(Int)
      /\ SetRegister(Register.CMD, Command.GCAPTURE) \in Seq(Int)
      /\ SetRegister(Register.CMD, Command.RCRC) \in Seq(Int)
  BY SetType, NumberType
<1>2. /\ <<Dummy, Dummy>> \in Seq(Int) /\ <<Dummy, Sync>> \in Seq(Int)
      /\ <<Dummy, Sync, Noop>> \in Seq(Int) /\ Noops(2) \in Seq(Int)
  BY NumberType, PacketType, NoopsType
<1>3. <<Type1Read(Register.IDCODE) + 1>> \in Seq(Int)
  <2>1. Type1Read(Register.IDCODE) \in Int
    BY NumberType, PacketType
  <2> QED BY <2>1
<1>4. SetRegister(Register.FAR, SetupFar(Parked)) \in Seq(Int)
  <2>1. SetupFar(Parked) \in Int
    BY AddressType DEF Parked
  <2> QED BY <2>1, SetType, NumberType
<1>5. CommandDesync \in Seq(Int)
  BY <1>1, <1>2, Joins DEF CommandDesync
<1>6. CommandCapture \in Seq(Int)
  BY <1>1, <1>2, Joins DEF CommandCapture
<1>7. ConfigRegRead(Register.IDCODE) \in Seq(Int)
  BY <1>2, <1>3, Joins DEF ConfigRegRead
<1>8. ParkFar \in Seq(Int)
  BY <1>1, <1>2, <1>4, Joins DEF ParkFar
<1> QED BY <1>5, <1>6, <1>7, <1>8

LEMMA HeadersType ==
  ASSUME NEW f \in Addresses
  PROVE  /\ \A family \in Families : ReadFrameHeader(family, f) \in Seq(Int)
         /\ \A idcode \in Int : WriteFrameHeader(idcode, f) \in Seq(Int)
<1>1. /\ SetRegister(Register.CMD, Command.RCRC) \in Seq(Int)
      /\ SetRegister(Register.CMD, Command.RCFG) \in Seq(Int)
      /\ SetRegister(Register.CMD, Command.WCFG) \in Seq(Int)
      /\ SetRegister(Register.FAR, SetupFar(f)) \in Seq(Int)
  <2>1. SetupFar(f) \in Int
    BY AddressType, AddressAssumption
  <2> QED BY <2>1, SetType, NumberType
<1>2. /\ <<Dummy, BusWidth, BusDetect, Dummy, Sync, Noop>> \in Seq(Int)
      /\ <<Dummy, Sync>> \in Seq(Int)
  BY NumberType, PacketType
<1>3. Noops(1) \in Seq(Int) /\ Noops(2) \in Seq(Int) /\ Noops(6) \in Seq(Int)
  BY NoopsType
<1>4. FramePacket \in Seq(Int)
  <2>1. Type1Write(Register.FDRI) \in Int /\ Type2Write(2 * WordsPerFrame) \in Int
    BY PacketType, NumberType, FrameAssumption
  <2> QED BY <2>1, FrameAssumption DEF FramePacket
<1>5. ASSUME NEW family \in Families
      PROVE  ReadFrameHeader(family, f) \in Seq(Int)
  <2>1. <<Type1Read(Register.FDRO), Type2Read(TotalWords(family))>> \in Seq(Int)
    <3>1. Type1Read(Register.FDRO) \in Int /\ Type2Read(TotalWords(family)) \in Int
      BY PacketType, NumberType, FamilyType
    <3> QED BY <3>1
  <2>2. Noops(2 + NumNoops[family]) \in Seq(Int)
    BY NoopsType, FamilyType
  <2> QED BY <1>1, <1>2, <1>3, <2>1, <2>2, Joins DEF ReadFrameHeader
<1>6. ASSUME NEW idcode \in Int
      PROVE  WriteFrameHeader(idcode, f) \in Seq(Int)
  <2>1. SetRegister(Register.IDCODE, idcode) \in Seq(Int)
    BY SetType, NumberType
  <2> QED BY <1>1, <1>2, <1>3, <1>4, <2>1, Joins DEF WriteFrameHeader
<1> QED BY <1>5, <1>6

LEMMA BuffersType ==
  ASSUME TypeOK, CallOwns
  PROVE  Buffers \subseteq Seq(Int)
<1>1. \A words \in WriteSizes : [i \in 1..words |-> 0] \in Seq(Int)
  BY WordsAssumption
<1>2. deviceIdCode \in Int /\ frame \in Addresses
  BY IdAssumption DEF TypeOK, PlacesOK
<1>3. task = "read_frame" => deviceFamily \in Families
  BY DEF TypeOK, PlacesOK, CallOwns
<1> QED
  BY <1>1, <1>2, <1>3, CommandsType, HeadersType, FrameType DEF Buffers, TypeOK, PlacesOK
------------------------------------------------------------------------------
(* What the port makes of each kind of word.                                *)

LEMMA RegisterValues ==
  /\ Register.FAR = 1 /\ Register.FDRI = 2 /\ Register.FDRO = 3 /\ Register.CMD = 4
  /\ Register.IDCODE = 12
  /\ Command.WCFG = 1 /\ Command.RCFG = 4 /\ Command.RCRC = 7 /\ Command.GCAPTURE = 12
  /\ Command.DESYNCH = 13
BY DEF Register, Command

\* Words that open nothing.
LEMMA TakeOther ==
  ASSUME NEW p \in Ports, p.owed = 0, NEW w \in {Dummy, BusWidth, BusDetect, 0, Noop}
  PROVE  Take(p, w) = p
BY SMT DEF Dummy, Sync, BusWidth, BusDetect, Noop, Take, Open, Opened, Ports, Packet, OpWrite, OpRead

LEMMA TakeSync ==
  ASSUME NEW p \in Ports, p.owed = 0
  PROVE  Take(p, Sync) = IF p.synced THEN p ELSE [Closed EXCEPT !.synced = TRUE]
BY SMT DEF Sync, Take, Open, Opened, Ports, OpWrite, OpRead

\* A packet is taken for what its fields say.
LEMMA TakeType1 ==
  ASSUME NEW p \in Ports, p.synced, p.owed = 0, NEW w, NEW op, NEW r, NEW n,
         (w \div 2^29) % 8 = 1, (w \div 2^27) % 4 = op, (w \div 2^13) % 32 = r, w % 2^11 = n
  PROVE  Take(p, w) = Opened(p, 1, op, r, n)
<1>1. Open(p, w) = Opened(p, 1, op, r, n)
  BY SMT DEF Open
<1> QED BY <1>1 DEF Take, Ports

LEMMA TakeType2 ==
  ASSUME NEW p \in Ports, p.synced, p.owed = 0, NEW w, NEW op, NEW n,
         (w \div 2^29) % 8 = 2, (w \div 2^27) % 4 = op, w % 2^27 = n
  PROVE  Take(p, w) = Opened(p, 2, op, p.register, n)
<1>1. Open(p, w) = Opened(p, 2, op, p.register, n)
  BY SMT DEF Open
<1> QED BY <1>1 DEF Take, Ports

LEMMA OpenedWrite ==
  ASSUME NEW p \in Ports, NEW type \in {1, 2}, NEW r \in Int, NEW n \in Nat,
         NEW q, q = Opened(p, type, 2, r, n)
  PROVE  /\ q.synced = p.synced /\ q.owed = n /\ q.register = r /\ q.answer = p.answer
         /\ q.far = p.far /\ q.writing = p.writing /\ q.matches = p.matches /\ q.at = p.at
         /\ q.loaded = IF r = Register.FDRI THEN 0 ELSE p.loaded
<1>1. PICK l \in Int : l = IF r = Register.FDRI THEN 0 ELSE p.loaded
  BY DEF Ports
<1>2. q = [p EXCEPT !.register = r, !.owed = n, !.loaded = l]
  BY <1>1 DEF Opened, OpWrite, OpRead
<1>3. ASSUME NEW x, x = [p EXCEPT !.register = r, !.owed = n, !.loaded = l]
      PROVE  /\ x.synced = p.synced /\ x.owed = n /\ x.register = r /\ x.answer = p.answer
             /\ x.far = p.far /\ x.writing = p.writing /\ x.matches = p.matches
             /\ x.at = p.at /\ x.loaded = l
  BY <1>3 DEF Ports
<1> QED BY <1>1, <1>2, <1>3, Zenon

LEMMA OpenedRead ==
  ASSUME NEW p \in Ports, NEW type \in {1, 2}, NEW r \in Int, NEW n \in Nat,
         NEW q, q = Opened(p, type, 1, r, n)
  PROVE  q.synced = p.synced /\ q.owed = p.owed /\ q.answer = n
<1>1. PICK k \in Int : k = IF n = 0 THEN r ELSE 0
  OBVIOUS
<1>2. q = [p EXCEPT !.answer = n, !.register = k]
  BY <1>1 DEF Opened, OpWrite, OpRead
<1>3. ASSUME NEW x, x = [p EXCEPT !.answer = n, !.register = k]
      PROVE  x.synced = p.synced /\ x.owed = p.owed /\ x.answer = n
  BY <1>3 DEF Ports
<1> QED BY <1>2, <1>3, Zenon

LEMMA TakeWrite ==
  ASSUME NEW p \in Ports, p.owed = 0, NEW r \in Nat, r < 32, NEW n \in Nat, n < 2048,
         NEW q, q = Take(p, Type1Write(r) + n)
  PROVE  /\ p.synced => q.synced /\ q.owed = n /\ q.register = r
         /\ ~p.synced => q = p
         /\ q.answer = p.answer /\ q.far = p.far /\ q.writing = p.writing
         /\ q.matches = p.matches /\ q.at = p.at
         /\ q.loaded = IF p.synced /\ r = Register.FDRI THEN 0 ELSE p.loaded
<1>1. PICK w : w = Type1Write(r) + n
  OBVIOUS
<1>2. /\ w # Sync /\ (w \div 2^29) % 8 = 1 /\ (w \div 2^27) % 4 = 2
      /\ (w \div 2^13) % 32 = r /\ w % 2^11 = n
  BY <1>1, SMT DEF Type1Write, Packet, OpWrite, Sync
<1>3. CASE p.synced
  <2>1. q = Opened(p, 1, 2, r, n)
    BY <1>1, <1>2, <1>3, TakeType1
  <2> QED BY <1>3, <2>1, OpenedWrite, SMT
<1>4. CASE ~p.synced
  BY <1>1, <1>2, <1>4 DEF Take
<1> QED BY <1>3, <1>4

LEMMA TakeWrite2 ==
  ASSUME NEW p \in Ports, p.synced, p.owed = 0, NEW n \in Nat, n < 2^27,
         p.register = Register.FDRI, NEW q, q = Take(p, Type2Write(n))
  PROVE  /\ q.synced /\ q.owed = n /\ q.register = Register.FDRI /\ q.loaded = 0
         /\ q.answer = p.answer /\ q.far = p.far /\ q.writing = p.writing
         /\ q.matches = p.matches
<1>1. PICK w : w = Type2Write(n)
  OBVIOUS
<1>2. (w \div 2^29) % 8 = 2 /\ (w \div 2^27) % 4 = 2 /\ w % 2^27 = n
  BY <1>1, SMT DEF Type2Write, Packet, OpWrite
<1>3. q = Opened(p, 2, 2, p.register, n)
  BY <1>1, <1>2, TakeType2
<1>4. p.register \in Int
  BY DEF Ports
<1> QED BY <1>3, <1>4, OpenedWrite, SMT

LEMMA TakeRead ==
  ASSUME NEW p \in Ports, p.synced, p.owed = 0, NEW r \in Nat, r < 32, NEW n \in Nat, n < 2048,
         NEW q, q = Take(p, Type1Read(r) + n)
  PROVE  q.synced /\ q.owed = 0 /\ q.answer = n
<1>1. PICK w : w = Type1Read(r) + n
  OBVIOUS
<1>2. /\ (w \div 2^29) % 8 = 1 /\ (w \div 2^27) % 4 = 1
      /\ (w \div 2^13) % 32 = r /\ w % 2^11 = n
  BY <1>1, SMT DEF Type1Read, Packet, OpRead
<1>3. q = Opened(p, 1, 1, r, n)
  BY <1>1, <1>2, TakeType1
<1> QED BY <1>3, OpenedRead, SMT

LEMMA TakeRead2 ==
  ASSUME NEW p \in Ports, p.synced, p.owed = 0, NEW n \in Nat, n < 2^27,
         NEW q, q = Take(p, Type2Read(n))
  PROVE  q.synced /\ q.owed = 0 /\ q.answer = n
<1>1. PICK w : w = Type2Read(n)
  OBVIOUS
<1>2. (w \div 2^29) % 8 = 2 /\ (w \div 2^27) % 4 = 1 /\ w % 2^27 = n
  BY <1>1, SMT DEF Type2Read, Packet, OpRead
<1>3. q = Opened(p, 2, 1, p.register, n)
  BY <1>1, <1>2, TakeType2
<1>4. p.register \in Int
  BY DEF Ports
<1> QED BY <1>3, <1>4, OpenedRead, SMT

\* The value of a register that was announced.
LEMMA TakeValue ==
  ASSUME NEW p \in Ports, p.synced, p.owed = 1, NEW w \in Int
  PROVE  /\ p.register = Register.CMD /\ w # Command.DESYNCH =>
              Take(p, w) = [p EXCEPT !.owed = 0, !.register = 0, !.writing = (w = Command.WCFG)]
         /\ p.register = Register.CMD /\ w = Command.DESYNCH =>
              Take(p, w) = [Closed EXCEPT !.at = p.at, !.loaded = p.loaded]
         /\ p.register = Register.FAR =>
              Take(p, w) = [p EXCEPT !.owed = 0, !.register = 0, !.far = w]
         /\ p.register = Register.IDCODE =>
              Take(p, w) = [p EXCEPT !.owed = 0, !.register = 0, !.matches = (w = IdCode)]
BY RegisterValues DEF Take, Payload, Ports

\* Whatever the word, the port stays a port.
LEMMA TakeType ==
  ASSUME NEW p \in Ports, NEW w \in Int
  PROVE  Take(p, w) \in Ports
<1>0. Closed \in Ports
  BY DEF Closed, Ports
<1>1. CASE ~p.synced
  <2>1. \A q \in Ports : [q EXCEPT !.synced = TRUE] \in Ports
    BY DEF Ports
  <2> QED BY <1>1, <1>0, <2>1 DEF Take
<1>2. CASE p.synced /\ p.owed > 0
  <2>1. PICK left : left = [p EXCEPT !.owed = @ - 1, !.register = IF p.owed = 1 THEN 0 ELSE @]
    OBVIOUS
  <2>2. left \in Ports
    <3>1. \A o \in Nat, r \in Int : [p EXCEPT !.owed = o, !.register = r] \in Ports
      BY DEF Ports
    <3>2. p.owed - 1 \in Nat /\ (IF p.owed = 1 THEN 0 ELSE p.register) \in Int
      BY <1>2 DEF Ports
    <3> QED BY <2>1, <3>1, <3>2
  <2>3. Load(left, w) \in Ports
    <3>1. \A a \in Int, l \in Int : [left EXCEPT !.at = a, !.loaded = l] \in Ports
      BY <2>2 DEF Ports
    <3>2. [left EXCEPT !.loaded = -1] \in Ports
      BY <2>2 DEF Ports
    <3>3. left.far \in Int /\ left.loaded \in Int /\ left.loaded + 1 \in Int
      BY <2>2 DEF Ports
    <3> QED BY <2>2, <3>1, <3>2, <3>3 DEF Load
  <2>4. /\ [left EXCEPT !.far = w] \in Ports
        /\ \A b \in BOOLEAN : [left EXCEPT !.writing = b] \in Ports /\ [left EXCEPT !.matches = b] \in Ports
        /\ [Closed EXCEPT !.at = p.at, !.loaded = p.loaded] \in Ports
    <3>1. [left EXCEPT !.far = w] \in Ports
      BY <2>2 DEF Ports
    <3>2. \A b \in BOOLEAN : [left EXCEPT !.writing = b] \in Ports
      BY <2>2 DEF Ports
    <3>3. \A b \in BOOLEAN : [left EXCEPT !.matches = b] \in Ports
      BY <2>2 DEF Ports
    <3>4. [Closed EXCEPT !.at = p.at, !.loaded = p.loaded] \in Ports
      <4>1. \A q \in Ports, a \in Int, l \in Int : [q EXCEPT !.at = a, !.loaded = l] \in Ports
        BY DEF Ports
      <4>2. p.at \in Int /\ p.loaded \in Int
        BY DEF Ports
      <4> QED BY <1>0, <4>1, <4>2
    <3> QED BY <3>1, <3>2, <3>3, <3>4
  <2>5. Payload(p, w) \in Ports
    BY <2>1, <2>2, <2>3, <2>4 DEF Payload
  <2> QED BY <1>2, <2>5 DEF Take
<1>3. CASE p.synced /\ p.owed = 0
  <2>1. /\ (w \div 2^13) % 32 \in Int /\ w % 2^11 \in Nat /\ w % 2^27 \in Nat
    BY SMT
  <2>2. ASSUME NEW t, NEW op, NEW r \in Int, NEW n \in Nat
        PROVE  Opened(p, t, op, r, n) \in Ports
    <3>1. \A l \in Int : [p EXCEPT !.register = r, !.owed = n, !.loaded = l] \in Ports
      BY DEF Ports
    <3>2. \A k \in Int : [p EXCEPT !.answer = n, !.register = k] \in Ports
      BY DEF Ports
    <3>3. /\ (IF r = Register.FDRI THEN 0 ELSE p.loaded) \in Int
          /\ (IF n = 0 THEN r ELSE 0) \in Int
      BY DEF Ports
    <3> QED BY <3>1, <3>2, <3>3, Zenon DEF Opened
  <2>3. p.register \in Int
    BY DEF Ports
  <2>4. Open(p, w) \in Ports
    BY <2>1, <2>2, <2>3 DEF Open
  <2> QED BY <1>3, <2>4 DEF Take
<1> QED BY <1>1, <1>2, <1>3 DEF Ports
------------------------------------------------------------------------------
(* The words of each buffer.                                                *)

LEMMA DesyncWords ==
  ASSUME NEW b, b = CommandDesync
  PROVE  /\ Len(b) = 4
         /\ b[1] = Type1Write(Register.CMD) + 1 /\ b[2] = Command.DESYNCH
         /\ b[3] = Dummy /\ b[4] = Dummy
BY SMT, PacketType, NumberType DEF CommandDesync, SetRegister

LEMMA CaptureWords ==
  ASSUME NEW b, b = CommandCapture
  PROVE  /\ Len(b) = 7
         /\ b[1] = Dummy /\ b[2] = Sync /\ b[3] = Noop
         /\ b[4] = Type1Write(Register.CMD) + 1 /\ b[5] = Command.GCAPTURE
         /\ b[6] = Dummy /\ b[7] = Dummy
BY SMT, PacketType, NumberType DEF CommandCapture, SetRegister

LEMMA ConfigReadWords ==
  ASSUME NEW b, b = ConfigRegRead(Register.IDCODE)
  PROVE  /\ Len(b) = 7
         /\ b[1] = Dummy /\ b[2] = Sync /\ b[3] = Noop /\ b[4] = Noop
         /\ b[5] = Type1Read(Register.IDCODE) + 1 /\ b[6] = Noop /\ b[7] = Noop
BY SMT, PacketType, NumberType DEF ConfigRegRead, Noops

LEMMA ParkWords ==
  ASSUME NEW b, b = ParkFar
  PROVE  /\ Len(b) = 10
         /\ b[1] = Type1Write(Register.CMD) + 1 /\ b[2] = Command.RCRC
         /\ b[3] = Noop /\ b[4] = Noop
         /\ b[5] = Type1Write(Register.FAR) + 1 /\ b[6] = SetupFar(Parked)
         /\ b[7] = Type1Write(Register.CMD) + 1 /\ b[8] = Command.RCRC
         /\ b[9] = Noop /\ b[10] = Noop
<1>1. SetupFar(Parked) \in Int
  BY AddressType DEF Parked
<1> QED BY <1>1, SMT, PacketType, NumberType DEF ParkFar, SetRegister, Noops

LEMMA WriteHeaderWords ==
  ASSUME frame \in Addresses, deviceIdCode \in Int,
         sendBuffer = WriteFrameHeader(deviceIdCode, frame)
  PROVE  /\ 2 * WordsPerFrame < MaxType1 => Len(sendBuffer) = 16
         /\ ~(2 * WordsPerFrame < MaxType1) => Len(sendBuffer) = 17
         /\ sendBuffer[1] = Dummy /\ sendBuffer[2] = Sync /\ sendBuffer[3] = Noop /\ sendBuffer[4] = Noop
         /\ sendBuffer[5] = Type1Write(Register.CMD) + 1 /\ sendBuffer[6] = Command.RCRC
         /\ sendBuffer[7] = Noop /\ sendBuffer[8] = Noop
         /\ sendBuffer[9] = Type1Write(Register.IDCODE) + 1 /\ sendBuffer[10] = deviceIdCode
         /\ sendBuffer[11] = Type1Write(Register.FAR) + 1 /\ sendBuffer[12] = SetupFar(frame)
         /\ sendBuffer[13] = Type1Write(Register.CMD) + 1 /\ sendBuffer[14] = Command.WCFG
         /\ sendBuffer[15] = Noop
         /\ 2 * WordsPerFrame < MaxType1 => sendBuffer[16] = Type1Write(Register.FDRI) + 2 * WordsPerFrame
         /\ ~(2 * WordsPerFrame < MaxType1) =>
              sendBuffer[16] = Type1Write(Register.FDRI) /\ sendBuffer[17] = Type2Write(2 * WordsPerFrame)
<1>1. SetupFar(frame) \in Int /\ WordsPerFrame \in Nat /\ Type2Write(2 * WordsPerFrame) \in Int
  BY AddressType, AddressAssumption, FrameAssumption, PacketType
<1>2. CASE 2 * WordsPerFrame < MaxType1
  BY <1>1, <1>2, SMT, PacketType, NumberType DEF WriteFrameHeader, SetRegister, Noops, FramePacket
<1>3. CASE ~(2 * WordsPerFrame < MaxType1)
  BY <1>1, <1>3, SMT, PacketType, NumberType DEF WriteFrameHeader, SetRegister, Noops, FramePacket
<1> QED BY <1>2, <1>3

LEMMA JoinWords ==
  ASSUME NEW s \in Seq(Int), NEW t \in Seq(Int)
  PROVE  /\ Len(s \o t) = Len(s) + Len(t)
         /\ \A i \in 1..Len(s) : (s \o t)[i] = s[i]
         /\ \A i \in 1..Len(t) : (s \o t)[Len(s) + i] = t[i]
OBVIOUS

LEMMA ReadHeaderWords ==
  ASSUME frame \in Addresses, deviceFamily \in Families,
         sendBuffer = ReadFrameHeader(deviceFamily, frame)
  PROVE  /\ Len(sendBuffer) = 23 + NumNoops[deviceFamily]
         /\ sendBuffer[1] = Dummy /\ sendBuffer[2] = BusWidth /\ sendBuffer[3] = BusDetect /\ sendBuffer[4] = Dummy
         /\ sendBuffer[5] = Sync /\ sendBuffer[6] = Noop
         /\ sendBuffer[7] = Type1Write(Register.CMD) + 1 /\ sendBuffer[8] = Command.RCRC
         /\ \A i \in 9..14 : sendBuffer[i] = Noop
         /\ sendBuffer[15] = Type1Write(Register.CMD) + 1 /\ sendBuffer[16] = Command.RCFG
         /\ sendBuffer[17] = Noop
         /\ sendBuffer[18] = Type1Write(Register.FAR) + 1 /\ sendBuffer[19] = SetupFar(frame)
         /\ sendBuffer[20] = Type1Read(Register.FDRO) /\ sendBuffer[21] = Type2Read(TotalWords(deviceFamily))
         /\ \A i \in 22..23 + NumNoops[deviceFamily] : sendBuffer[i] = Noop
<1>1. SetupFar(frame) \in Int /\ TotalWords(deviceFamily) \in Nat /\ NumNoops[deviceFamily] \in Nat
  BY AddressType, AddressAssumption, FamilyType
<1>2. Type2Read(TotalWords(deviceFamily)) \in Int /\ Type1Read(Register.FDRO) \in Int /\ Noop \in Int
  BY <1>1, PacketType, NumberType
<1>3. PICK head, end :
        /\ head = <<Dummy, BusWidth, BusDetect, Dummy, Sync, Noop>>
                   \o SetRegister(Register.CMD, Command.RCRC) \o Noops(6)
                   \o SetRegister(Register.CMD, Command.RCFG) \o Noops(1)
                   \o SetRegister(Register.FAR, SetupFar(frame))
                   \o <<Type1Read(Register.FDRO), Type2Read(TotalWords(deviceFamily))>>
        /\ end = Noops(2 + NumNoops[deviceFamily])
  OBVIOUS
<1>4. sendBuffer = head \o end
  BY <1>3 DEF ReadFrameHeader
<1>5. head \in Seq(Int) /\ Len(head) = 21
  <2>1. head \in Seq(Int)
    <3>1. /\ SetRegister(Register.CMD, Command.RCRC) \in Seq(Int) /\ Noops(6) \in Seq(Int)
          /\ SetRegister(Register.CMD, Command.RCFG) \in Seq(Int) /\ Noops(1) \in Seq(Int)
          /\ SetRegister(Register.FAR, SetupFar(frame)) \in Seq(Int)
      BY <1>1, SetType, NumberType, NoopsType
    <3>2. /\ <<Dummy, BusWidth, BusDetect, Dummy, Sync, Noop>> \in Seq(Int)
          /\ <<Type1Read(Register.FDRO), Type2Read(TotalWords(deviceFamily))>> \in Seq(Int)
      BY <1>2, NumberType
    <3> QED BY <1>3, <3>1, <3>2, Joins
  <2>2. Len(head) = 21
    BY <1>1, <1>2, <1>3, SMT, PacketType, NumberType DEF SetRegister, Noops
  <2> QED BY <2>1, <2>2
<1>6. /\ head[1] = Dummy /\ head[2] = BusWidth /\ head[3] = BusDetect /\ head[4] = Dummy
      /\ head[5] = Sync /\ head[6] = Noop
      /\ head[7] = Type1Write(Register.CMD) + 1 /\ head[8] = Command.RCRC
      /\ \A i \in 9..14 : head[i] = Noop
      /\ head[15] = Type1Write(Register.CMD) + 1 /\ head[16] = Command.RCFG
      /\ head[17] = Noop
      /\ head[18] = Type1Write(Register.FAR) + 1 /\ head[19] = SetupFar(frame)
      /\ head[20] = Type1Read(Register.FDRO) /\ head[21] = Type2Read(TotalWords(deviceFamily))
  BY <1>1, <1>2, <1>3, SMT, PacketType, NumberType DEF SetRegister, Noops
<1>7. /\ end \in Seq(Int) /\ Len(end) = 2 + NumNoops[deviceFamily]
      /\ \A i \in 1..2 + NumNoops[deviceFamily] : end[i] = Noop
  <2>1. end = [i \in 1..2 + NumNoops[deviceFamily] |-> Noop]
    BY <1>3 DEF Noops
  <2>2. end \in Seq(Int) /\ \A i \in 1..2 + NumNoops[deviceFamily] : end[i] = Noop
    BY <1>1, <1>2, <2>1
  <2>3. Len(end) = 2 + NumNoops[deviceFamily]
    BY <1>1, <1>2, <2>1
  <2> QED BY <2>2, <2>3, Zenon
<1>8. /\ Len(sendBuffer) = 21 + (2 + NumNoops[deviceFamily])
      /\ \A i \in 1..21 : sendBuffer[i] = head[i]
      /\ \A i \in 1..2 + NumNoops[deviceFamily] : sendBuffer[21 + i] = end[i]
  <2>0. head \in Seq(Int) /\ end \in Seq(Int)
    BY <1>5, <1>7, Zenon
  <2>1. /\ Len(sendBuffer) = Len(head) + Len(end)
        /\ \A i \in 1..Len(head) : sendBuffer[i] = head[i]
        /\ \A i \in 1..Len(end) : sendBuffer[Len(head) + i] = end[i]
    <3>1. /\ Len(head \o end) = Len(head) + Len(end)
          /\ \A i \in 1..Len(head) : (head \o end)[i] = head[i]
          /\ \A i \in 1..Len(end) : (head \o end)[Len(head) + i] = end[i]
      BY <2>0, JoinWords
    <3> QED BY <1>4, <3>1, Zenon
  <2> QED BY <2>1, <1>5, <1>7, Zenon
<1>9. Len(sendBuffer) = 23 + NumNoops[deviceFamily]
  <2>1. 21 + (2 + NumNoops[deviceFamily]) = 23 + NumNoops[deviceFamily]
    BY <1>1
  <2> QED BY <1>8, <2>1, Zenon
<1>10. ASSUME NEW i \in 22..23 + NumNoops[deviceFamily]
       PROVE  sendBuffer[i] = Noop
  <2>1. i - 21 \in 1..2 + NumNoops[deviceFamily] /\ 21 + (i - 21) = i
    BY <1>1
  <2>2. sendBuffer[21 + (i - 21)] = end[i - 21] /\ end[i - 21] = Noop
    BY <2>1, <1>7, <1>8, Zenon
  <2> QED BY <2>1, <2>2, Zenon
<1>11. ASSUME NEW i \in 1..21
       PROVE  sendBuffer[i] = head[i]
  BY <1>8, Zenon
<1>12. \A i \in 9..14 : sendBuffer[i] = Noop
  <2>1. \A i \in 9..14 : i \in 1..21
    OBVIOUS
  <2> QED BY <1>6, <1>11, <2>1, Zenon
<1>13. /\ sendBuffer[1] = Dummy /\ sendBuffer[2] = BusWidth /\ sendBuffer[3] = BusDetect /\ sendBuffer[4] = Dummy
       /\ sendBuffer[5] = Sync /\ sendBuffer[6] = Noop
       /\ sendBuffer[7] = Type1Write(Register.CMD) + 1 /\ sendBuffer[8] = Command.RCRC
  BY <1>6, <1>11, SMT
<1>14. /\ sendBuffer[15] = Type1Write(Register.CMD) + 1 /\ sendBuffer[16] = Command.RCFG /\ sendBuffer[17] = Noop
       /\ sendBuffer[18] = Type1Write(Register.FAR) + 1 /\ sendBuffer[19] = SetupFar(frame)
       /\ sendBuffer[20] = Type1Read(Register.FDRO) /\ sendBuffer[21] = Type2Read(TotalWords(deviceFamily))
  BY <1>6, <1>11, SMT
<1> QED BY <1>9, <1>10, <1>12, <1>13, <1>14, Zenon

LEMMA DataWords ==
  /\ Len(Frame) = WordsPerFrame /\ Len(Pad) = WordsPerFrame
  /\ \A n \in 1..WordsPerFrame : /\ Frame[n] = (Frame \o Pad)[n]
                                 /\ Pad[n] = (Frame \o Pad)[WordsPerFrame + n]
<1>0. WordsPerFrame \in Nat
  BY FrameAssumption, Zenon
<1>1. FrameData \in Seq(Int) /\ Len(FrameData) = 2 * WordsPerFrame
  BY <1>0 DEF FrameData
<1>2. Len(Frame) = WordsPerFrame /\ Len(Pad) = WordsPerFrame
  <2>1. Len(Pad) = WordsPerFrame
    BY <1>0, <1>1 DEF Pad
  <2>2. Len(Frame) = WordsPerFrame
    BY <1>0, <1>1 DEF Frame
  <2> QED BY <2>1, <2>2
<1>3. /\ \A n \in 1..Len(Frame) : (Frame \o Pad)[n] = Frame[n]
      /\ \A n \in 1..Len(Pad) : (Frame \o Pad)[Len(Frame) + n] = Pad[n]
  BY FrameType, JoinWords, Zenon
<1> QED BY <1>2, <1>3, Zenon
------------------------------------------------------------------------------
(* Each word brings the port one step further in the buffer.               *)

LEMMA TakeUnsynced ==
  ASSUME NEW p \in Ports, ~p.synced, NEW w, w # Sync
  PROVE  Take(p, w) = p
BY DEF Take

LEMMA Announced ==
  ASSUME NEW p \in Ports, p.owed = 0,
         NEW r \in {Register.FAR, Register.CMD, Register.IDCODE},
         NEW q, q = Take(p, Type1Write(r) + 1)
  PROVE  /\ p.synced => q.synced /\ q.owed = 1 /\ q.register = r
         /\ ~p.synced => q = p
         /\ q.answer = p.answer /\ q.far = p.far /\ q.writing = p.writing
         /\ q.matches = p.matches /\ q.at = p.at /\ q.loaded = p.loaded
<1>1. r \in Nat /\ r < 32 /\ r # Register.FDRI
  BY RegisterValues
<1> QED BY <1>1, TakeWrite, SMT

LEMMA Synced ==
  ASSUME NEW p \in Ports, p.owed = 0, p.answer = 0, NEW q, q = Take(p, Sync)
  PROVE  q.synced /\ q.owed = 0 /\ q.answer = 0
<1>1. q = IF p.synced THEN p ELSE [Closed EXCEPT !.synced = TRUE]
  BY TakeSync, Zenon
<1> QED BY <1>1 DEF Closed

LEMMA Valued ==
  ASSUME NEW p \in Ports, p.synced, p.owed = 1, NEW w \in Int, NEW q, q = Take(p, w),
         \/ p.register = Register.CMD /\ w # Command.DESYNCH
         \/ p.register = Register.FAR
         \/ p.register = Register.IDCODE
  PROVE  /\ q.synced /\ q.owed = 0 /\ q.answer = p.answer
         /\ q.at = p.at /\ q.loaded = p.loaded
         /\ p.register = Register.CMD /\ w = Command.WCFG => q.writing
         /\ p.register # Register.CMD => q.writing = p.writing
         /\ q.far = IF p.register = Register.FAR THEN w ELSE p.far
         /\ q.matches = IF p.register = Register.IDCODE THEN w = IdCode ELSE p.matches
<1>1. CASE p.register = Register.CMD /\ w # Command.DESYNCH
  <2>1. q = [p EXCEPT !.owed = 0, !.register = 0, !.writing = (w = Command.WCFG)]
    BY <1>1, TakeValue, Zenon
  <2> QED BY <1>1, <2>1, RegisterValues DEF Ports
<1>2. CASE p.register = Register.FAR
  <2>1. q = [p EXCEPT !.owed = 0, !.register = 0, !.far = w]
    BY <1>2, TakeValue, Zenon
  <2> QED BY <1>2, <2>1, RegisterValues DEF Ports
<1>3. CASE p.register = Register.IDCODE
  <2>1. q = [p EXCEPT !.owed = 0, !.register = 0, !.matches = (w = IdCode)]
    BY <1>3, TakeValue, Zenon
  <2> QED BY <1>3, <2>1, RegisterValues DEF Ports
<1> QED BY <1>1, <1>2, <1>3

LEMMA Desynched ==
  ASSUME NEW p \in Ports, p.synced, p.owed = 1, p.register = Register.CMD,
         NEW q, q = Take(p, Command.DESYNCH)
  PROVE  ~q.synced /\ q.owed = 0 /\ q.answer = 0 /\ q.at = p.at /\ q.loaded = p.loaded
<1>1. q = [Closed EXCEPT !.at = p.at, !.loaded = p.loaded]
  BY TakeValue, NumberType, Zenon
<1> QED BY <1>1 DEF Closed

LEMMA DesyncStep ==
  ASSUME port \in Ports, sendBuffer = CommandDesync, NEW n \in 0..3, InDesync(n),
         port' = Take(port, sendBuffer[n + 1])
  PROVE  InDesync(n + 1)' /\ port'.at = port.at /\ port'.loaded = port.loaded
<1>0. /\ sendBuffer[1] = Type1Write(Register.CMD) + 1 /\ sendBuffer[2] = Command.DESYNCH
      /\ sendBuffer[3] = Dummy /\ sendBuffer[4] = Dummy
  BY DesyncWords
<1>1. CASE n = 0
  <2>1. port.owed = 0 /\ port.answer = 0
    BY <1>1 DEF InDesync
  <2>2. port' = Take(port, Type1Write(Register.CMD) + 1)
    BY <1>0, <1>1
  <2>3. /\ port.synced => port'.synced /\ port'.owed = 1 /\ port'.register = Register.CMD
        /\ ~port.synced => port' = port
        /\ port'.answer = port.answer /\ port'.at = port.at /\ port'.loaded = port.loaded
    BY <2>1, <2>2, Announced
  <2> QED BY <1>1, <2>1, <2>3 DEF InDesync, Awaits, Ports
<1>2. CASE n = 1
  <2>1. CASE port.synced
    <3>1. port' = Take(port, Command.DESYNCH)
      BY <1>0, <1>2
    <3>2. /\ ~port'.synced /\ port'.owed = 0 /\ port'.answer = 0
          /\ port'.at = port.at /\ port'.loaded = port.loaded
      BY <1>2, <2>1, <3>1, Desynched DEF InDesync, Awaits
    <3> QED BY <1>2, <3>2 DEF InDesync
  <2>2. CASE ~port.synced
    <3>1. sendBuffer[n + 1] # Sync
      BY <1>0, <1>2, RegisterValues, SMT DEF Sync
    <3>2. port' = port
      BY <2>2, <3>1, TakeUnsynced
    <3> QED BY <1>2, <2>2, <3>2 DEF InDesync
  <2> QED BY <2>1, <2>2
<1>3. CASE n \in 2..3
  <2>1. port.owed = 0
    BY <1>3 DEF InDesync
  <2>2. port' = port
    BY <1>0, <1>3, <2>1, TakeOther
  <2> QED BY <1>3, <2>2 DEF InDesync
<1> QED BY <1>1, <1>2, <1>3

LEMMA CaptureStep ==
  ASSUME port \in Ports, sendBuffer = CommandCapture, NEW n \in 0..6, InCapture(n),
         port' = Take(port, sendBuffer[n + 1])
  PROVE  InCapture(n + 1)'
<1>0. /\ sendBuffer[1] = Dummy /\ sendBuffer[2] = Sync /\ sendBuffer[3] = Noop
      /\ sendBuffer[4] = Type1Write(Register.CMD) + 1 /\ sendBuffer[5] = Command.GCAPTURE
      /\ sendBuffer[6] = Dummy /\ sendBuffer[7] = Dummy
  BY CaptureWords
<1>1. CASE n \in {0, 2, 5, 6}
  <2>1. port.owed = 0
    BY <1>1 DEF InCapture
  <2>2. port' = port
    BY <1>0, <1>1, <2>1, TakeOther
  <2> QED BY <1>1, <2>2 DEF InCapture
<1>2. CASE n = 1
  <2>1. port.owed = 0
    BY <1>2 DEF InCapture
  <2>2. port.answer = 0 /\ port' = Take(port, Sync)
    BY <1>0, <1>2 DEF InCapture
  <2>3. port'.synced /\ port'.owed = 0 /\ port'.answer = 0
    BY <2>1, <2>2, Synced
  <2> QED BY <1>2, <2>3 DEF InCapture
<1>3. CASE n = 3
  <2>1. port.owed = 0 /\ port.answer = 0 /\ port.synced
    BY <1>3 DEF InCapture
  <2>2. port' = Take(port, Type1Write(Register.CMD) + 1)
    BY <1>0, <1>3
  <2>3. port'.synced /\ port'.owed = 1 /\ port'.register = Register.CMD /\ port'.answer = 0
    BY <2>1, <2>2, Announced
  <2> QED BY <1>3, <2>3 DEF InCapture, Awaits
<1>4. CASE n = 4
  <2>1. port.synced /\ port.owed = 1 /\ port.register = Register.CMD /\ port.answer = 0
    BY <1>4 DEF InCapture, Awaits
  <2>2. port' = Take(port, Command.GCAPTURE)
    BY <1>0, <1>4
  <2>3. port'.synced /\ port'.owed = 0 /\ port'.answer = 0
    BY <2>1, <2>2, Valued, RegisterValues
  <2> QED BY <1>4, <2>3 DEF InCapture
<1> QED BY <1>1, <1>2, <1>3, <1>4

LEMMA ConfigReadStep ==
  ASSUME port \in Ports, sendBuffer = ConfigRegRead(Register.IDCODE), NEW n \in 0..6,
         InConfigRead(n), port' = Take(port, sendBuffer[n + 1])
  PROVE  InConfigRead(n + 1)'
<1>0. /\ sendBuffer[1] = Dummy /\ sendBuffer[2] = Sync /\ sendBuffer[3] = Noop
      /\ sendBuffer[4] = Noop /\ sendBuffer[5] = Type1Read(Register.IDCODE) + 1
      /\ sendBuffer[6] = Noop /\ sendBuffer[7] = Noop
  BY ConfigReadWords
<1>1. CASE n \in {0, 2, 3, 5, 6}
  <2>1. port.owed = 0
    BY <1>1 DEF InConfigRead
  <2>2. port' = port
    BY <1>0, <1>1, <2>1, TakeOther
  <2> QED BY <1>1, <2>2 DEF InConfigRead
<1>2. CASE n = 1
  <2>1. port.owed = 0
    BY <1>2 DEF InConfigRead
  <2>2. port.answer = 0 /\ port' = Take(port, Sync)
    BY <1>0, <1>2 DEF InConfigRead
  <2>3. port'.synced /\ port'.owed = 0 /\ port'.answer = 0
    BY <2>1, <2>2, Synced
  <2> QED BY <1>2, <2>3 DEF InConfigRead
<1>3. CASE n = 4
  <2>1. port.owed = 0 /\ port.answer = 0 /\ port.synced
    BY <1>3 DEF InConfigRead
  <2>2. port' = Take(port, Type1Read(Register.IDCODE) + 1)
    BY <1>0, <1>3
  <2>3. port'.synced /\ port'.owed = 0 /\ port'.answer = 1
    <3>1. Register.IDCODE \in Nat /\ Register.IDCODE < 32
      BY RegisterValues
    <3> QED BY <2>1, <2>2, <3>1, TakeRead, SMT
  <2> QED BY <1>3, <2>3 DEF InConfigRead
<1> QED BY <1>1, <1>2, <1>3

LEMMA ParkStep ==
  ASSUME port \in Ports, sendBuffer = ParkFar, NEW n \in 0..9, InPark(n),
         port' = Take(port, sendBuffer[n + 1]), UNCHANGED <<deviceIdCode, frame>>
  PROVE  InPark(n + 1)'
<1>0. /\ sendBuffer[1] = Type1Write(Register.CMD) + 1 /\ sendBuffer[2] = Command.RCRC
      /\ sendBuffer[3] = Noop /\ sendBuffer[4] = Noop
      /\ sendBuffer[5] = Type1Write(Register.FAR) + 1 /\ sendBuffer[6] = SetupFar(Parked)
      /\ sendBuffer[7] = Type1Write(Register.CMD) + 1 /\ sendBuffer[8] = Command.RCRC
      /\ sendBuffer[9] = Noop /\ sendBuffer[10] = Noop
  BY ParkWords
<1>a. port.synced /\ port.answer = 0 /\ Loaded(2 * WordsPerFrame)
  BY DEF InPark
<1>b. port'.at = port.at /\ port'.loaded = port.loaded => Loaded(2 * WordsPerFrame)'
  BY <1>a DEF Loaded
<1>1. CASE n \in {2, 3, 8, 9}
  <2>1. port.owed = 0
    BY <1>1 DEF InPark
  <2>2. port' = port
    BY <1>0, <1>1, <2>1, TakeOther
  <2> QED BY <1>1, <2>1, <2>2, <1>a, <1>b DEF InPark
<1>2. CASE n \in {0, 6}
  <2>1. port.owed = 0
    BY <1>2 DEF InPark
  <2>2. port' = Take(port, Type1Write(Register.CMD) + 1)
    BY <1>0, <1>2
  <2>3. /\ port'.synced /\ port'.owed = 1 /\ port'.register = Register.CMD /\ port'.answer = 0
        /\ port'.at = port.at /\ port'.loaded = port.loaded
    BY <1>a, <2>1, <2>2, Announced
  <2> QED BY <1>2, <2>3, <1>b DEF InPark, Awaits
<1>3. CASE n = 4
  <2>1. port.owed = 0
    BY <1>3 DEF InPark
  <2>2. port' = Take(port, Type1Write(Register.FAR) + 1)
    BY <1>0, <1>3
  <2>3. /\ port'.synced /\ port'.owed = 1 /\ port'.register = Register.FAR /\ port'.answer = 0
        /\ port'.at = port.at /\ port'.loaded = port.loaded
    BY <1>a, <2>1, <2>2, Announced
  <2> QED BY <1>3, <2>3, <1>b DEF InPark, Awaits
<1>4. CASE n \in {1, 7}
  <2>1. port.owed = 1 /\ port.register = Register.CMD
    BY <1>4 DEF InPark, Awaits
  <2>2. port' = Take(port, Command.RCRC)
    BY <1>0, <1>4
  <2>3. /\ port'.synced /\ port'.owed = 0 /\ port'.answer = 0
        /\ port'.at = port.at /\ port'.loaded = port.loaded
    BY <1>a, <2>1, <2>2, Valued, RegisterValues
  <2> QED BY <1>4, <2>3, <1>b DEF InPark
<1>5. CASE n = 5
  <2>1. port.owed = 1 /\ port.register = Register.FAR /\ SetupFar(Parked) \in Int
    BY <1>5, AddressType DEF InPark, Awaits, Parked
  <2>2. port' = Take(port, SetupFar(Parked))
    BY <1>0, <1>5
  <2>3. /\ port'.synced /\ port'.owed = 0 /\ port'.answer = 0
        /\ port'.at = port.at /\ port'.loaded = port.loaded
    BY <1>a, <2>1, <2>2, Valued
  <2> QED BY <1>5, <2>3, <1>b DEF InPark
<1> QED BY <1>1, <1>2, <1>3, <1>4, <1>5

LEMMA Filled ==
  ASSUME port \in Ports, port.synced, port.owed > 0, port.register = Register.FDRI,
         port.writing, NEW w, port' = Take(port, w)
  PROVE  /\ port'.synced /\ port'.owed = port.owed - 1 /\ port'.answer = port.answer /\ port'.far = port.far
         /\ port'.owed > 0 => port'.register = Register.FDRI
         /\ port'.writing /\ port'.matches = port.matches
         /\ ~port.matches => port'.loaded = port.loaded
         /\ /\ port.matches /\ port.loaded \in 0..(2 * WordsPerFrame - 1)
            /\ w = (Frame \o Pad)[port.loaded + 1]
            => port'.loaded = port.loaded + 1 /\ port'.at = port.far
<1>1. PICK o \in Nat, r \in Int :
        o = port.owed - 1 /\ r = IF port.owed = 1 THEN 0 ELSE port.register
  <2>1. port.owed - 1 \in Nat /\ (IF port.owed = 1 THEN 0 ELSE port.register) \in Int
    BY DEF Ports
  <2> QED BY <2>1
<1>2. PICK left : left = [port EXCEPT !.owed = o, !.register = r]
  OBVIOUS
<1>3. /\ left.synced /\ left.owed = o /\ left.register = r /\ left.answer = port.answer
      /\ left.far = port.far /\ left.writing /\ left.matches = port.matches
      /\ left.loaded = port.loaded /\ left.at = port.at
  BY <1>2 DEF Ports
<1>4. o > 0 => r = Register.FDRI
  BY <1>1
<1>5. Take(port, w) = Load(left, w)
  BY <1>1, <1>2, RegisterValues DEF Take, Payload, Ports
<1>6. left \in Ports
  BY <1>2 DEF Ports
<1>7. CASE ~port.matches
  <2>1. port' = left
    BY <1>3, <1>5, <1>7 DEF Load
  <2> QED BY <1>1, <1>3, <1>4, <1>7, <2>1
<1>8. CASE port.matches
  <2>1. CASE port.loaded \in 0..(2 * WordsPerFrame - 1) /\ w = (Frame \o Pad)[port.loaded + 1]
    <3>1. PICK a \in Int, l \in Int : a = left.far /\ l = left.loaded + 1
      BY <1>6 DEF Ports
    <3>2. port' = [left EXCEPT !.at = a, !.loaded = l]
      BY <1>3, <1>5, <1>8, <2>1, <3>1 DEF Load
    <3>3. ASSUME NEW x, x = [left EXCEPT !.at = a, !.loaded = l]
          PROVE  /\ x.synced = left.synced /\ x.owed = left.owed /\ x.register = left.register
                 /\ x.answer = left.answer /\ x.far = left.far /\ x.writing = left.writing
                 /\ x.matches = left.matches /\ x.at = a /\ x.loaded = l
      BY <1>6, <3>3 DEF Ports
    <3>4. /\ port'.synced = left.synced /\ port'.owed = left.owed /\ port'.register = left.register
          /\ port'.answer = left.answer /\ port'.far = left.far /\ port'.writing = left.writing
          /\ port'.matches = left.matches /\ port'.at = a /\ port'.loaded = l
      BY <3>2, <3>3, Zenon
    <3> QED BY <1>1, <1>3, <1>4, <1>8, <3>1, <3>4
  <2>2. CASE ~(port.loaded \in 0..(2 * WordsPerFrame - 1) /\ w = (Frame \o Pad)[port.loaded + 1])
    <3>1. port' = [left EXCEPT !.loaded = -1]
      BY <1>3, <1>5, <1>8, <2>2 DEF Load
    <3>2. ASSUME NEW x, x = [left EXCEPT !.loaded = -1]
          PROVE  /\ x.synced = left.synced /\ x.owed = left.owed /\ x.register = left.register
                 /\ x.answer = left.answer /\ x.far = left.far /\ x.writing = left.writing
                 /\ x.matches = left.matches
      BY <1>6, <3>2 DEF Ports
    <3>3. /\ port'.synced = left.synced /\ port'.owed = left.owed /\ port'.register = left.register
          /\ port'.answer = left.answer /\ port'.far = left.far /\ port'.writing = left.writing
          /\ port'.matches = left.matches
      BY <3>1, <3>2, Zenon
    <3> QED BY <1>1, <1>3, <1>4, <1>8, <2>2, <3>3
  <2> QED BY <2>1, <2>2
<1> QED BY <1>7, <1>8

LEMMA DataStep ==
  ASSUME port \in Ports, NEW n \in 0..(2 * WordsPerFrame - 1), InData(n),
         NEW w, w = (Frame \o Pad)[n + 1], port' = Take(port, w),
         UNCHANGED <<deviceIdCode, frame>>
  PROVE  InData(n + 1)'
<1>1. WordsPerFrame \in Nat
  BY FrameAssumption, Zenon
<1>2. port.synced /\ port.answer = 0 /\ port.owed = 2 * WordsPerFrame - n /\ port.owed > 0
  BY <1>1 DEF InData
<1>3. /\ port.register = Register.FDRI /\ port.writing
      /\ port.matches = (deviceIdCode = IdCode) /\ port.far = SetupFar(frame) /\ Loaded(n)
  BY <1>2 DEF InData
<1>4. /\ port'.synced /\ port'.owed = port.owed - 1 /\ port'.answer = port.answer
      /\ port'.far = port.far
      /\ port'.owed > 0 => port'.register = Register.FDRI
      /\ port'.writing /\ port'.matches = port.matches
      /\ ~port.matches => port'.loaded = port.loaded
      /\ /\ port.matches /\ port.loaded \in 0..(2 * WordsPerFrame - 1)
         /\ (Frame \o Pad)[n + 1] = (Frame \o Pad)[port.loaded + 1]
         => port'.loaded = port.loaded + 1 /\ port'.at = port.far
  <2>4. port.synced /\ port.owed > 0 /\ port.register = Register.FDRI /\ port.writing
    BY <1>2, <1>3
  <2>3. /\ port'.synced /\ port'.owed = port.owed - 1 /\ port'.answer = port.answer
        /\ port'.far = port.far
        /\ port'.owed > 0 => port'.register = Register.FDRI
        /\ port'.writing /\ port'.matches = port.matches
        /\ ~port.matches => port'.loaded = port.loaded
        /\ /\ port.matches /\ port.loaded \in 0..(2 * WordsPerFrame - 1)
           /\ w = (Frame \o Pad)[port.loaded + 1]
           => port'.loaded = port.loaded + 1 /\ port'.at = port.far
    BY <2>4, Filled, Zenon
  <2> QED BY <2>3, Zenon
<1>5. port'.owed = 2 * WordsPerFrame - (n + 1)
  BY <1>1, <1>2, <1>4
<1>6. Loaded(n + 1)'
  <2>1. CASE deviceIdCode = IdCode
    <3>1. port.matches /\ port.loaded = n
      BY <1>3, <2>1 DEF Loaded
    <3>2. port'.loaded = n + 1 /\ port'.at = SetupFar(frame)
      BY <1>3, <1>4, <3>1
    <3> QED BY <2>1, <3>2 DEF Loaded
  <2>2. CASE deviceIdCode # IdCode
    BY <1>3, <1>4, <2>2 DEF Loaded
  <2> QED BY <2>1, <2>2
<1> QED BY <1>2, <1>3, <1>4, <1>5, <1>6 DEF InData

LEMMA WriteHeaderStep ==
  ASSUME port \in Ports, frame \in Addresses, deviceIdCode \in Int,
         sendBuffer = WriteFrameHeader(deviceIdCode, frame),
         NEW n \in Nat, n < Len(sendBuffer), InWriteHeader(n),
         port' = Take(port, sendBuffer[n + 1]), UNCHANGED <<deviceIdCode, frame, sendBuffer>>
  PROVE  InWriteHeader(n + 1)'
<1>0. /\ sendBuffer[1] = Dummy /\ sendBuffer[2] = Sync
      /\ sendBuffer[3] = Noop /\ sendBuffer[4] = Noop
      /\ sendBuffer[5] = Type1Write(Register.CMD) + 1 /\ sendBuffer[6] = Command.RCRC
      /\ sendBuffer[7] = Noop /\ sendBuffer[8] = Noop
      /\ sendBuffer[9] = Type1Write(Register.IDCODE) + 1 /\ sendBuffer[10] = deviceIdCode
      /\ sendBuffer[11] = Type1Write(Register.FAR) + 1 /\ sendBuffer[12] = SetupFar(frame)
      /\ sendBuffer[13] = Type1Write(Register.CMD) + 1 /\ sendBuffer[14] = Command.WCFG
      /\ sendBuffer[15] = Noop
  BY WriteHeaderWords
<1>p. /\ 2 * WordsPerFrame < MaxType1 =>
           sendBuffer[16] = Type1Write(Register.FDRI) + 2 * WordsPerFrame
      /\ ~(2 * WordsPerFrame < MaxType1) =>
           sendBuffer[16] = Type1Write(Register.FDRI)
           /\ sendBuffer[17] = Type2Write(2 * WordsPerFrame)
  BY WriteHeaderWords
<1>l. /\ 2 * WordsPerFrame < MaxType1 => Len(sendBuffer) = 16
      /\ ~(2 * WordsPerFrame < MaxType1) => Len(sendBuffer) = 17
  BY WriteHeaderWords
<1>m. Len(sendBuffer) <= 17
  <2>1. 16 <= 17 /\ 17 <= 17
    OBVIOUS
  <2> QED BY <1>l, <2>1, Zenon
<1>a. port.answer = 0 /\ (n >= 2 => port.synced)
  BY DEF InWriteHeader
<1>1. CASE n \in {0, 2, 3, 6, 7, 14}
  <2>1. port.owed = 0
    BY <1>1 DEF InWriteHeader
  <2>0. sendBuffer[n + 1] \in {Dummy, Noop}
    <3>1. \A i \in {1, 3, 4, 7, 8, 15} : sendBuffer[i] \in {Dummy, Noop}
      BY <1>0, Zenon
    <3>2. n + 1 \in {1, 3, 4, 7, 8, 15}
      BY <1>1
    <3> QED BY <3>1, <3>2, Zenon
  <2>2. port' = port
    BY <2>0, <2>1, TakeOther
  <2>3. CASE n = 14
    BY <1>a, <2>1, <2>2, <2>3 DEF InWriteHeader
  <2>4. CASE n \in {0, 2, 3, 6, 7}
    <3>1. port'.owed = 0 /\ port'.answer = 0 /\ (n + 1 >= 2 => port'.synced)
      BY <1>a, <2>1, <2>2, <2>4
    <3>2. n + 1 \notin {5, 9, 11, 13} /\ n + 1 < 10
      BY <2>4
    <3> QED BY <3>1, <3>2 DEF InWriteHeader
  <2> QED BY <1>1, <2>3, <2>4
<1>2. CASE n = 1
  <2>1. port.owed = 0 /\ port.answer = 0
    BY <1>2 DEF InWriteHeader
  <2>2. port' = Take(port, Sync)
    BY <1>0, <1>2
  <2>3. port'.synced /\ port'.owed = 0 /\ port'.answer = 0
    BY <2>1, <2>2, Synced
  <2> QED BY <1>2, <2>3 DEF InWriteHeader
<1>3. CASE n \in {4, 12}
  <2>1. port.owed = 0
    BY <1>3 DEF InWriteHeader
  <2>0. sendBuffer[5] = Type1Write(Register.CMD) + 1 /\ sendBuffer[13] = Type1Write(Register.CMD) + 1
    BY <1>0
  <2>2. port' = Take(port, Type1Write(Register.CMD) + 1)
    BY <1>3, <2>0
  <2>3. /\ port'.synced /\ port'.owed = 1 /\ port'.register = Register.CMD /\ port'.answer = 0
        /\ port'.matches = port.matches /\ port'.far = port.far
    BY <1>3, <1>a, <2>1, <2>2, Announced
  <2> QED BY <1>3, <2>3 DEF InWriteHeader, Awaits
<1>4. CASE n \in {5, 13}
  <2>1. port.synced /\ port.owed = 1 /\ port.register = Register.CMD
    BY <1>4 DEF InWriteHeader, Awaits
  <2>2. PICK w \in {Command.RCRC, Command.WCFG} :
          port' = Take(port, w) /\ (n = 13 => w = Command.WCFG)
    BY <1>0, <1>4
  <2>3. /\ port'.synced /\ port'.owed = 0 /\ port'.answer = 0
        /\ port'.matches = port.matches /\ port'.far = port.far
        /\ n = 13 => port'.writing
    <3>1. /\ w \in Int /\ w # Command.DESYNCH /\ (n = 13 => w = Command.WCFG)
          /\ Register.CMD # Register.FAR /\ Register.CMD # Register.IDCODE
      BY <2>2, RegisterValues
    <3>2. /\ port'.synced /\ port'.owed = 0 /\ port'.answer = port.answer
          /\ w = Command.WCFG => port'.writing
      BY <2>1, <2>2, <3>1, Valued
    <3>3. port'.matches = port.matches /\ port'.far = port.far
      BY <2>1, <2>2, <3>1, Valued
    <3> QED BY <1>a, <3>1, <3>2, <3>3, Zenon
  <2> QED BY <1>4, <2>3 DEF InWriteHeader
<1>5. CASE n = 8
  <2>1. port.owed = 0
    BY <1>5 DEF InWriteHeader
  <2>2. port' = Take(port, Type1Write(Register.IDCODE) + 1)
    BY <1>0, <1>5
  <2>3. port'.synced /\ port'.owed = 1 /\ port'.register = Register.IDCODE /\ port'.answer = 0
    BY <1>5, <1>a, <2>1, <2>2, Announced
  <2> QED BY <1>5, <2>3 DEF InWriteHeader, Awaits
<1>6. CASE n = 9
  <2>1. port.synced /\ port.owed = 1 /\ port.register = Register.IDCODE
    BY <1>6 DEF InWriteHeader, Awaits
  <2>2. port' = Take(port, deviceIdCode)
    BY <1>0, <1>6
  <2>3. /\ port'.synced /\ port'.owed = 0 /\ port'.answer = 0
        /\ port'.matches = (deviceIdCode = IdCode)
    BY <1>a, <2>1, <2>2, Valued
  <2> QED BY <1>6, <2>3 DEF InWriteHeader
<1>7. CASE n = 10
  <2>1. port.owed = 0 /\ port.matches = (deviceIdCode = IdCode)
    BY <1>7 DEF InWriteHeader
  <2>2. port' = Take(port, Type1Write(Register.FAR) + 1)
    BY <1>0, <1>7
  <2>3. /\ port'.synced /\ port'.owed = 1 /\ port'.register = Register.FAR /\ port'.answer = 0
        /\ port'.matches = port.matches
    BY <1>7, <1>a, <2>1, <2>2, Announced
  <2> QED BY <1>7, <2>1, <2>3 DEF InWriteHeader, Awaits
<1>8. CASE n = 11
  <2>1. /\ port.synced /\ port.owed = 1 /\ port.register = Register.FAR
        /\ port.matches = (deviceIdCode = IdCode) /\ SetupFar(frame) \in Int
    BY <1>8, AddressType, AddressAssumption DEF InWriteHeader, Awaits
  <2>2. port' = Take(port, SetupFar(frame))
    BY <1>0, <1>8
  <2>3. /\ port'.synced /\ port'.owed = 0 /\ port'.answer = 0
        /\ port'.matches = port.matches /\ port'.far = SetupFar(frame)
    BY <1>a, <2>1, <2>2, Valued, RegisterValues
  <2> QED BY <1>8, <2>1, <2>3 DEF InWriteHeader
<1>9. CASE n = 15
  <2>1. /\ port.synced /\ port.owed = 0 /\ port.matches = (deviceIdCode = IdCode)
        /\ port.far = SetupFar(frame) /\ port.writing
    BY <1>9 DEF InWriteHeader
  <2>2. CASE 2 * WordsPerFrame < MaxType1
    <3>1. port' = Take(port, Type1Write(Register.FDRI) + 2 * WordsPerFrame)
      BY <1>p, <1>9, <2>2
    <3>2. 2 * WordsPerFrame \in Nat /\ 2 * WordsPerFrame < 2048
      BY <2>2, FrameAssumption, Type1Assumption, SMT
    <3>3. /\ port'.synced /\ port'.owed = 2 * WordsPerFrame /\ port'.answer = 0
          /\ port'.register = Register.FDRI /\ port'.loaded = 0 /\ port'.writing
          /\ port'.matches = port.matches /\ port'.far = port.far
      BY <1>a, <2>1, <3>1, <3>2, TakeWrite, RegisterValues, SMT
    <3>4. Len(sendBuffer) = 16
      BY <1>l, <2>2, Zenon
    <3> QED BY <1>9, <2>1, <3>3, <3>4 DEF InWriteHeader
  <2>3. CASE ~(2 * WordsPerFrame < MaxType1)
    <3>0. sendBuffer[16] = Type1Write(Register.FDRI) + 0
      <4>1. Type1Write(Register.FDRI) \in Int
        BY PacketType, NumberType
      <4>2. Type1Write(Register.FDRI) + 0 = Type1Write(Register.FDRI)
        BY <4>1
      <4> QED BY <1>p, <2>3, <4>2, Zenon
    <3>1. port' = Take(port, Type1Write(Register.FDRI) + 0)
      BY <1>9, <3>0
    <3>2. /\ port'.synced /\ port'.owed = 0 /\ port'.answer = 0
          /\ port'.register = Register.FDRI /\ port'.loaded = 0 /\ port'.writing
          /\ port'.matches = port.matches /\ port'.far = port.far
      BY <1>a, <2>1, <3>1, TakeWrite, RegisterValues, SMT
    <3>3. Len(sendBuffer) = 17
      BY <1>l, <2>3, Zenon
    <3> QED BY <1>9, <2>1, <3>2, <3>3 DEF InWriteHeader
  <2> QED BY <2>2, <2>3
<1>10. CASE n = 16
  <2>1. ~(2 * WordsPerFrame < MaxType1) /\ Len(sendBuffer) = 17
    <3>1. ASSUME 2 * WordsPerFrame < MaxType1 PROVE FALSE
      <4>1. ~(16 < 16) /\ 16 < Len(sendBuffer)
        BY <1>10
      <4> QED BY <4>1, <1>l, <3>1, Zenon
    <3> QED BY <3>1, <1>l, Zenon
  <2>2. /\ port.synced /\ port.owed = 0 /\ port.matches = (deviceIdCode = IdCode)
        /\ port.far = SetupFar(frame) /\ port.writing
        /\ port.register = Register.FDRI
    BY <1>10, <2>1 DEF InWriteHeader
  <2>3. PICK m : m = 2 * WordsPerFrame
    OBVIOUS
  <2>4. m \in Nat /\ m < 2^27 /\ port' = Take(port, Type2Write(m))
    <3>1. port' = Take(port, Type2Write(2 * WordsPerFrame))
      BY <1>p, <1>10, <2>1
    <3> QED BY <2>3, <3>1, FrameAssumption, SMT
  <2>5. /\ port'.synced /\ port'.owed = 2 * WordsPerFrame /\ port'.answer = 0
        /\ port'.register = Register.FDRI /\ port'.loaded = 0 /\ port'.writing
        /\ port'.matches = port.matches /\ port'.far = port.far
    <3>1. /\ port'.synced /\ port'.owed = m /\ port'.answer = port.answer
          /\ port'.register = Register.FDRI /\ port'.loaded = 0 /\ port'.writing = port.writing
          /\ port'.matches = port.matches /\ port'.far = port.far
      <4>1. port.synced /\ port.owed = 0 /\ port.register = Register.FDRI
        BY <2>2
      <4> QED BY <4>1, <2>4, TakeWrite2, SMT
    <3> QED BY <1>a, <2>2, <2>3, <3>1, Zenon
  <2> QED BY <1>10, <2>1, <2>2, <2>5 DEF InWriteHeader
<1>11. n \in 0..16
  BY <1>m
<1> QED BY <1>1, <1>2, <1>3, <1>4, <1>5, <1>6, <1>7, <1>8, <1>9, <1>10, <1>11

LEMMA ReadHeaderStep ==
  ASSUME port \in Ports, frame \in Addresses, deviceFamily \in Families,
         sendBuffer = ReadFrameHeader(deviceFamily, frame),
         NEW n \in Nat, n < Len(sendBuffer), InReadHeader(n),
         port' = Take(port, sendBuffer[n + 1]), UNCHANGED deviceFamily
  PROVE  InReadHeader(n + 1)'
<1>0. /\ sendBuffer[1] = Dummy /\ sendBuffer[2] = BusWidth /\ sendBuffer[3] = BusDetect
      /\ sendBuffer[4] = Dummy /\ sendBuffer[5] = Sync /\ sendBuffer[6] = Noop
      /\ sendBuffer[7] = Type1Write(Register.CMD) + 1 /\ sendBuffer[8] = Command.RCRC
      /\ \A i \in 9..14 : sendBuffer[i] = Noop
      /\ sendBuffer[15] = Type1Write(Register.CMD) + 1 /\ sendBuffer[16] = Command.RCFG
      /\ sendBuffer[17] = Noop
      /\ sendBuffer[18] = Type1Write(Register.FAR) + 1 /\ sendBuffer[19] = SetupFar(frame)
      /\ sendBuffer[20] = Type1Read(Register.FDRO)
      /\ sendBuffer[21] = Type2Read(TotalWords(deviceFamily))
  BY ReadHeaderWords
<1>a. /\ n < 21 => port.answer = 0
      /\ n >= 5 => port.synced
  BY DEF InReadHeader
<1>b. TotalWords(deviceFamily) \in Nat /\ NumNoops[deviceFamily] \in Nat
  BY FamilyType
<1>1. CASE n \in {0, 1, 2, 3, 5, 8, 9, 10, 11, 12, 13, 16}
  <2>1. port.owed = 0
    BY <1>1 DEF InReadHeader
  <2>2. sendBuffer[n + 1] \in {Dummy, BusWidth, BusDetect, Noop}
    <3>1. \A i \in {1, 2, 3, 4, 6, 17} : sendBuffer[i] \in {Dummy, BusWidth, BusDetect, Noop}
      BY <1>0, Zenon
    <3>2. \A i \in 9..14 : sendBuffer[i] \in {Dummy, BusWidth, BusDetect, Noop}
      BY <1>0, Zenon
    <3>3. n + 1 \in {1, 2, 3, 4, 6, 17} \/ n + 1 \in 9..14
      BY <1>1
    <3> QED BY <3>1, <3>2, <3>3, Zenon
  <2>3. port' = port
    BY <2>1, <2>2, TakeOther
  <2>4. n + 1 \notin {7, 15, 18} /\ n + 1 < 21 /\ (n + 1 >= 5 => port.synced) /\ port.answer = 0
    <3>1. n + 1 >= 5 => port.synced
      BY <1>1, <1>a
    <3> QED BY <1>1, <1>a, <3>1
  <2> QED BY <2>1, <2>3, <2>4 DEF InReadHeader
<1>2. CASE n = 4
  <2>1. port.owed = 0 /\ port.answer = 0
    BY <1>2 DEF InReadHeader
  <2>2. port' = Take(port, Sync)
    BY <1>0, <1>2
  <2>3. port'.synced /\ port'.owed = 0 /\ port'.answer = 0
    BY <2>1, <2>2, Synced
  <2> QED BY <1>2, <2>3 DEF InReadHeader
<1>3. CASE n \in {6, 14}
  <2>1. port.owed = 0 /\ port.synced /\ port.answer = 0
    BY <1>3 DEF InReadHeader
  <2>2. port' = Take(port, Type1Write(Register.CMD) + 1)
    <3>1. /\ sendBuffer[7] = Type1Write(Register.CMD) + 1
          /\ sendBuffer[15] = Type1Write(Register.CMD) + 1
      BY <1>0, Zenon
    <3> QED BY <3>1, <1>3
  <2>3. port'.synced /\ port'.owed = 1 /\ port'.register = Register.CMD /\ port'.answer = 0
    BY <2>1, <2>2, Announced
  <2> QED BY <1>3, <2>3 DEF InReadHeader, Awaits
<1>4. CASE n \in {7, 15}
  <2>1. port.synced /\ port.owed = 1 /\ port.register = Register.CMD /\ port.answer = 0
    BY <1>4 DEF InReadHeader, Awaits
  <2>2. PICK w \in {Command.RCRC, Command.RCFG} : port' = Take(port, w)
    <3>1. sendBuffer[8] = Command.RCRC /\ sendBuffer[16] = Command.RCFG
      BY <1>0, Zenon
    <3> QED BY <3>1, <1>4
  <2>3. w \in Int /\ w # Command.DESYNCH
    BY <2>2, RegisterValues
  <2>4. port'.synced /\ port'.owed = 0 /\ port'.answer = 0
    BY <2>1, <2>2, <2>3, Valued
  <2> QED BY <1>4, <2>4 DEF InReadHeader
<1>5. CASE n = 17
  <2>1. port.owed = 0 /\ port.synced /\ port.answer = 0
    BY <1>5 DEF InReadHeader
  <2>2. port' = Take(port, Type1Write(Register.FAR) + 1)
    BY <1>0, <1>5
  <2>3. port'.synced /\ port'.owed = 1 /\ port'.register = Register.FAR /\ port'.answer = 0
    BY <2>1, <2>2, Announced
  <2> QED BY <1>5, <2>3 DEF InReadHeader, Awaits
<1>6. CASE n = 18
  <2>1. /\ port.synced /\ port.owed = 1 /\ port.register = Register.FAR /\ port.answer = 0
        /\ SetupFar(frame) \in Int
    BY <1>6, AddressType, AddressAssumption DEF InReadHeader, Awaits
  <2>2. port' = Take(port, SetupFar(frame))
    BY <1>0, <1>6
  <2>3. port'.synced /\ port'.owed = 0 /\ port'.answer = 0
    BY <2>1, <2>2, Valued
  <2> QED BY <1>6, <2>3 DEF InReadHeader
<1>7. CASE n = 19
  <2>1. port.owed = 0 /\ port.synced
    BY <1>7 DEF InReadHeader
  <2>2. port' = Take(port, Type1Read(Register.FDRO) + 0)
    <3>1. Type1Read(Register.FDRO) \in Int
      BY PacketType, NumberType
    <3>2. sendBuffer[20] = Type1Read(Register.FDRO)
      BY <1>0, Zenon
    <3> QED BY <3>1, <3>2, <1>7
  <2>3. port'.synced /\ port'.owed = 0 /\ port'.answer = 0
    <3>1. Register.FDRO \in Nat /\ Register.FDRO < 32
      BY RegisterValues
    <3> QED BY <2>1, <2>2, <3>1, TakeRead, SMT
  <2> QED BY <1>7, <2>3 DEF InReadHeader
<1>8. CASE n = 20
  <2>1. port.owed = 0 /\ port.synced
    BY <1>8 DEF InReadHeader
  <2>2. PICK total \in Nat : total = TotalWords(deviceFamily)
    BY <1>b
  <2>3. total < 2^27
    BY <2>2, FamilyAssumption, SMT DEF TotalWords
  <2>4. port' = Take(port, Type2Read(total))
    <3>1. sendBuffer[21] = Type2Read(TotalWords(deviceFamily))
      BY <1>0, Zenon
    <3> QED BY <3>1, <2>2, <1>8
  <2>5. port'.synced /\ port'.owed = 0 /\ port'.answer = total
    BY <2>1, <2>3, <2>4, TakeRead2, SMT
  <2>6. port'.answer = TotalWords(deviceFamily)'
    BY <2>2, <2>5
  <2> QED BY <1>8, <2>5, <2>6 DEF InReadHeader
<1>9. CASE n >= 21
  <2>1. port.owed = 0 /\ port.synced /\ port.answer = TotalWords(deviceFamily)
    BY <1>9 DEF InReadHeader
  <2>2. sendBuffer[n + 1] = Noop
    <3>1. /\ Len(sendBuffer) = 23 + NumNoops[deviceFamily]
          /\ \A i \in 22..23 + NumNoops[deviceFamily] : sendBuffer[i] = Noop
      BY ReadHeaderWords
    <3>2. n < 23 + NumNoops[deviceFamily]
      BY <3>1, Zenon
    <3>3. n + 1 \in 22..23 + NumNoops[deviceFamily]
      BY <1>9, <1>b, <3>2
    <3> QED BY <3>1, <3>3, Zenon
  <2>3. port' = port
    BY <2>1, <2>2, TakeOther
  <2> QED BY <1>9, <2>1, <2>3 DEF InReadHeader
<1>10. n \in 0..20 \/ n >= 21
  OBVIOUS
<1> QED BY <1>1, <1>2, <1>3, <1>4, <1>5, <1>6, <1>7, <1>8, <1>9, <1>10
------------------------------------------------------------------------------
(* Types.                                                                   *)

USE DEF thread, handler, driver, reading, intr, device, client, other

LEMMA TransferInit == Init => TransferInv
<1> SUFFICES ASSUME Init PROVE TransferInv
  OBVIOUS
<1>1. PlacesOK
  BY DEF Init, PlacesOK, Between
<1>2. FlagsOK /\ BitsOK /\ CountsOK
  BY DEF Init, FlagsOK, BitsOK, CountsOK
<1>3. WordsOK
  BY DEF Init, WordsOK
<1>4. StreamInOrder
  BY DepthAssumption DEF Init, StreamInOrder, Written
<1>5. FifoOwned
  BY DepthAssumption DEF Init, FifoOwned
<1>6. CallOwns
  BY DEF Init, CallOwns, Between, Initialising
<1> QED BY <1>1, <1>2, <1>3, <1>4, <1>5, <1>6 DEF TransferInv, TypeOK

(* The steps of the thread, of the handler and of the device.               *)
LEMMA Steps ==
  ASSUME Next
  PROVE  \/ CfgInitialize \/ GetConfigReg \/ PollEos \/ Initialised
         \/ CallReset \/ Reset \/ SwReset \/ FlushFifo \/ FifoClear \/ Flushed
         \/ SelfTest \/ TestEnables \/ TestRestores \/ IntrEnable \/ IntrDisable
         \/ Write \/ ReadFrame \/ WriteFrame
         \/ Accept \/ ReadVacancy \/ Fill \/ StartConfig \/ WriteMore
         \/ WriteDone \/ ClearStatus \/ GlobalEnable \/ Refuse
         \/ AwaitDevice \/ ReadRefused \/ StartReadBack \/ PollOccupancy \/ FifoRead \/ ReadDone
         \/ Interrupt \/ HandlerVacancy \/ HandlerFill \/ HandlerStart \/ HandlerDisable
         \/ StatusHandler \/ HandlerReturns
         \/ HalfEmpty \/ Drain \/ Drained \/ ReadBack \/ ReadEnds \/ StartedUp
BY DEF Next, InDriver, InDeviceWrite, Client, Handler, Device

(* Where a call goes when DeviceWrite or DeviceRead returns.                *)
LEMMA Returns ==
  ASSUME TypeOK, NEW ok \in BOOLEAN
  PROVE  /\ WriteReturns(ok) =>
              /\ pc' \in {"failed", "idle", "busy", "initialised", "write"}
              /\ task' \in {"none", task, "frame", "pad", "park", "end_write"}
              /\ isReady' \in BOOLEAN /\ torn' \in BOOLEAN
         /\ ReadReturns(ok) =>
              /\ pc' \in {"eos", "failed", "write", "idle"}
              /\ task' \in {task, "idcode", "desync", "end_read"}
              /\ torn' \in BOOLEAN /\ retries' = 0
<1>1. WriteReturns(ok) => pc' \in {"failed", "idle", "busy", "initialised", "write"}
  BY DEF WriteReturns
<1>2. \A t \in DOMAIN FollowedBy : FollowedBy[t] \in {"frame", "pad", "park", "end_write"}
  BY DEF FollowedBy
<1>3. WriteReturns(ok) => task' \in {"none", task, "frame", "pad", "park", "end_write"}
  BY <1>2 DEF WriteReturns
<1>4. WriteReturns(ok) => isReady' \in BOOLEAN /\ torn' \in BOOLEAN
  BY DEF WriteReturns
<1>5. ReadReturns(ok) => pc' \in {"eos", "failed", "write", "idle"} /\ retries' = 0
  BY DEF ReadReturns
<1>6. ReadReturns(ok) =>
        task' \in {task, "idcode", "desync", "end_read"} /\ torn' \in BOOLEAN
  BY DEF ReadReturns
<1> QED BY <1>1, <1>3, <1>4, <1>5, <1>6

LEMMA PlacesType ==
  ASSUME TypeOK, CallOwns, Next
  PROVE  PlacesOK'
<1>t. PlacesOK
  BY DEF TypeOK
<1>1. CASE CfgInitialize \/ GetConfigReg \/ PollEos \/ CallReset \/ Reset \/ SwReset
  BY <1>t, <1>1 DEF CfgInitialize, GetConfigReg, PollEos, CallReset, Reset, SwReset, PlacesOK,
                    Between
<1>2. CASE Initialised
  <2>1. \A code \in DeviceCodes : FindDeviceType(code) \in Families \cup {"none"}
    BY CodeAssumption DEF FindDeviceType
  <2> QED BY <1>t, <1>2, <2>1 DEF Initialised, PlacesOK, Between
<1>3. CASE \/ FlushFifo \/ FifoClear \/ Flushed \/ SelfTest \/ TestEnables \/ TestRestores
           \/ IntrEnable \/ IntrDisable
  BY <1>t, <1>3 DEF FlushFifo, FifoClear, Flushed, SelfTest, TestEnables, TestRestores,
                    IntrEnable, IntrDisable, PlacesOK, Between
<1>4. CASE Write \/ ReadFrame \/ WriteFrame
  BY <1>t, <1>4 DEF Write, ReadFrame, WriteFrame, PlacesOK
<1>5. CASE \/ Accept \/ ReadVacancy \/ Fill \/ StartConfig \/ WriteMore \/ ClearStatus
  BY <1>t, <1>5 DEF Accept, ReadVacancy, Fill, FifoWrite, StartConfig, WriteMore, ClearStatus,
                    PlacesOK
<1>6. CASE WriteDone \/ GlobalEnable \/ Refuse
  BY <1>t, <1>6, Returns DEF WriteDone, GlobalEnable, Refuse, PlacesOK, Between
<1>7. CASE ReadRefused \/ ReadDone
  BY ZenonT(60), <1>t, <1>7, Returns DEF ReadRefused, ReadDone, PlacesOK
<1>8. CASE AwaitDevice \/ StartReadBack \/ PollOccupancy \/ FifoRead
  BY <1>t, <1>8 DEF AwaitDevice, StartReadBack, PollOccupancy, FifoRead, PlacesOK
<1>9. CASE Handler
  BY <1>t, <1>9 DEF Handler, Interrupt, HandlerVacancy, HandlerFill, FifoWrite, HandlerStart,
                    HandlerDisable, StatusHandler, HandlerReturns, PlacesOK
<1>10. CASE Device
  BY <1>t, <1>10 DEF Device, HalfEmpty, Drain, Drained, ReadBack, ReadEnds, StartedUp, PlacesOK
<1> QED
  BY <1>1, <1>2, <1>3, <1>4, <1>5, <1>6, <1>7, <1>8, <1>9, <1>10, Steps DEF Handler, Device

LEMMA FlagsType ==
  ASSUME TypeOK, Next
  PROVE  FlagsOK'
<1>t. FlagsOK
  BY DEF TypeOK
<1>1. CASE CfgInitialize \/ GetConfigReg \/ PollEos \/ Initialised \/ CallReset
  BY ZenonT(60), <1>t, <1>1 DEF CfgInitialize, GetConfigReg, PollEos, Initialised, CallReset, FlagsOK
<1>2. CASE Reset \/ SwReset \/ FlushFifo \/ FifoClear \/ Flushed
  BY ZenonT(60), <1>t, <1>2 DEF Reset, SwReset, FlushFifo, FifoClear, Flushed, FlagsOK
<1>3. CASE SelfTest \/ TestEnables \/ TestRestores \/ IntrEnable \/ IntrDisable
  <2>1. gie' \in BOOLEAN /\ ier' \in BOOLEAN /\ polled' \in BOOLEAN
    <3>1. CASE TestRestores
      BY <3>1 DEF TestRestores
    <3>2. CASE SelfTest \/ TestEnables \/ IntrEnable \/ IntrDisable
      BY <1>t, <3>2 DEF SelfTest, TestEnables, IntrEnable, IntrDisable, FlagsOK
    <3> QED BY <1>3, <3>1, <3>2
  <2>2. UNCHANGED <<isReady, inProgress, eos, isr, torn>>
    BY <1>3 DEF SelfTest, TestEnables, TestRestores, IntrEnable, IntrDisable
  <2> QED BY <1>t, <2>1, <2>2 DEF FlagsOK
<1>4. CASE Write \/ ReadFrame \/ WriteFrame
  BY <1>t, <1>4 DEF Write, ReadFrame, WriteFrame, FlagsOK
<1>5. CASE \/ Accept \/ ReadVacancy \/ Fill \/ StartConfig \/ WriteMore \/ ClearStatus
  BY ZenonT(60), <1>t, <1>5 DEF Accept, ReadVacancy, Fill, FifoWrite, StartConfig, WriteMore, ClearStatus,
                    FlagsOK
<1>6. CASE WriteDone \/ GlobalEnable \/ Refuse
  <2>1. isReady' \in BOOLEAN /\ torn' \in BOOLEAN
    BY <1>6, Returns DEF WriteDone, GlobalEnable, Refuse
  <2> QED BY <1>t, <1>6, <2>1 DEF WriteDone, GlobalEnable, Refuse, FlagsOK
<1>7. CASE ReadRefused \/ ReadDone
  <2>1. torn' \in BOOLEAN
    BY <1>7, Returns DEF ReadRefused, ReadDone
  <2> QED BY <1>t, <1>7, <2>1 DEF ReadRefused, ReadDone, FlagsOK
<1>8. CASE AwaitDevice \/ StartReadBack \/ PollOccupancy \/ FifoRead
  BY ZenonT(60), <1>t, <1>8 DEF AwaitDevice, StartReadBack, PollOccupancy, FifoRead, FlagsOK
<1>9. CASE Handler
  BY ZenonT(60), <1>t, <1>9 DEF Handler, Interrupt, HandlerVacancy, HandlerFill, FifoWrite, HandlerStart,
                     HandlerDisable, StatusHandler, HandlerReturns, FlagsOK
<1>10. CASE Device
  BY ZenonT(60), <1>t, <1>10 DEF Device, HalfEmpty, Drain, Drained, ReadBack, ReadEnds, StartedUp, FlagsOK
<1> QED
  BY <1>1, <1>2, <1>3, <1>4, <1>5, <1>6, <1>7, <1>8, <1>9, <1>10, Steps DEF Handler, Device

LEMMA BitsType ==
  ASSUME TypeOK, CallOwns, Next
  PROVE  BitsOK'
<1>t. BitsOK
  BY DEF TypeOK
<1>1. CASE UNCHANGED <<cr, saved>>
  BY <1>t, <1>1 DEF BitsOK
<1>2. CASE cr' \in {{}, {"READ"}, {"WRITE"}} /\ saved' = saved
  BY <1>t, <1>2 DEF BitsOK
<1>3. CASE Reset \/ FlushFifo
  BY <1>t, <1>3 DEF Reset, FlushFifo, BitsOK
<1>4. CASE SelfTest \/ TestRestores
  BY <1>t, <1>4 DEF SelfTest, TestRestores, BitsOK
<1>5. CASE FifoClear \/ Flushed
  <2>1. saved \in {{}, {"WRITE"}}
    BY <1>5 DEF FifoClear, Flushed, At, CallOwns
  <2>2. cr' = saved /\ saved' \in {{}, saved}
    BY <1>5 DEF FifoClear, Flushed
  <2> QED BY <2>1, <2>2 DEF BitsOK
<1>6. CASE StartConfig \/ HandlerStart \/ StartReadBack \/ Drained \/ ReadEnds \/ SwReset
  BY <1>2, <1>6 DEF StartConfig, HandlerStart, StartReadBack, Drained, ReadEnds, SwReset
<1>7. CASE CfgInitialize \/ GetConfigReg \/ PollEos \/ Initialised \/ CallReset \/ TestEnables
           \/ IntrEnable \/ IntrDisable \/ Write \/ ReadFrame \/ WriteFrame
  BY <1>1, <1>7 DEF CfgInitialize, GetConfigReg, PollEos, Initialised, CallReset, TestEnables,
                    IntrEnable, IntrDisable, Write, ReadFrame, WriteFrame
<1>8. CASE Accept \/ ReadVacancy \/ Fill \/ WriteMore \/ WriteDone \/ ClearStatus
           \/ GlobalEnable \/ Refuse
  BY <1>1, <1>8 DEF Accept, ReadVacancy, Fill, WriteMore, WriteDone, ClearStatus, GlobalEnable,
                    Refuse
<1>9. CASE AwaitDevice \/ ReadRefused \/ PollOccupancy \/ FifoRead \/ ReadDone
  BY <1>1, <1>9 DEF AwaitDevice, ReadRefused, PollOccupancy, FifoRead, ReadDone
<1>10. CASE Interrupt \/ HandlerVacancy \/ HandlerFill \/ HandlerDisable \/ StatusHandler
            \/ HandlerReturns \/ HalfEmpty \/ Drain \/ ReadBack \/ StartedUp
  BY <1>1, <1>10 DEF Interrupt, HandlerVacancy, HandlerFill, HandlerDisable, StatusHandler,
                     HandlerReturns, HalfEmpty, Drain, ReadBack, StartedUp
<1> QED BY <1>3, <1>4, <1>5, <1>6, <1>7, <1>8, <1>9, <1>10, Steps

LEMMA CountsType ==
  ASSUME TypeOK, StreamInOrder, FifoOwned, CallOwns, Next
  PROVE  CountsOK'
<1>t. CountsOK /\ Len(wfifo) \in Nat /\ Len(rfifo) \in Nat /\ Len(wfifo) <= FifoDepth
  BY DEF TypeOK, WordsOK, StreamInOrder
<1>1. CASE CfgInitialize \/ GetConfigReg \/ PollEos \/ Initialised \/ CallReset \/ Reset \/ SwReset
  BY SMTT(30), <1>t, <1>1 DEF CfgInitialize, GetConfigReg, PollEos, Initialised, CallReset, Reset, SwReset,
                    CountsOK
<1>2. CASE \/ FlushFifo \/ FifoClear \/ Flushed \/ SelfTest \/ TestEnables \/ TestRestores
           \/ IntrEnable \/ IntrDisable
  BY <1>t, <1>2 DEF FlushFifo, FifoClear, Flushed, SelfTest, TestEnables, TestRestores,
                    IntrEnable, IntrDisable, CountsOK
<1>3. CASE \/ Write \/ ReadFrame \/ WriteFrame \/ StartConfig \/ WriteMore \/ ClearStatus
           \/ AwaitDevice
  BY <1>t, <1>3 DEF Write, ReadFrame, WriteFrame, StartConfig, WriteMore, ClearStatus,
                    AwaitDevice, CountsOK
<1>4. CASE Accept
  <2>1. Len(sendBuffer') \in Nat
    BY <1>4, BuffersType DEF Accept
  <2> QED BY <1>t, <1>4, <2>1 DEF Accept, CountsOK
<1>5. CASE ReadVacancy \/ HandlerVacancy
  BY SMTT(30), <1>t, <1>5, DepthAssumption DEF ReadVacancy, HandlerVacancy, CountsOK
<1>6. CASE Fill \/ HandlerFill
  <2>1. /\ remaining > 0 /\ remaining' = remaining - 1
        /\ UNCHANGED <<retries, occupancy, requested, size, called>>
    BY <1>6 DEF Fill, HandlerFill, FifoWrite
  <2>2. \/ vacancy # 0 /\ vacancy' = vacancy - 1 /\ hvacancy' = hvacancy
        \/ hvacancy # 0 /\ hvacancy' = hvacancy - 1 /\ vacancy' = vacancy
    BY <1>6 DEF Fill, HandlerFill
  <2> QED BY <1>t, <2>1, <2>2 DEF CountsOK
<1>7. CASE WriteDone \/ GlobalEnable \/ Refuse
  BY <1>t, <1>7 DEF WriteDone, GlobalEnable, Refuse, CountsOK
<1>8. CASE ReadRefused \/ ReadDone
  BY <1>t, <1>8 DEF ReadRefused, ReadDone, ReadReturns, CountsOK
<1>9. CASE StartReadBack
  <2>1. requested' \in Nat
    BY <1>9, FamilyType DEF StartReadBack, TypeOK, PlacesOK, CallOwns
  <2> QED BY <1>t, <1>9, <2>1 DEF StartReadBack, CountsOK
<1>10. CASE PollOccupancy \/ FifoRead
  <2>1. UNCHANGED <<vacancy, hvacancy, requested, size, called>>
    BY <1>10 DEF PollOccupancy, FifoRead
  <2>2. retries' \in Nat /\ occupancy' \in Nat /\ remaining' \in Nat
    BY SMTT(30), <1>t, <1>10 DEF PollOccupancy, FifoRead, CountsOK
  <2> QED BY <1>t, <2>1, <2>2 DEF CountsOK
<1>11. CASE Interrupt \/ HandlerStart \/ HandlerDisable \/ StatusHandler \/ HandlerReturns
  BY <1>t, <1>11 DEF Interrupt, HandlerStart, HandlerDisable, StatusHandler, HandlerReturns,
                     CountsOK
<1>12. CASE Device
  BY <1>t, <1>12 DEF Device, HalfEmpty, Drain, Drained, ReadBack, ReadEnds, StartedUp, CountsOK
<1> QED
  BY <1>1, <1>2, <1>3, <1>4, <1>5, <1>6, <1>7, <1>8, <1>9, <1>10, <1>11, <1>12, Steps
  DEF Device

LEMMA WordsType ==
  ASSUME TypeOK, StreamInOrder, FifoOwned, CallOwns, Next
  PROVE  WordsOK'
<1>t. WordsOK
  BY DEF TypeOK
<1>1. CASE UNCHANGED <<sendBuffer, wfifo, icap, regData, rfifo>>
  BY <1>t, <1>1 DEF WordsOK
<1>2. CASE SwReset \/ FifoClear
  <2>1. wfifo' = <<>> /\ rfifo' = <<>> /\ UNCHANGED <<sendBuffer, icap, regData>>
    BY <1>2 DEF SwReset, FifoClear
  <2> QED BY <1>t, <2>1 DEF WordsOK
<1>3. CASE Accept
  <2>1. sendBuffer' \in Seq(Int)
    BY <1>3, BuffersType DEF Accept
  <2> QED BY <1>t, <1>3, <2>1 DEF Accept, WordsOK
<1>4. CASE Fill \/ HandlerFill
  <2>1. inProgress /\ pc # "reading"
    BY <1>4 DEF Fill, HandlerFill, At, FifoOwned, TypeOK, FlagsOK
  <2>2. requested - remaining + 1 \in Nat
    BY <1>t, <2>1 DEF StreamInOrder, Written, WordsOK
  <2>3. wfifo' = Append(wfifo, requested - remaining + 1)
    BY <1>4 DEF Fill, HandlerFill, FifoWrite
  <2>4. UNCHANGED <<sendBuffer, icap, regData, rfifo>>
    BY <1>4 DEF Fill, HandlerFill
  <2> QED BY <1>t, <2>2, <2>3, <2>4 DEF WordsOK
<1>5. CASE Drain
  BY <1>t, <1>5 DEF Drain, WordsOK
<1>6. CASE FifoRead
  <2>1. occupancy \in Nat /\ occupancy # 0 /\ occupancy <= Len(rfifo)
    BY <1>6 DEF FifoRead, At, CallOwns, TypeOK, CountsOK
  <2>2. rfifo # <<>>
    BY <1>t, <2>1 DEF WordsOK
  <2>3. Head(rfifo) \in {"valid", "void"} /\ Tail(rfifo) \in Seq({"valid", "void"})
    BY <1>t, <2>2 DEF WordsOK
  <2>4. UNCHANGED <<sendBuffer, wfifo, icap>> /\ regData' = Head(rfifo) /\ rfifo' = Tail(rfifo)
    BY <1>6 DEF FifoRead
  <2> QED BY <1>t, <2>3, <2>4 DEF WordsOK
<1>7. CASE ReadBack
  <2>1. PICK word \in {"valid", "void"} : rfifo' = Append(rfifo, word)
    BY <1>7 DEF ReadBack
  <2>2. UNCHANGED <<sendBuffer, wfifo, icap, regData>>
    BY <1>7 DEF ReadBack
  <2> QED BY <1>t, <2>1, <2>2 DEF WordsOK
<1>8. CASE CfgInitialize \/ GetConfigReg \/ PollEos \/ Initialised \/ CallReset \/ Reset
           \/ FlushFifo \/ Flushed \/ SelfTest \/ TestEnables \/ TestRestores \/ IntrEnable
           \/ IntrDisable \/ Write \/ ReadFrame \/ WriteFrame
  BY <1>1, <1>8 DEF CfgInitialize, GetConfigReg, PollEos, Initialised, CallReset, Reset,
                    FlushFifo, Flushed, SelfTest, TestEnables, TestRestores, IntrEnable,
                    IntrDisable, Write, ReadFrame, WriteFrame
<1>9. CASE ReadVacancy \/ StartConfig \/ WriteMore \/ WriteDone \/ ClearStatus \/ GlobalEnable
           \/ Refuse \/ AwaitDevice \/ ReadRefused \/ StartReadBack \/ PollOccupancy \/ ReadDone
  BY <1>1, <1>9 DEF ReadVacancy, StartConfig, WriteMore, WriteDone, ClearStatus, GlobalEnable,
                    Refuse, AwaitDevice, ReadRefused, StartReadBack, PollOccupancy, ReadDone
<1>10. CASE Interrupt \/ HandlerVacancy \/ HandlerStart \/ HandlerDisable \/ StatusHandler
            \/ HandlerReturns \/ HalfEmpty \/ Drained \/ ReadEnds \/ StartedUp
  BY <1>1, <1>10 DEF Interrupt, HandlerVacancy, HandlerStart, HandlerDisable, StatusHandler,
                     HandlerReturns, HalfEmpty, Drained, ReadEnds, StartedUp
<1> QED BY <1>2, <1>3, <1>4, <1>5, <1>6, <1>7, <1>8, <1>9, <1>10, Steps
------------------------------------------------------------------------------
(* The words on their way from the buffer to the port.                      *)

LEMMA Pushed ==
  ASSUME NEW s \in Seq(Nat), NEW w \in Seq(Nat), \A i \in DOMAIN (s \o w) : (s \o w)[i] = i,
         NEW n \in Nat, n = Len(s \o w) + 1
  PROVE  /\ \A i \in DOMAIN (s \o Append(w, n)) : (s \o Append(w, n))[i] = i
         /\ Len(s \o Append(w, n)) = Len(s \o w) + 1 /\ Len(Append(w, n)) = Len(w) + 1
<1>1. s \o Append(w, n) = Append(s \o w, n)
  OBVIOUS
<1> QED BY <1>1

LEMMA Moved ==
  ASSUME NEW s \in Seq(Nat), NEW w \in Seq(Nat), w # <<>>
  PROVE  Append(s, Head(w)) \o Tail(w) = s \o w /\ Len(Tail(w)) = Len(w) - 1
OBVIOUS

LEMMA Dropped ==
  ASSUME NEW s \in Seq(Nat), NEW w \in Seq(Nat), \A i \in DOMAIN (s \o w) : (s \o w)[i] = i
  PROVE  \A i \in DOMAIN (s \o <<>>) : (s \o <<>>)[i] = i
<1>1. s \o <<>> = s /\ Len(s) <= Len(s \o w) /\ s \o w \in Seq(Nat)
  OBVIOUS
<1>2. \A i \in 1 .. Len(s) : s[i] = (s \o w)[i]
  OBVIOUS
<1>3. \A i \in 1 .. Len(s) : s[i] = i
  BY <1>1, <1>2
<1> QED BY <1>1, <1>3

LEMMA StreamStep ==
  ASSUME TransferInv, Next
  PROVE  StreamInOrder'
<1>t. /\ wfifo \in Seq(Nat) /\ icap \in Seq(Nat) /\ requested \in Nat /\ remaining \in Nat
      /\ vacancy \in Nat /\ hvacancy \in Nat /\ FifoDepth \in Nat
      /\ StreamInOrder /\ FifoOwned /\ CallOwns
  BY DepthAssumption DEF TransferInv, TypeOK, WordsOK, CountsOK
<1>u. \A i \in DOMAIN (icap \o wfifo) : (icap \o wfifo)[i] = i
  BY <1>t DEF StreamInOrder, Written
<1>1. CASE /\ UNCHANGED <<icap, wfifo>>
           /\ inProgress' /\ pc' # "reading" =>
                inProgress /\ pc # "reading" /\ UNCHANGED <<requested, remaining>>
  BY <1>t, <1>1 DEF StreamInOrder, Written
<1>2. CASE Fill \/ HandlerFill
  <2>1. /\ inProgress /\ pc # "reading" /\ Len(wfifo) + 1 <= FifoDepth
        /\ UNCHANGED <<inProgress, pc>>
    BY <1>t, <1>2 DEF Fill, HandlerFill, At, FifoOwned, TransferInv, TypeOK, FlagsOK
  <2>2. /\ remaining' = remaining - 1 /\ UNCHANGED <<icap, requested>>
        /\ wfifo' = Append(wfifo, requested - remaining + 1)
    BY <1>2 DEF Fill, HandlerFill, FifoWrite
  <2>3. Len(icap \o wfifo) = requested - remaining
    BY <1>t, <2>1 DEF StreamInOrder, Written
  <2>4. requested - remaining + 1 \in Nat
    BY <1>t, <2>3
  <2>5. /\ \A i \in DOMAIN Written' : Written'[i] = i
        /\ Len(Written') = requested - remaining + 1 /\ Len(wfifo') = Len(wfifo) + 1
    <3> DEFINE w == requested - remaining + 1
    <3>1. Written' = icap \o Append(wfifo, w) /\ w \in Nat /\ w = Len(icap \o wfifo) + 1
      BY <1>t, <2>2, <2>3, <2>4 DEF Written
    <3> HIDE DEF w
    <3>2. /\ \A i \in DOMAIN Written' : Written'[i] = i
          /\ Len(Written') = Len(icap \o wfifo) + 1 /\ Len(Append(wfifo, w)) = Len(wfifo) + 1
      BY <1>t, <1>u, <3>1, Pushed
    <3> QED BY <2>2, <2>3, <3>2 DEF w
  <2> QED BY <1>t, <2>1, <2>2, <2>5 DEF StreamInOrder
<1>3. CASE Drain
  <2>1. /\ wfifo # <<>> /\ icap' = Append(icap, Head(wfifo)) /\ wfifo' = Tail(wfifo)
        /\ UNCHANGED <<pc, inProgress, requested, remaining>>
    BY <1>3 DEF Drain
  <2>2. Written' = Written /\ Len(wfifo') = Len(wfifo) - 1 /\ Len(wfifo) \in Nat
    <3>1. Append(icap, Head(wfifo)) \o Tail(wfifo) = icap \o wfifo
      BY <1>t, <2>1, Moved
    <3>2. Len(Tail(wfifo)) = Len(wfifo) - 1 /\ Len(wfifo) \in Nat
      BY <1>t, <2>1, Moved
    <3> QED BY <2>1, <3>1, <3>2 DEF Written
  <2> QED BY <1>t, <2>1, <2>2 DEF StreamInOrder
<1>4. CASE SwReset \/ FifoClear
  <2>1. ~inProgress' /\ wfifo' = <<>> /\ icap' = icap
    BY <1>t, <1>4 DEF SwReset, FifoClear, At, CallOwns, Between
  <2>2. Written' = icap \o <<>> /\ Len(wfifo') = 0
    BY <2>1 DEF Written
  <2>3. \A i \in DOMAIN (icap \o <<>>) : (icap \o <<>>)[i] = i
    BY <1>t, <1>u, Dropped
  <2>4. \A i \in DOMAIN Written' : Written'[i] = i
    BY <2>2, <2>3
  <2> QED BY <1>t, <2>1, <2>2, <2>4 DEF StreamInOrder
<1>5. CASE Accept
  <2>1. /\ icap' = <<>> /\ wfifo' = wfifo /\ requested' = Len(sendBuffer')
        /\ remaining' = requested' /\ cr = {} /\ pc = "write" /\ hpc = "none"
    BY <1>5 DEF Accept, At, Busy
  <2>2. wfifo = <<>>
    BY <1>t, <2>1 DEF FifoOwned
  <2>3. Len(sendBuffer') \in Nat
    BY <1>5, BuffersType DEF Accept, TransferInv
  <2>4. Written' = <<>>
    BY <2>1, <2>2 DEF Written
  <2>5. Len(wfifo') = 0 /\ Len(Written') = 0 /\ DOMAIN Written' = {}
    BY <2>1, <2>2, <2>4
  <2>6. requested' - remaining' = 0
    BY <2>1, <2>3
  <2> QED BY <1>t, <2>5, <2>6 DEF StreamInOrder
<1>6. CASE CfgInitialize \/ GetConfigReg \/ PollEos \/ Initialised \/ CallReset \/ Reset
           \/ FlushFifo \/ Flushed \/ SelfTest \/ TestEnables \/ TestRestores \/ IntrEnable
           \/ IntrDisable \/ Write \/ ReadFrame \/ WriteFrame
  BY <1>1, <1>6 DEF CfgInitialize, GetConfigReg, PollEos, Initialised, CallReset, Reset,
                    FlushFifo, Flushed, SelfTest, TestEnables, TestRestores, IntrEnable,
                    IntrDisable, Write, ReadFrame, WriteFrame, At
<1>7. CASE ReadVacancy \/ StartConfig \/ WriteMore \/ WriteDone \/ ClearStatus \/ GlobalEnable
           \/ Refuse
  BY <1>1, <1>7 DEF ReadVacancy, StartConfig, WriteMore, WriteDone, ClearStatus, GlobalEnable,
                    Refuse, WriteWaited, At
<1>8. CASE AwaitDevice \/ ReadRefused \/ StartReadBack \/ PollOccupancy \/ FifoRead \/ ReadDone
  BY <1>1, <1>8 DEF AwaitDevice, ReadRefused, StartReadBack, PollOccupancy, FifoRead, ReadDone,
                    At
<1>9. CASE Interrupt \/ HandlerVacancy \/ HandlerStart \/ HandlerDisable \/ StatusHandler
           \/ HandlerReturns \/ HalfEmpty \/ Drained \/ ReadBack \/ ReadEnds \/ StartedUp
  BY <1>1, <1>9 DEF Interrupt, HandlerVacancy, HandlerStart, HandlerDisable, StatusHandler,
                    HandlerReturns, HalfEmpty, Drained, ReadBack, ReadEnds, StartedUp
<1> QED BY <1>2, <1>3, <1>4, <1>5, <1>6, <1>7, <1>8, <1>9, Steps

LEMMA OwnedStep ==
  ASSUME TransferInv, Next
  PROVE  FifoOwned'
<1>t. /\ FifoOwned /\ CallOwns /\ cr \in {{}, {"READ"}, {"WRITE"}}
      /\ wfifo \in Seq(Nat) /\ Len(wfifo) \in Nat /\ remaining \in Nat /\ vacancy \in Nat
      /\ hvacancy \in Nat /\ FifoDepth \in Nat
  BY DepthAssumption DEF TransferInv, TypeOK, WordsOK, CountsOK, BitsOK
<1>1. CASE CfgInitialize \/ GetConfigReg \/ PollEos \/ Initialised \/ CallReset \/ Reset
           \/ FlushFifo
  BY <1>t, <1>1 DEF CfgInitialize, GetConfigReg, PollEos, Initialised, CallReset, Reset,
                    FlushFifo, FifoOwned, CallOwns, Between, At
<1>2. CASE SwReset \/ FifoClear \/ Flushed
  <2>1. ~inProgress /\ hpc = "none" /\ remaining = 0 /\ ~gie
    BY <1>t, <1>2 DEF SwReset, FifoClear, Flushed, At, CallOwns, Between, FifoOwned
  <2>2. /\ wfifo' = <<>> /\ pc' \in {"flushed", "idle"} /\ ~gie'
        /\ UNCHANGED <<handler, driver, vacancy>>
    BY <1>t, <1>2, <2>1 DEF SwReset, FifoClear, Flushed, At, CallOwns
  <2> QED BY <2>1, <2>2 DEF FifoOwned
<1>3. CASE SelfTest \/ TestEnables \/ TestRestores \/ IntrEnable \/ IntrDisable
  <2>1. /\ ~inProgress /\ hpc = "none" /\ ~gie
        /\ pc \in {"idle", "self_test", "tested"} /\ pc' \in {"idle", "self_test", "tested"}
    BY <1>t, <1>3 DEF SelfTest, TestEnables, TestRestores, IntrEnable, IntrDisable, FifoOwned,
                      CallOwns, Between, At
  <2>2. UNCHANGED <<vacancy, handler, inProgress, remaining, device>>
    BY <1>3 DEF SelfTest, TestEnables, TestRestores, IntrEnable, IntrDisable
  <2>3. ~gie'
    BY <1>t, <1>3, <2>1 DEF SelfTest, TestEnables, TestRestores, IntrEnable, IntrDisable, At,
                            CallOwns
  <2> QED BY <1>t, <2>1, <2>2, <2>3 DEF FifoOwned
<1>4. CASE Write \/ ReadFrame \/ WriteFrame
  BY <1>t, <1>4 DEF Write, ReadFrame, WriteFrame, FifoOwned, At
<1>5. CASE Accept
  BY <1>t, <1>5 DEF Accept, FifoOwned, At, Busy
<1>6. CASE ReadVacancy \/ StartConfig
  BY <1>t, <1>6 DEF ReadVacancy, StartConfig, FifoOwned, At
<1>7. CASE Fill
  <2>1. /\ vacancy # 0 /\ vacancy' = vacancy - 1 /\ pc = "fill" /\ hpc = "none"
        /\ UNCHANGED <<pc, handler, inProgress, intr, cr>>
    BY <1>7 DEF Fill, At
  <2>2. Len(wfifo') = Len(wfifo) + 1
    BY <1>t, <1>7 DEF Fill, FifoWrite
  <2> QED BY <1>t, <2>1, <2>2 DEF FifoOwned
<1>8. CASE WriteMore
  BY <1>t, <1>8 DEF WriteMore, WriteWaited, FifoOwned, CallOwns, At
<1>9. CASE WriteDone
  <2>1. pc' \in {"failed", "idle", "busy", "initialised", "write"}
    BY <1>9, Returns DEF WriteDone, TransferInv
  <2> QED BY <1>t, <1>9, <2>1 DEF WriteDone, WriteWaited, FifoOwned, At
<1>10. CASE ClearStatus
  BY <1>t, <1>10 DEF ClearStatus, FifoOwned, At
<1>11. CASE GlobalEnable
  <2>1. pc' \in {"failed", "idle", "busy", "initialised", "write"}
    BY <1>11, Returns DEF GlobalEnable, TransferInv
  <2> QED BY <1>t, <1>11, <2>1 DEF GlobalEnable, FifoOwned, At
<1>12. CASE Refuse
  <2>1. pc' \in {"failed", "idle", "busy", "initialised", "write"}
    BY <1>12, Returns DEF Refuse, TransferInv
  <2> QED BY <1>t, <1>12, <2>1 DEF Refuse, FifoOwned, At
<1>13. CASE AwaitDevice \/ PollOccupancy \/ FifoRead
  BY <1>t, <1>13 DEF AwaitDevice, PollOccupancy, FifoRead, FifoOwned, At
<1>14. CASE StartReadBack
  BY <1>t, <1>14 DEF StartReadBack, FifoOwned, At, Busy
<1>15. CASE ReadRefused \/ ReadDone
  <2>1. pc' \in {"eos", "failed", "write", "idle"}
    BY <1>15, Returns DEF ReadRefused, ReadDone, TransferInv
  <2>2. /\ hpc = "none" /\ UNCHANGED <<vacancy, handler, intr, device, remaining>>
        /\ \/ pc = "read" /\ UNCHANGED inProgress
           \/ pc = "reading" /\ ~inProgress' /\ remaining = 0
    BY <1>15 DEF ReadRefused, ReadDone, At
  <2> QED BY <1>t, <2>1, <2>2 DEF FifoOwned
<1>16. CASE Interrupt \/ HandlerVacancy
  BY <1>t, <1>16 DEF Interrupt, HandlerVacancy, FifoOwned
<1>17. CASE HandlerFill
  <2>1. /\ hvacancy # 0 /\ hvacancy' = hvacancy - 1 /\ hpc = "fill"
        /\ UNCHANGED <<thread, hpc, inProgress, intr, cr>>
    BY <1>17 DEF HandlerFill
  <2>2. Len(wfifo') = Len(wfifo) + 1
    BY <1>t, <1>17 DEF HandlerFill, FifoWrite
  <2> QED BY <1>t, <2>1, <2>2 DEF FifoOwned
<1>18. CASE HandlerStart \/ HandlerDisable \/ StatusHandler \/ HandlerReturns
  BY <1>t, <1>18 DEF HandlerStart, HandlerDisable, StatusHandler, HandlerReturns, FifoOwned
<1>19. CASE Drain
  <2>1. /\ wfifo # <<>> /\ wfifo' = Tail(wfifo) /\ cr = {"WRITE"}
        /\ UNCHANGED <<thread, handler, driver, intr, cr>>
    BY <1>t, <1>19 DEF Drain
  <2>2. Len(wfifo') = Len(wfifo) - 1
    BY <1>t, <2>1
  <2> QED BY <1>t, <2>1, <2>2 DEF FifoOwned
<1>20. CASE HalfEmpty \/ Drained \/ ReadBack \/ ReadEnds \/ StartedUp
  BY <1>t, <1>20 DEF HalfEmpty, Drained, ReadBack, ReadEnds, StartedUp, FifoOwned, CallOwns
<1> QED
  BY <1>1, <1>2, <1>3, <1>4, <1>5, <1>6, <1>7, <1>8, <1>9, <1>10, <1>11, <1>12, <1>13, <1>14,
     <1>15, <1>16, <1>17, <1>18, <1>19, <1>20, Steps
------------------------------------------------------------------------------
(* What a call may rely on.                                                 *)

LEMMA WriteGoes ==
  ASSUME NEW ok \in BOOLEAN, WriteReturns(ok)
  PROVE  /\ pc' \in {"failed", "idle", "busy", "initialised", "write"}
         /\ pc' = "initialised" => ok /\ task = "desync" /\ task' = "desync"
         /\ ~ok => pc' \in {"failed", "idle"}
         /\ task' \in {"none", task, "frame", "pad", "park", "end_write"}
<1>1. \A t \in DOMAIN FollowedBy : FollowedBy[t] \in {"frame", "pad", "park", "end_write"}
  BY DEF FollowedBy
<1>2. task' \in {"none", task, "frame", "pad", "park", "end_write"}
  BY <1>1 DEF WriteReturns
<1>3. "desync" \notin DOMAIN FollowedBy
  BY DEF FollowedBy
<1>4. CASE ok = FALSE
  <2>1. pc' = (IF Initialising THEN "failed" ELSE "idle")
    BY <1>4 DEF WriteReturns
  <2> QED BY <1>2, <1>4, <2>1
<1>5. CASE ok = TRUE
  <2>1. pc' = CASE Reads -> "busy"
                [] task = "desync" -> "initialised"
                [] task \in DOMAIN FollowedBy -> "write"
                [] OTHER -> "idle"
    BY <1>5 DEF WriteReturns
  <2>2. pc' \in {"idle", "busy", "initialised", "write"}
    BY <2>1
  <2>3. pc' = "initialised" => task = "desync"
    BY <2>1 DEF Reads
  <2>4. task = "desync" => task' = "desync"
    BY <1>3, <1>5 DEF WriteReturns
  <2> QED BY <1>2, <1>5, <2>2, <2>3, <2>4
<1> QED BY <1>4, <1>5

LEMMA OwnsInCall ==
  ASSUME TransferInv, InDeviceWrite
  PROVE  CallOwns'
<1>t. FifoOwned /\ CallOwns /\ cr \in {{}, {"READ"}, {"WRITE"}} /\ called \in Nat
  BY DEF TransferInv, TypeOK, BitsOK, CountsOK
<1>1. CASE Accept
  BY <1>t, <1>1 DEF Accept, CallOwns, Between, At, Initialising, Midway, Busy
<1>2. CASE ReadVacancy \/ StartConfig
  BY <1>t, <1>2 DEF ReadVacancy, StartConfig, CallOwns, Between, At, Initialising, Midway
<1>3. CASE Fill
  BY <1>t, <1>3 DEF Fill, FifoWrite, CallOwns, Between, At, Initialising, Midway
<1>4. CASE WriteMore
  BY <1>t, <1>4 DEF WriteMore, WriteWaited, CallOwns, Between, At, Initialising, Midway
<1>5. CASE ClearStatus
  BY <1>t, <1>5 DEF ClearStatus, CallOwns, Between, At, Initialising, Midway
<1>6. CASE WriteDone
  <2>1. /\ pc = "wait" /\ hpc = "none" /\ cr = {} /\ ~inProgress' /\ WriteReturns(TRUE)
        /\ UNCHANGED <<handler, polled, reading, cr, deviceFamily, saved, called>>
    BY <1>t, <1>6 DEF WriteDone, WriteWaited, At, CallOwns
  <2> QED BY <1>t, <2>1, WriteGoes DEF CallOwns, Between, Initialising
<1>7. CASE GlobalEnable
  <2>1. /\ pc = "enable" /\ hpc = "none" /\ cr = {} /\ inProgress /\ WriteReturns(TRUE)
        /\ UNCHANGED <<handler, inProgress, polled, reading, cr, deviceFamily, saved, called>>
    BY <1>t, <1>7 DEF GlobalEnable, At, FifoOwned
  <2>2. ~polled /\ ~Initialising /\ called = 0
    BY <1>t, <2>1 DEF CallOwns, Between
  <2> QED BY <1>t, <2>1, <2>2, WriteGoes DEF CallOwns, Between, Initialising
<1>8. CASE Refuse
  <2>1. /\ pc = "write" /\ hpc = "none" /\ WriteReturns(FALSE)
        /\ UNCHANGED <<handler, inProgress, polled, reading, cr, deviceFamily, saved, called>>
    BY <1>8 DEF Refuse, At
  <2> QED BY <1>t, <2>1, WriteGoes DEF CallOwns, Between, Initialising
<1> QED BY <1>1, <1>2, <1>3, <1>4, <1>5, <1>6, <1>7, <1>8 DEF InDeviceWrite

LEMMA OwnsInRead ==
  ASSUME TransferInv,
         AwaitDevice \/ ReadRefused \/ StartReadBack \/ PollOccupancy \/ FifoRead \/ ReadDone
  PROVE  CallOwns'
<1>t. /\ FifoOwned /\ CallOwns /\ cr \in {{}, {"READ"}, {"WRITE"}} /\ called \in Nat
      /\ occupancy \in Nat /\ rfifo \in Seq({"valid", "void"}) /\ Len(rfifo) \in Nat
  BY DEF TransferInv, TypeOK, BitsOK, CountsOK, WordsOK
<1>1. CASE AwaitDevice
  BY <1>t, <1>1 DEF AwaitDevice, CallOwns, Between, At, Initialising, Midway, Busy
<1>2. CASE StartReadBack
  BY <1>t, <1>2 DEF StartReadBack, CallOwns, Between, At, Initialising, Midway, Busy
<1>3. CASE PollOccupancy
  BY <1>t, <1>3 DEF PollOccupancy, CallOwns, Between, At, Initialising, Midway
<1>4. CASE FifoRead
  <2>1. /\ occupancy # 0 /\ occupancy' = occupancy - 1 /\ rfifo' = Tail(rfifo)
        /\ pc = "reading"
        /\ UNCHANGED <<thread, handler, inProgress, polled, device, deviceFamily, saved, called>>
    BY <1>4 DEF FifoRead, At
  <2>2. Len(rfifo') = Len(rfifo) - 1
    BY <1>t, <2>1 DEF CallOwns
  <2> QED BY <1>t, <2>1, <2>2 DEF CallOwns, Between, Initialising, Midway
<1>5. CASE ReadRefused \/ ReadDone
  <2>1. /\ hpc = "none" /\ UNCHANGED <<handler, polled, device, deviceFamily, saved, called>>
        /\ cr # {"READ"}
        /\ \/ /\ pc = "read" /\ UNCHANGED inProgress
              /\ pc' = "write" => task' = "desync"
           \/ pc = "reading" /\ ~inProgress' /\ cr = {}
        /\ task' = "read_frame" => task = "read_frame"
        /\ pc' \in {"eos", "failed", "write", "idle"}
        /\ pc' = "eos" => task' = "idcode"
        /\ task' \in {"dummy_id", "idcode", "desync"} => Initialising
    BY <1>t, <1>5 DEF ReadRefused, ReadDone, ReadReturns, At, CallOwns, Initialising
  <2> QED BY <1>t, <2>1 DEF CallOwns, Between, Initialising, Midway
<1> QED BY <1>1, <1>2, <1>3, <1>4, <1>5

LEMMA OwnsElsewhere ==
  ASSUME TransferInv,
         CfgInitialize \/ GetConfigReg \/ PollEos \/ Initialised \/ CallReset \/ Reset
         \/ SwReset \/ Write \/ ReadFrame \/ WriteFrame \/ IntrEnable \/ IntrDisable
         \/ SelfTest \/ TestEnables \/ TestRestores \/ FlushFifo \/ FifoClear \/ Flushed
  PROVE  CallOwns'
<1>t. FifoOwned /\ CallOwns /\ cr \in {{}, {"READ"}, {"WRITE"}} /\ called \in Nat
  BY DEF TransferInv, TypeOK, BitsOK, CountsOK
<1>1. CASE CfgInitialize \/ GetConfigReg \/ PollEos
  BY <1>t, <1>1 DEF CfgInitialize, GetConfigReg, PollEos, CallOwns, Between, At, Initialising,
                    Midway
<1>2. CASE Initialised \/ CallReset
  BY <1>t, <1>2 DEF Initialised, CallReset, CallOwns, Between, At, Initialising, Midway
<1>3. CASE Reset \/ FlushFifo
  BY <1>t, <1>3 DEF Reset, FlushFifo, CallOwns, Between, At, Initialising, Midway
<1>4. CASE SwReset \/ FifoClear \/ Flushed
  BY <1>t, <1>4 DEF SwReset, FifoClear, Flushed, CallOwns, Between, At, Initialising, Midway
<1>5. CASE Write \/ ReadFrame \/ WriteFrame
  BY <1>t, <1>5 DEF Write, ReadFrame, WriteFrame, CallOwns, Between, At, Initialising, Midway
<1>6. CASE IntrEnable \/ IntrDisable \/ TestEnables \/ TestRestores
  BY <1>t, <1>6 DEF IntrEnable, IntrDisable, TestEnables, TestRestores, CallOwns, Between, At,
                    Initialising, Midway
<1>7. CASE SelfTest
  <2>1. ~gie
    BY <1>t, <1>7 DEF SelfTest, FifoOwned
  <2>2. "GIE" \notin saved'
    BY <1>7, <2>1 DEF SelfTest
  <2> QED BY <1>t, <1>7, <2>2 DEF SelfTest, CallOwns, Between, At, Initialising, Midway
<1> QED BY <1>1, <1>2, <1>3, <1>4, <1>5, <1>6, <1>7

LEMMA OwnsInBackground ==
  ASSUME TransferInv, Handler \/ Device
  PROVE  CallOwns'
<1>t. /\ FifoOwned /\ CallOwns /\ cr \in {{}, {"READ"}, {"WRITE"}} /\ called \in Nat
      /\ occupancy \in Nat /\ rfifo \in Seq({"valid", "void"}) /\ Len(rfifo) \in Nat
  BY DEF TransferInv, TypeOK, BitsOK, CountsOK, WordsOK
<1>1. CASE Interrupt \/ HandlerVacancy \/ HandlerReturns
  BY <1>t, <1>1 DEF Interrupt, HandlerVacancy, HandlerReturns, CallOwns, Initialising, Midway
<1>2. CASE HandlerFill
  BY <1>t, <1>2 DEF HandlerFill, FifoWrite, FifoOwned, CallOwns, Between, Initialising, Midway
<1>3. CASE HandlerStart
  BY <1>t, <1>3 DEF HandlerStart, FifoOwned, CallOwns, Initialising, Midway
<1>4. CASE HandlerDisable \/ StatusHandler
  BY <1>t, <1>4 DEF HandlerDisable, StatusHandler, FifoOwned, CallOwns, Initialising, Midway
<1>5. CASE HalfEmpty \/ Drain \/ Drained \/ ReadEnds \/ StartedUp
  <2>1. UNCHANGED <<thread, handler, driver, reading, deviceFamily, saved, called>>
    BY <1>5 DEF HalfEmpty, Drain, Drained, ReadEnds, StartedUp
  <2>2. cr' \in {{}, cr} /\ (wfifo = <<>> => wfifo' = <<>>)
    BY <1>5 DEF HalfEmpty, Drain, Drained, ReadEnds, StartedUp
  <2> QED BY <1>t, <2>1, <2>2 DEF CallOwns, Initialising, Midway
<1>6. CASE ReadBack
  <2>1. Len(rfifo') = Len(rfifo) + 1
    BY <1>t, <1>6 DEF ReadBack
  <2> QED BY <1>t, <1>6, <2>1 DEF ReadBack, CallOwns, Initialising, Midway
<1> QED BY <1>1, <1>2, <1>3, <1>4, <1>5, <1>6 DEF Handler, Device
------------------------------------------------------------------------------
(* The transfer, without the port.                                          *)

LEMMA TransferStep ==
  ASSUME TransferInv, [Next]_vars
  PROVE  TransferInv'
<1>1. CASE Next
  <2>1. TypeOK /\ StreamInOrder /\ FifoOwned /\ CallOwns
    BY DEF TransferInv
  <2>2. TypeOK'
    BY <1>1, <2>1, PlacesType, FlagsType, BitsType, CountsType, WordsType DEF TypeOK
  <2>3. StreamInOrder' /\ FifoOwned'
    BY <1>1, StreamStep, OwnedStep
  <2>4. CallOwns'
    BY <1>1, Steps, OwnsInCall, OwnsInRead, OwnsElsewhere, OwnsInBackground
    DEF Next, InDriver, Client
  <2> QED BY <2>2, <2>3, <2>4 DEF TransferInv
<1>2. CASE UNCHANGED vars
  <2>1. PlacesOK' /\ FlagsOK' /\ BitsOK' /\ CountsOK' /\ WordsOK'
    BY <1>2 DEF TransferInv, TypeOK, vars, PlacesOK, FlagsOK, BitsOK, CountsOK, WordsOK
  <2>2. StreamInOrder' /\ FifoOwned' /\ CallOwns'
    BY <1>2 DEF TransferInv, vars, StreamInOrder, Written, FifoOwned, CallOwns, Initialising, Midway
  <2> QED BY <2>1, <2>2 DEF TransferInv, TypeOK
<1> QED BY <1>1, <1>2
------------------------------------------------------------------------------
(* The part of a call that is sent, and where it has brought the port.     *)

LEMMA WholeKept ==
  ASSUME Whole, UNCHANGED <<port, icap, wfifo, remaining, sendBuffer>>
  PROVE  Whole'
<1>1. InDesync(Len(icap)) => InDesync(Len(icap))'
  BY DEF InDesync, Awaits
<1>2. InCapture(Len(icap)) => InCapture(Len(icap))'
  BY DEF InCapture, Awaits
<1> QED BY <1>1, <1>2 DEF Whole

LEMMA FollowsKept ==
  ASSUME PortFollows, Part' = Part, Whole => Whole',
         UNCHANGED <<port, icap, sendBuffer, size, frame, deviceFamily, deviceIdCode>>
  PROVE  PortFollows'
<1>1. CASE Part = "write_frame"
  <2>1. InWriteHeader(Len(icap))'
    BY <1>1 DEF PortFollows, InWriteHeader, Awaits
  <2> QED BY <1>1, <2>1 DEF PortFollows
<1>2. CASE Part \in {"frame", "pad"}
  <2>1. \A n : InData(n) => InData(n)'
    BY DEF InData, Loaded
  <2> QED BY <1>2, <2>1 DEF PortFollows
<1>3. CASE Part = "park"
  <2>1. InPark(Len(icap))'
    BY <1>3 DEF PortFollows, InPark, Awaits, Loaded
  <2> QED BY <1>3, <2>1 DEF PortFollows
<1>4. CASE Part = "read_frame"
  <2>1. InReadHeader(Len(icap))'
    BY <1>4 DEF PortFollows, InReadHeader, Awaits
  <2> QED BY <1>4, <2>1 DEF PortFollows
<1>5. CASE Part \in {"dummy_id", "idcode", "get_reg"}
  <2>1. InConfigRead(Len(icap))'
    BY <1>5 DEF PortFollows, InConfigRead
  <2> QED BY <1>5, <2>1 DEF PortFollows
<1>6. CASE Part = "answer"
  BY <1>6 DEF PortFollows
<1>7. CASE Part \notin {"write_frame", "frame", "pad", "park", "read_frame", "dummy_id", "idcode",
                        "get_reg", "answer"}
  <2>1. Whole'
    BY <1>7 DEF PortFollows
  <2> QED BY <1>7, <2>1 DEF PortFollows
<1> QED BY <1>1, <1>2, <1>3, <1>4, <1>5, <1>6, <1>7

\* Which part it is, by the place of the call.
LEMMA Parts ==
  /\ pc \in InWrite \cup {"busy", "read"} /\ (Reads \/ task \in DOMAIN FollowedBy) => Part = task
  /\ pc \in InWrite /\ ~Reads /\ task \notin DOMAIN FollowedBy => Part = "whole"
  /\ pc = "write" => Part = CASE task = "frame" -> "write_frame" [] task = "pad" -> "frame"
                              [] task = "park" -> "pad" [] task = "end_write" -> "park"
                              [] OTHER -> "whole"
  /\ pc = "reading" => Part = "answer"
  /\ pc \notin InWrite \cup {"busy", "read", "write", "reading"} => Part = "whole"
BY DEF Part, InWrite

LEMMA NotParts ==
  Part = "whole" => (PortFollows <=> Whole)
BY DEF PortFollows

\* Nothing is left of the buffer: the call may go on.
LEMMA WholeDone ==
  ASSUME Whole, Len(icap) = Len(sendBuffer)
  PROVE  port.owed = 0 /\ port.answer = 0
<1>1. CASE sendBuffer = CommandDesync /\ InDesync(Len(icap))
  <2>1. Len(sendBuffer) = 4
    BY <1>1, DesyncWords
  <2>2. InDesync(4)
    BY <1>1, <2>1, Zenon
  <2> QED BY <2>2 DEF InDesync
<1>2. CASE sendBuffer = CommandCapture /\ InCapture(Len(icap))
  <2>1. Len(sendBuffer) = 7
    BY <1>2, CaptureWords
  <2>2. InCapture(7)
    BY <1>2, <2>1, Zenon
  <2> QED BY <2>2 DEF InCapture
<1>3. CASE port.owed = 0 /\ port.answer = 0
  BY <1>3
<1> QED BY <1>1, <1>2, <1>3, Zenon DEF Whole

LEMMA PartDone ==
  ASSUME TypeOK, PortFollows, Len(icap) = Len(sendBuffer)
  PROVE  /\ Part = "write_frame" => InData(0)
         /\ Part = "frame" => InData(WordsPerFrame + 0)
         /\ Part = "pad" => InPark(0)
         /\ Part = "park" => /\ port.owed = 0 /\ port.answer = 0
                             /\ Loaded(2 * WordsPerFrame)
         /\ Part = "read_frame" /\ deviceFamily # "none" =>
              port.owed = 0 /\ port.answer = TotalWords(deviceFamily)
         /\ Part \in {"dummy_id", "idcode", "get_reg"} => port.owed = 0 /\ port.answer = 1
         /\ Part = "whole" => port.owed = 0 /\ port.answer = 0
<1>0. WordsPerFrame \in Nat /\ WordsPerFrame > 0
  BY FrameAssumption, SMT
<1>1. ASSUME Part = "write_frame" PROVE InData(0)
  <2>1. sendBuffer = WriteFrameHeader(deviceIdCode, frame) /\ InWriteHeader(Len(icap))
    BY <1>1 DEF PortFollows
  <2>2. frame \in Addresses /\ deviceIdCode \in Int
    BY IdAssumption DEF TypeOK, PlacesOK
  <2>3. PICK n \in {16, 17} : n = Len(sendBuffer)
    BY <2>1, <2>2, WriteHeaderWords, Zenon
  <2>4. InWriteHeader(n)
    BY <2>1, <2>3, Zenon
  <2>5. /\ port.answer = 0 /\ port.synced /\ port.owed = 2 * WordsPerFrame
        /\ port.matches = (deviceIdCode = IdCode) /\ port.far = SetupFar(frame)
        /\ port.writing /\ port.register = Register.FDRI /\ port.loaded = 0
    BY <2>3, <2>4 DEF InWriteHeader
  <2> QED BY <1>0, <2>5 DEF InData, Loaded
<1>2. ASSUME Part = "frame" PROVE InData(WordsPerFrame + 0)
  <2>1. Len(icap) = WordsPerFrame /\ InData(Len(icap))
    BY <1>2, DataWords DEF PortFollows
  <2> QED BY <1>0, <2>1
<1>3. ASSUME Part \in {"pad"} PROVE InPark(0)
  <2>1. Len(icap) = WordsPerFrame /\ InData(WordsPerFrame + Len(icap))
    BY <1>3, DataWords DEF PortFollows
  <2>2. InData(2 * WordsPerFrame)
    <3>1. WordsPerFrame + WordsPerFrame = 2 * WordsPerFrame
      BY <1>0
    <3> QED BY <2>1, <3>1, Zenon
  <2>3. 2 * WordsPerFrame - 2 * WordsPerFrame = 0
    BY <1>0
  <2> QED BY <2>2, <2>3 DEF InData, InPark
<1>4. ASSUME Part = "park"
      PROVE  port.owed = 0 /\ port.answer = 0 /\ Loaded(2 * WordsPerFrame)
  <2>1. sendBuffer = ParkFar /\ InPark(Len(icap))
    BY <1>4 DEF PortFollows
  <2>2. Len(sendBuffer) = 10
    BY <2>1, ParkWords
  <2>3. InPark(10)
    BY <2>1, <2>2, Zenon
  <2> QED BY <2>3 DEF InPark
<1>5. ASSUME Part = "read_frame", deviceFamily # "none"
      PROVE  port.owed = 0 /\ port.answer = TotalWords(deviceFamily)
  <2>1. sendBuffer = ReadFrameHeader(deviceFamily, frame) /\ InReadHeader(Len(icap))
    BY <1>5 DEF PortFollows
  <2>2. frame \in Addresses /\ deviceFamily \in Families
    BY <1>5 DEF TypeOK, PlacesOK
  <2>3. NumNoops[deviceFamily] \in Nat
    BY <2>2, FamilyType
  <2>4. PICK n \in Nat : n = 23 + NumNoops[deviceFamily]
    BY <2>3
  <2>5. InReadHeader(n)
    <3>1. Len(sendBuffer) = 23 + NumNoops[deviceFamily]
      BY <2>1, <2>2, ReadHeaderWords, Zenon
    <3> QED BY <2>1, <2>4, <3>1, Zenon
  <2>6. n >= 23
    BY <2>3, <2>4
  <2> QED BY <2>5, <2>6 DEF InReadHeader
<1>6. ASSUME Part \in {"dummy_id", "idcode", "get_reg"} PROVE port.owed = 0 /\ port.answer = 1
  <2>1. sendBuffer = ConfigRegRead(Register.IDCODE) /\ InConfigRead(Len(icap))
    BY <1>6 DEF PortFollows
  <2>2. Len(sendBuffer) = 7
    BY <2>1, ConfigReadWords
  <2>3. InConfigRead(7)
    BY <2>1, <2>2, Zenon
  <2> QED BY <2>3 DEF InConfigRead
<1>7. ASSUME Part = "whole" PROVE port.owed = 0 /\ port.answer = 0
  <2>1. Whole
    BY <1>7, NotParts
  <2> QED BY <2>1, WholeDone
<1> QED BY <1>1, <1>2, <1>3, <1>4, <1>5, <1>6, <1>7

(* The word that leaves the FIFO is the next one of the buffer.             *)
LEMMA DrainsNext ==
  ASSUME TransferInv, PortInv, wfifo # <<>>, ~torn
  PROVE  /\ Head(wfifo) = Len(icap) + 1 /\ Len(icap) < Len(sendBuffer)
         /\ Head(wfifo) \in DOMAIN sendBuffer /\ pc # "reading"
<1>t. /\ wfifo \in Seq(Nat) /\ icap \in Seq(Nat) /\ remaining \in Nat
      /\ sendBuffer \in Seq(Int)
  BY DEF TransferInv, TypeOK, WordsOK, CountsOK
<1>1. pc # "reading"
  BY DEF TransferInv, FifoOwned
<1>2. Len(icap \o wfifo) = Len(sendBuffer) - remaining
  BY <1>1 DEF PortInv, WordsAccounted, Written
<1>3. Len(icap) + 1 \in 1..Len(icap \o wfifo) /\ (icap \o wfifo)[Len(icap) + 1] = Head(wfifo)
  BY <1>t
<1>4. Head(wfifo) = Len(icap) + 1
  <2>1. \A i \in DOMAIN (icap \o wfifo) : (icap \o wfifo)[i] = i
    BY DEF TransferInv, StreamInOrder, Written
  <2>2. Len(icap) + 1 \in DOMAIN (icap \o wfifo)
    BY <1>t, <1>3
  <2>3. (icap \o wfifo)[Len(icap) + 1] = Len(icap) + 1
    BY <2>1, <2>2, Zenon
  <2> QED BY <1>3, <2>3, Zenon
<1>5. Len(icap) < Len(sendBuffer)
  BY <1>t, <1>2, <1>3
<1> QED BY <1>t, <1>1, <1>4, <1>5

(* The port stays a port.                                                   *)
LEMMA PortType ==
  ASSUME TransferInv, PortInv, Next
  PROVE  port' \in Ports
<1>t. /\ port \in Ports /\ sendBuffer \in Seq(Int) /\ TypeOK
  BY DEF TransferInv, PortInv, PortOK, TypeOK, WordsOK
<1>1. CASE UNCHANGED port
  BY <1>t, <1>1
<1>2. CASE Drain
  <2>1. CASE torn
    <3>1. port' = Closed
      BY <1>2, <2>1 DEF Drain
    <3> QED BY <3>1 DEF Closed, Ports
  <2>2. CASE ~torn
    <3>1. /\ wfifo # <<>> /\ port' = Take(port, sendBuffer[Head(wfifo)])
      BY <1>2, <2>2 DEF Drain
    <3>2. Head(wfifo) \in DOMAIN sendBuffer
      BY <1>t, <2>2, <3>1, DrainsNext
    <3>3. sendBuffer[Head(wfifo)] \in Int
      BY <1>t, <3>2
    <3> QED BY <1>t, <3>1, <3>3, TakeType
  <2> QED BY <2>1, <2>2
<1>3. CASE ReadBack
  <2>1. PICK a \in Nat : a = IF port.answer > 0 THEN port.answer - 1 ELSE 0
    <3>1. port.answer \in Nat
      BY <1>t DEF Ports
    <3> QED BY <3>1
  <2>2. port' = [port EXCEPT !.answer = a]
    BY <1>3, <2>1 DEF ReadBack
  <2> QED BY <1>t, <2>2 DEF Ports
<1>4. CASE \/ CfgInitialize \/ GetConfigReg \/ PollEos \/ Initialised \/ CallReset \/ Reset
           \/ SwReset \/ FlushFifo \/ FifoClear \/ Flushed
  <2>1. UNCHANGED port
    BY <1>4 DEF CfgInitialize, GetConfigReg, PollEos, Initialised, CallReset, Reset, SwReset,
                FlushFifo, FifoClear, Flushed
  <2> QED BY <1>1, <2>1
<1>5. CASE \/ SelfTest \/ TestEnables \/ TestRestores \/ IntrEnable \/ IntrDisable \/ Write
           \/ ReadFrame \/ WriteFrame \/ Accept \/ ReadVacancy \/ Fill \/ StartConfig
  <2>1. UNCHANGED port
    BY <1>5 DEF SelfTest, TestEnables, TestRestores, IntrEnable, IntrDisable, Write, ReadFrame,
                WriteFrame, Accept, ReadVacancy, Fill, StartConfig
  <2> QED BY <1>1, <2>1
<1>6. CASE \/ WriteMore \/ WriteDone \/ ClearStatus \/ GlobalEnable \/ Refuse \/ AwaitDevice
           \/ ReadRefused \/ StartReadBack \/ PollOccupancy \/ FifoRead \/ ReadDone
  <2>1. UNCHANGED port
    BY <1>6 DEF WriteMore, WriteDone, ClearStatus, GlobalEnable, Refuse, AwaitDevice,
                ReadRefused, StartReadBack, PollOccupancy, FifoRead, ReadDone
  <2> QED BY <1>1, <2>1
<1>7. CASE \/ Interrupt \/ HandlerVacancy \/ HandlerFill \/ HandlerStart \/ HandlerDisable
           \/ StatusHandler \/ HandlerReturns \/ HalfEmpty \/ Drained \/ ReadEnds \/ StartedUp
  <2>1. UNCHANGED port
    BY <1>7 DEF Interrupt, HandlerVacancy, HandlerFill, HandlerStart, HandlerDisable,
                StatusHandler, HandlerReturns, HalfEmpty, Drained, ReadEnds, StartedUp
  <2> QED BY <1>1, <2>1
<1> QED BY <1>2, <1>3, <1>4, <1>5, <1>6, <1>7, Steps

LEMMA ReadsKept ==
  ASSUME TransferInv, PortInv, Next, pc' \in {"busy", "read", "reading"}
  PROVE  Reads'
<1>1. CASE UNCHANGED <<pc, task>>
  BY <1>1 DEF PortInv, PortOK, Reads
<1>2. CASE WriteDone \/ GlobalEnable \/ Refuse
  <2>1. PICK ok \in BOOLEAN : WriteReturns(ok)
    BY <1>2 DEF WriteDone, GlobalEnable, Refuse
  <2>2. ok /\ Reads /\ task' = task
    BY <2>1 DEF WriteReturns, Reads, FollowedBy
  <2> QED BY <2>2 DEF Reads
<1>3. CASE AwaitDevice \/ StartReadBack
  BY <1>3 DEF AwaitDevice, StartReadBack, At, PortInv, PortOK, Reads
<1>4. CASE ReadRefused \/ ReadDone
  BY <1>4 DEF ReadRefused, ReadDone, ReadReturns
<1>5. CASE \/ CfgInitialize \/ GetConfigReg \/ PollEos \/ Initialised \/ CallReset \/ Reset
           \/ SwReset \/ FlushFifo \/ FifoClear \/ Flushed \/ SelfTest \/ TestEnables \/ TestRestores
           \/ Write \/ ReadFrame \/ WriteFrame
  BY <1>5 DEF CfgInitialize, GetConfigReg, PollEos, Initialised, CallReset, Reset, SwReset,
              FlushFifo, FifoClear, Flushed, SelfTest, TestEnables, TestRestores, Write, ReadFrame,
              WriteFrame, At
<1>6. CASE \/ Accept \/ ReadVacancy \/ StartConfig \/ WriteMore \/ ClearStatus
  BY <1>6 DEF Accept, ReadVacancy, StartConfig, WriteMore, ClearStatus
<1>7. CASE \/ IntrEnable \/ IntrDisable \/ Fill \/ PollOccupancy \/ FifoRead
  BY <1>1, <1>7 DEF IntrEnable, IntrDisable, Fill, PollOccupancy, FifoRead
<1>8. CASE Handler \/ Device
  BY <1>1, <1>8 DEF Handler, Device, Interrupt, HandlerVacancy, HandlerFill, HandlerStart,
                    HandlerDisable, StatusHandler, HandlerReturns, HalfEmpty, Drain, Drained,
                    ReadBack, ReadEnds, StartedUp
<1> QED BY <1>2, <1>3, <1>4, <1>5, <1>6, <1>7, <1>8, Steps DEF Handler, Device

(* No word is unaccounted for.                                              *)
LEMMA AccountedStep ==
  ASSUME TransferInv, PortInv, Next
  PROVE  WordsAccounted'
<1>t. /\ wfifo \in Seq(Nat) /\ icap \in Seq(Nat) /\ sendBuffer \in Seq(Int)
      /\ rfifo \in Seq({"valid", "void"})
      /\ remaining \in Nat /\ requested \in Nat /\ size \in Nat /\ occupancy \in Nat
      /\ torn \in BOOLEAN /\ cr \in {{}, {"READ"}, {"WRITE"}} /\ inProgress \in BOOLEAN
      /\ WordsAccounted /\ StreamInOrder /\ FifoOwned /\ CallOwns /\ TypeOK
  BY DEF TransferInv, TypeOK, WordsOK, CountsOK, FlagsOK, BitsOK, PortInv
<1>1. CASE /\ UNCHANGED <<icap, wfifo, sendBuffer, remaining, size, rfifo>>
           /\ torn => torn'
           /\ pc = "reading" <=> pc' = "reading"
  BY <1>t, <1>1 DEF WordsAccounted, Written
<1>2. CASE SwReset \/ FifoClear
  <2>1. /\ pc # "reading" /\ pc' # "reading" /\ rfifo' = <<>> /\ wfifo' = <<>>
        /\ ~torn' => ~torn /\ wfifo = <<>>
        /\ UNCHANGED <<icap, sendBuffer, remaining>>
    BY <1>t, <1>2 DEF SwReset, FifoClear, At
  <2> QED BY <1>t, <2>1 DEF WordsAccounted, Written
<1>3. CASE Accept
  <2>1. /\ pc = "write" /\ pc' = "vacancy" /\ hpc = "none" /\ cr = {} /\ icap' = <<>>
        /\ requested' = Len(sendBuffer') /\ remaining' = requested'
        /\ UNCHANGED <<wfifo, rfifo>> /\ sendBuffer' \in Buffers
    BY <1>3 DEF Accept, At, Busy
  <2>2. wfifo = <<>>
    BY <1>t, <2>1 DEF FifoOwned
  <2>3. rfifo = <<>>
    BY <1>t, <2>1 DEF WordsAccounted
  <2>4. sendBuffer' \in Seq(Int)
    BY <1>t, <2>1, BuffersType
  <2>5. Len(<<>> \o <<>>) = Len(sendBuffer') - Len(sendBuffer')
    BY <2>4
  <2> QED BY <2>1, <2>2, <2>3, <2>5 DEF WordsAccounted, Written
<1>4. CASE Fill \/ HandlerFill
  <2>1. /\ pc # "reading" /\ UNCHANGED <<pc, icap, sendBuffer, torn, rfifo, size>>
        /\ wfifo' = Append(wfifo, requested - remaining + 1) /\ remaining' = remaining - 1
    BY <1>t, <1>4 DEF Fill, HandlerFill, FifoWrite, At, FifoOwned
  <2>2. PICK n : n = requested - remaining + 1
    OBVIOUS
  <2>3. n \in Int
    BY <1>t, <2>2
  <2>4. icap \o Append(wfifo, n) = Append(icap \o wfifo, n)
    BY <1>t, <2>3
  <2>5. Len(icap \o Append(wfifo, n)) = Len(icap \o wfifo) + 1
    BY <1>t, <2>3, <2>4
  <2>6. torn \/ Len(icap' \o wfifo') = Len(sendBuffer') - remaining'
    <3>1. icap' \o wfifo' = icap \o Append(wfifo, n) /\ sendBuffer' = sendBuffer
      BY <2>1, <2>2, Zenon
    <3>2. torn \/ Len(icap \o wfifo) = Len(sendBuffer) - remaining
      BY <1>t, <2>1 DEF WordsAccounted, Written
    <3>3. torn \/ Len(icap \o wfifo) + 1 = Len(sendBuffer) - (remaining - 1)
      BY <1>t, <3>2
    <3>4. remaining' = remaining - 1
      BY <2>1
    <3> QED BY <2>5, <3>1, <3>3, <3>4, Zenon
  <2> QED BY <1>t, <2>1, <2>6 DEF WordsAccounted, Written
<1>5. CASE Drain
  <2>1. /\ pc # "reading" /\ wfifo # <<>>
        /\ UNCHANGED <<pc, sendBuffer, torn, rfifo, size, remaining>>
        /\ icap' = Append(icap, Head(wfifo)) /\ wfifo' = Tail(wfifo)
    BY <1>t, <1>5 DEF Drain, FifoOwned
  <2>2. icap' \o wfifo' = icap \o wfifo
    BY <1>t, <2>1, Moved
  <2> QED BY <1>t, <2>1, <2>2 DEF WordsAccounted, Written
<1>6. CASE ReadRefused
  <2>1. /\ pc = "read" /\ pc' # "reading" /\ torn' /\ UNCHANGED rfifo
    BY <1>6 DEF ReadRefused, ReadReturns, At
  <2> QED BY <1>t, <2>1 DEF WordsAccounted
<1>7. CASE StartReadBack
  <2>1. /\ pc = "read" /\ pc' = "reading" /\ hpc = "none" /\ cr = {} /\ ~inProgress
        /\ UNCHANGED <<rfifo, icap, sendBuffer, torn>> /\ remaining' = size'
    BY <1>7 DEF StartReadBack, At, Busy
  <2>2. size' \in Nat
    BY <1>7, <1>t, FamilyType DEF StartReadBack, At, CallOwns, TypeOK, PlacesOK
  <2>3. wfifo = <<>> /\ remaining = 0 /\ rfifo = <<>>
    BY <1>t, <2>1 DEF FifoOwned, WordsAccounted
  <2>4. Len(icap \o <<>>) = Len(icap) /\ Len(sendBuffer) - 0 = Len(sendBuffer)
    BY <1>t
  <2>5. size' + Len(<<>>) = size'
    <3>1. Len(<<>>) = 0
      OBVIOUS
    <3>2. PICK n \in Nat : n = size'
      BY <2>2
    <3>3. n + 0 = n
      OBVIOUS
    <3> QED BY <3>1, <3>2, <3>3, Zenon
  <2> QED BY <1>t, <2>1, <2>3, <2>4, <2>5 DEF WordsAccounted, Written
<1>8. CASE FifoRead
  <2>1. /\ pc = "reading" /\ remaining > 0 /\ occupancy # 0
        /\ UNCHANGED <<pc, size, icap, sendBuffer, torn>>
        /\ remaining' = remaining - 1 /\ rfifo' = Tail(rfifo)
    BY <1>8 DEF FifoRead, At
  <2>2. occupancy <= Len(rfifo)
    BY <1>t, <2>1 DEF CallOwns
  <2>3. Len(Tail(rfifo)) = Len(rfifo) - 1
    BY <1>t, <2>1, <2>2
  <2>4. remaining = size + Len(rfifo) /\ (torn \/ Len(icap) = Len(sendBuffer))
    BY <1>t, <2>1 DEF WordsAccounted
  <2>5. remaining - 1 = size + (Len(rfifo) - 1)
    BY <1>t, <2>4
  <2>6. remaining' = size' + Len(rfifo')
    BY <2>1, <2>3, <2>5
  <2> QED BY <2>1, <2>4, <2>6 DEF WordsAccounted
<1>9. CASE ReadDone
  <2>1. /\ pc = "reading" /\ pc' # "reading" /\ remaining = 0
        /\ UNCHANGED <<rfifo, icap, wfifo, sendBuffer, remaining>>
        /\ torn => torn'
    BY <1>9 DEF ReadDone, At, ReadReturns
  <2>2. wfifo = <<>>
    BY <1>t, <2>1 DEF FifoOwned
  <2>3. rfifo = <<>>
    BY <1>t, <2>1 DEF WordsAccounted
  <2>4. Len(icap \o <<>>) = Len(icap) /\ Len(sendBuffer) - 0 = Len(sendBuffer)
    BY <1>t
  <2> QED BY <1>t, <2>1, <2>2, <2>3, <2>4 DEF WordsAccounted, Written
<1>10. CASE ReadBack
  <2>1. /\ pc = "reading" /\ size > 0 /\ size' = size - 1
        /\ UNCHANGED <<pc, icap, sendBuffer, torn, remaining>>
        /\ \E word \in {"valid", "void"} : rfifo' = Append(rfifo, word)
    BY <1>t, <1>10 DEF ReadBack, CallOwns
  <2> QED BY <1>t, <2>1 DEF WordsAccounted
<1>11. CASE \/ CfgInitialize \/ GetConfigReg \/ PollEos \/ Initialised \/ CallReset \/ Reset
            \/ FlushFifo \/ Flushed \/ SelfTest \/ TestEnables \/ TestRestores \/ Write
            \/ ReadFrame \/ WriteFrame
  <2>1. /\ UNCHANGED <<icap, wfifo, sendBuffer, remaining, size, rfifo, torn>>
        /\ pc # "reading" /\ pc' # "reading"
    BY <1>11 DEF CfgInitialize, GetConfigReg, PollEos, Initialised, CallReset, Reset, FlushFifo,
                 Flushed, SelfTest, TestEnables, TestRestores, Write, ReadFrame, WriteFrame, At
  <2> QED BY <1>1, <2>1
<1>12. CASE ReadVacancy \/ StartConfig \/ WriteMore \/ ClearStatus \/ AwaitDevice
  <2>1. /\ UNCHANGED <<icap, wfifo, sendBuffer, remaining, size, rfifo, torn>>
        /\ pc # "reading" /\ pc' # "reading"
    BY <1>12 DEF ReadVacancy, StartConfig, WriteMore, WriteWaited, ClearStatus, AwaitDevice, At
  <2> QED BY <1>1, <2>1
<1>13. CASE WriteDone \/ GlobalEnable \/ Refuse
  <2>1. /\ UNCHANGED <<icap, wfifo, sendBuffer, remaining, size, rfifo>> /\ (torn => torn')
        /\ pc # "reading" /\ pc' # "reading"
    BY <1>t, <1>13, Returns
    DEF WriteDone, WriteWaited, GlobalEnable, Refuse, WriteReturns, At
  <2> QED BY <1>1, <2>1
<1>14. CASE IntrEnable \/ IntrDisable \/ PollOccupancy
  <2>1. UNCHANGED <<icap, wfifo, sendBuffer, remaining, size, rfifo, torn, pc>>
    BY <1>14 DEF IntrEnable, IntrDisable, PollOccupancy
  <2> QED BY <1>1, <2>1
<1>15. CASE \/ Interrupt \/ HandlerVacancy \/ HandlerStart \/ HandlerDisable
            \/ StatusHandler \/ HandlerReturns \/ HalfEmpty \/ Drained \/ ReadEnds \/ StartedUp
  <2>1. UNCHANGED <<icap, wfifo, sendBuffer, remaining, size, rfifo, torn, pc>>
    BY <1>15 DEF Interrupt, HandlerVacancy, HandlerStart, HandlerDisable, StatusHandler,
                 HandlerReturns, HalfEmpty, Drained, ReadEnds, StartedUp
  <2> QED BY <1>1, <2>1
<1> QED BY <1>2, <1>3, <1>4, <1>5, <1>6, <1>7, <1>8, <1>9, <1>10, <1>11, <1>12, <1>13, <1>14,
           <1>15, Steps

(* When nothing is left to be sent and nothing is in the FIFO, the port has *)
(* taken the whole buffer.                                                  *)
LEMMA AllTaken ==
  ASSUME TransferInv, PortInv, ~torn, wfifo = <<>>, remaining = 0
  PROVE  Len(icap) = Len(sendBuffer)
<1>1. icap \in Seq(Nat) /\ sendBuffer \in Seq(Int)
  BY DEF TransferInv, TypeOK, WordsOK
<1>2. CASE pc = "reading"
  BY <1>2 DEF PortInv, WordsAccounted
<1>3. CASE pc # "reading"
  <2>1. Len(icap \o <<>>) = Len(sendBuffer) - 0
    BY <1>3 DEF PortInv, WordsAccounted, Written
  <2> QED BY <1>1, <2>1
<1> QED BY <1>2, <1>3

(* Where the port is when DeviceWrite accepts the next buffer.              *)
LEMMA AcceptedAt ==
  ASSUME TransferInv, PortInv, Accept, ~torn
  PROVE  /\ task = "frame" => InData(0)
         /\ task = "pad" => InData(WordsPerFrame + 0)
         /\ task = "park" => InPark(0)
         /\ task \notin {"frame", "pad", "park"} => port.owed = 0 /\ port.answer = 0
         /\ task = "end_write" => Loaded(2 * WordsPerFrame)
         /\ wfifo = <<>>
<1>1. pc = "write" /\ hpc = "none" /\ cr = {} /\ ~inProgress
  BY DEF Accept, At, Busy
<1>2. wfifo = <<>> /\ remaining = 0
  BY <1>1 DEF TransferInv, FifoOwned
<1>3. Len(icap) = Len(sendBuffer) /\ PortFollows /\ TypeOK
  BY <1>2, AllTaken DEF PortInv, TransferInv
<1>4. /\ task = "frame" => Part = "write_frame"
      /\ task = "pad" => Part = "frame"
      /\ task = "park" => Part = "pad"
      /\ task = "end_write" => Part = "park"
      /\ task \notin {"frame", "pad", "park", "end_write"} => Part = "whole"
  BY <1>1, Parts
<1>5. /\ Part = "write_frame" => InData(0)
      /\ Part = "frame" => InData(WordsPerFrame + 0)
      /\ Part = "pad" => InPark(0)
      /\ Part = "park" => port.owed = 0 /\ port.answer = 0 /\ Loaded(2 * WordsPerFrame)
      /\ Part = "whole" => port.owed = 0 /\ port.answer = 0
  BY <1>3, PartDone
<1> QED BY <1>2, <1>4, <1>5

(* What is sent last closes the port.                                       *)
LEMMA ClosesKept ==
  ASSUME PortCloses, UNCHANGED <<port, icap, sendBuffer, deviceIdCode, frame>>,
         pc' = "write" \/ (pc # "write" /\ task' = task)
           \/ task' \notin {"end_read", "end_write", "command_desync"}
  PROVE  PortCloses'
<1>1. InDesync(Len(icap)) => InDesync(Len(icap))'
  BY DEF InDesync, Awaits
<1>2. Loaded(2 * WordsPerFrame) => Loaded(2 * WordsPerFrame)'
  BY DEF Loaded
<1> QED BY <1>1, <1>2 DEF PortCloses

LEMMA ClosesStep ==
  ASSUME TransferInv, PortInv, Next, ~torn, ~torn'
  PROVE  PortCloses'
<1>t. PortCloses /\ TypeOK /\ CallOwns /\ FifoOwned /\ port \in Ports
  BY DEF PortInv, PortOK, TransferInv
<1>1. CASE /\ UNCHANGED <<port, icap, sendBuffer, deviceIdCode>>
           /\ \/ pc' = "write"
              \/ pc # "write" /\ task' = task /\ frame' = frame
              \/ task' \notin {"end_read", "end_write", "command_desync"}
  <2>1. CASE pc' = "write" \/ task' \notin {"end_read", "end_write", "command_desync"}
    BY <2>1 DEF PortCloses
  <2>2. CASE pc # "write" /\ task' = task /\ frame' = frame
    BY <1>t, <1>1, <2>2, ClosesKept
  <2> QED BY <1>1, <2>1, <2>2
<1>2. CASE Accept
  <2>1. /\ icap' = <<>> /\ UNCHANGED <<port, task, deviceIdCode, frame>> /\ sendBuffer' \in Buffers
    BY <1>2 DEF Accept
  <2>2. CASE task \in {"end_read", "end_write", "command_desync"}
    <3>1. sendBuffer' = CommandDesync
      BY <2>1, <2>2 DEF Buffers
    <3>2. port.owed = 0 /\ port.answer = 0 /\ (task = "end_write" => Loaded(2 * WordsPerFrame))
      BY <1>2, <2>2, AcceptedAt
    <3>3. InDesync(0)'
      BY <2>1, <3>2 DEF InDesync
    <3>4. Len(icap') = 0
      BY <2>1
    <3>5. Loaded(2 * WordsPerFrame) => Loaded(2 * WordsPerFrame)'
      BY <2>1 DEF Loaded
    <3> QED BY <2>1, <3>1, <3>2, <3>3, <3>4, <3>5, Zenon DEF PortCloses
  <2> QED BY <2>1, <2>2 DEF PortCloses
<1>3. CASE Drain
  <2>1. /\ wfifo # <<>> /\ icap' = Append(icap, Head(wfifo))
        /\ port' = Take(port, sendBuffer[Head(wfifo)])
        /\ UNCHANGED <<pc, task, sendBuffer, deviceIdCode, frame>>
    BY <1>3 DEF Drain
  <2>2. Head(wfifo) = Len(icap) + 1 /\ Len(icap) < Len(sendBuffer)
    BY <2>1, DrainsNext
  <2>3. icap \in Seq(Nat) /\ wfifo \in Seq(Nat)
    BY <1>t DEF TypeOK, WordsOK
  <2>4. Len(icap') = Len(icap) + 1
    BY <2>1, <2>3
  <2>5. CASE pc # "write" /\ task \in {"end_read", "end_write", "command_desync"}
    <3>1. sendBuffer = CommandDesync /\ InDesync(Len(icap))
      BY <1>t, <2>5 DEF PortCloses
    <3>2. PICK n \in 0..3 : n = Len(icap)
      <4>1. Len(sendBuffer) = 4
        BY <3>1, DesyncWords, Zenon
      <4>2. Len(icap) < 4
        BY <2>2, <4>1, Zenon
      <4>3. PICK m \in Nat : m = Len(icap)
        BY <2>3
      <4>4. m < 4
        BY <4>2, <4>3, Zenon
      <4>5. m \in 0..3
        BY <4>4
      <4> QED BY <4>3, <4>5, Zenon
    <3>3. port' = Take(port, sendBuffer[n + 1]) /\ InDesync(n)
      BY <2>1, <2>2, <3>1, <3>2, Zenon
    <3>4. InDesync(n + 1)' /\ port'.at = port.at /\ port'.loaded = port.loaded
      BY <1>t, <3>1, <3>3, DesyncStep
    <3>6. n + 1 = Len(icap')
      BY <2>4, <3>2, Zenon
    <3>7. InDesync(Len(icap))'
      BY <3>4, <3>6, Zenon
    <3>5. Loaded(2 * WordsPerFrame) => Loaded(2 * WordsPerFrame)'
      BY <2>1, <3>4 DEF Loaded
    <3> QED BY <1>t, <2>1, <3>1, <3>7, <3>5 DEF PortCloses
  <2> QED BY <2>1, <2>5 DEF PortCloses
<1>4. CASE ReadBack
  <2>1. pc = "reading" /\ UNCHANGED <<pc, task>>
    BY <1>t, <1>4 DEF ReadBack, CallOwns, TypeOK, BitsOK
  <2>2. task' \notin {"end_read", "end_write", "command_desync"}
    BY <2>1 DEF PortInv, PortOK, Reads
  <2> QED BY <2>2 DEF PortCloses
<1>5. CASE WriteDone \/ GlobalEnable \/ Refuse
  <2>1. PICK ok \in BOOLEAN :
          WriteReturns(ok) /\ (ok => pc # "write") /\ (ok \/ task' = "none")
    BY <1>5 DEF WriteDone, WriteWaited, GlobalEnable, Refuse, At, WriteReturns
  <2>2. UNCHANGED <<port, icap, sendBuffer, deviceIdCode, frame>>
    BY <1>5 DEF WriteDone, GlobalEnable, Refuse
  <2>3. ok => pc' = "write" \/ task' = task
    BY <2>1 DEF WriteReturns
  <2> QED BY <1>1, <2>1, <2>2, <2>3
<1>6. CASE ReadRefused \/ ReadDone
  <2>1. /\ UNCHANGED <<port, icap, sendBuffer, deviceIdCode, frame>> /\ pc # "write"
    BY <1>6 DEF ReadRefused, ReadDone, At
  <2>2. pc' = "write" \/ task' \in {task, "idcode", "desync"}
    BY <1>6 DEF ReadRefused, ReadDone, ReadReturns
  <2> QED BY <1>1, <2>1, <2>2
<1>7. CASE \/ CfgInitialize \/ GetConfigReg \/ CallReset \/ Write \/ ReadFrame \/ WriteFrame
  <2>1. UNCHANGED <<port, icap, sendBuffer, deviceIdCode>>
    BY <1>7 DEF CfgInitialize, GetConfigReg, CallReset, Write, ReadFrame, WriteFrame
  <2>2. pc' = "write" \/ task' \notin {"end_read", "end_write", "command_desync"}
    BY <1>7 DEF CfgInitialize, GetConfigReg, CallReset, Write, ReadFrame, WriteFrame
  <2> QED BY <1>1, <2>1, <2>2
<1>8. CASE \/ PollEos \/ Initialised \/ Reset \/ SwReset \/ FlushFifo \/ FifoClear \/ Flushed
           \/ SelfTest \/ TestEnables \/ TestRestores \/ IntrEnable \/ IntrDisable
  <2>1. UNCHANGED <<port, icap, sendBuffer, deviceIdCode, task, frame>> /\ pc # "write"
    BY <1>8 DEF PollEos, Initialised, Reset, SwReset, FlushFifo, FifoClear, Flushed,
                SelfTest, TestEnables, TestRestores, IntrEnable, IntrDisable, At
  <2> QED BY <1>1, <2>1
<1>9. CASE \/ ReadVacancy \/ Fill \/ StartConfig \/ WriteMore \/ ClearStatus \/ AwaitDevice
           \/ StartReadBack \/ PollOccupancy \/ FifoRead
  <2>1. UNCHANGED <<port, icap, sendBuffer, deviceIdCode, task, frame>> /\ pc # "write"
    BY <1>9 DEF ReadVacancy, Fill, StartConfig, WriteMore, WriteWaited, ClearStatus,
                AwaitDevice, StartReadBack, PollOccupancy, FifoRead, At
  <2> QED BY <1>1, <2>1
<1>10. CASE \/ Interrupt \/ HandlerVacancy \/ HandlerFill \/ HandlerStart \/ HandlerDisable
            \/ StatusHandler \/ HandlerReturns \/ HalfEmpty \/ Drained \/ ReadEnds \/ StartedUp
  <2>1. UNCHANGED <<port, icap, sendBuffer, deviceIdCode, task, frame, pc>>
    BY <1>10 DEF Interrupt, HandlerVacancy, HandlerFill, HandlerStart, HandlerDisable,
                StatusHandler, HandlerReturns, HalfEmpty, Drained, ReadEnds, StartedUp
  <2> QED BY <1>1, <2>1
<1> QED BY <1>2, <1>3, <1>4, <1>5, <1>6, <1>7, <1>8, <1>9, <1>10, Steps

(* Each word the port takes brings it one step further in the buffer.       *)
LEMMA DrainFollows ==
  ASSUME TransferInv, PortInv, Drain, ~torn
  PROVE  PortFollows'
<1>t. /\ PortFollows /\ TypeOK /\ CallOwns /\ port \in Ports
      /\ icap \in Seq(Nat) /\ wfifo \in Seq(Nat)
      /\ frame \in Addresses /\ deviceIdCode \in Int
  BY IdAssumption DEF PortInv, PortOK, TransferInv, TypeOK, WordsOK, PlacesOK
<1>1. /\ wfifo # <<>> /\ icap' = Append(icap, Head(wfifo))
      /\ port' = Take(port, sendBuffer[Head(wfifo)])
      /\ UNCHANGED <<pc, task, sendBuffer, deviceIdCode, deviceFamily, frame>>
  BY DEF Drain
<1>2. PICK n \in Nat : n = Len(icap)
  BY <1>t
<1>3. Head(wfifo) = n + 1 /\ n < Len(sendBuffer) /\ pc # "reading"
  BY <1>1, <1>2, DrainsNext
<1>4. port' = Take(port, sendBuffer[n + 1])
  BY <1>1, <1>3, Zenon
<1>5. Len(icap') = n + 1
  BY <1>1, <1>2, <1>t
<1>6. Part' = Part
  BY <1>1 DEF Part, Reads, InWrite
<1>7. WordsPerFrame \in Nat
  BY FrameAssumption, Zenon
<1>8. CASE Part = "write_frame"
  <2>1. sendBuffer = WriteFrameHeader(deviceIdCode, frame) /\ InWriteHeader(n)
    BY <1>t, <1>2, <1>8 DEF PortFollows
  <2>2. InWriteHeader(n + 1)'
    BY <1>t, <1>1, <1>3, <1>4, <2>1, WriteHeaderStep
  <2>3. InWriteHeader(Len(icap))'
    BY <1>5, <2>2, Zenon
  <2> QED BY <1>1, <1>6, <1>8, <2>1, <2>3 DEF PortFollows
<1>9. CASE Part = "frame"
  <2>1. sendBuffer = Frame /\ InData(n)
    BY <1>t, <1>2, <1>9 DEF PortFollows
  <2>2. n < WordsPerFrame
    BY <1>3, <2>1, DataWords, Zenon
  <2>3. n + 1 \in 1..WordsPerFrame /\ n \in 0..(2 * WordsPerFrame - 1)
    BY <1>7, <2>2
  <2>4. PICK w : w = (Frame \o Pad)[n + 1]
    OBVIOUS
  <2>5. port' = Take(port, w)
    BY <1>4, <2>1, <2>3, <2>4, DataWords, Zenon
  <2>6. InData(n + 1)'
    BY <1>t, <1>1, <2>1, <2>3, <2>4, <2>5, DataStep, Zenon
  <2>7. InData(Len(icap))'
    BY <1>5, <2>6, Zenon
  <2> QED BY <1>1, <1>6, <1>9, <2>1, <2>7 DEF PortFollows
<1>10. CASE Part = "pad"
  <2>1. sendBuffer = Pad /\ InData(WordsPerFrame + n)
    BY <1>t, <1>2, <1>10 DEF PortFollows
  <2>2. n < WordsPerFrame
    BY <1>3, <2>1, DataWords, Zenon
  <2>3. PICK m \in 0..(2 * WordsPerFrame - 1) :
          /\ m = WordsPerFrame + n /\ m + 1 = WordsPerFrame + (n + 1)
          /\ n + 1 \in 1..WordsPerFrame
    BY <1>7, <2>2
  <2>4. PICK w : w = (Frame \o Pad)[m + 1]
    OBVIOUS
  <2>5. port' = Take(port, w)
    BY <1>4, <2>1, <2>3, <2>4, DataWords, Zenon
  <2>0. InData(m)
    BY <2>1, <2>3, Zenon
  <2>6. InData(m + 1)'
    BY <1>t, <1>1, <2>0, <2>4, <2>5, DataStep, Zenon
  <2>7. InData(WordsPerFrame + Len(icap))'
    BY <1>5, <2>3, <2>6, Zenon
  <2> QED BY <1>1, <1>6, <1>10, <2>1, <2>7 DEF PortFollows
<1>11. CASE Part = "park"
  <2>1. sendBuffer = ParkFar /\ InPark(n)
    BY <1>t, <1>2, <1>11 DEF PortFollows
  <2>2. n < 10
    BY <1>3, <2>1, ParkWords, Zenon
  <2>3. n \in 0..9
    BY <2>2
  <2>6. InPark(n + 1)'
    BY <1>t, <1>1, <1>4, <2>1, <2>3, ParkStep
  <2>7. InPark(Len(icap))'
    BY <1>5, <2>6, Zenon
  <2> QED BY <1>1, <1>6, <1>11, <2>1, <2>7 DEF PortFollows
<1>12. CASE Part = "read_frame"
  <2>1. sendBuffer = ReadFrameHeader(deviceFamily, frame) /\ InReadHeader(n)
    BY <1>t, <1>2, <1>12 DEF PortFollows
  <2>2. deviceFamily \in Families
    BY <1>t, <1>12 DEF Part, CallOwns, TypeOK, PlacesOK
  <2>6. InReadHeader(n + 1)'
    BY <1>t, <1>1, <1>3, <1>4, <2>1, <2>2, ReadHeaderStep
  <2>7. InReadHeader(Len(icap))'
    BY <1>5, <2>6, Zenon
  <2> QED BY <1>1, <1>6, <1>12, <2>1, <2>7 DEF PortFollows
<1>13. CASE Part \in {"dummy_id", "idcode", "get_reg"}
  <2>1. sendBuffer = ConfigRegRead(Register.IDCODE) /\ InConfigRead(n)
    BY <1>t, <1>2, <1>13 DEF PortFollows
  <2>2. n < 7
    BY <1>3, <2>1, ConfigReadWords, Zenon
  <2>3. n \in 0..6
    BY <2>2
  <2>6. InConfigRead(n + 1)'
    BY <1>t, <1>1, <1>4, <2>1, <2>3, ConfigReadStep
  <2>7. InConfigRead(Len(icap))'
    BY <1>5, <2>6, Zenon
  <2> QED BY <1>1, <1>6, <1>13, <2>1, <2>7 DEF PortFollows
<1>14. Part # "answer"
  BY <1>3 DEF Part, Reads, FollowedBy
<1>15. CASE Part \notin {"write_frame", "frame", "pad", "park", "read_frame", "dummy_id", "idcode",
                         "get_reg", "answer"}
  <2>1. Whole
    BY <1>t, <1>15 DEF PortFollows
  <2>5. Whole'
    <3>2. CASE sendBuffer = CommandDesync /\ InDesync(n)
      <4>1. n < 4
        BY <1>3, <3>2, DesyncWords, Zenon
      <4>2. n \in 0..3
        BY <4>1
      <4>3. InDesync(n + 1)'
        BY <1>t, <1>4, <3>2, <4>2, DesyncStep
      <4>4. InDesync(Len(icap))'
        BY <1>5, <4>3, Zenon
      <4> QED BY <1>1, <3>2, <4>4 DEF Whole
    <3>3. CASE sendBuffer = CommandCapture /\ InCapture(n)
      <4>1. n < 7
        BY <1>3, <3>3, CaptureWords, Zenon
      <4>2. n \in 0..6
        BY <4>1
      <4>3. InCapture(n + 1)'
        BY <1>t, <1>4, <3>3, <4>2, CaptureStep
      <4>4. InCapture(Len(icap))'
        BY <1>5, <4>3, Zenon
      <4> QED BY <1>1, <3>3, <4>4 DEF Whole
    <3>4. CASE /\ \A i \in DOMAIN sendBuffer : sendBuffer[i] = 0
               /\ port.owed = 0 /\ port.answer = 0
      <4>1. n + 1 \in DOMAIN sendBuffer
        BY <1>1, <1>3, DrainsNext, Zenon
      <4>2. port' = Take(port, 0)
        BY <1>4, <3>4, <4>1, Zenon
      <4>3. port' = port
        BY <1>t, <3>4, <4>2, TakeOther
      <4> QED BY <1>1, <3>4, <4>3 DEF Whole
    <3> QED BY <1>1, <1>2, <2>1, <3>2, <3>3, <3>4 DEF Whole
  <2> QED BY <1>6, <1>15, <2>5 DEF PortFollows
<1> QED BY <1>8, <1>9, <1>10, <1>11, <1>12, <1>13, <1>14, <1>15

\* Nothing the port is to take changes.
LEMMA FollowsUnmoved ==
  ASSUME PortFollows, Part' = Part,
         UNCHANGED <<port, icap, wfifo, remaining, sendBuffer, size, frame, deviceFamily,
                     deviceIdCode>>
  PROVE  PortFollows'
BY WholeKept, FollowsKept

LEMMA BackgroundFollows ==
  ASSUME PortFollows,
         \/ IntrEnable \/ IntrDisable \/ PollOccupancy
         \/ Interrupt \/ HandlerVacancy \/ HandlerStart \/ HandlerDisable \/ StatusHandler
         \/ HandlerReturns \/ HalfEmpty \/ Drained \/ ReadEnds \/ StartedUp
  PROVE  PortFollows'
<1>1. UNCHANGED <<pc, task, port, icap, wfifo, remaining, sendBuffer, size, frame, deviceFamily,
                  deviceIdCode>>
  BY DEF IntrEnable, IntrDisable, PollOccupancy, Interrupt, HandlerVacancy, HandlerStart,
         HandlerDisable, StatusHandler, HandlerReturns, HalfEmpty, Drained, ReadEnds, StartedUp
<1>2. Part' = Part
  BY <1>1 DEF Part, Reads, InWrite
<1> QED BY <1>1, <1>2, FollowsUnmoved

\* Between two calls, and before the first word of one.
LEMMA BetweenFollows ==
  ASSUME TransferInv, PortFollows, ~torn',
         \/ CfgInitialize \/ GetConfigReg \/ PollEos \/ Initialised \/ CallReset \/ Reset
         \/ SwReset \/ FlushFifo \/ FifoClear \/ Flushed \/ SelfTest \/ TestEnables \/ TestRestores
         \/ Write \/ ReadFrame \/ WriteFrame
  PROVE  PortFollows'
<1>t. TypeOK /\ CallOwns
  BY DEF TransferInv
<1>1. /\ pc \notin InWrite \cup {"busy", "read", "write", "reading"}
      /\ UNCHANGED <<port, icap, remaining, sendBuffer>>
  BY DEF InWrite, CfgInitialize, GetConfigReg, PollEos, Initialised, CallReset, Reset, SwReset,
         FlushFifo, FifoClear, Flushed, SelfTest, TestEnables, TestRestores, Write, ReadFrame,
         WriteFrame, At
<1>2. UNCHANGED wfifo
  BY DEF CfgInitialize, GetConfigReg, PollEos, Initialised, CallReset, Reset, SwReset,
         FlushFifo, FifoClear, Flushed, SelfTest, TestEnables, TestRestores, Write, ReadFrame,
         WriteFrame
<1>3. /\ pc' \notin InWrite \cup {"busy", "read", "reading"}
      /\ pc' = "write" => task' \notin {"frame", "pad", "park", "end_write"}
  <2>1. CASE PollEos
    BY <1>t, <2>1 DEF PollEos, At, CallOwns, InWrite
  <2>2. CASE Write \/ ReadFrame \/ WriteFrame
    BY <2>2 DEF Write, ReadFrame, WriteFrame, InWrite
  <2>3. CASE \/ CfgInitialize \/ GetConfigReg \/ Initialised \/ CallReset \/ Reset
             \/ SwReset \/ FlushFifo \/ FifoClear \/ Flushed \/ SelfTest \/ TestEnables
             \/ TestRestores
    BY <2>3 DEF InWrite, CfgInitialize, GetConfigReg, Initialised, CallReset, Reset, SwReset,
                FlushFifo, FifoClear, Flushed, SelfTest, TestEnables, TestRestores
  <2> QED BY <2>1, <2>2, <2>3
<1>4. Part' = "whole"
  BY <1>3 DEF Part, InWrite
<1>5. Whole
  BY <1>1, Parts, NotParts
<1>6. Whole'
  BY <1>1, <1>2, <1>5, WholeKept
<1> QED BY <1>4, <1>6 DEF PortFollows

\* In DeviceWrite and when it returns the part stays the same.
LEMMA ReturnFollows ==
  ASSUME TransferInv, PortFollows, ~torn',
         WriteDone \/ GlobalEnable \/ Refuse
  PROVE  PortFollows'
<1>1. PICK ok \in BOOLEAN : /\ WriteReturns(ok)
                            /\ ok => pc \in {"wait", "enable"}
                            /\ ~ok => pc = "write"
  BY DEF WriteDone, WriteWaited, GlobalEnable, Refuse, At
<1>2. UNCHANGED <<port, icap, wfifo, remaining, sendBuffer, size, frame, deviceFamily,
                  deviceIdCode>>
  BY DEF WriteDone, GlobalEnable, Refuse
<1>3. CASE ~ok
  <2>1. /\ pc = "write" /\ pc' \in {"failed", "idle"}
        /\ task \notin {"frame", "pad", "park", "end_write"}
    BY <1>1, <1>3 DEF WriteReturns, Midway
  <2>2. Part = "whole" /\ Part' = "whole"
    BY <2>1 DEF Part, InWrite
  <2> QED BY <1>2, <2>2, FollowsUnmoved
<1>4. CASE ok /\ Reads
  <2>1. pc \in InWrite /\ pc' = "busy" /\ task' = task
    BY <1>1, <1>4 DEF WriteReturns, InWrite, Reads, FollowedBy
  <2>2. Part' = Part
    BY <1>4, <2>1 DEF Part, Reads, InWrite
  <2> QED BY <1>2, <2>2, FollowsUnmoved
<1>5. CASE ok /\ ~Reads /\ task \in DOMAIN FollowedBy
  <2>1. pc \in InWrite /\ pc' = "write" /\ task' = FollowedBy[task]
    BY <1>1, <1>5 DEF WriteReturns, InWrite, FollowedBy
  <2>2. Part = task /\ task \in {"write_frame", "frame", "pad", "park"}
    BY <1>5, <2>1, Parts DEF FollowedBy
  <2>3. Part' = task
    <3>1. task = "pad" => task' = "park"
      BY <2>1 DEF FollowedBy
    <3>2. task = "park" => task' = "end_write"
      BY <2>1 DEF FollowedBy
    <3>3. task = "write_frame" => task' = "frame"
      BY <2>1 DEF FollowedBy
    <3>4. task = "frame" => task' = "pad"
      BY <2>1 DEF FollowedBy
    <3> QED BY <2>1, <2>2, <3>1, <3>2, <3>3, <3>4 DEF Part, InWrite
  <2> QED BY <1>2, <2>2, <2>3, FollowsUnmoved
<1>6. CASE ok /\ ~Reads /\ task \notin DOMAIN FollowedBy
  <2>1. pc \in InWrite /\ pc' \in {"initialised", "idle"}
    BY <1>1, <1>6 DEF WriteReturns, InWrite
  <2>2. Part = "whole"
    BY <1>6, <2>1, Parts
  <2>3. Part' = "whole"
    BY <2>1 DEF Part, InWrite
  <2> QED BY <1>2, <2>2, <2>3, FollowsUnmoved
<1> QED BY <1>3, <1>4, <1>5, <1>6

LEMMA InWriteFollows ==
  ASSUME PortFollows, \/ ReadVacancy \/ StartConfig \/ WriteMore \/ ClearStatus \/ AwaitDevice
  PROVE  PortFollows'
<1>1. UNCHANGED <<task, port, icap, wfifo, remaining, sendBuffer, size, frame, deviceFamily,
                  deviceIdCode>>
  BY DEF ReadVacancy, StartConfig, WriteMore, ClearStatus, AwaitDevice
<1>2. \/ pc \in InWrite /\ pc' \in InWrite
      \/ pc = "busy" /\ pc' = "read"
  BY DEF ReadVacancy, StartConfig, WriteMore, WriteWaited, ClearStatus, AwaitDevice, At, InWrite
<1>3. Part' = Part
  BY <1>1, <1>2 DEF Part, Reads, InWrite
<1> QED BY <1>1, <1>3, FollowsUnmoved

LEMMA FillFollows ==
  ASSUME TransferInv, PortFollows, Fill \/ HandlerFill
  PROVE  PortFollows'
<1>1. /\ UNCHANGED <<pc, task, port, icap, sendBuffer, size, frame, deviceFamily, deviceIdCode>>
      /\ remaining # 0
  BY DEF Fill, HandlerFill, TransferInv, TypeOK, CountsOK
<1>2. Part' = Part
  BY <1>1 DEF Part, Reads, InWrite
<1>3. InDesync(Len(icap)) => InDesync(Len(icap))'
  BY <1>1 DEF InDesync, Awaits
<1>4. InCapture(Len(icap)) => InCapture(Len(icap))'
  BY <1>1 DEF InCapture, Awaits
<1>5. Whole => Whole'
  BY <1>1, <1>3, <1>4 DEF Whole
<1> QED BY <1>1, <1>2, <1>5, FollowsKept

\* What the device answers is what the driver reads.
LEMMA ReadFollows ==
  ASSUME TransferInv, PortInv, ~torn, ~torn',
         StartReadBack \/ FifoRead \/ ReadBack \/ ReadDone \/ ReadRefused
  PROVE  PortFollows'
<1>t. TypeOK /\ CallOwns /\ FifoOwned /\ PortFollows /\ port \in Ports
  BY DEF TransferInv, PortInv, PortOK
<1>1. CASE StartReadBack
  <2>1. /\ pc = "read" /\ pc' = "reading" /\ cr = {} /\ hpc = "none" /\ ~inProgress
        /\ port' = port
        /\ size' = IF task = "read_frame" THEN TotalWords(deviceFamily) ELSE 1
    BY <1>1 DEF StartReadBack, At, Busy
  <2>2. wfifo = <<>> /\ remaining = 0
    BY <1>t, <2>1 DEF FifoOwned
  <2>3. Len(icap) = Len(sendBuffer)
    BY <2>2, AllTaken
  <2>4. Reads /\ Part = task
    BY <2>1, Parts DEF PortInv, PortOK
  <2>5. task = "read_frame" => deviceFamily # "none"
    BY <1>t DEF CallOwns
  <2>6. /\ Part = "read_frame" /\ deviceFamily # "none" =>
             port.owed = 0 /\ port.answer = TotalWords(deviceFamily)
        /\ Part \in {"dummy_id", "idcode", "get_reg"} => port.owed = 0 /\ port.answer = 1
    BY <1>t, <2>3, PartDone
  <2>7. port.owed = 0 /\ port.answer = size'
    BY <2>1, <2>4, <2>5, <2>6 DEF Reads
  <2>8. Part' = "answer"
    BY <2>1 DEF Part, InWrite
  <2> QED BY <2>1, <2>7, <2>8 DEF PortFollows
<1>2. CASE FifoRead
  <2>1. pc = "reading" /\ pc' = "reading" /\ UNCHANGED <<port, size>>
    BY <1>2 DEF FifoRead, At
  <2>2. Part = "answer" /\ Part' = "answer"
    BY <2>1 DEF Part, InWrite
  <2> QED BY <1>t, <2>1, <2>2 DEF PortFollows
<1>3. CASE ReadBack
  <2>1. /\ pc = "reading" /\ pc' = "reading" /\ size > 0 /\ size' = size - 1
        /\ port' = [port EXCEPT !.answer = IF @ > 0 THEN @ - 1 ELSE 0]
    BY <1>t, <1>3 DEF ReadBack, CallOwns, TypeOK, BitsOK
  <2>2. Part = "answer" /\ Part' = "answer"
    BY <2>1 DEF Part, InWrite
  <2>3. port.owed = 0 /\ port.answer = size
    BY <1>t, <2>2 DEF PortFollows
  <2>4. port' = [port EXCEPT !.answer = size - 1]
    BY <2>1, <2>3
  <2>5. port'.owed = 0 /\ port'.answer = size - 1
    BY <1>t, <2>3, <2>4 DEF Ports
  <2> QED BY <2>1, <2>2, <2>5 DEF PortFollows
<1>4. CASE ReadDone
  <2>1. /\ pc = "reading" /\ remaining = 0 /\ UNCHANGED <<port, wfifo, remaining>>
        /\ \/ pc' \in {"eos", "failed", "idle"}
           \/ pc' = "write" /\ task' \in {"desync", "end_read"}
    BY <1>4 DEF ReadDone, ReadReturns, At
  <2>2. Part = "answer" /\ Part' = "whole"
    BY <2>1 DEF Part, InWrite
  <2>3. remaining = size + Len(rfifo) /\ size \in Nat /\ rfifo \in Seq({"valid", "void"})
    BY <1>t, <2>1 DEF PortInv, WordsAccounted, TypeOK, CountsOK, WordsOK
  <2>4. size = 0
    BY <2>1, <2>3
  <2>5. port.owed = 0 /\ port.answer = 0
    BY <1>t, <2>2, <2>4 DEF PortFollows
  <2>6. wfifo = <<>>
    BY <1>t, <2>1 DEF FifoOwned
  <2>7. Whole'
    BY <2>1, <2>5, <2>6 DEF Whole
  <2> QED BY <2>2, <2>7 DEF PortFollows
<1>5. ~ReadRefused
  BY DEF ReadRefused, ReadReturns
<1> QED BY <1>1, <1>2, <1>3, <1>4, <1>5

\* What each call sends.
LEMMA BufferSent ==
  ASSUME TypeOK, NEW b \in Buffers
  PROVE  /\ task = "write" => \A i \in DOMAIN b : b[i] = 0
         /\ task \in {"dummy_id", "idcode", "get_reg"} => b = ConfigRegRead(Register.IDCODE)
         /\ task = "capture" => b = CommandCapture
         /\ task = "read_frame" => b = ReadFrameHeader(deviceFamily, frame)
         /\ task = "write_frame" => b = WriteFrameHeader(deviceIdCode, frame)
         /\ task = "frame" => b = Frame
         /\ task = "pad" => b = Pad
         /\ task = "park" => b = ParkFar
         /\ task \in {"none", "desync", "command_desync", "end_read", "end_write", "reset"} =>
              b = CommandDesync
<1>1. ASSUME task = "write" PROVE \A i \in DOMAIN b : b[i] = 0
  <2>1. PICK words \in WriteSizes : b = [i \in 1..words |-> 0]
    BY <1>1 DEF Buffers
  <2> QED BY <2>1
<1>2. ASSUME task # "write"
      PROVE  /\ task \in {"dummy_id", "idcode", "get_reg"} => b = ConfigRegRead(Register.IDCODE)
             /\ task = "capture" => b = CommandCapture
             /\ task = "read_frame" => b = ReadFrameHeader(deviceFamily, frame)
             /\ task = "write_frame" => b = WriteFrameHeader(deviceIdCode, frame)
             /\ task = "frame" => b = Frame
             /\ task = "pad" => b = Pad
             /\ task = "park" => b = ParkFar
             /\ task \in {"none", "desync", "command_desync", "end_read", "end_write", "reset"} =>
                  b = CommandDesync
  BY <1>2 DEF Buffers
<1> QED BY <1>1, <1>2

(* A buffer that is accepted begins where the last one ended.               *)
LEMMA AcceptFollows ==
  ASSUME TransferInv, PortInv, Accept, ~torn
  PROVE  PortFollows'
<1>t. TypeOK
  BY DEF TransferInv
<1>1. /\ pc' = "vacancy" /\ icap' = <<>> /\ sendBuffer' \in Buffers
      /\ UNCHANGED <<task, port, deviceIdCode, deviceFamily, frame>>
  BY DEF Accept
<1>2. PICK b \in Buffers : b = sendBuffer'
  BY <1>1
<1>3. Len(icap') = 0
  BY <1>1
<1>4. Part' = IF task \in {"dummy_id", "idcode", "get_reg", "read_frame", "write_frame",
                           "frame", "pad", "park"}
              THEN task ELSE "whole"
  BY <1>1 DEF Part, Reads, InWrite, FollowedBy
<1>5. /\ task = "frame" => InData(0)
      /\ task = "pad" => InData(WordsPerFrame + 0)
      /\ task = "park" => InPark(0)
      /\ task \notin {"frame", "pad", "park"} => port.owed = 0 /\ port.answer = 0
  BY AcceptedAt
<1>6. CASE task = "write_frame"
  <2>1. sendBuffer' = WriteFrameHeader(deviceIdCode', frame')
    BY <1>t, <1>1, <1>2, <1>6, BufferSent
  <2>2. InWriteHeader(0)'
    BY <1>1, <1>5, <1>6 DEF InWriteHeader
  <2>3. InWriteHeader(Len(icap))'
    BY <1>3, <2>2, Zenon
  <2> QED BY <1>4, <1>6, <2>1, <2>3 DEF PortFollows
<1>7. CASE task = "read_frame"
  <2>1. sendBuffer' = ReadFrameHeader(deviceFamily', frame')
    BY <1>t, <1>1, <1>2, <1>7, BufferSent
  <2>2. InReadHeader(0)'
    BY <1>1, <1>5, <1>7 DEF InReadHeader
  <2>3. InReadHeader(Len(icap))'
    BY <1>3, <2>2, Zenon
  <2> QED BY <1>4, <1>7, <2>1, <2>3 DEF PortFollows
<1>8. CASE task \in {"dummy_id", "idcode", "get_reg"}
  <2>1. sendBuffer' = ConfigRegRead(Register.IDCODE)
    BY <1>t, <1>2, <1>8, BufferSent
  <2>2. InConfigRead(0)'
    BY <1>1, <1>5, <1>8 DEF InConfigRead
  <2>3. InConfigRead(Len(icap))'
    BY <1>3, <2>2, Zenon
  <2> QED BY <1>4, <1>8, <2>1, <2>3 DEF PortFollows
<1>9. CASE task = "frame"
  <2>1. sendBuffer' = Frame
    BY <1>t, <1>2, <1>9, BufferSent
  <2>2. InData(0)'
    BY <1>1, <1>5, <1>9 DEF InData, Loaded
  <2>3. InData(Len(icap))'
    BY <1>3, <2>2, Zenon
  <2> QED BY <1>4, <1>9, <2>1, <2>3 DEF PortFollows
<1>10. CASE task = "pad"
  <2>1. sendBuffer' = Pad
    BY <1>t, <1>2, <1>10, BufferSent
  <2>2. InData(WordsPerFrame + 0)'
    BY <1>1, <1>5, <1>10 DEF InData, Loaded
  <2>3. InData(WordsPerFrame + Len(icap))'
    BY <1>3, <2>2, Zenon
  <2> QED BY <1>4, <1>10, <2>1, <2>3 DEF PortFollows
<1>11. CASE task = "park"
  <2>1. sendBuffer' = ParkFar
    BY <1>t, <1>2, <1>11, BufferSent
  <2>2. InPark(0)'
    BY <1>1, <1>5, <1>11 DEF InPark, Loaded
  <2>3. InPark(Len(icap))'
    BY <1>3, <2>2, Zenon
  <2> QED BY <1>4, <1>11, <2>1, <2>3 DEF PortFollows
<1>12. CASE task \notin {"dummy_id", "idcode", "get_reg", "read_frame", "write_frame", "frame",
                         "pad", "park"}
  <2>1. Part' = "whole" /\ port'.owed = 0 /\ port'.answer = 0
    BY <1>1, <1>4, <1>5, <1>12
  <2>2. CASE task = "write"
    <3>1. \A i \in DOMAIN sendBuffer' : sendBuffer'[i] = 0
      BY <1>t, <1>2, <2>2, BufferSent
    <3> QED BY <2>1, <3>1 DEF PortFollows, Whole
  <2>3. CASE task = "capture"
    <3>1. sendBuffer' = CommandCapture
      BY <1>t, <1>2, <2>3, BufferSent
    <3>2. InCapture(0)'
      BY <2>1 DEF InCapture
    <3>3. InCapture(Len(icap))'
      BY <1>3, <3>2, Zenon
    <3> QED BY <2>1, <3>1, <3>3 DEF PortFollows, Whole
  <2>4. CASE task \notin {"write", "capture"}
    <3>1. sendBuffer' = CommandDesync
      BY <1>t, <1>2, <1>12, <2>4, BufferSent DEF TypeOK, PlacesOK
    <3>2. InDesync(0)'
      BY <2>1 DEF InDesync
    <3>3. InDesync(Len(icap))'
      BY <1>3, <3>2, Zenon
    <3> QED BY <2>1, <3>1, <3>3 DEF PortFollows, Whole
  <2> QED BY <2>2, <2>3, <2>4
<1> QED BY <1>6, <1>7, <1>8, <1>9, <1>10, <1>11, <1>12

(* The port follows the call through every step of the thread, of the       *)
(* handler and of the device, unless the call is torn.                      *)
LEMMA PortStep ==
  ASSUME TransferInv, PortInv, Next
  PROVE  PortInv'
<1>1. port' \in Ports /\ WordsAccounted'
  BY PortType, AccountedStep
<1>2. pc' \in {"busy", "read", "reading"} => Reads'
  BY ReadsKept
<1>3. ~torn' => ~torn
  BY Steps
  DEF CfgInitialize, GetConfigReg, PollEos, Initialised, CallReset, Reset, SwReset, FlushFifo,
      FifoClear, Flushed, SelfTest, TestEnables, TestRestores, IntrEnable, IntrDisable, Write,
      ReadFrame, WriteFrame, Accept, ReadVacancy, Fill, StartConfig, WriteMore,
      WriteDone, ClearStatus, GlobalEnable, Refuse, WriteReturns, AwaitDevice, ReadRefused,
      StartReadBack, PollOccupancy, FifoRead, ReadDone, ReadReturns, Interrupt, HandlerVacancy,
      HandlerFill, HandlerStart, HandlerDisable, StatusHandler, HandlerReturns, HalfEmpty, Drain,
      Drained, ReadBack, ReadEnds, StartedUp
<1>4. ASSUME ~torn' PROVE PortCloses'
  BY <1>3, <1>4, ClosesStep
<1>5. ASSUME ~torn' PROVE PortFollows'
  <2>1. ~torn /\ PortFollows
    BY <1>3, <1>5 DEF PortInv
  <2> QED
    BY <1>5, <2>1, Steps, BackgroundFollows, BetweenFollows, ReturnFollows, InWriteFollows,
       FillFollows, ReadFollows, AcceptFollows, DrainFollows
<1> QED BY <1>1, <1>2, <1>4, <1>5 DEF PortInv, PortOK

LEMMA PortInit == Init => PortInv
<1> SUFFICES ASSUME Init PROVE PortInv
  OBVIOUS
<1>1. PortOK
  BY DEF Init, PortOK, Closed, Ports
<1>2. WordsAccounted
  BY DEF Init, WordsAccounted, Written
<1>3. Part = "whole" /\ Whole
  BY DEF Init, Part, InWrite, Whole, Closed
<1>4. PortFollows
  BY <1>3, NotParts
<1>5. PortCloses
  BY DEF Init, PortCloses
<1> QED BY <1>1, <1>2, <1>4, <1>5 DEF PortInv
------------------------------------------------------------------------------
(* The theorems.                                                            *)

LEMMA InitInv == Init => IInv
BY TransferInit, PortInit DEF IInv

LEMMA StepInv ==
  ASSUME IInv, [Next]_vars
  PROVE  IInv'
<1>1. CASE Next
  BY <1>1, TransferStep, PortStep DEF IInv
<1>2. CASE UNCHANGED vars
  <2>1. TransferInv'
    BY <1>2, TransferStep DEF IInv
  <2>2. Part' = Part /\ Reads' = Reads
    BY <1>2 DEF vars, Part, Reads, InWrite
  <2>3. PortFollows => PortFollows'
    BY <1>2, <2>2, FollowsUnmoved DEF vars
  <2>4. PortCloses => PortCloses'
    BY <1>2, ClosesKept DEF vars
  <2>5. PortOK' /\ WordsAccounted'
    BY <1>2, <2>2 DEF IInv, PortInv, vars, PortOK, WordsAccounted, Written
  <2>6. torn' = torn
    BY <1>2 DEF vars
  <2> QED BY <2>1, <2>3, <2>4, <2>5, <2>6 DEF IInv, PortInv
<1> QED BY <1>1, <1>2

(* The inductive invariant: the types, the prefix of the buffer that port   *)
(* and FIFO hold, who owns the FIFO, and what a call may rely on where it   *)
(* is; and the port, which has been brought by the words it took to where   *)
(* the call needs it.  All this whatever the depth of the FIFO and the      *)
(* length of the buffers, and wherever the handler interrupts the thread.   *)
THEOREM Invariance == Spec => []IInv
BY InitInv, StepInv, PTL DEF Spec

(* A write is accepted only when nothing of the last one is left.           *)
THEOREM WritesAreApart == Spec => WritesDoNotOverlap
<1>1. ASSUME IInv, [Next]_vars
      PROVE  [pc = "write" /\ pc' = "vacancy" => wfifo = <<>> /\ remaining = 0]_vars
  <2> SUFFICES ASSUME Next, pc = "write", pc' = "vacancy"
               PROVE  wfifo = <<>> /\ remaining = 0
    BY <1>1
  <2>1. Accept
    <3>1. ~Refuse
      BY WriteGoes DEF Refuse
    <3> QED
      BY <3>1, Steps
      DEF CfgInitialize, GetConfigReg, PollEos, Initialised, CallReset, Reset, SwReset, FlushFifo,
          FifoClear, Flushed, SelfTest, TestEnables, TestRestores, IntrEnable, IntrDisable, Write,
          ReadFrame, WriteFrame, ReadVacancy, Fill, StartConfig, WriteMore, WriteWaited,
          WriteDone, ClearStatus, GlobalEnable, AwaitDevice, ReadRefused, StartReadBack,
          PollOccupancy, FifoRead, ReadDone, Interrupt, HandlerVacancy, HandlerFill, HandlerStart,
          HandlerDisable, StatusHandler, HandlerReturns, HalfEmpty, Drain, Drained, ReadBack,
          ReadEnds, StartedUp, At
  <2> QED BY <1>1, <2>1 DEF Accept, At, Busy, IInv, TransferInv, FifoOwned
<1> QED BY <1>1, Invariance, PTL DEF Spec, WritesDoNotOverlap

(* When DeviceWrite clears the flag, the port has taken the whole buffer.   *)
THEOREM WholeBufferWritten == Spec => SuccessMeansWritten
<1>1. ASSUME IInv, [Next]_vars
      PROVE  [pc = "wait" /\ inProgress /\ ~inProgress' => Len(icap) = requested]_vars
  <2> SUFFICES ASSUME Next, pc = "wait", inProgress, ~inProgress'
               PROVE  Len(icap) = requested
    BY <1>1
  <2>t. /\ StreamInOrder /\ FifoOwned /\ icap \in Seq(Nat) /\ requested \in Nat
        /\ cr \in {{}, {"READ"}, {"WRITE"}}
    BY <1>1 DEF IInv, TransferInv, TypeOK, WordsOK, CountsOK, BitsOK
  <2>1. ~HandlerDisable
    BY <2>t DEF HandlerDisable, FifoOwned
  <2>2. WriteDone
    BY <2>1, Steps
    DEF CfgInitialize, GetConfigReg, PollEos, Initialised, CallReset, Reset, SwReset, FlushFifo,
        FifoClear, Flushed, SelfTest, TestEnables, TestRestores, IntrEnable, IntrDisable, Write,
        ReadFrame, WriteFrame, Accept, ReadVacancy, Fill, StartConfig, WriteMore, ClearStatus,
        GlobalEnable, Refuse, AwaitDevice, ReadRefused, StartReadBack, PollOccupancy, FifoRead,
        ReadDone, Interrupt, HandlerVacancy, HandlerFill, HandlerStart, StatusHandler,
        HandlerReturns, HalfEmpty, Drain, Drained, ReadBack, ReadEnds, StartedUp, At
  <2>3. remaining = 0 /\ wfifo = <<>>
    BY <2>t, <2>2 DEF WriteDone, WriteWaited, At, FifoOwned
  <2>4. Len(icap \o wfifo) = requested
    BY <2>t, <2>3 DEF StreamInOrder, Written
  <2> QED BY <2>t, <2>3, <2>4
<1> QED BY <1>1, Invariance, PTL DEF Spec, SuccessMeansWritten

(* A transfer left to the handler is reported once, and never one that is   *)
(* still running.                                                          *)
THEOREM CallbackIsOnce == Spec => []CalledOnce
<1>1. IInv => CalledOnce
  BY DEF IInv, TransferInv, TypeOK, CountsOK, FifoOwned, CallOwns, CalledOnce
<1> QED BY <1>1, Invariance, PTL

(* In polled mode no call gives up midway, unless its client flushes or     *)
(* resets what the port has not taken.                                     *)
THEOREM PolledCallsComplete == Spec => TornByOthers
<1>1. ASSUME IInv, [Next]_vars
      PROVE  [torn' /\ ~torn => ~polled \/ pc \in {"flush", "in_reset"}]_vars
  <2> SUFFICES ASSUME Next, torn', ~torn, polled, pc \notin {"flush", "in_reset"}
               PROVE  FALSE
    BY <1>1
  <2>0. ~WriteDone
    <3> SUFFICES ASSUME WriteDone PROVE FALSE
      OBVIOUS
    <3>1. ~(remaining > 0)
      BY SMT DEF WriteDone
    <3> QED BY <3>1, Zenon DEF WriteDone, WriteReturns
  <2>1. Refuse \/ ReadRefused \/ GlobalEnable
    BY <2>0, Steps
    DEF CfgInitialize, GetConfigReg, PollEos, Initialised, CallReset, Reset, SwReset, FlushFifo,
        FifoClear, Flushed, SelfTest, TestEnables, TestRestores, IntrEnable, IntrDisable, Write,
        ReadFrame, WriteFrame, Accept, ReadVacancy, Fill, StartConfig, WriteMore, ClearStatus,
        AwaitDevice, StartReadBack, PollOccupancy, FifoRead,
        ReadDone, ReadReturns, Interrupt, HandlerVacancy, HandlerFill, HandlerStart,
        HandlerDisable, StatusHandler, HandlerReturns, HalfEmpty, Drain, Drained, ReadBack,
        ReadEnds, StartedUp, At
  <2>2. CASE Refuse
    BY <1>1, <2>2 DEF Refuse, WriteReturns, At, Busy, IInv, TransferInv, CallOwns
  <2>3. CASE ReadRefused
    BY <1>1, <2>3 DEF ReadRefused, At, Busy, IInv, TransferInv, CallOwns
  <2>4. CASE GlobalEnable
    BY <1>1, <2>4 DEF GlobalEnable, At, IInv, TransferInv, CallOwns
  <2> QED BY <2>1, <2>2, <2>3, <2>4
<1> QED BY <1>1, Invariance, PTL DEF Spec, TornByOthers

(* WriteFrame reports success only when the port has loaded the frame and   *)
(* then the pad at the address that was asked for, whatever the length of a *)
(* frame, the depth of the FIFO and the mode of each of its transfers.      *)
THEOREM FrameReported == Spec => FrameIsWritten
<1>1. ASSUME IInv, pc = "wait", task = "end_write", ~torn
      PROVE  IF deviceIdCode = IdCode
             THEN port.loaded = 2 * WordsPerFrame /\ port.at = SetupFar(frame)
             ELSE port.loaded = 0
  <2>1. Loaded(2 * WordsPerFrame)
    BY <1>1 DEF IInv, PortInv, PortCloses
  <2>2. 2 * WordsPerFrame > 0
    BY FrameAssumption, SMT
  <2> QED BY <2>1, <2>2 DEF Loaded
<1>2. IInv => [pc = "wait" /\ task = "end_write" /\ pc' = "idle" /\ ~torn =>
                 IF deviceIdCode = IdCode
                 THEN port.loaded = 2 * WordsPerFrame /\ port.at = SetupFar(frame)
                 ELSE port.loaded = 0]_vars
  BY <1>1
<1> QED BY <1>2, Invariance, PTL DEF FrameIsWritten

(* Between two calls the port waits for no word and holds no answer, and    *)
(* after a frame function or a desync it is closed.                        *)
THEOREM PortIsFreed == Spec => PortFreed
<1>1. ASSUME IInv, pc = "idle", ~inProgress, ~Busy, wfifo = <<>>, ~torn
      PROVE  /\ port.owed = 0 /\ port.answer = 0
             /\ task \in {"end_read", "end_write", "command_desync"} => ~port.synced
  <2>1. TransferInv /\ PortInv /\ TypeOK /\ PortFollows /\ PortCloses
    BY <1>1 DEF IInv, PortInv, TransferInv
  <2>2. remaining = 0
    BY <1>1, <2>1 DEF TransferInv, FifoOwned
  <2>3. Len(icap) = Len(sendBuffer)
    BY <1>1, <2>1, <2>2, AllTaken
  <2>4. Part = "whole"
    BY <1>1, Parts DEF InWrite
  <2>5. port.owed = 0 /\ port.answer = 0
    BY <2>1, <2>3, <2>4, PartDone
  <2>6. ASSUME task \in {"end_read", "end_write", "command_desync"} PROVE ~port.synced
    <3>1. sendBuffer = CommandDesync /\ InDesync(Len(icap))
      BY <1>1, <2>1, <2>6 DEF PortCloses
    <3>2. Len(sendBuffer) = 4
      BY <3>1, DesyncWords, Zenon
    <3>3. InDesync(4)
      BY <2>3, <3>1, <3>2, Zenon
    <3> QED BY <3>3 DEF InDesync
  <2> QED BY <2>5, <2>6
<1>2. IInv => (pc = "idle" /\ ~inProgress /\ ~Busy /\ wfifo = <<>> /\ ~torn =>
                 /\ port.owed = 0 /\ port.answer = 0
                 /\ task \in {"end_read", "end_write", "command_desync"} => ~port.synced)
  BY <1>1
<1> QED BY <1>2, Invariance, PolledCallsComplete, PTL DEF PortFreed
==============================================================================
