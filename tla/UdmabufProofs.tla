----------------------------- MODULE UdmabufProofs -----------------------------
(***************************************************************************)
(* The device registry for every number of devices of every kind, whatever *)
(* they ask for and in whichever order their threads run: minor numbers    *)
(* are accounted for, a device has all of its resources or none, and the   *)
(* module leaves nothing behind.                                           *)
(***************************************************************************)
EXTENDS Udmabuf, TLAPS

(* A device is made in one of three ways.                                   *)
LEMMA StepsOf ==
  ASSUME NEW d \in Device
  PROVE  /\ Kind[d] = "dt" => Steps(d) = ProbeSteps /\ ~AsChild(d) /\ ~OnBus(d)
         /\ AsChild(d) => Steps(d) = ChildSteps /\ ~OnBus(d)
         /\ OnBus(d) => Steps(d) = PlatformSteps
         /\ Kind[d] = "dt" \/ AsChild(d) \/ OnBus(d)
BY DEF Steps, OnBus, AsChild

(* Where each step stands in its sequence.                                  *)
LEMMA Indices ==
  /\ Len(ProbeSteps) = 4
  /\ ProbeSteps[1] = "minor" /\ \A i \in 1..4 : ProbeSteps[i] = "minor" <=> i = 1
  /\ ProbeSteps[2] = "device" /\ \A i \in 1..4 : ProbeSteps[i] = "device" <=> i = 2
  /\ ProbeSteps[3] = "cdev" /\ \A i \in 1..4 : ProbeSteps[i] = "cdev" <=> i = 3
  /\ ProbeSteps[4] = "setup" /\ \A i \in 1..4 : ProbeSteps[i] = "setup" <=> i = 4
  /\ Len(ChildSteps) = 6
  /\ ChildSteps[1] = "minor" /\ \A i \in 1..6 : ChildSteps[i] = "minor" <=> i = 1
  /\ ChildSteps[2] = "device" /\ \A i \in 1..6 : ChildSteps[i] = "device" <=> i = 2
  /\ ChildSteps[3] = "cdev" /\ \A i \in 1..6 : ChildSteps[i] = "cdev" <=> i = 3
  /\ ChildSteps[4] = "check" /\ \A i \in 1..6 : ChildSteps[i] = "check" <=> i = 4
  /\ ChildSteps[5] = "add" /\ \A i \in 1..6 : ChildSteps[i] = "add" <=> i = 5
  /\ ChildSteps[6] = "setup" /\ \A i \in 1..6 : ChildSteps[i] = "setup" <=> i = 6
  /\ Len(PlatformSteps) = 7
  /\ PlatformSteps[1] = "check" /\ \A i \in 1..7 : PlatformSteps[i] = "check" <=> i = 1
  /\ PlatformSteps[2] = "add" /\ \A i \in 1..7 : PlatformSteps[i] = "add" <=> i = 2
  /\ PlatformSteps[3] = "bus" /\ \A i \in 1..7 : PlatformSteps[i] = "bus" <=> i = 3
  /\ PlatformSteps[4] = "minor" /\ \A i \in 1..7 : PlatformSteps[i] = "minor" <=> i = 4
  /\ PlatformSteps[5] = "device" /\ \A i \in 1..7 : PlatformSteps[i] = "device" <=> i = 5
  /\ PlatformSteps[6] = "cdev" /\ \A i \in 1..7 : PlatformSteps[i] = "cdev" <=> i = 6
  /\ PlatformSteps[7] = "setup" /\ \A i \in 1..7 : PlatformSteps[i] = "setup" <=> i = 7
BY DEF ProbeSteps, ChildSteps, PlatformSteps

(* No step is taken twice.                                                  *)
LEMMA NoRepeat ==
  ASSUME NEW d \in Device
  PROVE  /\ Len(Steps(d)) \in Nat \ {0} /\ DOMAIN Steps(d) = 1..Len(Steps(d))
         /\ \A i, j \in 1..Len(Steps(d)) : Steps(d)[i] = Steps(d)[j] => i = j
<1>1. CASE Steps(d) = ProbeSteps
  BY <1>1, Indices DEF ProbeSteps
<1>2. CASE Steps(d) = ChildSteps
  BY <1>2, Indices DEF ChildSteps
<1>3. CASE Steps(d) = PlatformSteps
  BY <1>3, Indices DEF PlatformSteps
<1> QED BY <1>1, <1>2, <1>3, StepsOf

(* The step that follows is the next of the sequence.                       *)
LEMMA AfterIs ==
  ASSUME NEW d \in Device, NEW k \in 1..Len(Steps(d))
  PROVE  After(d, Steps(d)[k]) = IF k < Len(Steps(d)) THEN Steps(d)[k + 1]
                           ELSE IF d \in Clients THEN "search" ELSE "idle"
<1>1. \A i \in 1..Len(Steps(d)) : Steps(d)[i] = Steps(d)[k] => i = k
  BY NoRepeat
<1>2. (CHOOSE i \in 1..Len(Steps(d)) : Steps(d)[i] = Steps(d)[k]) = k
  BY <1>1
<1> QED BY <1>2 DEF After

(* Being at a step is having done those before it.                          *)
LEMMA DoneIs ==
  ASSUME NEW d \in Device, NEW k \in 1..Len(Steps(d)), pc[d] = Steps(d)[k]
  PROVE  \A p : HasDone(d, p) <=> \E i \in 1..Len(Steps(d)) : i < k /\ Steps(d)[i] = p
BY NoRepeat DEF HasDone

LEMMA AtFirst ==
  ASSUME NEW d \in Device, pc'[d] = Head(Steps(d)), UNCHANGED parent
  PROVE  /\ \E i \in DOMAIN Steps(d) : Steps(d)[i] = pc'[d]
         /\ \A p : ~HasDone(d, p)'
<1>1. Steps(d)' = Steps(d)
  BY DEF Steps, AsChild
<1>2. Head(Steps(d)) = Steps(d)[1] /\ 1 \in 1..Len(Steps(d)) /\ DOMAIN Steps(d) = 1..Len(Steps(d))
  BY NoRepeat, StepsOf DEF ProbeSteps, ChildSteps, PlatformSteps
<1>3. \A i, j \in 1..Len(Steps(d)) : i < j /\ Steps(d)[j] = Steps(d)[1] => FALSE
  BY <1>2, NoRepeat
<1> QED BY <1>1, <1>2, <1>3 DEF HasDone

LEMMA AtNext ==
  ASSUME NEW d \in Device, NEW k \in 1..Len(Steps(d)), pc[d] = Steps(d)[k],
         k < Len(Steps(d)), pc'[d] = After(d, pc[d]), UNCHANGED parent
  PROVE  /\ \E i \in DOMAIN Steps(d) : Steps(d)[i] = pc'[d]
         /\ \A p : HasDone(d, p)' <=> HasDone(d, p) \/ p = pc[d]
<1>1. Steps(d)' = Steps(d)
  BY DEF Steps, AsChild
<1>2. pc'[d] = Steps(d)[k + 1] /\ k + 1 \in 1..Len(Steps(d))
  BY AfterIs, NoRepeat
<1>3. \A p : HasDone(d, p) <=> \E i \in 1..Len(Steps(d)) : i < k /\ Steps(d)[i] = p
  BY DoneIs
<1>4. \A p : HasDone(d, p)' <=> \E i \in 1..Len(Steps(d)) : i < k + 1 /\ Steps(d)[i] = p
  BY <1>1, <1>2, NoRepeat DEF HasDone
<1>5. \A i \in 1..Len(Steps(d)) : i < k + 1 <=> i < k \/ i = k
  OBVIOUS
<1> QED BY <1>2, <1>3, <1>4, <1>5, NoRepeat

(* The last step is setup, and comes when all the others are done.          *)
LEMMA AtLast ==
  ASSUME NEW d \in Device, \E i \in DOMAIN Steps(d) : Steps(d)[i] = pc[d]
  PROVE  /\ pc[d] = "setup" =>
              /\ HasDone(d, "minor") /\ HasDone(d, "device")
              /\ (HasDone(d, "bus") <=> OnBus(d)) /\ (HasDone(d, "add") <=> Kind[d] # "dt")
              /\ After(d, pc[d]) = IF d \in Clients THEN "search" ELSE "idle"
         /\ pc[d] # "setup" => \E k \in 1..Len(Steps(d)) : k < Len(Steps(d)) /\ Steps(d)[k] = pc[d]
         /\ pc[d] = "device" => HasDone(d, "minor")
         /\ ~HasDone(d, pc[d])
         /\ HasDone(d, "bus") => OnBus(d)
         /\ HasDone(d, "add") => Kind[d] # "dt" /\ (AsChild(d) => HasDone(d, "device"))
<1>k. PICK k \in 1..Len(Steps(d)) : Steps(d)[k] = pc[d]
  BY NoRepeat
<1>d. \A p : HasDone(d, p) <=> \E i \in 1..Len(Steps(d)) : i < k /\ Steps(d)[i] = p
  BY <1>k, DoneIs
<1>a. After(d, pc[d]) = IF k < Len(Steps(d)) THEN Steps(d)[k + 1]
                        ELSE IF d \in Clients THEN "search" ELSE "idle"
  BY <1>k, AfterIs
<1>n. ~HasDone(d, pc[d])
  BY <1>k, <1>d, NoRepeat
<1>1. CASE Kind[d] = "dt"
  <2>1. Steps(d) = ProbeSteps /\ ~AsChild(d) /\ ~OnBus(d)
    BY <1>1, StepsOf
  <2>2. Len(ProbeSteps) = 4 /\ (ProbeSteps[k] = "setup" <=> k = 4)
    BY <2>1, Indices
  <2>3. ~HasDone(d, "bus") /\ ~HasDone(d, "add")
    BY <1>d, <2>1, Indices
  <2>4. pc[d] = "setup" => HasDone(d, "minor") /\ HasDone(d, "device")
    <3>1. ProbeSteps[1] = "minor" /\ ProbeSteps[2] = "device"
      BY Indices
    <3> QED BY <1>k, <1>d, <2>1, <2>2, <3>1
  <2>5. pc[d] = "device" => HasDone(d, "minor")
    <3>1. ProbeSteps[1] = "minor" /\ \A i \in 1..4 : ProbeSteps[i] = "device" <=> i = 2
      BY Indices
    <3> QED BY <1>k, <1>d, <2>1, <2>2, <3>1
  <2> QED BY <1>1, <1>a, <1>k, <1>n, <2>1, <2>2, <2>3, <2>4, <2>5
<1>2. CASE AsChild(d)
  <2>1. Steps(d) = ChildSteps /\ ~OnBus(d) /\ Kind[d] # "dt"
    BY <1>2, StepsOf
  <2>2. Len(ChildSteps) = 6 /\ (ChildSteps[k] = "setup" <=> k = 6)
    BY <2>1, Indices
  <2>3. ~HasDone(d, "bus") /\ (HasDone(d, "add") <=> k > 5) /\ (HasDone(d, "device") <=> k > 2)
    <3>1. \A i \in 1..6 : /\ ChildSteps[i] # "bus" /\ (ChildSteps[i] = "add" <=> i = 5)
                          /\ (ChildSteps[i] = "device" <=> i = 2)
      BY Indices DEF ChildSteps
    <3> QED BY <1>d, <2>1, <2>2, <3>1
  <2>4. HasDone(d, "minor") <=> k > 1
    <3>1. \A i \in 1..6 : ChildSteps[i] = "minor" <=> i = 1
      BY Indices
    <3> QED BY <1>d, <2>1, <2>2, <3>1
  <2>5. pc[d] = "device" => k = 2
    BY <1>k, <2>1, <2>2, Indices
  <2> QED BY <1>2, <1>a, <1>k, <1>n, <2>1, <2>2, <2>3, <2>4, <2>5
<1>3. CASE OnBus(d)
  <2>1. Steps(d) = PlatformSteps /\ ~AsChild(d) /\ Kind[d] # "dt"
    BY <1>3, StepsOf DEF OnBus
  <2>2. Len(PlatformSteps) = 7 /\ (PlatformSteps[k] = "setup" <=> k = 7)
    BY <2>1, Indices
  <2>3. (HasDone(d, "add") <=> k > 2) /\ (HasDone(d, "bus") <=> k > 3)
    <3>1. \A i \in 1..7 : (PlatformSteps[i] = "add" <=> i = 2) /\ (PlatformSteps[i] = "bus" <=> i = 3)
      BY Indices
    <3> QED BY <1>d, <2>1, <2>2, <3>1
  <2>4. (HasDone(d, "minor") <=> k > 4) /\ (HasDone(d, "device") <=> k > 5)
    <3>1. \A i \in 1..7 : /\ PlatformSteps[i] = "minor" <=> i = 4
                          /\ PlatformSteps[i] = "device" <=> i = 5
      BY Indices
    <3> QED BY <1>d, <2>1, <2>2, <3>1
  <2>5. pc[d] = "device" => k = 5
    BY <1>k, <2>1, <2>2, Indices
  <2> QED BY <1>3, <1>a, <1>k, <1>n, <2>1, <2>2, <2>3, <2>4, <2>5
<1> QED BY <1>1, <1>2, <1>3, StepsOf

(* A step is none of the places where a device rests or is undone.          *)
LEMMA StepPlaces ==
  ASSUME NEW d \in Device, NEW i \in DOMAIN Steps(d)
  PROVE  Steps(d)[i] \in Places \ (Resting \cup {"undo"})
<1>1. CASE Steps(d) = ProbeSteps
  BY <1>1 DEF ProbeSteps, Places, Resting
<1>2. CASE Steps(d) = ChildSteps
  BY <1>2 DEF ChildSteps, Places, Resting
<1>3. CASE Steps(d) = PlatformSteps
  BY <1>3 DEF PlatformSteps, Places, Resting
<1> QED BY <1>1, <1>2, <1>3, StepsOf
------------------------------------------------------------------------------
(* What a step makes of what a device has.                                  *)

Same(d) == /\ pc'[d] = pc[d] /\ minor'[d] = minor[d] /\ class'[d] = class[d]
           /\ buffer'[d] = buffer[d] /\ bus'[d] = bus[d] /\ Listed(d)' = Listed(d)

LEMMA Untouched ==
  ASSUME NEW d \in Device, Doing(d), UNCHANGED parent, Same(d)
  PROVE  Doing(d)'
<1>1. AsChild(d)' = AsChild(d) /\ OnBus(d)' = OnBus(d) /\ Steps(d)' = Steps(d)
  BY DEF AsChild, OnBus, Steps
<1>2. \A p : HasDone(d, p)' = HasDone(d, p)
  BY <1>1 DEF HasDone, Same
<1> QED BY <1>1, <1>2 DEF Doing, Nothing, Everything, Building, Undoing, Same

(* Starting a creation,                                                     *)
LEMMA Starts ==
  ASSUME NEW d \in Device, Nothing(d), UNCHANGED parent, pc'[d] = Head(Steps(d)),
         minor'[d] = minor[d], class'[d] = class[d], buffer'[d] = buffer[d],
         bus'[d] = bus[d], Listed(d)' = Listed(d)
  PROVE  Doing(d)' /\ pc'[d] \in Places
<1>1. /\ \E i \in DOMAIN Steps(d) : Steps(d)[i] = pc'[d]
      /\ \A p : ~HasDone(d, p)'
  BY AtFirst
<1>2. pc'[d] \in Places \ (Resting \cup {"undo"})
  BY <1>1, StepPlaces
<1>3. Steps(d)' = Steps(d)
  BY DEF Steps, AsChild
<1> QED BY <1>1, <1>2, <1>3 DEF Doing, Building, Nothing

(* taking its next step,                                                    *)
LEMMA Advances ==
  ASSUME NEW d \in Device, Doing(d), pc[d] \notin Resting \cup {"undo"}, UNCHANGED parent,
         pc'[d] = After(d, pc[d]),
         minor'[d] # -1 <=> minor[d] # -1 \/ pc[d] = "minor",
         class'[d] # NoClass <=> class[d] # NoClass \/ pc[d] = "device",
         buffer'[d] <=> buffer[d] \/ pc[d] = "setup",
         bus'[d] <=> bus[d] \/ pc[d] = "bus",
         Listed(d)' <=> Listed(d) \/ pc[d] = "add"
  PROVE  Doing(d)' /\ pc'[d] \in Places
<1>b. Building(d)
  BY DEF Doing
<1>p. AsChild(d)' = AsChild(d) /\ OnBus(d)' = OnBus(d) /\ Steps(d)' = Steps(d)
  BY DEF AsChild, OnBus, Steps
<1>l. \E i \in DOMAIN Steps(d) : Steps(d)[i] = pc[d]
  BY <1>b DEF Building
<1>1. CASE pc[d] = "setup"
  <2>1. pc'[d] \in Resting /\ pc'[d] \in Places
    BY <1>1, <1>l, AtLast DEF Resting, Places
  <2>2. /\ HasDone(d, "minor") /\ HasDone(d, "device")
        /\ HasDone(d, "bus") <=> OnBus(d)
        /\ HasDone(d, "add") <=> Kind[d] # "dt"
    BY <1>1, <1>l, AtLast
  <2>3. Everything(d)'
    BY <1>1, <1>b, <1>p, <2>2 DEF Building, Everything
  <2>4. pc'[d] # "undo"
    BY <2>1 DEF Resting
  <2> QED BY <2>1, <2>3, <2>4 DEF Doing
<1>2. CASE pc[d] # "setup"
  <2>1. PICK k \in 1..Len(Steps(d)) : k < Len(Steps(d)) /\ Steps(d)[k] = pc[d]
    BY <1>2, <1>l, AtLast
  <2>2. /\ \E i \in DOMAIN Steps(d) : Steps(d)[i] = pc'[d]
        /\ \A p : HasDone(d, p)' <=> HasDone(d, p) \/ p = pc[d]
    BY <2>1, AtNext
  <2>3. pc'[d] \in Places \ (Resting \cup {"undo"})
    BY <2>2, StepPlaces
  <2>4. Building(d)'
    BY <1>2, <1>b, <1>p, <2>2 DEF Building
  <2> QED BY <2>3, <2>4 DEF Doing
<1> QED BY <1>1, <1>2

(* and giving up, which may follow at any step.                             *)
LEMMA GivesUp ==
  ASSUME NEW d \in Device, Doing(d), pc[d] # "undo", UNCHANGED parent, pc'[d] = "undo",
         minor'[d] = minor[d], class'[d] = class[d], buffer'[d] = buffer[d],
         bus'[d] = bus[d], Listed(d)' = Listed(d)
  PROVE  Doing(d)'
<1>p. AsChild(d)' = AsChild(d) /\ OnBus(d)' = OnBus(d)
  BY DEF AsChild, OnBus
<1>1. Undoing(d)
  <2>1. CASE pc[d] \in Resting
    BY <2>1, StepsOf DEF Doing, Nothing, Everything, Undoing
  <2>2. CASE pc[d] \notin Resting
    <3>1. Building(d)
      BY <2>2 DEF Doing
    <3> QED BY <3>1, AtLast DEF Building, Undoing
  <2> QED BY <2>1, <2>2
<1>2. Undoing(d)'
  BY <1>1, <1>p DEF Undoing
<1> QED BY <1>2 DEF Doing, Resting
------------------------------------------------------------------------------
(* The list: an entry is added at its end, and taken out wherever it is.    *)

Lists(q, e) == \E i \in DOMAIN q : q[i] = e
Once(q) == \A i, j \in DOMAIN q : q[i] = q[j] => i = j

LEMMA AddOne ==
  ASSUME NEW q \in Seq(Device), NEW d \in Device, ~Lists(q, d), Once(q)
  PROVE  /\ Append(q, d) \in Seq(Device) /\ Once(Append(q, d))
         /\ \A e : Lists(Append(q, d), e) <=> Lists(q, e) \/ e = d
<1> DEFINE r == Append(q, d)
<1>1. /\ r \in Seq(Device) /\ DOMAIN q = 1..Len(q) /\ DOMAIN r = 1..(Len(q) + 1) /\ Len(q) \in Nat
      /\ r[Len(q) + 1] = d /\ \A i \in 1..Len(q) : r[i] = q[i]
  OBVIOUS
<1>2. \A i \in 1..(Len(q) + 1) : i \in 1..Len(q) \/ i = Len(q) + 1
  BY <1>1
<1> HIDE DEF r
<1>3. Once(r)
  BY <1>1, <1>2 DEF Once, Lists
<1>4. \A e : Lists(r, e) <=> Lists(q, e) \/ e = d
  BY <1>1, <1>2 DEF Lists
<1> QED BY <1>1, <1>3, <1>4 DEF r

LEMMA Joined ==
  ASSUME NEW S, NEW a \in Seq(S), NEW b \in Seq(S)
  PROVE  /\ a \o b \in Seq(S) /\ Len(a \o b) = Len(a) + Len(b)
         /\ DOMAIN (a \o b) = 1..(Len(a) + Len(b))
         /\ \A k \in 1..(Len(a) + Len(b)) : (a \o b)[k] = IF k <= Len(a) THEN a[k] ELSE b[k - Len(a)]
OBVIOUS

LEMMA DropOne ==
  ASSUME NEW q \in Seq(Device), Once(q), NEW i \in DOMAIN q
  PROVE  /\ RemoveAt(q, i) \in Seq(Device) /\ Once(RemoveAt(q, i))
         /\ \A e : Lists(RemoveAt(q, i), e) <=> Lists(q, e) /\ e # q[i]
<1> DEFINE a == SubSeq(q, 1, i - 1)
           b == SubSeq(q, i + 1, Len(q))
           r == a \o b
<1>1. /\ DOMAIN q = 1..Len(q) /\ Len(q) \in Nat /\ i \in 1..Len(q)
      /\ a \in Seq(Device) /\ Len(a) = i - 1 /\ \A k \in 1..(i - 1) : a[k] = q[k]
  OBVIOUS
<1>2. b \in Seq(Device) /\ Len(b) = Len(q) - i /\ \A k \in 1..(Len(q) - i) : b[k] = q[k + i]
  OBVIOUS
<1>r. RemoveAt(q, i) = r
  BY DEF RemoveAt
<1> HIDE DEF a, b
<1>3. /\ r \in Seq(Device) /\ Len(r) = Len(q) - 1 /\ DOMAIN r = 1..(Len(q) - 1)
      /\ \A k \in 1..(Len(q) - 1) : r[k] = IF k < i THEN q[k] ELSE q[k + 1]
  <2>1. r \in Seq(Device) /\ Len(r) = Len(a) + Len(b) /\ DOMAIN r = 1..(Len(a) + Len(b))
    BY <1>1, <1>2, Joined
  <2>2. \A k \in 1..(Len(a) + Len(b)) : r[k] = IF k <= Len(a) THEN a[k] ELSE b[k - Len(a)]
    BY <1>1, <1>2, Joined
  <2>3. Len(a) + Len(b) = Len(q) - 1
    BY <1>1, <1>2
  <2>4. ASSUME NEW k \in 1..(Len(q) - 1)
        PROVE  r[k] = IF k < i THEN q[k] ELSE q[k + 1]
    <3>1. CASE k < i
      BY <1>1, <2>2, <2>3, <3>1
    <3>2. CASE ~(k < i)
      <4>1. k - Len(a) \in 1..(Len(q) - i) /\ k - Len(a) + i = k + 1 /\ ~(k <= Len(a))
        BY <1>1, <3>2
      <4>2. b[k - Len(a)] = q[k + 1]
        BY <1>2, <4>1
      <4>3. r[k] = b[k - Len(a)]
        BY <2>2, <2>3, <4>1
      <4> QED BY <3>2, <4>2, <4>3
    <3> QED BY <3>1, <3>2
  <2> QED BY <2>1, <2>3, <2>4
<1> HIDE DEF r
<1>4. Once(r)
  <2>1. ASSUME NEW j \in 1..(Len(q) - 1), NEW k \in 1..(Len(q) - 1), r[j] = r[k]
        PROVE  j = k
    <3> DEFINE Was(n) == IF n < i THEN n ELSE n + 1
    <3>1. /\ Was(j) \in 1..Len(q) /\ Was(k) \in 1..Len(q)
          /\ r[j] = q[Was(j)] /\ r[k] = q[Was(k)]
      BY <1>1, <1>3
    <3>2. Was(j) = Was(k)
      BY <1>1, <2>1, <3>1 DEF Once
    <3> QED BY <1>1, <3>2
  <2> QED BY <1>3, <2>1 DEF Once
<1>5. \A e : Lists(r, e) => Lists(q, e) /\ e # q[i]
  <2>1. ASSUME NEW e, Lists(r, e)
        PROVE  Lists(q, e) /\ e # q[i]
    <3>1. PICK k \in 1..(Len(q) - 1) : r[k] = e
      BY <1>3, <2>1 DEF Lists
    <3>2. PICK j \in 1..Len(q) : q[j] = e /\ j # i
      <4>1. CASE k < i
        BY <1>1, <1>3, <3>1, <4>1
      <4>2. CASE k >= i
        <5>1. k + 1 \in 1..Len(q) /\ k + 1 # i /\ q[k + 1] = e
          BY <1>1, <1>3, <3>1, <4>2
        <5> QED BY <5>1
      <4> QED BY <1>1, <4>1, <4>2
    <3> QED BY <1>1, <3>2 DEF Lists, Once
  <2> QED BY <2>1
<1>6. \A e : Lists(q, e) /\ e # q[i] => Lists(r, e)
  <2>1. TAKE e
  <2>2. HAVE Lists(q, e) /\ e # q[i]
  <2>3. PICK j \in 1..Len(q) : q[j] = e
    BY <1>1, <2>2 DEF Lists
  <2>4. CASE j < i
    <3>1. j \in 1..(Len(q) - 1) /\ r[j] = e
      BY <1>1, <1>3, <2>3, <2>4
    <3> QED BY <1>3, <3>1 DEF Lists
  <2>5. CASE j > i
    <3>1. j - 1 \in 1..(Len(q) - 1) /\ ~(j - 1 < i) /\ j - 1 + 1 = j
      BY <1>1, <2>3, <2>5
    <3> QED BY <1>3, <2>3, <3>1 DEF Lists
  <2> QED BY <1>1, <2>2, <2>3, <2>4, <2>5
<1> QED BY <1>r, <1>3, <1>4, <1>5, <1>6

LEMMA ListedIs == /\ \A d : Listed(d) <=> Lists(list, d)
                  /\ ListedOnce <=> Once(list)
BY DEF Listed, Lists, ListedOnce, Once
------------------------------------------------------------------------------
(* What a step of a device's thread leaves to the other devices.            *)

Moves(d) == CreateStep(d) \/ UndoStep(d) \/ Call(d) \/ Cleanup(d)

LEMMA CreatesAtAStep ==
  ASSUME IInv, NEW d \in Device, pc[d] \notin Resting \cup {"undo"}
  PROVE  /\ Building(d) /\ ~HasDone(d, pc[d])
         /\ pc[d] = "device" => minor[d] # -1
         /\ pc[d] = "minor" => minor[d] = -1
         /\ pc[d] = "add" => ~Listed(d)
<1>1. Building(d)
  BY DEF IInv, Progress, Doing
<1>2. ~HasDone(d, pc[d]) /\ (pc[d] = "device" => HasDone(d, "minor"))
  BY <1>1, AtLast DEF Building
<1> QED BY <1>1, <1>2 DEF Building

LEMMA ListStep ==
  ASSUME IInv, NEW d \in Device, Moves(d)
  PROVE  /\ list' \in Seq(Device) /\ ListedOnce'
         /\ \A e \in Device \ {d} : Listed(e)' <=> Listed(e)
         /\ Unlist(d) => ~Listed(d)'
         /\ list' # list /\ ~Unlist(d) => AddEntry(d) /\ Listed(d)'
<1>t. list \in Seq(Device) /\ Once(list)
  BY ListedIs DEF IInv, TypeOK
<1>l. \A e : Listed(e)' <=> Lists(list', e)
  BY DEF Listed, Lists
<1>o. ListedOnce' <=> Once(list')
  BY DEF ListedOnce, Once
<1>1. CASE Unlist(d)
  <2>1. PICK i \in DOMAIN list : list[i] = d /\ list' = RemoveAt(list, i)
    BY <1>1 DEF Unlist
  <2>2. /\ list' \in Seq(Device) /\ Once(list')
        /\ \A e : Lists(list', e) <=> Lists(list, e) /\ e # d
    BY <1>t, <2>1, DropOne
  <2> QED BY <1>1, <1>l, <1>o, <2>2, ListedIs
<1>2. CASE AddEntry(d) /\ list' # list
  <2>1. list' = Append(list, d) /\ pc[d] = "add"
    BY <1>2 DEF AddEntry
  <2>2. ~Lists(list, d)
    BY <2>1, CreatesAtAStep, ListedIs DEF Resting
  <2>3. /\ list' \in Seq(Device) /\ Once(list')
        /\ \A e : Lists(list', e) <=> Lists(list, e) \/ e = d
    BY <1>t, <2>1, <2>2, AddOne
  <2> QED BY <1>2, <1>l, <1>o, <2>1, <2>3, ListedIs DEF Unlist
<1>3. CASE list' = list
  <2>1. ~Unlist(d)
    <3>1. SUFFICES ASSUME Unlist(d) PROVE FALSE
      OBVIOUS
    <3>2. PICK i \in DOMAIN list : list[i] = d /\ list' = RemoveAt(list, i)
      BY <3>1 DEF Unlist
    <3>3. \A e : Lists(list', e) <=> Lists(list, e) /\ e # d
      BY <1>t, <3>2, DropOne
    <3>4. Lists(list, d)
      BY <3>2 DEF Lists
    <3> QED BY <1>3, <3>3, <3>4
  <2> QED BY <1>3, <1>t, <1>l, <1>o, <2>1, ListedIs
<1>4. Unlist(d) \/ AddEntry(d) \/ list' = list
  BY DEF Moves, CreateStep, UndoStep, Call, AllocMinor, DeviceCreate, CdevAdd, Setup, CheckEntry,
         PlatformAdd, SearchDevice, ReturnHandle, DestroyDevice, ReleaseMinor, PlatformDel, Undone,
         Probe, CreateStatic, Create, RemoveDevice, Cleanup
<1> QED BY <1>1, <1>2, <1>3, <1>4

LEMMA Others ==
  ASSUME IInv, NEW d \in Device, Moves(d)
  PROVE  /\ UNCHANGED parent
         /\ \A e \in Device \ {d} : Same(e) /\ created'[e] = created[e] /\ request'[e] = request[e]
<1>t. /\ pc \in [Device -> Places] /\ minor \in [Device -> -1..(MinorMax - 1)]
      /\ class \in [Device -> [name : ClassNames, number : -1..(MinorMax - 1)]]
      /\ buffer \in [Device -> BOOLEAN] /\ bus \in [Device -> BOOLEAN]
      /\ created \in [Device -> BOOLEAN]
      /\ request \in [Device -> UNION {Requests[e] : e \in Device}]
  BY DEF IInv, TypeOK
<1>l. \A e \in Device \ {d} : Listed(e)' = Listed(e)
  BY ListStep DEF Listed
<1>1. CASE CreateStep(d)
  BY <1>t, <1>l, <1>1
     DEF CreateStep, AllocMinor, DeviceCreate, CdevAdd, Setup, CheckEntry, AddEntry, PlatformAdd,
         SearchDevice, ReturnHandle, Continue, Fail, Go, Same
<1>2. CASE DestroyDevice(d)
  <2>1. \A e \in Device \ {d} : class[e].number # minor[d] \/ class[e] = NoClass
    BY <1>2 DEF DestroyDevice, IInv, MinorsAccounted
  <2>2. \A e \in Device \ {d} : class'[e] = class[e]
    BY <1>2, <1>t, <2>1 DEF DestroyDevice
  <2> QED BY <1>t, <1>l, <1>2, <2>2 DEF DestroyDevice, Same
<1>3. CASE Unlist(d) \/ ReleaseMinor(d) \/ PlatformDel(d) \/ Undone(d)
  BY <1>t, <1>l, <1>3 DEF Unlist, ReleaseMinor, PlatformDel, Undone, Go, Same
<1>4. CASE Call(d) \/ Cleanup(d)
  BY <1>t, <1>l, <1>4
     DEF Call, Cleanup, Probe, CreateStatic, Create, RemoveDevice, Begin, Fail, Go, Same
<1> QED BY <1>1, <1>2, <1>3, <1>4 DEF Moves, UndoStep

(* and what it makes of its own: it goes to the next step of the creation,  *)
(* with the resource of this one, or gives up.                              *)
LEMMA CreateProgress ==
  ASSUME IInv, NEW d \in Device, CreateStep(d), pc[d] \notin {"search", "handle"}
  PROVE  Doing(d)' /\ pc'[d] \in Places
<1>t. /\ pc \in [Device -> Places] /\ minor \in [Device -> -1..(MinorMax - 1)]
      /\ class \in [Device -> [name : ClassNames, number : -1..(MinorMax - 1)]]
      /\ buffer \in [Device -> BOOLEAN] /\ bus \in [Device -> BOOLEAN]
      /\ Doing(d)
  BY DEF IInv, TypeOK, Progress
<1>m. Moves(d)
  BY DEF Moves
<1>p. UNCHANGED parent
  BY <1>m, Others
<1>c. pc[d] \notin Resting \cup {"undo"}
  BY DEF CreateStep, AllocMinor, DeviceCreate, CdevAdd, Setup, CheckEntry, AddEntry, PlatformAdd,
         SearchDevice, ReturnHandle, Resting
<1>u. "undo" \in Places /\ pc[d] # "undo"
  BY <1>c DEF Places
<1>1. CASE /\ pc'[d] = "undo" /\ minor'[d] = minor[d] /\ class'[d] = class[d]
           /\ buffer'[d] = buffer[d] /\ bus'[d] = bus[d] /\ list' = list
  <2>1. Listed(d)' = Listed(d)
    BY <1>1 DEF Listed
  <2> QED BY <1>1, <1>t, <1>p, <1>u, <2>1, GivesUp
<1>2. CASE /\ pc'[d] = After(d, pc[d])
           /\ minor'[d] # -1 <=> minor[d] # -1 \/ pc[d] = "minor"
           /\ class'[d] # NoClass <=> class[d] # NoClass \/ pc[d] = "device"
           /\ buffer'[d] <=> buffer[d] \/ pc[d] = "setup"
           /\ bus'[d] <=> bus[d] \/ pc[d] = "bus"
           /\ Listed(d)' <=> Listed(d) \/ pc[d] = "add"
  BY <1>2, <1>t, <1>p, <1>c, Advances
<1>3. CASE AllocMinor(d)
  <2>1. CASE \E m \in 0..(MinorMax - 1) : minor' = [minor EXCEPT ![d] = m] /\ Continue(d)
    <3>1. minor'[d] # -1 /\ pc'[d] = After(d, pc[d]) /\ pc[d] = "minor"
      BY <1>t, <1>3, <2>1, MinorAssumption DEF AllocMinor, Continue, Go
    <3>2. UNCHANGED <<class, buffer, bus, list>> /\ Listed(d)' = Listed(d)
      BY <1>3 DEF AllocMinor, Listed
    <3> QED BY <3>1, <3>2, <1>2
  <2>2. CASE Fail(d) /\ UNCHANGED minor
    BY <1>t, <1>3, <2>2, <1>1 DEF AllocMinor, Fail, Go
  <2> QED BY <1>3, <2>1, <2>2 DEF AllocMinor
<1>4. CASE DeviceCreate(d)
  <2>1. CASE /\ class' = [class EXCEPT ![d] = [name |-> ClassName(d), number |-> minor[d]]]
             /\ Continue(d)
    <3>1. minor[d] # -1 /\ pc[d] = "device"
      BY <1>4, <1>c, CreatesAtAStep DEF DeviceCreate
    <3>2. class'[d] # NoClass /\ pc'[d] = After(d, pc[d])
      BY <1>t, <2>1, <3>1 DEF NoClass, Continue, Go
    <3>3. UNCHANGED <<minor, buffer, bus, list>> /\ Listed(d)' = Listed(d)
      BY <1>4 DEF DeviceCreate, Listed
    <3> QED BY <3>1, <3>2, <3>3, <1>2
  <2>2. CASE Fail(d) /\ UNCHANGED class
    BY <1>t, <1>4, <2>2, <1>1 DEF DeviceCreate, Fail, Go
  <2> QED BY <1>4, <2>1, <2>2 DEF DeviceCreate
<1>5. CASE CdevAdd(d) \/ CheckEntry(d)
  <2>1. /\ UNCHANGED <<minor, class, buffer, bus, list>> /\ Listed(d)' = Listed(d)
        /\ pc[d] \in {"cdev", "check"}
        /\ pc'[d] \in {"undo", After(d, pc[d])}
    BY <1>t, <1>5 DEF CdevAdd, CheckEntry, Continue, Fail, Go, Listed
  <2> QED BY <2>1, <1>1, <1>2
<1>6. CASE Setup(d)
  <2>1. /\ UNCHANGED <<minor, class, bus, list>> /\ Listed(d)' = Listed(d)
        /\ pc[d] = "setup"
        /\ \/ pc'[d] = After(d, pc[d]) /\ buffer'[d]
           \/ pc'[d] = "undo" /\ buffer'[d] = buffer[d]
    BY <1>t, <1>6 DEF Setup, Continue, Fail, Go, Listed
  <2> QED BY <2>1, <1>1, <1>2
<1>7. CASE AddEntry(d)
  <2>1. /\ UNCHANGED <<minor, class, buffer, bus>>
        /\ pc[d] = "add"
        /\ \/ pc'[d] = After(d, pc[d]) /\ list' = Append(list, d)
           \/ pc'[d] = "undo" /\ list' = list
    BY <1>t, <1>7 DEF AddEntry, Continue, Fail, Go
  <2>2. list' = Append(list, d) => Listed(d)'
    <3>1. list' = Append(list, d) => list' # list
      BY DEF IInv, TypeOK
    <3> QED BY <3>1, <1>m, <1>7, ListStep DEF Unlist, AddEntry
  <2> QED BY <2>1, <2>2, <1>1, <1>2
<1>8. CASE PlatformAdd(d)
  <2>1. /\ UNCHANGED <<minor, class, buffer, list>> /\ Listed(d)' = Listed(d)
        /\ pc[d] = "bus"
        /\ \/ pc'[d] = After(d, pc[d]) /\ bus'[d]
           \/ pc'[d] = "undo" /\ bus'[d] = bus[d]
    BY <1>t, <1>8 DEF PlatformAdd, Continue, Fail, Go, Listed
  <2> QED BY <2>1, <1>1, <1>2
<1> QED BY <1>3, <1>4, <1>5, <1>6, <1>7, <1>8 DEF CreateStep, SearchDevice, ReturnHandle

LEMMA UndoProgress ==
  ASSUME IInv, NEW d \in Device, UndoStep(d)
  PROVE  Doing(d)' /\ pc'[d] \in Places
<1>t. /\ pc \in [Device -> Places] /\ minor \in [Device -> -1..(MinorMax - 1)]
      /\ class \in [Device -> [name : ClassNames, number : -1..(MinorMax - 1)]]
      /\ buffer \in [Device -> BOOLEAN] /\ bus \in [Device -> BOOLEAN]
  BY DEF IInv, TypeOK
<1>m. Moves(d) /\ pc[d] = "undo" /\ "undo" \in Places
  BY DEF Moves, UndoStep, Unlist, DestroyDevice, ReleaseMinor, PlatformDel, Undone, Places
<1>u. Undoing(d)
  BY <1>m DEF IInv, Progress, Doing
<1>p. AsChild(d)' = AsChild(d) /\ OnBus(d)' = OnBus(d)
  BY <1>m, Others DEF AsChild, OnBus
<1>c. class[d] # NoClass => minor[d] # -1
  BY DEF IInv, MinorsAccounted
<1>s. ASSUME pc'[d] = "undo", Undoing(d)' PROVE Doing(d)' /\ pc'[d] \in Places
  BY <1>s, <1>m DEF Doing, Resting
<1>1. CASE Unlist(d)
  <2>1. UNCHANGED <<pc, class, buffer, bus>> /\ ~Listed(d)'
    BY <1>1, <1>m, ListStep DEF Unlist
  <2>2. Undoing(d)'
    BY <1>u, <1>p, <2>1 DEF Undoing
  <2> QED BY <1>m, <1>s, <2>1, <2>2
<1>2. CASE DestroyDevice(d)
  <2>1. /\ UNCHANGED <<pc, bus, list>> /\ Listed(d)' = Listed(d) /\ ~buffer'[d]
        /\ AsChild(d) => ~Listed(d)
    BY <1>2, <1>t DEF DestroyDevice, Listed, EntryGoesFirst
  <2>2. Undoing(d)'
    BY <1>u, <1>p, <2>1 DEF Undoing
  <2> QED BY <1>m, <1>s, <2>1, <2>2
<1>3. CASE ReleaseMinor(d)
  <2>1. UNCHANGED <<pc, class, buffer, bus, list>> /\ Listed(d)' = Listed(d)
    BY <1>3 DEF ReleaseMinor, Listed
  <2>2. Undoing(d)'
    BY <1>u, <1>p, <2>1 DEF Undoing
  <2> QED BY <1>m, <1>s, <2>1, <2>2
<1>4. CASE PlatformDel(d)
  <2>1. UNCHANGED <<pc, class, buffer, list>> /\ Listed(d)' = Listed(d) /\ ~bus'[d]
    BY <1>4, <1>t DEF PlatformDel, Listed
  <2>2. Undoing(d)'
    BY <1>u, <1>p, <2>1 DEF Undoing
  <2> QED BY <1>m, <1>s, <2>1, <2>2
<1>5. CASE Undone(d)
  <2>1. /\ UNCHANGED <<minor, class, buffer, bus, list>> /\ Listed(d)' = Listed(d)
        /\ pc'[d] \in {"search", "idle"}
        /\ ~Listed(d) /\ ~bus[d] /\ minor[d] = -1
    BY <1>5, <1>t DEF Undone, Go, Listed
  <2>2. Nothing(d)'
    BY <1>u, <1>c, <2>1 DEF Undoing, Nothing
  <2> QED BY <2>1, <2>2 DEF Doing, Resting, Places
<1> QED BY <1>1, <1>2, <1>3, <1>4, <1>5 DEF UndoStep

LEMMA CallProgress ==
  ASSUME IInv, NEW d \in Device,
         Call(d) \/ Cleanup(d) \/ SearchDevice(d) \/ ReturnHandle(d)
  PROVE  Doing(d)' /\ pc'[d] \in Places
<1>t. pc \in [Device -> Places] /\ Doing(d)
  BY DEF IInv, TypeOK, Progress
<1>m. Moves(d) /\ "undo" \in Places /\ UNCHANGED parent
  <2>1. Moves(d)
    BY DEF Moves, CreateStep
  <2> QED BY <2>1, Others DEF Places
<1>s. /\ UNCHANGED <<minor, class, buffer, bus, list>>
      /\ Listed(d)' = Listed(d)
  BY DEF Call, Probe, CreateStatic, Create, RemoveDevice, Cleanup, SearchDevice, ReturnHandle, Listed
<1>1. CASE Nothing(d) /\ pc'[d] = Head(Steps(d))
  BY <1>1, <1>m, <1>s, Starts
<1>2. CASE pc[d] # "undo" /\ pc'[d] = "undo"
  BY <1>2, <1>t, <1>m, <1>s, GivesUp
<1>3. CASE pc'[d] = pc[d]
  BY <1>3, <1>t, <1>m, <1>s, Untouched DEF Same
<1>4. CASE Probe(d) \/ CreateStatic(d)
  <2>1. Nothing(d)
    BY <1>4 DEF Probe, CreateStatic, IInv, ToDo
  <2>2. pc'[d] \in {pc[d], Head(Steps(d))}
    BY <1>4, <1>t DEF Probe, CreateStatic, Begin, Go
  <2> QED BY <2>1, <2>2, <1>1, <1>3
<1>5. CASE Create(d)
  <2>1. pc[d] = "idle" /\ minor[d] = -1 /\ pc'[d] = Head(Steps(d))
    BY <1>5, <1>t DEF Create, Begin, Go
  <2>2. Nothing(d)
    BY <2>1, <1>t DEF Doing, Resting, Everything
  <2> QED BY <2>1, <2>2, <1>1
<1>6. CASE RemoveDevice(d) \/ Cleanup(d)
  <2>1. pc[d] = "idle" /\ pc'[d] = "undo"
    BY <1>6, <1>t DEF RemoveDevice, Cleanup, Quiet, Fail, Go
  <2> QED BY <2>1, <1>2
<1>7. CASE SearchDevice(d) \/ ReturnHandle(d)
  <2>1. pc[d] \in {"search", "handle"} /\ pc'[d] \in {"handle", "idle"}
    BY <1>7, <1>t DEF SearchDevice, ReturnHandle, Go
  <2>2. Nothing(d) \/ Everything(d)
    BY <2>1, <1>t DEF Doing, Resting
  <2>3. Nothing(d)' \/ Everything(d)'
    BY <2>2, <1>m, <1>s DEF Nothing, Everything, OnBus, AsChild
  <2> QED BY <2>1, <2>3 DEF Doing, Resting, Places
<1> QED BY <1>4, <1>5, <1>6, <1>7 DEF Call

(* The steps of the module as a whole leave every device as it is.          *)
ModuleStep == AllocRegion \/ CreateClass \/ RegisterDriver \/ Loaded \/ Exit \/ Exited

LEMMA ModuleFrame ==
  ASSUME ModuleStep
  PROVE  UNCHANGED <<parent, pc, request, created, list, named, bus, minor, class, buffer, found>>
BY DEF ModuleStep, AllocRegion, CreateClass, RegisterDriver, Register, Loaded, Exit, Exited

LEMMA ProgressStep ==
  ASSUME IInv, Next
  PROVE  Progress' /\ pc' \in [Device -> Places] /\ ListedOnce' /\ list' \in Seq(Device)
<1>t. pc \in [Device -> Places] /\ Progress /\ ListedOnce /\ list \in Seq(Device)
  BY DEF IInv, TypeOK
<1>1. ASSUME NEW d \in Device, Moves(d)
      PROVE  Progress' /\ pc' \in [Device -> Places] /\ ListedOnce' /\ list' \in Seq(Device)
  <2>1. Doing(d)' /\ pc'[d] \in Places
    <3>1. CASE CreateStep(d) /\ pc[d] \notin {"search", "handle"}
      BY <3>1, CreateProgress
    <3>2. CASE CreateStep(d) /\ pc[d] \in {"search", "handle"}
      <4>1. SearchDevice(d) \/ ReturnHandle(d)
        BY <3>2 DEF CreateStep, AllocMinor, DeviceCreate, CdevAdd, Setup, CheckEntry, AddEntry,
                    PlatformAdd
      <4> QED BY <4>1, CallProgress
    <3>3. CASE UndoStep(d)
      BY <3>3, UndoProgress
    <3>4. CASE Call(d) \/ Cleanup(d)
      BY <3>4, CallProgress
    <3> QED BY <1>1, <3>1, <3>2, <3>3, <3>4 DEF Moves
  <2>2. \A e \in Device \ {d} : Doing(e)' /\ pc'[e] = pc[e]
    BY <1>1, <1>t, Others, Untouched DEF Progress, Same
  <2>3. \E x : pc' = [pc EXCEPT ![d] = x] \/ pc' = pc
    BY <1>1 DEF Moves, CreateStep, UndoStep, Call, AllocMinor, DeviceCreate, CdevAdd, Setup,
                CheckEntry, AddEntry, PlatformAdd, SearchDevice, ReturnHandle, Unlist, DestroyDevice,
                ReleaseMinor, PlatformDel, Undone, Probe, CreateStatic, Create, RemoveDevice,
                Cleanup, Begin, Continue, Fail, Go
  <2>4. pc' \in [Device -> Places]
    BY <1>t, <2>1, <2>3
  <2> QED BY <1>1, <2>1, <2>2, <2>4, ListStep DEF Progress
<1>2. ASSUME ModuleStep
      PROVE  Progress' /\ pc' \in [Device -> Places] /\ ListedOnce' /\ list' \in Seq(Device)
  <2>1. \A d \in Device : Same(d)
    BY <1>2, ModuleFrame DEF Same, Listed
  <2> QED BY <1>2, <1>t, <2>1, ModuleFrame, Untouched DEF Progress, ListedOnce
<1> QED BY <1>1, <1>2 DEF Next, Moves, ModuleStep
------------------------------------------------------------------------------
(* The minor numbers.                                                       *)

LEMMA TakenMore ==
  ASSUME TypeOK, NEW d \in Device, NEW m \in 0..(MinorMax - 1), minor[d] = -1,
         minor' = [minor EXCEPT ![d] = m]
  PROVE  Taken' = Taken \cup {m}
<1>1. \A e \in Device : minor'[e] = IF e = d THEN m ELSE minor[e]
  BY DEF TypeOK
<1>2. m # -1
  BY MinorAssumption
<1>3. \A k : k \in Taken <=> \E e \in Device : minor[e] # -1 /\ minor[e] = k
  BY DEF Taken
<1>4. \A k : k \in Taken' <=> \E e \in Device : minor'[e] # -1 /\ minor'[e] = k
  BY DEF Taken
<1> QED BY <1>1, <1>2, <1>3, <1>4

LEMMA TakenLess ==
  ASSUME TypeOK, MinorsAccounted, NEW d \in Device, minor[d] # -1,
         minor' = [minor EXCEPT ![d] = -1]
  PROVE  Taken' = Taken \ {minor[d]}
<1>1. \A e \in Device : minor'[e] = IF e = d THEN -1 ELSE minor[e]
  BY DEF TypeOK
<1>2. \A e \in Device : e # d => minor[e] # minor[d]
  BY DEF MinorsAccounted
<1>3. \A k : k \in Taken <=> \E e \in Device : minor[e] # -1 /\ minor[e] = k
  BY DEF Taken
<1>4. \A k : k \in Taken' <=> \E e \in Device : minor'[e] # -1 /\ minor'[e] = k
  BY DEF Taken
<1> QED BY <1>1, <1>2, <1>3, <1>4

(* The number a static device reserves is its own.                          *)
LEMMA StaticNumbers ==
  ASSUME NEW d \in OfKind("static"), NEW e \in OfKind("static"),
         NEW q \in Requests[d], NEW r \in Requests[e]
  PROVE  q.id \in 0..(MinorMax - 1) /\ (q.id = r.id <=> d = e)
BY RequestAssumption DEF OfKind

LEMMA StaticIds ==
  ASSUME TypeOK, TypeOK', NEW d \in OfKind("static"), NEW e \in OfKind("static")
  PROVE  /\ request'[d].id = request[e].id <=> d = e
         /\ \A r \in Requests[d] : r.id = request[d].id
<1>1. d \in Device /\ e \in Device
  BY DEF OfKind
<1>2. request[d] \in Requests[d] /\ request[e] \in Requests[e] /\ request'[d] \in Requests[d]
  BY <1>1 DEF TypeOK
<1>3. request'[d].id = request[e].id <=> d = e
  BY <1>2, StaticNumbers
<1>4. ASSUME NEW r \in Requests[d] PROVE r.id = request[d].id
  BY <1>2, StaticNumbers
<1> QED BY <1>3, <1>4

LEMMA ReservedSame ==
  ASSUME TypeOK, TypeOK', "class" \in regs' <=> "class" \in regs,
         todo' \cap OfKind("static") = todo \cap OfKind("static")
  PROVE  Reserved' = Reserved
<1>1. \A d \in todo \cap OfKind("static") : request'[d].id = request[d].id
  BY StaticIds
<1> QED BY <1>1 DEF Reserved, OfKind

LEMMA MinorsSame ==
  ASSUME IInv, TypeOK', UNCHANGED <<minor, class, ida>>, Reserved' = Reserved
  PROVE  MinorsAccounted'
BY DEF IInv, MinorsAccounted, Taken

LEMMA MinorsStep ==
  ASSUME IInv, TypeOK', Next
  PROVE  MinorsAccounted'
<1>t. TypeOK /\ MinorsAccounted /\ Progress /\ ToDo
  BY DEF IInv
<1>1. ASSUME NEW d \in Device, AllocMinor(d)
      PROVE  MinorsAccounted'
  <2>r. Reserved' = Reserved
    BY <1>1, <1>t, ReservedSame DEF AllocMinor
  <2>1. CASE UNCHANGED <<minor, ida>>
    BY <1>1, <2>1, <2>r, MinorsSame DEF AllocMinor
  <2>2. CASE \E m \in (0..(MinorMax - 1)) \ ida : minor' = [minor EXCEPT ![d] = m] /\ ida' = ida \cup {m}
    <3>1. PICK m \in (0..(MinorMax - 1)) \ ida : minor' = [minor EXCEPT ![d] = m] /\ ida' = ida \cup {m}
      BY <2>2
    <3>2. minor[d] = -1 /\ class[d] = NoClass
      <4>1. pc[d] = "minor" /\ pc[d] \notin Resting \cup {"undo"}
        BY <1>1 DEF AllocMinor, Resting
      <4>2. minor[d] = -1
        BY <4>1, CreatesAtAStep
      <4> QED BY <4>2, <1>t DEF MinorsAccounted
    <3>3. Taken' = Taken \cup {m}
      BY <1>t, <3>1, <3>2, TakenMore
    <3>4. m \notin Taken /\ m \notin Reserved /\ m # -1
      BY <1>t, <3>1, MinorAssumption DEF MinorsAccounted
    <3>5. ida' = Reserved' \cup Taken' /\ Reserved' \cap Taken' = {}
      BY <1>t, <2>r, <3>1, <3>3, <3>4 DEF MinorsAccounted
    <3>6. \A e \in Device : minor'[e] = IF e = d THEN m ELSE minor[e]
      BY <1>t, <3>1 DEF TypeOK
    <3>7. \A e \in Device : minor[e] # m
      BY <3>4 DEF Taken
    <3>8. class' = class
      BY <1>1 DEF AllocMinor
    <3>9. \A e \in Device : class'[e] # NoClass => class'[e].number = minor'[e] /\ minor'[e] # -1
      BY <1>t, <3>2, <3>6, <3>8 DEF MinorsAccounted
    <3>10. \A e, f \in Device : e # f /\ minor'[e] # -1 => minor'[e] # minor'[f]
      BY <1>t, <3>6, <3>7 DEF MinorsAccounted
    <3> QED BY <3>5, <3>9, <3>10 DEF MinorsAccounted
  <2> QED BY <1>1, <2>1, <2>2 DEF AllocMinor
<1>2. ASSUME NEW d \in Device, DeviceCreate(d)
      PROVE  MinorsAccounted'
  <2>r. Reserved' = Reserved /\ UNCHANGED <<minor, ida>> /\ Taken' = Taken
    BY <1>2, <1>t, ReservedSame DEF DeviceCreate, Taken
  <2>1. minor[d] # -1
    BY <1>2, CreatesAtAStep DEF DeviceCreate, Resting
  <2>2. \A e \in Device : class'[e] = class[e] \/ (e = d /\ class'[e].number = minor[d])
    <3>1. CASE class' = class
      BY <3>1
    <3>2. CASE class' = [class EXCEPT ![d] = [name |-> ClassName(d), number |-> minor[d]]]
      <4>1. \A e \in Device : class'[e] = IF e = d THEN [name |-> ClassName(d), number |-> minor[d]]
                                          ELSE class[e]
        BY <1>t, <3>2 DEF TypeOK
      <4> QED BY <4>1
    <3> QED BY <1>2, <3>1, <3>2 DEF DeviceCreate
  <2> QED BY <1>t, <2>r, <2>1, <2>2 DEF MinorsAccounted
<1>3. ASSUME NEW d \in Device, DestroyDevice(d)
      PROVE  MinorsAccounted'
  <2>r. Reserved' = Reserved /\ UNCHANGED <<minor, ida>> /\ Taken' = Taken
    BY <1>3, <1>t, ReservedSame DEF DestroyDevice, Taken
  <2>2. \A e \in Device : class'[e] = class[e] \/ class'[e] = NoClass
    BY <1>3 DEF DestroyDevice
  <2> QED BY <1>t, <2>r, <2>2 DEF MinorsAccounted
<1>4. ASSUME NEW d \in Device, ReleaseMinor(d)
      PROVE  MinorsAccounted'
  <2>r. Reserved' = Reserved /\ UNCHANGED class
    BY <1>4, <1>t, ReservedSame DEF ReleaseMinor
  <2>1. /\ minor[d] # -1 /\ class[d] = NoClass
        /\ ida' = ida \ {minor[d]} /\ minor' = [minor EXCEPT ![d] = -1]
    BY <1>4 DEF ReleaseMinor
  <2>2. Taken' = Taken \ {minor[d]} /\ minor[d] \in Taken
    BY <1>t, <2>1, TakenLess DEF Taken
  <2>3. \A e \in Device : minor'[e] = IF e = d THEN -1 ELSE minor[e]
    BY <1>t, <2>1 DEF TypeOK
  <2>4. ida' = Reserved' \cup Taken' /\ Reserved' \cap Taken' = {}
    BY <1>t, <2>r, <2>1, <2>2 DEF MinorsAccounted
  <2>5. \A e \in Device : class'[e] # NoClass => class'[e].number = minor'[e] /\ minor'[e] # -1
    BY <1>t, <2>r, <2>1, <2>3 DEF MinorsAccounted
  <2>6. \A e, f \in Device : e # f /\ minor'[e] # -1 => minor'[e] # minor'[f]
    BY <1>t, <2>3 DEF MinorsAccounted
  <2> QED BY <2>4, <2>5, <2>6 DEF MinorsAccounted
<1>5. ASSUME NEW d \in Device, CreateStatic(d)
      PROVE  MinorsAccounted'
  <2>1. /\ d \in todo \cap OfKind("static") /\ todo' = todo \ {d} /\ "class" \in regs /\ regs' = regs
        /\ ida' = ida \ {request'[d].id} /\ UNCHANGED <<minor, class>>
    BY <1>5, <1>t DEF CreateStatic, ToDo, OfKind
  <2>2. \A e \in OfKind("static"), f \in OfKind("static") :
          request'[e].id = request[f].id <=> e = f
    BY <1>t, StaticIds
  <2>3. Reserved' = Reserved \ {request'[d].id} /\ request'[d].id \in Reserved
    <3>1. Reserved = {request[e].id : e \in todo \cap OfKind("static")}
      BY <2>1 DEF Reserved
    <3>2. Reserved' = {request'[e].id : e \in (todo \ {d}) \cap OfKind("static")}
      BY <2>1 DEF Reserved, OfKind
    <3> QED BY <2>1, <2>2, <3>1, <3>2
  <2>4. Taken' = Taken
    BY <2>1 DEF Taken
  <2> QED BY <1>t, <2>1, <2>3, <2>4 DEF MinorsAccounted
<1>6. ASSUME CreateClass
      PROVE  MinorsAccounted'
  <2>1. /\ phase = "load" /\ regs = {"major"} /\ UNCHANGED <<todo, minor, class, request>>
        /\ regs' \in {{"major"}, {"major", "class"}}
        /\ ida' = IF "class" \in regs' THEN StaticMinors ELSE ida
    BY <1>6 DEF CreateClass, Register
  <2>2. ida = {} /\ todo = OfKind("dt") \cup OfKind("static") /\ \A d \in Device : minor[d] = -1
    BY <1>t, <2>1 DEF ToDo, Nothing
  <2>3. Taken' = {}
    BY <2>1, <2>2 DEF Taken
  <2>4. StaticMinors = {request[d].id : d \in OfKind("static")}
    <3>1. \A d \in OfKind("static") : {r.id : r \in Requests[d]} = {request[d].id}
      <4>1. ASSUME NEW d \in OfKind("static") PROVE {r.id : r \in Requests[d]} = {request[d].id}
        <5>1. request[d] \in Requests[d]
          BY <1>t DEF TypeOK, OfKind
        <5>2. \A r \in Requests[d] : r.id = request[d].id
          BY <1>t, StaticIds
        <5> QED BY <5>1, <5>2
      <4> QED BY <4>1
    <3> QED BY <3>1 DEF StaticMinors
  <2>5. ida' = Reserved'
    <3>1. CASE "class" \in regs'
      BY <2>1, <2>2, <2>4, <3>1 DEF Reserved, OfKind
    <3>2. CASE "class" \notin regs'
      BY <2>1, <2>2, <3>2 DEF Reserved
    <3> QED BY <3>1, <3>2
  <2> QED BY <1>t, <2>1, <2>3, <2>5 DEF MinorsAccounted
<1>7. ASSUME Exited
      PROVE  MinorsAccounted'
  <2>1. /\ ida' = {} /\ regs' = {} /\ UNCHANGED <<minor, class>>
        /\ \A d \in Device : pc[d] = "idle" /\ ~Listed(d) /\ (Kind[d] = "dt" => minor[d] = -1)
    BY <1>7 DEF Exited, Quiet, Listed, OfKind
  <2>2. \A d \in Device : minor[d] = -1
    BY <1>t, <2>1 DEF Progress, Doing, Resting, Nothing, Everything
  <2>3. Taken' = {} /\ Reserved' = {}
    BY <2>1, <2>2 DEF Taken, Reserved
  <2> QED BY <1>t, <2>1, <2>3 DEF MinorsAccounted
<1>8. ASSUME AllocRegion \/ RegisterDriver \/ Loaded \/ Exit
      PROVE  MinorsAccounted'
  <2>1. UNCHANGED <<minor, class, ida, todo>> /\ ("class" \in regs' <=> "class" \in regs)
    BY <1>8 DEF AllocRegion, RegisterDriver, Loaded, Exit, Register
  <2>2. Reserved' = Reserved
    BY <1>t, <2>1, ReservedSame
  <2> QED BY <2>1, <2>2, MinorsSame
<1>9. ASSUME NEW d \in Device, Probe(d) \/ Create(d) \/ RemoveDevice(d) \/ Cleanup(d)
      PROVE  MinorsAccounted'
  <2>1. UNCHANGED <<minor, class, ida, regs>> /\ todo' \cap OfKind("static") = todo \cap OfKind("static")
    BY <1>9 DEF Probe, Create, RemoveDevice, Cleanup, OfKind
  <2>2. Reserved' = Reserved
    BY <1>t, <2>1, ReservedSame
  <2> QED BY <2>1, <2>2, MinorsSame
<1>10. ASSUME NEW d \in Device,
              \/ CdevAdd(d) \/ Setup(d) \/ CheckEntry(d) \/ AddEntry(d) \/ PlatformAdd(d)
              \/ SearchDevice(d) \/ ReturnHandle(d) \/ Unlist(d) \/ PlatformDel(d) \/ Undone(d)
       PROVE  MinorsAccounted'
  <2>1. UNCHANGED <<minor, class, ida, regs, todo>>
    BY <1>10 DEF CdevAdd, Setup, CheckEntry, AddEntry, PlatformAdd, SearchDevice, ReturnHandle,
                 Unlist, PlatformDel, Undone
  <2>2. Reserved' = Reserved
    BY <1>t, <2>1, ReservedSame
  <2> QED BY <2>1, <2>2, MinorsSame
<1> QED BY <1>1, <1>2, <1>3, <1>4, <1>5, <1>6, <1>7, <1>8, <1>9, <1>10
        DEF Next, CreateStep, UndoStep, Call
------------------------------------------------------------------------------
(* The types.                                                               *)

LEMMA ClassNameType ==
  ASSUME TypeOK, NEW d \in Device, minor[d] # -1
  PROVE  ClassName(d) \in ClassNames
<1>1. minor[d] \in 0..(MinorMax - 1) /\ request[d] \in Requests[d]
  BY MinorAssumption DEF TypeOK
<1>2. CASE request[d].name # NoName
  <2>1. request[d].name \in AskedNames
    BY <1>1 DEF AskedNames
  <2> QED BY <1>2, <2>1 DEF ClassName, ClassNames
<1>3. CASE request[d].name = NoName
  <2>1. NumberedName(minor[d]) \in NumberedNames
    BY <1>1 DEF NumberedNames
  <2>2. ClassName(d) \in {DriverName, NumberedName(minor[d])}
    BY <1>3 DEF ClassName
  <2>3. DriverName \in ClassNames /\ NumberedName(minor[d]) \in ClassNames
    BY <2>1 DEF ClassNames
  <2> QED BY <2>2, <2>3
<1> QED BY <1>2, <1>3

LEMMA NoClassType == NoClass \in [name : ClassNames, number : -1..(MinorMax - 1)]
BY MinorAssumption DEF NoClass, ClassNames

LEMMA TypeStep ==
  ASSUME IInv, Next
  PROVE  TypeOK'
<1>t. TypeOK
  BY DEF IInv
<1>p. pc' \in [Device -> Places] /\ list' \in Seq(Device)
  BY ProgressStep
<1>1. ASSUME NEW d \in Device, Probe(d) \/ CreateStatic(d) \/ Create(d)
      PROVE  TypeOK'
  <2>1. \/ UNCHANGED <<request, created>>
        \/ \E r \in Requests[d] : /\ request' = [request EXCEPT ![d] = r]
                                  /\ created' = [created EXCEPT ![d] = TRUE]
    BY <1>1 DEF Probe, CreateStatic, Create, Begin
  <2>2. /\ request' \in [Device -> UNION {Requests[e] : e \in Device}]
        /\ \A e \in Device : request'[e] \in Requests[e]
        /\ created' \in [Device -> BOOLEAN]
    <3>1. CASE UNCHANGED <<request, created>>
      BY <1>t, <3>1 DEF TypeOK
    <3>2. CASE \E r \in Requests[d] : /\ request' = [request EXCEPT ![d] = r]
                                      /\ created' = [created EXCEPT ![d] = TRUE]
      <4>1. PICK r \in Requests[d] : request' = [request EXCEPT ![d] = r]
        BY <3>2
      <4>2. r \in UNION {Requests[e] : e \in Device}
        OBVIOUS
      <4>3. request' \in [Device -> UNION {Requests[e] : e \in Device}]
        BY <1>t, <4>1, <4>2 DEF TypeOK
      <4>4. \A e \in Device : request'[e] = IF e = d THEN r ELSE request[e]
        BY <1>t, <4>1 DEF TypeOK
      <4>5. created' \in [Device -> BOOLEAN]
        BY <1>t, <3>2 DEF TypeOK
      <4> QED BY <1>t, <4>3, <4>4, <4>5 DEF TypeOK
    <3> QED BY <2>1, <3>1, <3>2
  <2>3. ida' \subseteq ida /\ todo' \subseteq todo
    BY <1>1 DEF Probe, CreateStatic, Create
  <2> QED BY <1>1, <1>t, <1>p, <2>2, <2>3 DEF Probe, CreateStatic, Create, TypeOK
<1>2. ASSUME NEW d \in Device, RemoveDevice(d) \/ Cleanup(d)
      PROVE  TypeOK'
  <2>1. created' = [created EXCEPT ![d] = FALSE] /\ created' \in [Device -> BOOLEAN]
    BY <1>2, <1>t DEF RemoveDevice, Cleanup, Fail, TypeOK
  <2>2. handle' \in [Device -> Device \cup {None}]
    BY <1>2, <1>t DEF RemoveDevice, Cleanup, TypeOK
  <2> QED BY <1>2, <1>t, <1>p, <2>1, <2>2 DEF RemoveDevice, Cleanup, TypeOK
<1>c. ASSUME NEW d \in Device, Continue(d) \/ Fail(d) \/ UNCHANGED created
      PROVE  created' \in [Device -> BOOLEAN]
  BY <1>t, <1>c DEF Continue, Fail, TypeOK
<1>3. ASSUME NEW d \in Device, AllocMinor(d)
      PROVE  TypeOK'
  <2>1. created' \in [Device -> BOOLEAN]
    BY <1>3, <1>c DEF AllocMinor
  <2>2. \/ UNCHANGED <<minor, ida>>
        \/ \E m \in 0..(MinorMax - 1) : minor' = [minor EXCEPT ![d] = m] /\ ida' = ida \cup {m}
    BY <1>3 DEF AllocMinor
  <2>3. minor' \in [Device -> -1..(MinorMax - 1)] /\ ida' \subseteq 0..(MinorMax - 1)
    <3>1. CASE UNCHANGED <<minor, ida>>
      BY <1>t, <3>1 DEF TypeOK
    <3>2. CASE \E m \in 0..(MinorMax - 1) : minor' = [minor EXCEPT ![d] = m] /\ ida' = ida \cup {m}
      <4>1. PICK m \in 0..(MinorMax - 1) : minor' = [minor EXCEPT ![d] = m] /\ ida' = ida \cup {m}
        BY <3>2
      <4>2. m \in -1..(MinorMax - 1)
        BY MinorAssumption
      <4> QED BY <1>t, <4>1, <4>2 DEF TypeOK
    <3> QED BY <2>2, <3>1, <3>2
  <2> QED BY <1>3, <1>t, <1>p, <2>1, <2>3 DEF AllocMinor, TypeOK
<1>4. ASSUME NEW d \in Device, DeviceCreate(d)
      PROVE  TypeOK'
  <2>1. created' \in [Device -> BOOLEAN]
    BY <1>4, <1>c DEF DeviceCreate
  <2>2. class' \in [Device -> [name : ClassNames, number : -1..(MinorMax - 1)]]
    <3>1. minor[d] # -1 /\ minor[d] \in -1..(MinorMax - 1)
      BY <1>4, <1>t, CreatesAtAStep DEF DeviceCreate, Resting, TypeOK
    <3>2. [name |-> ClassName(d), number |-> minor[d]] \in [name : ClassNames, number : -1..(MinorMax - 1)]
      BY <1>t, <3>1, ClassNameType
    <3> QED BY <1>4, <1>t, <3>2 DEF DeviceCreate, TypeOK
  <2> QED BY <1>4, <1>t, <1>p, <2>1, <2>2 DEF DeviceCreate, TypeOK
<1>5. ASSUME NEW d \in Device, CdevAdd(d) \/ CheckEntry(d)
      PROVE  TypeOK'
  <2>1. created' \in [Device -> BOOLEAN]
    BY <1>5, <1>c DEF CdevAdd, CheckEntry
  <2> QED BY <1>5, <1>t, <1>p, <2>1 DEF CdevAdd, CheckEntry, TypeOK
<1>6. ASSUME NEW d \in Device, Setup(d) \/ PlatformAdd(d) \/ AddEntry(d)
      PROVE  TypeOK'
  <2>1. created' \in [Device -> BOOLEAN]
    BY <1>6, <1>c DEF Setup, PlatformAdd, AddEntry
  <2>2. /\ buffer' \in [Device -> BOOLEAN] /\ bus' \in [Device -> BOOLEAN]
        /\ named' \in [Device -> BOOLEAN]
    BY <1>6, <1>t DEF Setup, PlatformAdd, AddEntry, TypeOK
  <2>3. UNCHANGED <<phase, regs, parent, todo, request, ida, minor, class, found, handle>>
    BY <1>6 DEF Setup, PlatformAdd, AddEntry
  <2> QED BY <1>t, <1>p, <2>1, <2>2, <2>3 DEF TypeOK
<1>7. ASSUME NEW d \in Device, SearchDevice(d) \/ ReturnHandle(d)
      PROVE  TypeOK'
  <2>1. found' \in [Device -> Device \cup {None}] /\ handle' \in [Device -> Device \cup {None}]
    <3>1. CASE SearchDevice(d)
      <4>1. \E e \in Device \cup {None} : found' = [found EXCEPT ![d] = e]
        <5>1. \A i \in DOMAIN list : list[i] \in Device
          BY <1>t DEF TypeOK
        <5>2. Matches(request[d].name, request[d].id) \subseteq DOMAIN list
          BY DEF Matches
        <5>3. \/ found' = [found EXCEPT ![d] = None]
              \/ \E i \in DOMAIN list : found' = [found EXCEPT ![d] = list[i]]
          BY <3>1, <5>2 DEF SearchDevice
        <5> QED BY <5>1, <5>3
      <4>2. handle' = handle
        BY <3>1 DEF SearchDevice
      <4>3. PICK e \in Device \cup {None} : found' = [found EXCEPT ![d] = e]
        BY <4>1
      <4>4. found' \in [Device -> Device \cup {None}]
        BY <1>t, <4>3 DEF TypeOK
      <4> QED BY <1>t, <4>2, <4>4 DEF TypeOK
    <3>2. CASE ReturnHandle(d)
      <4>1. found' = [found EXCEPT ![d] = None] /\ handle' = [handle EXCEPT ![d] = found[d]]
        BY <3>2 DEF ReturnHandle
      <4>2. found[d] \in Device \cup {None}
        BY <1>t DEF TypeOK
      <4> QED BY <1>t, <4>1, <4>2 DEF TypeOK
    <3> QED BY <1>7, <3>1, <3>2
  <2>2. UNCHANGED <<phase, regs, parent, todo, request, created, named, bus, ida, minor, class, buffer>>
    BY <1>7 DEF SearchDevice, ReturnHandle
  <2> QED BY <1>t, <1>p, <2>1, <2>2 DEF TypeOK
<1>8. ASSUME NEW d \in Device, UndoStep(d)
      PROVE  TypeOK'
  <2>1. /\ named' \in [Device -> BOOLEAN] /\ bus' \in [Device -> BOOLEAN]
        /\ buffer' \in [Device -> BOOLEAN]
    BY <1>8, <1>t DEF UndoStep, Unlist, DestroyDevice, ReleaseMinor, PlatformDel, Undone, TypeOK
  <2>2. class' \in [Device -> [name : ClassNames, number : -1..(MinorMax - 1)]]
    <3>1. CASE DestroyDevice(d)
      BY <1>t, <3>1, NoClassType DEF DestroyDevice, TypeOK
    <3>2. CASE ~DestroyDevice(d)
      BY <1>8, <1>t, <3>2 DEF UndoStep, Unlist, ReleaseMinor, PlatformDel, Undone, TypeOK
    <3> QED BY <3>1, <3>2
  <2>3. minor' \in [Device -> -1..(MinorMax - 1)] /\ ida' \subseteq ida
    <3>1. CASE ReleaseMinor(d)
      <4>1. ida' \subseteq ida /\ minor' = [minor EXCEPT ![d] = -1] /\ -1 \in -1..(MinorMax - 1)
        BY <3>1, MinorAssumption DEF ReleaseMinor
      <4> QED BY <1>t, <4>1 DEF TypeOK
    <3>2. CASE ~ReleaseMinor(d)
      BY <1>8, <1>t, <3>2 DEF UndoStep, Unlist, DestroyDevice, PlatformDel, Undone, TypeOK
    <3> QED BY <3>1, <3>2
  <2>4. UNCHANGED <<phase, regs, parent, todo, request, created, found, handle>>
    BY <1>8 DEF UndoStep, Unlist, DestroyDevice, ReleaseMinor, PlatformDel, Undone
  <2> QED BY <1>t, <1>p, <2>1, <2>2, <2>3, <2>4 DEF TypeOK
<1>9. ASSUME ModuleStep
      PROVE  TypeOK'
  <2>1. /\ phase' \in {"load", "init", "live", "exit", "exited"} /\ todo' \subseteq todo
        /\ regs' \subseteq {"major", "class", "driver"}
    BY <1>9, <1>t DEF ModuleStep, AllocRegion, CreateClass, RegisterDriver, Register, Loaded, Exit,
                      Exited, TypeOK
  <2>2. ida' \subseteq 0..(MinorMax - 1)
    <3>1. StaticMinors \subseteq 0..(MinorMax - 1)
      BY StaticNumbers DEF StaticMinors
    <3> QED BY <1>9, <1>t, <3>1 DEF ModuleStep, AllocRegion, CreateClass, RegisterDriver, Register,
                                    Loaded, Exit, Exited, TypeOK
  <2>3. handle' \in [Device -> Device \cup {None}]
    BY <1>9, <1>t DEF ModuleStep, AllocRegion, CreateClass, RegisterDriver, Register, Loaded, Exit,
                      Exited, TypeOK
  <2> QED BY <1>9, <1>t, <1>p, <2>1, <2>2, <2>3, ModuleFrame DEF TypeOK
<1> QED BY <1>1, <1>2, <1>3, <1>4, <1>5, <1>6, <1>7, <1>8, <1>9 DEF Next, CreateStep, Call, ModuleStep
------------------------------------------------------------------------------
(* What is still to be created.                                             *)

LEMMA ToDoStep ==
  ASSUME IInv, Next
  PROVE  ToDo'
<1>t. TypeOK /\ Progress /\ ToDo
  BY DEF IInv
<1>1. ASSUME NEW d \in Device, Moves(d)
      PROVE  ToDo'
  <2>1. UNCHANGED <<phase, regs>> /\ todo' \subseteq todo
    BY <1>1 DEF Moves, CreateStep, UndoStep, Call, AllocMinor, DeviceCreate, CdevAdd, Setup,
                CheckEntry, AddEntry, PlatformAdd, SearchDevice, ReturnHandle, Unlist, DestroyDevice,
                ReleaseMinor, PlatformDel, Undone, Probe, CreateStatic, Create, RemoveDevice,
                Cleanup
  <2>2. d \notin todo'
    <3>1. CASE CreateStep(d) \/ UndoStep(d)
      <4>1. pc[d] # "idle"
        BY <3>1 DEF CreateStep, UndoStep, AllocMinor, DeviceCreate, CdevAdd, Setup, CheckEntry,
                    AddEntry, PlatformAdd, SearchDevice, ReturnHandle, Unlist, DestroyDevice,
                    ReleaseMinor, PlatformDel, Undone
      <4> QED BY <4>1, <1>t, <2>1 DEF ToDo
    <3>2. CASE Probe(d) \/ CreateStatic(d)
      BY <3>2 DEF Probe, CreateStatic
    <3>3. CASE Create(d)
      BY <3>3, <1>t, <2>1 DEF Create, ToDo, Clients
    <3>4. CASE RemoveDevice(d) \/ Cleanup(d)
      <4>1. Listed(d) \/ minor[d] # -1
        <5>1. list # <<>> => Listed(Head(list))
          <6>1. list # <<>> => 1 \in DOMAIN list /\ list[1] = Head(list)
            BY <1>t DEF TypeOK
          <6> QED BY <6>1 DEF Listed
        <5> QED BY <3>4, <5>1 DEF RemoveDevice, Cleanup
      <4> QED BY <4>1, <1>t, <2>1 DEF ToDo, Nothing
    <3> QED BY <1>1, <3>1, <3>2, <3>3, <3>4 DEF Moves, Call
  <2>3. \A e \in todo' : Kind[e] \in {"dt", "static"} /\ pc'[e] = "idle" /\ Nothing(e)'
    <3>1. TAKE e \in todo'
    <3>2. e \in Device \ {d} /\ e \in todo
      BY <1>t, <2>1, <2>2 DEF TypeOK
    <3>3. Same(e)
      BY <1>1, <3>2, Others
    <3> QED BY <1>t, <3>2, <3>3 DEF ToDo, Same, Nothing
  <2>4. phase # "load"
    <3>1. SUFFICES ASSUME phase = "load" PROVE FALSE
      OBVIOUS
    <3>2. pc[d] = "idle" /\ Nothing(d)
      BY <1>t, <3>1 DEF ToDo
    <3> QED BY <1>1, <3>1, <3>2
            DEF Moves, CreateStep, UndoStep, Call, AllocMinor, DeviceCreate, CdevAdd, Setup,
                CheckEntry, AddEntry, PlatformAdd, SearchDevice, ReturnHandle, Unlist, DestroyDevice,
                ReleaseMinor, PlatformDel, Undone, Probe, CreateStatic, Create, RemoveDevice,
                Cleanup
  <2> QED BY <1>t, <2>1, <2>3, <2>4 DEF ToDo
<1>2. ASSUME ModuleStep
      PROVE  ToDo'
  <2>1. \A d \in Device : pc'[d] = pc[d] /\ (Nothing(d)' <=> Nothing(d))
    BY <1>2, ModuleFrame DEF Nothing, Listed
  <2>2. todo' \subseteq todo /\ todo' \subseteq Device
    BY <1>2, <1>t DEF ModuleStep, AllocRegion, CreateClass, RegisterDriver, Register, Loaded, Exit,
                      Exited, TypeOK
  <2>3. \A d \in todo' : Kind[d] \in {"dt", "static"} /\ pc'[d] = "idle" /\ Nothing(d)'
    BY <1>t, <2>1, <2>2 DEF ToDo
  <2>4. phase' = "load" => /\ phase = "load" /\ todo' = todo
                           /\ "class" \notin regs' => "class" \notin regs /\ ida' = ida
    BY <1>2 DEF ModuleStep, AllocRegion, CreateClass, RegisterDriver, Register, Loaded, Exit, Exited
  <2>5. phase' = "init" => "class" \in regs'
    BY <1>2 DEF ModuleStep, AllocRegion, CreateClass, RegisterDriver, Register, Loaded, Exit, Exited
  <2> QED BY <1>t, <2>1, <2>3, <2>4, <2>5 DEF ToDo
<1> QED BY <1>1, <1>2 DEF Next, Moves, ModuleStep
------------------------------------------------------------------------------
(* The registry's inductive invariant: every minor number taken is          *)
(* accounted for, a device in creation has just what its steps have given   *)
(* it, one at rest all or nothing, and one still to come nothing.           *)

LEMMA InitInv == Init => IInv
<1> SUFFICES ASSUME Init PROVE IInv
  OBVIOUS
<1>1. TypeOK
  <2>1. parent \in {"none", "device", "missing"}
    BY DEF Init, StaticParent
  <2>2. /\ request \in [Device -> UNION {Requests[d] : d \in Device}]
        /\ \A d \in Device : request[d] \in Requests[d]
    <3>1. \A d \in Device : (CHOOSE r \in Requests[d] : TRUE) \in Requests[d]
      BY RequestAssumption
    <3> QED BY <3>1 DEF Init
  <2>3. /\ todo \subseteq Device /\ phase = "load" /\ regs = {} /\ ida = {} /\ list \in Seq(Device)
        /\ pc \in [Device -> Places] /\ minor \in [Device -> -1..(MinorMax - 1)]
        /\ class \in [Device -> [name : ClassNames, number : -1..(MinorMax - 1)]]
    BY NoClassType, MinorAssumption DEF Init, OfKind, Places
  <2> QED BY <2>1, <2>2, <2>3 DEF Init, TypeOK
<1>2. \A d \in Device : pc[d] = "idle" /\ Nothing(d)
  BY DEF Init, Nothing, Listed
<1>3. MinorsAccounted
  BY DEF Init, MinorsAccounted, Reserved, Taken
<1>4. Progress
  BY <1>2 DEF Progress, Doing, Resting
<1>5. ListedOnce
  BY DEF Init, ListedOnce
<1>6. ToDo
  BY <1>2 DEF Init, ToDo, OfKind
<1> QED BY <1>1, <1>3, <1>4, <1>5, <1>6 DEF IInv

THEOREM Invariance == Spec => []IInv
<1>1. IInv /\ [Next]_vars => IInv'
  <2> SUFFICES ASSUME IInv, [Next]_vars PROVE IInv'
    OBVIOUS
  <2>1. CASE Next
    BY <2>1, TypeStep, ProgressStep, MinorsStep, ToDoStep DEF IInv
  <2>2. CASE UNCHANGED vars
    <3>1. TypeOK' /\ ListedOnce'
      BY <2>2 DEF IInv, vars, TypeOK, ListedOnce
    <3>4. MinorsAccounted'
      <4>1. Reserved' = Reserved /\ Taken' = Taken
        BY <2>2 DEF vars, Reserved, Taken
      <4> QED BY <2>2, <4>1 DEF IInv, vars, MinorsAccounted
    <3>5. ToDo'
      <4>1. \A d \in Device : Nothing(d)' <=> Nothing(d)
        BY <2>2 DEF vars, Nothing, Listed
      <4>2. todo \subseteq Device
        BY DEF IInv, TypeOK
      <4> QED BY <2>2, <4>1, <4>2 DEF IInv, vars, ToDo
    <3>2. \A d \in Device : Same(d)
      BY <2>2 DEF vars, Same, Listed
    <3>3. Progress'
      BY <2>2, <3>2, Untouched DEF IInv, Progress, vars
    <3> QED BY <3>1, <3>3, <3>4, <3>5 DEF IInv
  <2> QED BY <2>1, <2>2
<1> QED BY <1>1, InitInv, PTL DEF Spec

(* A device that no call works on has all of its resources or none.         *)
THEOREM AllOrNone == Spec => []AllOrNothing
<1>1. IInv => AllOrNothing
  <2> SUFFICES ASSUME IInv, NEW d \in Device, pc[d] = "idle"
               PROVE  Holds(d) \in {{}, AllOf(d)}
    BY DEF AllOrNothing
  <2>1. Nothing(d) \/ Everything(d)
    BY DEF IInv, Progress, Doing, Resting
  <2>2. /\ "minor" \in Holds(d) <=> minor[d] # -1
        /\ "class" \in Holds(d) <=> class[d] # NoClass
        /\ "buffer" \in Holds(d) <=> buffer[d]
        /\ "bus" \in Holds(d) <=> bus[d]
        /\ "list" \in Holds(d) <=> Listed(d)
        /\ Holds(d) \subseteq {"minor", "class", "buffer", "bus", "list"}
    BY DEF Holds
  <2>3. CASE Nothing(d)
    BY <2>2, <2>3 DEF Nothing
  <2>4. CASE Everything(d)
    <3>1. /\ "minor" \in AllOf(d) /\ "class" \in AllOf(d) /\ "buffer" \in AllOf(d)
          /\ "bus" \in AllOf(d) <=> OnBus(d)
          /\ "list" \in AllOf(d) <=> Kind[d] # "dt"
          /\ AllOf(d) \subseteq {"minor", "class", "buffer", "bus", "list"}
      BY DEF AllOf, OnBus
    <3>2. \A x : x \in Holds(d) <=> x \in AllOf(d)
      BY <2>2, <2>4, <3>1 DEF Everything
    <3> QED BY <3>2
  <2> QED BY <2>1, <2>3, <2>4
<1> QED BY <1>1, Invariance, PTL

(* An entry never outlives its device, and no device is listed twice.       *)
THEOREM EntriesLive == Spec => []EntriesAreLive
<1>1. IInv => EntriesAreLive
  <2> SUFFICES ASSUME IInv PROVE EntriesAreLive
    OBVIOUS
  <2>1. ASSUME NEW d \in Device, Listed(d), AsChild(d) PROVE class[d] # NoClass
    <3>1. CASE pc[d] \in Resting
      BY <2>1, <3>1 DEF IInv, Progress, Doing, Nothing, Everything
    <3>2. CASE pc[d] = "undo"
      BY <2>1, <3>2 DEF IInv, Progress, Doing, Undoing
    <3>3. CASE pc[d] \notin Resting \cup {"undo"}
      <4>1. Building(d)
        BY <3>3 DEF IInv, Progress, Doing
      <4> QED BY <2>1, <4>1, AtLast DEF Building
    <3> QED BY <3>1, <3>2, <3>3
  <2> QED BY <2>1 DEF IInv, ListedOnce, EntriesAreLive
<1> QED BY <1>1, Invariance, PTL

(* A module that is unloaded, or whose load fails, leaves no device behind.  *)
THEOREM ExitLeavesNothing == Spec => ExitReleasesAll
<1>1. IInv /\ [Next]_vars =>
        [phase = "exit" /\ phase' = "exited" =>
           ida \subseteq Reserved /\ \A d \in Device : Holds(d) = {}]_vars
  <2> SUFFICES ASSUME IInv, Next, phase = "exit", phase' = "exited"
               PROVE  ida \subseteq Reserved /\ \A d \in Device : Holds(d) = {}
    BY DEF vars
  <2>1. Exited
    BY DEF Next, CreateStep, UndoStep, Call, AllocMinor, DeviceCreate, CdevAdd, Setup, CheckEntry,
           AddEntry, PlatformAdd, SearchDevice, ReturnHandle, Unlist, DestroyDevice, ReleaseMinor,
           PlatformDel, Undone, Probe, CreateStatic, Create, RemoveDevice, Cleanup, AllocRegion,
           CreateClass, RegisterDriver, Register, Loaded, Exit
  <2>2. \A d \in Device : pc[d] = "idle" /\ ~Listed(d) /\ (Kind[d] = "dt" => minor[d] = -1)
    BY <2>1 DEF Exited, Quiet, Listed, OfKind
  <2>3. \A d \in Device : Nothing(d)
    BY <2>2 DEF IInv, Progress, Doing, Resting, Everything
  <2>4. Taken = {}
    BY <2>3 DEF Taken, Nothing
  <2>5. \A d \in Device : Holds(d) = {}
    BY <2>3 DEF Holds, Nothing
  <2> QED BY <2>4, <2>5 DEF IInv, MinorsAccounted
<1> QED BY <1>1, Invariance, PTL DEF Spec, ExitReleasesAll
================================================================================
