--------------------------- MODULE ControlProofs ---------------------------
(***************************************************************************)
(* Proofs about what a control loop consists of, for any number of address  *)
(* bits and devices, and gains, ranges and clocks of any size: the searches *)
(* of the bus, the sensors that measure, and the PID controller.            *)
(*                                                                         *)
(* Of the searches three results:                                           *)
(*   - PhantomFree: they return the addresses of devices only, whatever     *)
(*     comes and goes meanwhile;                                           *)
(*   - CompleteHolds: on a bus that does not change, a pass finds every     *)
(*     device, once;                                                       *)
(*   - TargetedHolds: a pass for a family finds the family first.           *)
(*                                                                         *)
(* PhantomFree: the devices that still take part have the address that has  *)
(* been collected so far (OnPath), and the direction taken at a bit where    *)
(* anyone answers is that of one of them (SomeoneFollows).                   *)
(*                                                                         *)
(* The other two: an address w splits the devices into those that leave its *)
(* path for a 0 where w has a 1 (Lower), for a 1 where w has a 0 (Upper),    *)
(* and those on it.  Between two calls, Lower and the address found last     *)
(* are what was found (Rest), and nothing is left behind the last bit where *)
(* a 1 is pending.  A call copies the path up to that bit and turns to 1     *)
(* there, which makes what was found the Lower of the new path (Beyond).     *)
(* Walk says so at every bit, and what both searches remember - a position  *)
(* that counts from 1, or a char that counts from 0 with -1 for none - are   *)
(* the turn and the last 0 taken of one Walk.                               *)
(***************************************************************************)
EXTENDS OneWire, Sensors, PID, FiniteSetTheorems, TLAPS

-----------------------------------------------------------------------------
(* The searches of the bus                                                 *)

\* Every device in active agrees with w in the bits before the next one.
Agreeing(w) == \A d \in active : \A k \in 1..(bit - 1) : d[k] = w[k]

\* The devices that take part have the bits that the running search has collected.
OnPath ==
  /\ busy = "search" => Agreeing(ROM_NO)
  /\ busy = "alarm"  => Agreeing(alarmSearchAddress)

SearchInv == TypeOK /\ OnPath /\ NoPhantom

-----------------------------------------------------------------------------
(* The address and what it is made of                                      *)

\* An address with a bit set or cleared is an address.
LEMMA SetBit ==
  ASSUME NEW w \in Word, NEW b \in 1..RomBits, NEW v \in {0, 1}
  PROVE  [w EXCEPT ![b] = v] \in Word
  BY DEF Word

LEMMA FamilyType ==
  ASSUME NEW w \in Word
  PROVE  Family(w) \in {Family(u) : u \in Word}
  OBVIOUS

LEMMA ZerosType == Zeros \in Word
  BY OneWireAssumption DEF Zeros, Word

LEMMA NoFamilyType == NoFamily \in {Family(u) : u \in Word}
  <1>1. FamilyBits \in 1..RomBits /\ RomBits \in Nat
    BY OneWireAssumption
  <1>2. NoFamily = Family(Zeros)
    BY <1>1 DEF NoFamily, Family, Zeros
  <1> QED BY <1>2, ZerosType

\* The directions that the two searches take.
LEMMA Directions ==
  ASSUME TypeOK
  PROVE  IdBit \in {0, 1} /\ SearchDirection \in {0, 1} /\ AlarmDirection \in {0, 1}
  <1>1. IdBit \in {0, 1} /\ CmpBit \in {0, 1}
    BY DEF IdBit, CmpBit
  <1>2. ROM_NO[bit] \in {0, 1} /\ alarmSearchAddress[bit] \in {0, 1}
    BY DEF TypeOK, Word
  <1>3. SearchDirection \in {0, 1}
    BY <1>1, <1>2 DEF SearchDirection
  <1>4. AlarmDirection \in {0, 1}
    BY <1>1, <1>2 DEF AlarmDirection
  <1> QED BY <1>1, <1>3, <1>4

\* Where anyone answers, a device that takes part has the bit that is chosen.
LEMMA SomeoneFollows ==
  ASSUME TypeOK, ~(IdBit = 1 /\ CmpBit = 1)
  PROVE  /\ \E d \in active : d[bit] = SearchDirection
         /\ \E d \in active : d[bit] = AlarmDirection
  <1>1. IdBit = 0 <=> \E d \in active : d[bit] = 0
    BY DEF IdBit
  <1>2. CmpBit = 0 <=> \E d \in active : d[bit] = 1
    BY DEF CmpBit
  <1>3. IdBit \in {0, 1} /\ CmpBit \in {0, 1}
    BY DEF IdBit, CmpBit
  <1>4. SearchDirection \in {0, 1} /\ AlarmDirection \in {0, 1}
    BY Directions
  <1>5. IdBit # CmpBit => SearchDirection = IdBit /\ AlarmDirection = IdBit
    BY <1>3 DEF SearchDirection, AlarmDirection, Fork
  <1> QED BY <1>1, <1>2, <1>3, <1>4, <1>5

-----------------------------------------------------------------------------
(* Type correctness                                                        *)

\* What a history of a pass is made of.
LEMMA NewPassType ==
  ASSUME NEW kind \in {"search", "alarm"}, NEW family \in {Family(w) : w \in Word}
  PROVE  NewPass(kind, family) \in PassType
  BY DEF NewPass, PassType

LEMMA FoundType ==
  ASSUME pass \in PassType, NEW w \in Word, Found(w)
  PROVE  pass' \in PassType /\ pass'.found = pass.found \cup {w}
  <1>1. (pass.twice \/ w \in pass.found) \in BOOLEAN
    OBVIOUS
  <1>2. pass.found \cup {w} \in SUBSET Word
    BY DEF PassType
  <1> QED BY <1>1, <1>2 DEF Found, PassType

LEMMA OverType ==
  ASSUME pass \in PassType, Over
  PROVE  pass' \in PassType /\ pass'.found = pass.found
  BY DEF Over, PassType

\* 0 is a position before the first bit.
LEMMA ZeroPosition == 0 \in 0..RomBits
  BY OneWireAssumption

LEMMA ResetType ==
  ASSUME ResetCounters
  PROVE  LastDiscrepancy' \in 0..RomBits /\ LastDeviceFlag' \in BOOLEAN
  BY ZeroPosition DEF ResetCounters

LEMMA InitType == Init => TypeOK
  <1> SUFFICES ASSUME Init PROVE TypeOK
    OBVIOUS
  <1>1. pass \in PassType
    BY NewPassType, NoFamilyType DEF Init
  <1>2. 0 \in 0..RomBits /\ 1 \in 1..RomBits /\ 0 \in 0..MaxChanges
    BY OneWireAssumption
  <1>3. alarmSearchJunction \in {NoJunction} \cup 0..(RomBits - 1)
    BY DEF Init
  <1>4. lastJunction \in {NoJunction} \cup 0..(RomBits - 1)
    BY DEF Init
  <1> QED BY <1>1, <1>2, <1>3, <1>4, ZerosType DEF Init, TypeOK

\* What a step of the searches does to each type.
LEMMA StepType == TypeOK /\ [Next]_vars => TypeOK'
  <1> SUFFICES ASSUME TypeOK, [Next]_vars PROVE TypeOK'
    OBVIOUS
  <1> USE OneWireAssumption
  <1>0. pass \in PassType
    BY DEF TypeOK
  <1>1. CASE search
    BY <1>1 DEF search, Begin, Called, TypeOK, bus, normal, alarm
  <1>2. CASE SearchFails
    <2>1. pass' \in PassType
      BY <1>0, <1>2, OverType DEF SearchFails
    <2> QED BY <1>2, <2>1, ResetType DEF SearchFails, TypeOK, bus, alarm, locals
  <1>3. CASE SearchBreaks
    <2>1. pass' \in PassType
      BY <1>0, <1>3, OverType DEF SearchBreaks
    <2> QED
      BY <1>3, <2>1, ResetType DEF SearchBreaks, Return, TypeOK, bus, alarm, locals
  <1>4. CASE SearchBit
    <2>1. ROM_NO' \in Word
      BY <1>4, Directions, SetBit DEF SearchBit, TypeOK
    <2>2. LastZero \in 0..RomBits
      BY DEF LastZero, TypeOK
    <2>3. Following(SearchDirection) \subseteq Devices
      BY DEF Following, TypeOK
    <2>4. pass' \in PassType
      BY <1>0, <1>4, <2>1, FoundType, OverType DEF SearchBit
    <2>5. LastDiscrepancy' \in 0..RomBits /\ LastDeviceFlag' \in BOOLEAN
      BY <1>4, <2>2, ResetType DEF SearchBit, TypeOK
    <2> QED
      BY <1>4, <2>1, <2>2, <2>3, <2>4, <2>5
         DEF SearchBit, Return, TypeOK, bus, alarm, locals
  <1>5. CASE alarmSearch
    BY <1>5 DEF alarmSearch, Begin, Called, TypeOK, bus, normal, alarm
  <1>6. CASE AlarmSearchFails
    <2>1. pass' \in PassType
      BY <1>0, <1>6, OverType DEF AlarmSearchFails
    <2> QED BY <1>6, <2>1 DEF AlarmSearchFails, TypeOK, bus, normal, alarm, locals
  <1>7. CASE AlarmBreaks
    <2>1. pass' \in PassType
      BY <1>0, <1>7, OverType DEF AlarmBreaks
    <2> QED BY <1>7, <2>1 DEF AlarmBreaks, Return, TypeOK, bus, normal, alarm, locals
  <1>8. CASE AlarmBit
    <2>1. alarmSearchAddress' \in Word
      BY <1>8, Directions, SetBit DEF AlarmBit, TypeOK
    <2>2. bitIndex \in 0..(RomBits - 1)
      BY DEF bitIndex, TypeOK
    <2>3. Following(AlarmDirection) \subseteq Devices
      BY DEF Following, TypeOK
    <2>4. pass' \in PassType
      BY <1>0, <1>8, <2>1, FoundType DEF AlarmBit
    <2>5. Done \in BOOLEAN
      BY DEF Done, TypeOK
    <2> QED
      BY <1>8, <2>1, <2>2, <2>3, <2>4, <2>5
         DEF AlarmBit, Return, TypeOK, bus, normal, locals
  <1>9. CASE Start
    <2>1. CASE reset_search
      <3>1. pass' \in PassType
        BY <2>1, NewPassType, NoFamilyType DEF reset_search
      <3>2. LastDiscrepancy' \in 0..RomBits
        BY <2>1, ZeroPosition DEF reset_search
      <3> QED BY <2>1, <3>1, <3>2, ZerosType DEF reset_search, TypeOK, bus, alarm, locals
    <2>2. CASE resetAlarmSearch
      <3>1. pass' \in PassType
        BY <2>2, NewPassType, NoFamilyType DEF resetAlarmSearch
      <3>2. alarmSearchAddress' \in Word
        BY <2>2 DEF resetAlarmSearch, TypeOK, Word, Zeros
      <3> QED
        BY <2>2, <3>1, <3>2 DEF resetAlarmSearch, TypeOK, bus, normal, locals
    <2>3. ASSUME NEW d \in Devices, target_search(Family(d)) PROVE TypeOK'
      <3>1. d \in Word
        OBVIOUS
      <3>2. pass' \in PassType
        BY <2>3, <3>1, NewPassType, FamilyType DEF target_search
      <3>3. ROM_NO' \in Word
        BY <2>3, <3>1 DEF target_search, Word, Family
      <3>4. LastDiscrepancy' \in 0..RomBits
        BY <2>3 DEF target_search, BehindAll
      <3> QED
        BY <2>3, <3>2, <3>3, <3>4 DEF target_search, TypeOK, bus, alarm, locals
    <2> QED BY <1>9, <2>1, <2>2, <2>3 DEF Start
  <1>10. CASE BusChanges
    <2>1. pass' \in PassType
      BY <1>0, <1>10 DEF BusChanges, PassType
    <2>2. present' \subseteq Devices /\ alarmed' \subseteq Devices /\ active' \subseteq Devices
      BY <1>10 DEF BusChanges, Plug, Unplug, Alarm, TypeOK
    <2> QED BY <1>10, <2>1, <2>2 DEF BusChanges, TypeOK, normal, alarm, locals
  <1>11. CASE UNCHANGED vars
    BY <1>11 DEF vars, bus, normal, alarm, locals, TypeOK
  <1> QED
    BY <1>1, <1>2, <1>3, <1>4, <1>5, <1>6, <1>7, <1>8, <1>9, <1>10, <1>11 DEF Next, Step

\* Every variable of the searches keeps its type.
THEOREM TypeCorrect == Spec => []TypeOK
  BY InitType, StepType, PTL DEF Spec

-----------------------------------------------------------------------------
(* No address is made up                                                   *)

\* The bit that is written keeps those on the path that have it.
LEMMA StayOnPath ==
  ASSUME TypeOK, NEW w \in Word, Agreeing(w), NEW v \in {0, 1},
         NEW d \in Following(v)
  PROVE  \A k \in 1..bit : d[k] = [w EXCEPT ![bit] = v][k]
  <1>1. d \in active /\ d[bit] = v
    BY DEF Following
  <1>2. \A k \in 1..(bit - 1) : d[k] = w[k]
    BY <1>1 DEF Agreeing
  <1>3. bit \in 1..RomBits /\ RomBits \in Nat
    BY OneWireAssumption DEF TypeOK
  <1>4. /\ [w EXCEPT ![bit] = v][bit] = v
        /\ \A k \in 1..(bit - 1) : [w EXCEPT ![bit] = v][k] = w[k]
    <2>1. \A k \in 1..(bit - 1) : k \in 1..RomBits /\ k # bit
      BY <1>3
    <2> QED BY <1>3, <2>1 DEF Word
  <1>5. \A k \in 1..bit : k = bit \/ k \in 1..(bit - 1)
    BY <1>3
  <1> QED BY <1>1, <1>2, <1>4, <1>5

\* With the last bit, the address is that of a device.
LEMMA EndOfPath ==
  ASSUME TypeOK, bit = RomBits, NEW w \in Word, Agreeing(w), NEW v \in {0, 1},
         NEW d \in active, d[bit] = v
  PROVE  [w EXCEPT ![bit] = v] = d
  <1>1. d \in Following(v) /\ d \in Devices
    BY DEF Following, TypeOK
  <1>2. \A k \in 1..RomBits : d[k] = [w EXCEPT ![bit] = v][k]
    BY <1>1, StayOnPath
  <1>3. d \in Word /\ [w EXCEPT ![bit] = v] \in Word
    BY <1>1, SetBit, OneWireAssumption DEF TypeOK
  <1> QED BY <1>2, <1>3 DEF Word

\* The two searches at a bit.
LEMMA SearchBitInv ==
  ASSUME SearchInv, SearchBit
  PROVE  OnPath' /\ NoPhantom'
  <1> DEFINE v == SearchDirection
             w == [ROM_NO EXCEPT ![bit] = v]
  <1>1. v \in {0, 1} /\ ROM_NO \in Word /\ Agreeing(ROM_NO)
    BY Directions DEF SearchInv, SearchBit, OnPath, TypeOK
  <1>2. ROM_NO' = w /\ bit \in 1..RomBits /\ RomBits \in Nat
    BY OneWireAssumption DEF SearchBit, SearchInv, TypeOK
  <1>3. CASE bit < RomBits
    <2>1. bit' - 1 = bit /\ active' = Following(v) /\ busy' = "search" /\ pass' = pass
      BY <1>2, <1>3 DEF SearchBit
    <2>2. \A d \in Following(v) : \A k \in 1..bit : d[k] = w[k]
      BY <1>1, StayOnPath DEF SearchInv
    <2>3. Agreeing(ROM_NO)'
      BY <1>2, <2>1, <2>2 DEF Agreeing
    <2> QED BY <2>1, <2>3 DEF OnPath, NoPhantom, SearchInv
  <1>4. CASE bit = RomBits
    <2>1. PICK d \in active : d[bit] = v
      BY SomeoneFollows DEF SearchBit, SearchInv
    <2>2. w = d /\ d \in Devices
      BY <1>1, <1>4, <2>1, EndOfPath DEF SearchInv, TypeOK
    <2>3. ~(bit < RomBits) /\ d \in Word
      BY <1>2, <1>4, <2>2, OneWireAssumption
    <2>4. pass' \in PassType /\ pass'.found \subseteq pass.found \cup {d}
      BY <1>2, <2>2, <2>3, FoundType, OverType DEF SearchBit, SearchInv, TypeOK
    <2> QED BY <2>2, <2>3, <2>4 DEF SearchBit, Return, OnPath, NoPhantom, SearchInv
  <1> QED BY <1>2, <1>3, <1>4

LEMMA AlarmBitInv ==
  ASSUME SearchInv, AlarmBit
  PROVE  OnPath' /\ NoPhantom'
  <1> DEFINE v == AlarmDirection
             w == [alarmSearchAddress EXCEPT ![bit] = v]
  <1>1. v \in {0, 1} /\ alarmSearchAddress \in Word /\ Agreeing(alarmSearchAddress)
    BY Directions DEF SearchInv, AlarmBit, OnPath, TypeOK
  <1>2. alarmSearchAddress' = w /\ bit \in 1..RomBits /\ RomBits \in Nat
    BY OneWireAssumption DEF AlarmBit, SearchInv, TypeOK
  <1>3. CASE bit < RomBits
    <2>1. bit' - 1 = bit /\ active' = Following(v) /\ busy' = "alarm" /\ pass' = pass
      BY <1>2, <1>3 DEF AlarmBit
    <2>2. \A d \in Following(v) : \A k \in 1..bit : d[k] = w[k]
      BY <1>1, StayOnPath DEF SearchInv
    <2>3. Agreeing(alarmSearchAddress)'
      BY <1>2, <2>1, <2>2 DEF Agreeing
    <2> QED BY <2>1, <2>3 DEF OnPath, NoPhantom, SearchInv
  <1>4. CASE bit = RomBits
    <2>1. PICK d \in active : d[bit] = v
      BY SomeoneFollows DEF AlarmBit, SearchInv
    <2>2. w = d /\ d \in Devices
      BY <1>1, <1>4, <2>1, EndOfPath DEF SearchInv, TypeOK
    <2>3. ~(bit < RomBits) /\ d \in Word
      BY <1>2, <1>4, <2>2, OneWireAssumption
    <2>4. pass'.found = pass.found \cup {d}
      BY <1>2, <2>2, <2>3, FoundType DEF AlarmBit, SearchInv, TypeOK
    <2> QED BY <2>2, <2>3, <2>4 DEF AlarmBit, Return, OnPath, NoPhantom, SearchInv
  <1> QED BY <1>2, <1>3, <1>4

LEMMA InitInv == Init => SearchInv
  <1> SUFFICES ASSUME Init PROVE SearchInv
    OBVIOUS
  <1>1. OnPath /\ pass.found = {}
    BY DEF Init, OnPath, NewPass
  <1> QED BY <1>1, InitType DEF SearchInv, NoPhantom

LEMMA StepInv == SearchInv /\ [Next]_vars => SearchInv'
  <1> SUFFICES ASSUME SearchInv, [Next]_vars PROVE SearchInv'
    OBVIOUS
  <1>0. TypeOK'
    BY StepType DEF SearchInv
  <1> SUFFICES OnPath' /\ NoPhantom'
    BY <1>0 DEF SearchInv
  <1> USE DEF SearchInv
  <1>1. CASE SearchBit
    BY <1>1, SearchBitInv
  <1>2. CASE AlarmBit
    BY <1>2, AlarmBitInv
  <1>3. CASE search \/ alarmSearch
    <2>1. bit' = 1 /\ pass' = pass
      BY <1>3 DEF search, alarmSearch, Begin
    <2>2. \A k \in 1..(bit' - 1) : FALSE
      BY <2>1
    <2> QED BY <2>1, <2>2 DEF OnPath, Agreeing, NoPhantom
  <1>4. CASE SearchFails \/ AlarmSearchFails
    <2>1. busy' = "none" /\ pass'.found = pass.found
      BY <1>4, OverType DEF SearchFails, AlarmSearchFails, TypeOK
    <2> QED BY <2>1 DEF OnPath, NoPhantom
  <1>5. CASE SearchBreaks \/ AlarmBreaks
    <2>1. busy' = "none" /\ pass'.found = pass.found
      BY <1>5, OverType DEF SearchBreaks, AlarmBreaks, Return, TypeOK
    <2> QED BY <2>1 DEF OnPath, NoPhantom
  <1>6. CASE Start
    <2>1. busy' = "none" /\ pass'.found = {}
      BY <1>6 DEF Start, reset_search, resetAlarmSearch, target_search, NewPass
    <2> QED BY <2>1 DEF OnPath, NoPhantom
  <1>7. CASE BusChanges
    <2>1. busy' = busy /\ bit' = bit /\ ROM_NO' = ROM_NO
          /\ alarmSearchAddress' = alarmSearchAddress /\ active' \subseteq active
      BY <1>7 DEF BusChanges, Plug, Unplug, Alarm, normal, alarm
    <2>2. pass'.found = pass.found
      BY <1>7 DEF BusChanges, TypeOK, PassType
    <2> QED BY <2>1, <2>2 DEF OnPath, Agreeing, NoPhantom
  <1>8. CASE UNCHANGED vars
    BY <1>8 DEF vars, normal, alarm, OnPath, Agreeing, NoPhantom
  <1> QED
    BY <1>1, <1>2, <1>3, <1>4, <1>5, <1>6, <1>7, <1>8 DEF Next, Step

\* What search() and alarmSearch() return is a device's address (OneWire.cpp
\* lines 383-441, DallasTemperature.cpp lines 680-721), also when devices leave
\* the bus between two bits.
THEOREM PhantomFree == Spec => []NoPhantom
  <1>1. SearchInv => NoPhantom
    BY DEF SearchInv
  <1> QED BY InitInv, StepInv, <1>1, PTL DEF Spec

-----------------------------------------------------------------------------
(* Paths through the tree of addresses                                     *)

\* The devices of C that have the first n bits of w, and those that left this path at
\* a bit where they have a 0 or a 1 and w the other.
Path(C, w, n) == {d \in C : \A k \in 1..n : d[k] = w[k]}
Lower(C, w, n) ==
  {d \in C : \E k \in 1..n : d \in Path(C, w, k - 1) /\ d[k] = 0 /\ w[k] = 1}
Upper(C, w, n) ==
  {d \in C : \E k \in 1..n : d \in Path(C, w, k - 1) /\ d[k] = 1 /\ w[k] = 0}
Sorted(C, w, n) == C \subseteq Lower(C, w, n) \cup Path(C, w, n) \cup Upper(C, w, n)

\* A bit where w took the 0 and devices with a 1 are left; z is the last of them in the
\* first n bits, or 0.
Pending(C, w, k) == w[k] = 0 /\ \E d \in Path(C, w, k - 1) : d[k] = 1
LastPending(C, w, n, z) ==
  /\ z \in 0..n /\ (z > 0 => Pending(C, w, z))
  /\ \A k \in 1..n : Pending(C, w, k) => k <= z

\* The address found last is w; of those aimed at, A, all up to w have been found.
Rest(C, A, w, z, F) ==
  /\ w \in F /\ F \subseteq Lower(C, w, RomBits) \cup {w}
  /\ A \cap (Lower(C, w, RomBits) \cup {w}) \subseteq F
  /\ Sorted(C, w, RomBits) /\ LastPending(C, w, RomBits, z)
  /\ A \subseteq F \/ F \subseteq A

HasFamily(w, f) == \A k \in 1..FamilyBits : w[k] = f[k]

\* The first search for a family keeps to the path of its first device, if there is one.
Target(C, A, f, w, n, F) ==
  /\ F = {} /\ A \cap Lower(C, w, n) = {} /\ (A # {} => HasFamily(w, f))
  /\ \A k \in 1..RomBits : k > n /\ k > FamilyBits => w[k] = 0

\* Behind the bit where it has turned, a search finds the next device.
Beyond(C, A, f, w, n, F) ==
  /\ F \subseteq Lower(C, w, n) /\ A \cap Lower(C, w, n) \subseteq F
  /\ \/ A \subseteq F
     \/ F \subseteq A /\ (A = C \/ (n >= FamilyBits /\ HasFamily(w, f)))

\* A search that has handled n bits and turns at j.
Walk(C, A, f, w, n, j, z, F) ==
  /\ Sorted(C, w, n) /\ LastPending(C, w, n, z)
  /\ n < j => IF j = RomBits THEN Target(C, A, f, w, n, F) ELSE Rest(C, A, w, j, F)
  /\ n >= j => Beyond(C, A, f, w, n, F)

-----------------------------------------------------------------------------
(* One bit                                                                 *)

LEMMA Bits == RomBits \in Nat /\ FamilyBits \in 1..(RomBits - 1)
  BY OneWireAssumption

\* What a device of the path may still differ in.
LEMMA PathSame ==
  ASSUME NEW C, NEW w \in Word, NEW b \in 1..RomBits, NEW u \in Word,
         \A k \in 1..RomBits : k # b => u[k] = w[k], NEW n \in 0..(b - 1)
  PROVE  Path(C, u, n) = Path(C, w, n)
  <1>1. \A k \in 1..n : k \in 1..RomBits /\ k # b
    BY Bits
  <1>2. \A k \in 1..n : u[k] = w[k]
    BY <1>1
  <1> QED BY <1>2 DEF Path

LEMMA PathStep ==
  ASSUME NEW C, NEW w \in Word, NEW b \in 1..RomBits, NEW u \in Word,
         \A k \in 1..RomBits : k # b => u[k] = w[k]
  PROVE  \A d : d \in Path(C, u, b) <=> d \in Path(C, w, b - 1) /\ d[b] = u[b]
  <1>1. b - 1 \in 0..(b - 1) /\ \A k : k \in 1..b <=> k \in 1..(b - 1) \/ k = b
    BY Bits
  <1>2. Path(C, u, b - 1) = Path(C, w, b - 1)
    BY <1>1, PathSame
  <1>3. \A d : d \in Path(C, u, b) <=> d \in Path(C, u, b - 1) /\ d[b] = u[b]
    BY <1>1 DEF Path
  <1> QED BY <1>2, <1>3

LEMMA LowerStep ==
  ASSUME NEW C, NEW w \in Word, NEW b \in 1..RomBits, NEW u \in Word,
         \A k \in 1..RomBits : k # b => u[k] = w[k]
  PROVE  \A d : /\ d \in Lower(C, u, b) <=>
                      \/ d \in Lower(C, w, b - 1)
                      \/ d \in Path(C, w, b - 1) /\ d[b] = 0 /\ u[b] = 1
                /\ d \in Upper(C, u, b) <=>
                      \/ d \in Upper(C, w, b - 1)
                      \/ d \in Path(C, w, b - 1) /\ d[b] = 1 /\ u[b] = 0
  <1>1. \A k : k \in 1..b <=> k \in 1..(b - 1) \/ k = b
    BY Bits
  <1>2. \A k \in 1..b : Path(C, u, k - 1) = Path(C, w, k - 1)
    <2>1. \A k \in 1..b : k - 1 \in 0..(b - 1)
      BY Bits
    <2> QED BY <2>1, PathSame
  <1>3. \A k \in 1..(b - 1) : k \in 1..RomBits /\ k # b /\ k \in 1..b
    BY Bits
  <1>4. \A k \in 1..(b - 1) : u[k] = w[k] /\ Path(C, u, k - 1) = Path(C, w, k - 1)
    BY <1>2, <1>3
  <1>5. Path(C, u, b - 1) = Path(C, w, b - 1) /\ Path(C, w, b - 1) \subseteq C
    BY <1>1, <1>2 DEF Path
  <1>6. Lower(C, u, b) = Lower(C, w, b - 1)
                          \cup {d \in Path(C, w, b - 1) : d[b] = 0 /\ u[b] = 1}
    BY <1>1, <1>4, <1>5 DEF Lower
  <1>7. Upper(C, u, b) = Upper(C, w, b - 1)
                          \cup {d \in Path(C, w, b - 1) : d[b] = 1 /\ u[b] = 0}
    BY <1>1, <1>4, <1>5 DEF Upper
  <1> QED BY <1>6, <1>7

LEMMA PendingStep ==
  ASSUME NEW C, NEW w \in Word, NEW b \in 1..RomBits, NEW u \in Word,
         \A k \in 1..RomBits : k # b => u[k] = w[k]
  PROVE  /\ \A k \in 1..(b - 1) : Pending(C, u, k) <=> Pending(C, w, k)
         /\ Pending(C, u, b) <=> u[b] = 0 /\ \E d \in Path(C, w, b - 1) : d[b] = 1
  <1>1. \A k \in 1..b : Path(C, u, k - 1) = Path(C, w, k - 1)
    <2>1. \A k \in 1..b : k - 1 \in 0..(b - 1)
      BY Bits
    <2> QED BY <2>1, PathSame
  <1>2. \A k \in 1..(b - 1) : k \in 1..RomBits /\ k # b /\ k \in 1..b
    BY Bits
  <1>3. \A k \in 1..(b - 1) : u[k] = w[k] /\ Path(C, u, k - 1) = Path(C, w, k - 1)
    BY <1>1, <1>2
  <1>4. b \in 1..b
    BY Bits
  <1> QED BY <1>1, <1>3, <1>4 DEF Pending

\* Who is on the path has not left it.
LEMMA Apart ==
  ASSUME NEW C, NEW w, NEW n \in 0..RomBits, NEW d \in Lower(C, w, n) \cup Upper(C, w, n)
  PROVE  d \notin Path(C, w, n)
  <1>1. PICK k \in 1..n : d[k] # w[k]
    BY DEF Lower, Upper
  <1> QED BY <1>1 DEF Path

\* Two devices that agree in all bits but the last are one.
LEMMA LastBitTells ==
  ASSUME NEW C \in SUBSET Devices, NEW w, NEW d \in Path(C, w, RomBits - 1),
         NEW e \in Path(C, w, RomBits - 1)
  PROVE  d = e
  <1>1. \A k \in 1..(RomBits - 1) : d[k] = e[k]
    BY DEF Path
  <1>2. d \in Devices /\ e \in Devices
    BY DEF Path
  <1> QED BY <1>1, <1>2, OneWireAssumption

LEMMA PathEnd ==
  ASSUME NEW C \in SUBSET Devices, NEW w \in Word, NEW d \in Path(C, w, RomBits)
  PROVE  d = w
  <1>1. \A k \in 1..RomBits : d[k] = w[k]
    BY DEF Path
  <1>2. d \in Word
    BY OneWireAssumption DEF Path
  <1>3. d = [k \in 1..RomBits |-> d[k]] /\ w = [k \in 1..RomBits |-> w[k]]
    BY <1>2 DEF Word
  <1>4. [k \in 1..RomBits |-> d[k]] = [k \in 1..RomBits |-> w[k]]
    BY <1>1
  <1> QED BY <1>3, <1>4, Zenon

-----------------------------------------------------------------------------
(* A search for the devices A among those that are called, C               *)

\* What is searched for: all that are called, or the devices of a family.
Aim(C, A, f) == A = C \/ A = {d \in C : HasFamily(d, f)}

LEMMA WalkOn ==
  ASSUME NEW C \in SUBSET Devices, NEW w \in Word, NEW b \in 1..RomBits, NEW z,
         NEW u \in Word, \A k \in 1..RomBits : k # b => u[k] = w[k],
         Sorted(C, w, b - 1), LastPending(C, w, b - 1, z),
         NEW y, y = IF u[b] = 0 /\ (\E d \in Path(C, w, b - 1) : d[b] = 1) THEN b ELSE z
  PROVE  Sorted(C, u, b) /\ LastPending(C, u, b, y)
  <1>1. Sorted(C, u, b)
    <2>1. \A d \in Path(C, w, b - 1) : d[b] \in {0, 1}
      <3>1. \A d \in Path(C, w, b - 1) : d \in Word
        BY OneWireAssumption DEF Path
      <3> QED BY <3>1 DEF Word
    <2>2. u[b] \in {0, 1}
      BY DEF Word
    <2> QED BY <2>1, <2>2, LowerStep, PathStep DEF Sorted
  <1>2. LastPending(C, u, b, y)
    <2>1. /\ \A k \in 1..(b - 1) : Pending(C, u, k) <=> Pending(C, w, k)
          /\ Pending(C, u, b) <=> y = b
      <3>1. z # b
        BY Bits DEF LastPending
      <3> QED BY <3>1, PendingStep
    <2>2. CASE y = b
      <3>1. b \in 0..b /\ \A k \in 1..b : k <= b
        BY Bits
      <3> QED BY <2>1, <2>2, <3>1 DEF LastPending
    <2>3. CASE y # b
      <3>1. y = z /\ z \in 0..(b - 1) /\ z \in 0..b /\ (z > 0 => z \in 1..(b - 1))
        BY <2>3, Bits DEF LastPending
      <3>2. \A k \in 1..b : k = b \/ k \in 1..(b - 1)
        BY Bits
      <3> QED BY <2>1, <2>3, <3>1, <3>2 DEF LastPending
    <2> QED BY <2>2, <2>3
  <1> QED BY <1>1, <1>2

\* Behind the turn: a 0 at a fork.
LEMMA BeyondOn ==
  ASSUME NEW C \in SUBSET Devices, NEW A \in SUBSET C, NEW f, NEW w \in Word,
         NEW b \in 1..RomBits, NEW F,
         NEW u \in Word, \A k \in 1..RomBits : k # b => u[k] = w[k],
         u[b] = 1 => \A d \in Path(C, w, b - 1) : d[b] # 0,
         NEW a \in Path(C, w, b - 1), a[b] = u[b],
         Aim(C, A, f), Beyond(C, A, f, w, b - 1, F)
  PROVE  Beyond(C, A, f, u, b, F)
  <1>1. Lower(C, u, b) = Lower(C, w, b - 1)
    <2>1. \A d : d \in Lower(C, u, b) <=> d \in Lower(C, w, b - 1)
      BY LowerStep
    <2> QED BY <2>1, Zenon
  <1>2. ASSUME b - 1 >= FamilyBits, HasFamily(w, f)
        PROVE  b >= FamilyBits /\ HasFamily(u, f)
    <2>1. \A k \in 1..FamilyBits : k \in 1..RomBits /\ k # b
      BY <1>2, Bits
    <2>2. b >= FamilyBits
      BY <1>2, Bits
    <2> QED BY <1>2, <2>1, <2>2 DEF HasFamily
  <1> QED BY <1>1, <1>2 DEF Beyond

\* On the path of the family.
LEMMA TargetOn ==
  ASSUME NEW C \in SUBSET Devices, NEW A \in SUBSET C, NEW f, NEW w \in Word,
         NEW b \in 1..RomBits, NEW F,
         NEW u \in Word, \A k \in 1..RomBits : k # b => u[k] = w[k],
         NEW a \in Path(C, w, b - 1), a[b] = u[b],
         \A d \in Path(C, w, b - 1) : d[b] # u[b] => b < RomBits /\ u[b] = w[b],
         A = {d \in C : HasFamily(d, f)}, Target(C, A, f, w, b - 1, F)
  PROVE  Target(C, A, f, u, b, F)
  <1>1. ASSUME A # {}
        PROVE  HasFamily(u, f)
    <2>1. CASE b > FamilyBits
      <3>1. \A k \in 1..FamilyBits : k \in 1..RomBits /\ k # b
        BY <2>1, Bits
      <3> QED BY <1>1, <3>1 DEF Target, HasFamily
    <2>2. CASE ~(b > FamilyBits)
      <3>1. PICK d \in A : TRUE
        BY <1>1
      <3>2. b \in 1..FamilyBits /\ \A k \in 1..FamilyBits : k \in 1..RomBits
        BY <2>2, Bits
      <3>3. \A k \in 1..(b - 1) : k \in 1..FamilyBits
        BY <3>2, Bits
      <3>4. d \in Path(C, w, b - 1) /\ d[b] = f[b] /\ w[b] = f[b]
        BY <1>1, <3>1, <3>2, <3>3 DEF Target, HasFamily, Path
      <3>5. u[b] = f[b]
        BY <3>4
      <3> QED BY <1>1, <3>2, <3>5 DEF Target, HasFamily
    <2> QED BY <2>1, <2>2
  <1>2. A \cap Lower(C, u, b) = {}
    <2> SUFFICES ASSUME NEW d \in A, d \in Path(C, w, b - 1), d[b] = 0, u[b] = 1
                 PROVE  FALSE
      BY LowerStep DEF Target
    <2>1. u[b] = w[b]
      OBVIOUS
    <2>2. CASE b > FamilyBits
      <3>1. b > b - 1
        BY Bits
      <3> QED BY <2>1, <2>2, <3>1 DEF Target
    <2>3. CASE ~(b > FamilyBits)
      <3>1. b \in 1..FamilyBits
        BY <2>3, Bits
      <3> QED BY <2>1, <3>1 DEF Target, HasFamily
    <2> QED BY <2>2, <2>3
  <1>3. \A k \in 1..RomBits : k > b /\ k > FamilyBits => u[k] = 0
    <2>1. \A k \in 1..RomBits : k > b => k # b /\ k > b - 1
      BY Bits
    <2> QED BY <2>1 DEF Target
  <1> QED BY <1>1, <1>2, <1>3 DEF Target

\* The first device of the family is found.
LEMMA TargetEnd ==
  ASSUME NEW C \in SUBSET Devices, NEW A \in SUBSET C, NEW f, NEW w \in Word, NEW F,
         Target(C, A, f, w, RomBits, F)
  PROVE  Beyond(C, A, f, w, RomBits, F)
  BY Bits DEF Target, Beyond

\* The address found last is on its own path.
LEMMA OnOwnPath ==
  ASSUME NEW C, NEW w \in C, NEW n
  PROVE  w \in Path(C, w, n)
  BY DEF Path

\* No address differs from another in the last bit only.
LEMMA PendingBefore ==
  ASSUME NEW C \in SUBSET Devices, NEW w \in C
  PROVE  ~Pending(C, w, RomBits)
  <1> SUFFICES ASSUME w[RomBits] = 0, NEW d \in Path(C, w, RomBits - 1), d[RomBits] = 1
               PROVE  FALSE
    BY DEF Pending
  <1>1. d = w
    BY OnOwnPath, LastBitTells
  <1> QED BY <1>1

\* What comes after the address found last goes the other way at the last bit pending.
LEMMA TurnUp ==
  ASSUME NEW C \in SUBSET Devices, NEW A \in SUBSET C, NEW f, NEW w \in Word,
         NEW j \in 1..RomBits, NEW F \in SUBSET C,
         NEW u \in Word, \A k \in 1..RomBits : k # j => u[k] = w[k], u[j] = 1,
         Aim(C, A, f), Rest(C, A, w, j, F)
  PROVE  Beyond(C, A, f, u, j, F)
  <1>1. Pending(C, w, j) /\ w[j] = 0 /\ w \in C
    BY Bits DEF Rest, LastPending, Pending
  <1>2. \A k \in 1..RomBits : Pending(C, w, k) => k <= j
    BY DEF Rest, LastPending
  <1>3. \A k \in 1..RomBits : k < j \/ k = j \/ k > j
    BY Bits
  <1>4. \A d : d \in Lower(C, u, j) <=>
                d \in Lower(C, w, j - 1) \/ (d \in Path(C, w, j - 1) /\ d[j] = 0)
    BY LowerStep
  <1>5. Lower(C, w, RomBits) \cup {w} \subseteq Lower(C, u, j)
    <2>1. w \in Lower(C, u, j)
      BY <1>1, <1>4, OnOwnPath
    <2>2. ASSUME NEW d \in Lower(C, w, RomBits)
          PROVE  d \in Lower(C, u, j)
      <3>1. PICK k \in 1..RomBits : d \in Path(C, w, k - 1) /\ d[k] = 0 /\ w[k] = 1
        BY DEF Lower
      <3>2. CASE k < j
        <4>1. k \in 1..(j - 1)
          BY <3>2, Bits
        <4>2. d \in Lower(C, w, j - 1)
          BY <3>1, <4>1 DEF Lower
        <4> QED BY <1>4, <4>2
      <3>3. CASE k > j
        <4>1. \A m \in 1..j : m \in 1..(k - 1)
          BY <3>3, Bits
        <4>2. j \in 1..j /\ \A m \in 1..(j - 1) : m \in 1..j
          BY Bits
        <4>3. d \in Path(C, w, j - 1) /\ d[j] = w[j]
          BY <3>1, <4>1, <4>2 DEF Path
        <4> QED BY <1>1, <1>4, <4>3
      <3> QED BY <1>1, <1>3, <3>1, <3>2, <3>3
    <2> QED BY <2>1, <2>2
  <1>6. Lower(C, u, j) \subseteq Lower(C, w, RomBits) \cup {w}
    <2> SUFFICES ASSUME NEW d \in Lower(C, u, j), d # w
                 PROVE  d \in Lower(C, w, RomBits)
      OBVIOUS
    <2>1. d \in Lower(C, w, j - 1) \/ (d \in Path(C, w, j - 1) /\ d[j] = 0)
      BY <1>4
    <2>2. CASE d \in Lower(C, w, j - 1)
      <3>1. \A k \in 1..(j - 1) : k \in 1..RomBits
        BY Bits
      <3> QED BY <2>2, <3>1 DEF Lower
    <2>3. CASE d \in Path(C, w, j - 1) /\ d[j] = 0
      <3>1. d \notin Path(C, w, RomBits)
        BY PathEnd
      <3>2. d \notin Upper(C, w, RomBits)
        <4> SUFFICES ASSUME NEW k \in 1..RomBits, d \in Path(C, w, k - 1), d[k] = 1,
                            w[k] = 0
                     PROVE  FALSE
          BY DEF Upper
        <4>1. k <= j
          BY <1>2 DEF Pending
        <4>2. k # j /\ k \in 1..(j - 1)
          BY <2>3, <4>1, Bits
        <4>3. d[k] = w[k]
          BY <2>3, <4>2 DEF Path
        <4> QED BY <4>3
      <3>3. d \in C
        BY <2>3 DEF Path
      <3> QED BY <3>1, <3>2, <3>3 DEF Rest, Sorted
    <2> QED BY <2>1, <2>2, <2>3
  <1>7. Lower(C, u, j) = Lower(C, w, RomBits) \cup {w}
    BY <1>5, <1>6
  <1>8. ASSUME ~(A \subseteq F), A # C
        PROVE  j >= FamilyBits /\ HasFamily(u, f)
    <2>1. F \subseteq A /\ w \in A /\ A = {d \in C : HasFamily(d, f)}
      BY <1>8 DEF Rest, Aim
    <2>2. PICK e \in A : e \notin F
      BY <1>8
    <2>3. e \notin Lower(C, w, RomBits) /\ e # w
      BY <2>2 DEF Rest
    <2>4. e \in Upper(C, w, RomBits)
      BY <2>2, <2>3, PathEnd DEF Rest, Sorted
    <2>5. PICK k \in 1..RomBits : e \in Path(C, w, k - 1) /\ e[k] = 1 /\ w[k] = 0
      BY <2>4 DEF Upper
    <2>6. k <= j
      BY <1>2, <2>5 DEF Pending
    <2>7. HasFamily(e, f) /\ HasFamily(w, f)
      BY <2>1
    <2>8. k \notin 1..FamilyBits
      BY <2>5, <2>7 DEF HasFamily
    <2>9. j > FamilyBits
      BY <2>6, <2>8, Bits
    <2>10. \A m \in 1..FamilyBits : m \in 1..RomBits /\ m # j
      BY <2>9, Bits
    <2> QED BY <2>7, <2>9, <2>10, Bits DEF HasFamily
  <1>9. F \subseteq Lower(C, u, j) /\ A \cap Lower(C, u, j) \subseteq F
    BY <1>7 DEF Rest
  <1>10. A \subseteq F \/ F \subseteq A
    BY DEF Rest
  <1> QED BY <1>8, <1>9, <1>10 DEF Beyond

\* What the search that walks in a bit does, whichever code chose it.
LEMMA WalkStep ==
  ASSUME NEW C \in SUBSET Devices, NEW A \in SUBSET C, NEW f, NEW w \in Word,
         NEW b \in 1..RomBits, NEW j \in 0..RomBits, NEW z, NEW F \in SUBSET C,
         NEW u \in Word, \A k \in 1..RomBits : k # b => u[k] = w[k],
         NEW a \in Path(C, w, b - 1), a[b] = u[b],
         \A d \in Path(C, w, b - 1) :
           d[b] # u[b] => u[b] = IF b < j THEN w[b] ELSE IF b = j THEN 1 ELSE 0,
         NEW y, y = IF u[b] = 0 /\ (\E d \in Path(C, w, b - 1) : d[b] = 1) THEN b ELSE z,
         Aim(C, A, f), j = RomBits => A = {d \in C : HasFamily(d, f)},
         Walk(C, A, f, w, b - 1, j, z, F)
  PROVE  Walk(C, A, f, u, b, j, y, F)
  <1>1. Sorted(C, u, b) /\ LastPending(C, u, b, y)
    BY WalkOn DEF Walk
  <1>2. u[b] \in {0, 1} /\ w[b] \in {0, 1} /\ \A d \in Path(C, w, b - 1) : d[b] \in {0, 1}
    <2>1. \A d \in Path(C, w, b - 1) : d \in Word
      BY OneWireAssumption DEF Path
    <2> QED BY <2>1 DEF Word
  <1>3. CASE b < j
    <2>1. b - 1 < j /\ ~(b >= j) /\ b < RomBits
      BY <1>3, Bits
    <2>2. CASE j = RomBits
      <3>1. Target(C, A, f, w, b - 1, F)
        BY <2>1, <2>2 DEF Walk
      <3>2. Target(C, A, f, u, b, F)
        BY <1>3, <2>1, <2>2, <3>1, TargetOn
      <3> QED BY <1>1, <1>3, <2>1, <2>2, <3>2 DEF Walk
    <2>3. CASE j # RomBits
      <3>1. Rest(C, A, w, j, F) /\ w \in C
        BY <2>1, <2>3 DEF Walk, Rest
      <3>2. w \in Path(C, w, b - 1)
        BY <3>1, OnOwnPath
      <3>3. u[b] = w[b]
        BY <1>3, <3>2
      <3>4. u = w
        <4>1. u = [k \in 1..RomBits |-> u[k]] /\ w = [k \in 1..RomBits |-> w[k]]
          BY DEF Word
        <4>2. [k \in 1..RomBits |-> u[k]] = [k \in 1..RomBits |-> w[k]]
          BY <3>3
        <4> QED BY <4>1, <4>2, Zenon
      <3> QED BY <1>1, <1>3, <2>1, <2>3, <3>1, <3>4 DEF Walk
    <2> QED BY <2>2, <2>3
  <1>4. CASE b = j
    <2>1. b - 1 < j /\ ~(b < j) /\ b >= j
      BY <1>4, Bits
    <2>2. CASE j = RomBits
      <3>1. Target(C, A, f, w, b - 1, F)
        BY <2>1, <2>2 DEF Walk
      <3>2. \A d \in Path(C, w, b - 1) : d = a
        BY <1>4, <2>2, LastBitTells
      <3>3. Target(C, A, f, u, b, F)
        BY <2>2, <3>1, <3>2, TargetOn
      <3>4. Beyond(C, A, f, u, b, F)
        BY <1>4, <2>2, <3>3, TargetEnd
      <3> QED BY <1>1, <2>1, <3>4 DEF Walk
    <2>3. CASE j # RomBits
      <3>1. Rest(C, A, w, j, F) /\ w \in C
        BY <2>1, <2>3 DEF Walk, Rest
      <3>2. j > 0 /\ j \in 1..RomBits
        BY <1>4, Bits
      <3>3. Pending(C, w, j)
        BY <3>1, <3>2 DEF Rest, LastPending
      <3>4. u[b] = 1
        <4>1. PICK d \in Path(C, w, b - 1) : d[b] = 1
          BY <1>4, <3>3 DEF Pending
        <4>2. w \in Path(C, w, b - 1) /\ w[b] = 0
          BY <1>4, <3>1, <3>3, OnOwnPath DEF Pending
        <4> QED BY <1>2, <1>4, <2>1, <4>1, <4>2
      <3>5. Beyond(C, A, f, u, b, F)
        BY <1>4, <3>1, <3>2, <3>4, TurnUp
      <3> QED BY <1>1, <2>1, <3>5 DEF Walk
    <2> QED BY <2>2, <2>3
  <1>5. CASE b > j
    <2>1. b - 1 >= j /\ ~(b < j) /\ b >= j /\ b # j
      BY <1>5, Bits
    <2>2. Beyond(C, A, f, w, b - 1, F)
      BY <2>1 DEF Walk
    <2>3. u[b] = 1 => \A d \in Path(C, w, b - 1) : d[b] # 0
      BY <2>1
    <2>4. Beyond(C, A, f, u, b, F)
      BY <2>2, <2>3, BeyondOn
    <2> QED BY <1>1, <2>1, <2>4 DEF Walk
  <1>6. b < j \/ b = j \/ b > j
    BY Bits
  <1> QED BY <1>3, <1>4, <1>5, <1>6

\* With the last bit it has found the next device.
LEMMA WalkEnd ==
  ASSUME NEW C \in SUBSET Devices, NEW A \in SUBSET C, NEW f, NEW w \in C,
         NEW j \in 0..RomBits, NEW z, NEW F \in SUBSET C, Aim(C, A, f),
         Walk(C, A, f, w, RomBits, j, z, F)
  PROVE  Rest(C, A, w, z, F \cup {w}) /\ w \notin F
  <1>1. RomBits >= j /\ RomBits \in 0..RomBits
    BY Bits
  <1>2. Beyond(C, A, f, w, RomBits, F) /\ Sorted(C, w, RomBits)
        /\ LastPending(C, w, RomBits, z)
    BY <1>1 DEF Walk
  <1>3. w \notin F
    BY <1>1, <1>2, OnOwnPath, Apart DEF Beyond
  <1>4. F \subseteq A => F \cup {w} \subseteq A \/ A \subseteq F
    BY <1>2 DEF Beyond, Aim
  <1>5. A \subseteq F \cup {w} \/ F \cup {w} \subseteq A
    BY <1>2, <1>4 DEF Beyond
  <1> QED BY <1>2, <1>3, <1>5 DEF Rest, Beyond

\* Where a search stands between two calls: nothing was found yet; the next call is the
\* first for a family; or it goes on behind the last bit pending.
Between(C, A, f, w, j, F) ==
  \/ F = {} /\ j = 0 /\ A = C
  \/ Target(C, A, f, w, 0, F) /\ j = RomBits
  \/ Rest(C, A, w, j, F)

LEMMA WalkBegin ==
  ASSUME NEW C \in SUBSET Devices, NEW A \in SUBSET C, NEW f, NEW w \in Word,
         NEW j \in 0..RomBits, NEW F \in SUBSET C,
         Between(C, A, f, w, j, F), j = 0 => F = {}
  PROVE  Walk(C, A, f, w, 0, j, 0, F) /\ Path(C, w, 0) = C
  <1>1. \A k \in 1..0 : FALSE
    OBVIOUS
  <1>2. Path(C, w, 0) = C /\ Lower(C, w, 0) = {}
    BY <1>1 DEF Path, Lower
  <1>3. Sorted(C, w, 0) /\ LastPending(C, w, 0, 0)
    BY <1>1, <1>2 DEF Sorted, LastPending
  <1>4. CASE F = {} /\ j = 0 /\ A = C
    BY <1>2, <1>3, <1>4 DEF Walk, Beyond
  <1>5. CASE Target(C, A, f, w, 0, F) /\ j = RomBits
    BY <1>2, <1>3, <1>5, Bits DEF Walk
  <1>6. CASE Rest(C, A, w, j, F)
    <2>1. w \in C /\ j > 0
      BY <1>6, Bits DEF Rest
    <2>2. j # RomBits
      BY <1>6, <2>1, PendingBefore DEF Rest, LastPending
    <2> QED BY <1>2, <1>3, <1>6, <2>1, <2>2, Bits DEF Walk
  <1> QED BY <1>2, <1>4, <1>5, <1>6 DEF Between

\* With nothing pending, all that was aimed at has been found.
LEMMA AllFound ==
  ASSUME NEW C \in SUBSET Devices, NEW A \in SUBSET C, NEW w \in Word, NEW F,
         Rest(C, A, w, 0, F)
  PROVE  A \subseteq F
  <1>1. Upper(C, w, RomBits) = {}
    <2> SUFFICES ASSUME NEW d \in C, NEW k \in 1..RomBits, d \in Path(C, w, k - 1), d[k] = 1,
                        w[k] = 0
                 PROVE  FALSE
      BY DEF Upper
    <2>1. k <= 0
      BY DEF Pending, Rest, LastPending
    <2> QED BY <2>1, Bits
  <1>2. Path(C, w, RomBits) \subseteq {w}
    BY PathEnd
  <1> QED BY <1>1, <1>2 DEF Rest, Sorted

-----------------------------------------------------------------------------
(* The two searches                                                        *)

called == Called(pass.kind)
Aimed == IF pass.aim = NoFamily THEN called ELSE {d \in called : HasFamily(d, pass.aim)}

\* What the two searches remember.
Address  == IF pass.kind = "alarm" THEN alarmSearchAddress ELSE ROM_NO
Junction == IF pass.kind = "alarm" THEN alarmSearchJunction + 1 ELSE LastDiscrepancy
NothingLeft == IF pass.kind = "alarm" THEN alarmSearchExhausted ELSE LastDeviceFlag
LastTaken ==
  IF pass.kind = "search" THEN last_zero
  ELSE IF bit - 1 < Junction THEN lastJunction + 1 ELSE Junction

Watched == pass.calm /\ (pass.kind = "alarm" => CharSigned)

PassInv ==
  /\ busy \in {"none", pass.kind} /\ (busy # "none" => ~pass.over)
  /\ pass.kind = "alarm" => pass.aim = NoFamily
  /\ Watched => ~pass.twice /\ pass.found \subseteq called

IdleInv ==
  busy = "none" /\ Watched =>
    IF pass.over THEN Aimed \subseteq pass.found
    ELSE /\ Between(called, Aimed, pass.aim, Address, Junction, pass.found)
         /\ Junction = RomBits => pass.aim # NoFamily
         /\ NothingLeft <=> Junction = 0 /\ pass.found # {}

BusyInv ==
  busy # "none" /\ Watched =>
    /\ active = Path(called, Address, bit - 1) /\ (called # {} => active # {})
    /\ pass.kind = "search" => called # {}
    /\ Junction = RomBits => pass.aim # NoFamily
    /\ Walk(called, Aimed, pass.aim, Address, bit - 1, Junction, LastTaken, pass.found)
    /\ pass.kind = "alarm" => (done <=> LastTaken = 0)

LEMMA AimedAt ==
  ASSUME TypeOK
  PROVE  /\ called \in SUBSET Devices /\ Aimed \in SUBSET called
         /\ Aim(called, Aimed, pass.aim)
         /\ pass.aim # NoFamily => Aimed = {d \in called : HasFamily(d, pass.aim)}
         /\ pass.aim = NoFamily => Aimed = called
         /\ Address \in Word
  BY DEF TypeOK, called, Called, Aimed, Aim, Address

\* A position in the char counts from 0, and -1 is none.
LEMMA JunctionType ==
  ASSUME TypeOK, Watched
  PROVE  /\ Junction \in 0..RomBits
         /\ pass.kind = "alarm" => Junction = alarmSearchJunction + 1
         /\ pass.kind = "alarm" => lastJunction + 1 \in 0..RomBits
  <1>1. CASE pass.kind = "alarm"
    <2>1. NoJunction = -1
      BY <1>1 DEF Watched, NoJunction
    <2>2. alarmSearchJunction \in {-1} \cup 0..(RomBits - 1)
          /\ lastJunction \in {-1} \cup 0..(RomBits - 1)
      BY <2>1 DEF TypeOK
    <2> QED BY <1>1, <2>2, Bits DEF Junction
  <1>2. CASE pass.kind # "alarm"
    BY <1>2 DEF Junction, TypeOK
  <1> QED BY <1>1, <1>2

\* What a step leaves alone of the pass.
LEMMA SamePass ==
  ASSUME UNCHANGED <<present, alarmed>>, pass'.kind = pass.kind, pass'.aim = pass.aim,
         pass'.calm = pass.calm
  PROVE  called' = called /\ Aimed' = Aimed /\ (Watched' <=> Watched)
  <1>1. called' = called
    BY DEF called, Called
  <1> QED BY <1>1 DEF Aimed, Watched

LEMMA FoundKeeps ==
  ASSUME pass \in PassType, NEW w, Found(w)
  PROVE  /\ pass'.kind = pass.kind /\ pass'.aim = pass.aim /\ pass'.calm = pass.calm
         /\ pass'.over = pass.over /\ pass'.found = pass.found \cup {w}
         /\ pass'.twice = (pass.twice \/ w \in pass.found)
  BY DEF Found, PassType

LEMMA OverKeeps ==
  ASSUME pass \in PassType, Over
  PROVE  /\ pass'.kind = pass.kind /\ pass'.aim = pass.aim /\ pass'.calm = pass.calm
         /\ pass'.over = TRUE /\ pass'.found = pass.found /\ pass'.twice = pass.twice
  BY DEF Over, PassType

\* One bit of either search, which makes the address u.
LEMMA BitStep ==
  ASSUME TypeOK, PassInv, BusyInv, busy # "none", Watched,
         NEW u \in Word, \A k \in 1..RomBits : k # bit => u[k] = Address[k],
         NEW a \in active, a[bit] = u[bit],
         \A d \in active :
           d[bit] # u[bit] => u[bit] = IF bit < Junction THEN Address[bit]
                                       ELSE IF bit = Junction THEN 1 ELSE 0,
         NEW y, y = IF u[bit] = 0 /\ (\E d \in active : d[bit] = 1) THEN bit
                    ELSE LastTaken
  PROVE  /\ Walk(called, Aimed, pass.aim, u, bit, Junction, y, pass.found)
         /\ Following(u[bit]) = Path(called, u, bit) /\ a \in Following(u[bit])
  <1>1. /\ called \in SUBSET Devices /\ Aimed \in SUBSET called
        /\ Aim(called, Aimed, pass.aim) /\ Address \in Word
        /\ Junction = RomBits => Aimed = {d \in called : HasFamily(d, pass.aim)}
    BY AimedAt DEF BusyInv
  <1>2. bit \in 1..RomBits /\ Junction \in 0..RomBits /\ pass.found \in SUBSET called
    BY JunctionType DEF TypeOK, PassInv
  <1>3. /\ active = Path(called, Address, bit - 1)
        /\ Walk(called, Aimed, pass.aim, Address, bit - 1, Junction, LastTaken, pass.found)
    BY DEF BusyInv
  <1>4. Walk(called, Aimed, pass.aim, u, bit, Junction, y, pass.found)
    BY <1>1, <1>2, <1>3, WalkStep
  <1>5. Path(called, u, bit) = {d \in active : d[bit] = u[bit]}
    <2>1. \A d : d \in Path(called, u, bit) <=>
                  d \in Path(called, Address, bit - 1) /\ d[bit] = u[bit]
      BY <1>1, <1>2, PathStep
    <2> QED BY <1>3, <2>1
  <1> QED BY <1>4, <1>5 DEF Following

\* The last bit: the address is that of a device that had not been found.
LEMMA BitEnd ==
  ASSUME TypeOK, PassInv, Watched, bit = RomBits, NEW v, NEW u \in Word, NEW y,
         NEW a \in Following(v), Following(v) = Path(called, u, bit),
         Walk(called, Aimed, pass.aim, u, bit, Junction, y, pass.found)
  PROVE  /\ u \in called /\ u \notin pass.found /\ y # RomBits
         /\ Rest(called, Aimed, u, y, pass.found \cup {u})
  <1>1. /\ called \in SUBSET Devices /\ Aimed \in SUBSET called
        /\ Aim(called, Aimed, pass.aim)
    BY AimedAt
  <1>2. a = u /\ a \in called
    BY <1>1, PathEnd DEF Path
  <1>3. Junction \in 0..RomBits /\ pass.found \in SUBSET called
    BY JunctionType DEF PassInv
  <1>4. u \notin pass.found /\ Rest(called, Aimed, u, y, pass.found \cup {u})
    BY <1>1, <1>2, <1>3, WalkEnd
  <1>5. y # RomBits
    <2>1. RomBits > 0
      BY Bits
    <2> QED BY <1>1, <1>2, <1>4, <2>1, PendingBefore DEF Rest, LastPending
  <1> QED BY <1>2, <1>4, <1>5

\* A family code other than 0 is in the address when its last bit comes.
LEMMA FamilyRead ==
  ASSUME TypeOK, bit = RomBits, NEW d \in Devices, NEW w \in Word,
         \A k \in 1..RomBits : k # bit => d[k] = w[k]
  PROVE  Family(w) # NoFamily
  <1>1. \A k \in 1..FamilyBits : k \in 1..RomBits /\ k # bit
    BY Bits
  <1>2. \A k \in 1..FamilyBits : d[k] = w[k]
    BY <1>1
  <1>3. Family(d) = Family(w)
    BY <1>2 DEF Family
  <1> QED BY <1>3, OneWireAssumption

\* What the master reads tells what the devices sent.
LEMMA BitsSent ==
  ASSUME TypeOK
  PROVE  /\ IdBit \in {0, 1} /\ CmpBit \in {0, 1} /\ \A d \in active : d[bit] \in {0, 1}
         /\ IdBit = 0 <=> \E d \in active : d[bit] = 0
         /\ CmpBit = 0 <=> \E d \in active : d[bit] = 1
  <1>1. \A d \in active : d \in Word
    BY OneWireAssumption DEF TypeOK
  <1>2. bit \in 1..RomBits
    BY DEF TypeOK
  <1>3. \A d \in active : d[bit] \in {0, 1}
    BY <1>1, <1>2 DEF Word
  <1>4. IdBit \in {0, 1} /\ (IdBit = 0 <=> \E d \in active : d[bit] = 0)
    BY DEF IdBit
  <1>5. CmpBit \in {0, 1} /\ (CmpBit = 0 <=> \E d \in active : d[bit] = 1)
    BY DEF CmpBit
  <1> QED BY <1>3, <1>4, <1>5

\* A device that the direction leaves behind stands at a fork.
LEMMA Leaving ==
  ASSUME TypeOK, ~(IdBit = 1 /\ CmpBit = 1), NEW v \in {0, 1},
         IdBit # CmpBit => v = IdBit
  PROVE  /\ \A d \in active : d[bit] # v => IdBit = 0 /\ CmpBit = 0
         /\ (\E d \in active : d[bit] = 1) /\ v = 0 <=> IdBit = CmpBit /\ v = 0
  <1>1. \A d \in active : d[bit] # v => IdBit = 0 /\ CmpBit = 0
    BY BitsSent
  <1>2. ASSUME IdBit = CmpBit
        PROVE  \E d \in active : d[bit] = 1
    BY <1>2, BitsSent
  <1>3. ASSUME NEW d \in active, d[bit] = 1, v = 0
        PROVE  IdBit = CmpBit
    BY <1>1, <1>3
  <1> QED BY <1>1, <1>2, <1>3

\* A search that returns an address.
LEMMA Returned ==
  ASSUME TypeOK, PassInv, Watched, busy # "none", bit = RomBits,
         NEW v, NEW u \in Word, NEW y, NEW a \in Following(v),
         Following(v) = Path(called, u, bit),
         Walk(called, Aimed, pass.aim, u, bit, Junction, y, pass.found),
         Found(u), busy' = "none", UNCHANGED bus,
         Address' = u, Junction' = y, NothingLeft' <=> y = 0
  PROVE  PassInv' /\ IdleInv' /\ BusyInv'
  <1>1. /\ u \in called /\ u \notin pass.found /\ y # RomBits
        /\ Rest(called, Aimed, u, y, pass.found \cup {u})
    BY BitEnd
  <1>2. /\ pass'.kind = pass.kind /\ pass'.aim = pass.aim /\ pass'.calm = pass.calm
        /\ pass'.over = pass.over /\ pass'.found = pass.found \cup {u}
        /\ pass'.twice = (pass.twice \/ u \in pass.found)
    BY FoundKeeps DEF TypeOK
  <1>3. called' = called /\ Aimed' = Aimed /\ (Watched' <=> Watched)
    BY <1>2, SamePass DEF bus
  <1>4. ~pass'.twice /\ pass'.found \subseteq called /\ pass'.found # {} /\ ~pass'.over
    BY <1>1, <1>2 DEF PassInv
  <1>5. PassInv'
    BY <1>2, <1>3, <1>4 DEF PassInv
  <1>6. Between(called, Aimed, pass.aim, u, y, pass'.found)
    BY <1>1, <1>2 DEF Between
  <1>7. IdleInv'
    BY <1>1, <1>2, <1>3, <1>4, <1>6 DEF IdleInv
  <1>8. BusyInv'
    BY DEF BusyInv
  <1> QED BY <1>5, <1>7, <1>8

\* A pass that is not watched says nothing.
LEMMA NotWatched ==
  ASSUME ~Watched'
  PROVE  IdleInv' /\ BusyInv'
  BY DEF IdleInv, BusyInv

LEMMA SearchBitPass ==
  ASSUME TypeOK, PassInv, BusyInv, SearchBit
  PROVE  PassInv' /\ IdleInv' /\ BusyInv'
  <1>1. /\ busy = "search" /\ pass.kind = "search" /\ ~pass.over /\ pass \in PassType
        /\ ROM_NO \in Word /\ bit \in 1..RomBits /\ RomBits \in Nat
    BY Bits DEF SearchBit, PassInv, TypeOK
  <1>2. /\ pass'.kind = pass.kind /\ pass'.aim = pass.aim /\ pass'.calm = pass.calm
        /\ busy' \in {"none", "search"} /\ (busy' # "none" => ~pass'.over)
    <2>1. CASE bit < RomBits
      BY <1>1, <2>1 DEF SearchBit
    <2>2. CASE ~(bit < RomBits)
      BY <1>1, <2>2, FoundKeeps, OverKeeps DEF SearchBit, Return
    <2> QED BY <2>1, <2>2
  <1>3. called' = called /\ Aimed' = Aimed /\ (Watched' <=> Watched)
    BY <1>2, SamePass DEF SearchBit, bus
  <1>4. CASE ~Watched
    <2>1. PassInv'
      BY <1>1, <1>2, <1>3, <1>4 DEF PassInv
    <2> QED BY <1>3, <1>4, <2>1, NotWatched
  <1>5. CASE Watched
    <2> DEFINE v == SearchDirection
               u == ROM_NO'
               y == LastZero
    <2>1. v \in {0, 1} /\ ~(IdBit = 1 /\ CmpBit = 1)
      BY Directions DEF SearchBit
    <2>2. u \in Word /\ u[bit] = v /\ \A k \in 1..RomBits : k # bit => u[k] = ROM_NO[k]
      <3>1. ROM_NO' = [ROM_NO EXCEPT ![bit] = v]
        BY DEF SearchBit
      <3> HIDE DEF v
      <3> QED BY <1>1, <2>1, <3>1 DEF Word
    <2>3. PICK a \in active : a[bit] = v
      BY <2>1, SomeoneFollows
    <2>4. Address = ROM_NO /\ Junction = LastDiscrepancy /\ LastTaken = last_zero
          /\ NothingLeft = LastDeviceFlag
      BY <1>1 DEF Address, Junction, LastTaken, NothingLeft
    <2>5. IdBit # CmpBit => v = IdBit
      BY DEF SearchDirection
    <2>6. /\ \A d \in active : d[bit] # v => IdBit = 0 /\ CmpBit = 0
          /\ (\E d \in active : d[bit] = 1) /\ v = 0 <=> IdBit = CmpBit /\ v = 0
      <3> HIDE DEF v
      <3> QED BY <2>1, <2>5, Leaving
    <2>7. \A d \in active :
            d[bit] # u[bit] => u[bit] = IF bit < Junction THEN Address[bit]
                                        ELSE IF bit = Junction THEN 1 ELSE 0
      BY <2>2, <2>4, <2>6 DEF SearchDirection
    <2>8. y = IF u[bit] = 0 /\ (\E d \in active : d[bit] = 1) THEN bit ELSE LastTaken
      BY <2>2, <2>4, <2>6 DEF LastZero
    <2>9. /\ Walk(called, Aimed, pass.aim, u, bit, Junction, y, pass.found)
          /\ Following(u[bit]) = Path(called, u, bit) /\ a \in Following(u[bit])
      <3> HIDE DEF v, u, y
      <3> QED BY <1>1, <1>5, <2>2, <2>3, <2>4, <2>7, <2>8, BitStep
    <2>10. ROM_NO' = u
      BY DEF SearchBit
    <2>11. CASE bit < RomBits
      <3>1. /\ bit' = bit + 1 /\ active' = Following(v) /\ last_zero' = y /\ busy' = busy
            /\ LastDiscrepancy' = LastDiscrepancy /\ pass' = pass
        BY <2>11 DEF SearchBit
      <3>2. bit' - 1 = bit
        BY <1>1, <3>1
      <3>3. Address' = u /\ Junction' = Junction /\ LastTaken' = y
        BY <1>1, <2>4, <2>10, <3>1 DEF Address, Junction, LastTaken
      <3>4. active' = Path(called, u, bit) /\ active' # {}
        BY <2>2, <2>9, <3>1
      <3>5. BusyInv'
        <4> HIDE DEF v, u, y
        <4> QED BY <1>1, <1>3, <1>5, <2>9, <3>1, <3>2, <3>3, <3>4 DEF BusyInv
      <3>6. PassInv'
        BY <1>1, <1>2, <1>3, <3>1 DEF PassInv
      <3>7. IdleInv'
        BY <1>1, <3>1 DEF IdleInv
      <3> QED BY <3>5, <3>6, <3>7
    <2>12. CASE ~(bit < RomBits)
      <3>1. bit = RomBits
        BY <1>1, <2>12
      <3>2. a \in called /\ called \in SUBSET Devices
        BY <2>9, AimedAt DEF Path
      <3>3. a = u
        <4> HIDE DEF v, u, y
        <4> QED BY <2>2, <2>9, <3>1, <3>2, PathEnd
      <3>4. Family(ROM_NO) # NoFamily
        <4>1. \A k \in 1..RomBits : k # bit => a[k] = ROM_NO[k]
          BY <2>2, <3>3
        <4>2. a \in Devices
          BY <3>2
        <4> QED BY <1>1, <3>1, <4>1, <4>2, FamilyRead
      <3>5. /\ LastDiscrepancy' = y /\ LastDeviceFlag' = (y = 0) /\ Found(u)
            /\ busy' = "none" /\ UNCHANGED bus
        BY <2>10, <2>12, <3>4 DEF SearchBit, Return
      <3>6. Address' = u /\ Junction' = y /\ (NothingLeft' <=> y = 0)
        BY <1>1, <1>2, <2>10, <3>5 DEF Address, Junction, NothingLeft
      <3> HIDE DEF v, u, y
      <3> QED BY <1>1, <1>5, <2>2, <2>9, <3>1, <3>5, <3>6, Returned
    <2> QED BY <2>11, <2>12
  <1> QED BY <1>4, <1>5

-----------------------------------------------------------------------------
(* Alarm search                                                            *)

\* The junction that is turned at is a fork, and the direction there is 1.
LEMMA ForkAtJunction ==
  ASSUME TypeOK, PassInv, BusyInv, Watched, busy = "alarm", bit = Junction
  PROVE  Fork
  <1>1. pass.kind = "alarm" /\ pass.aim = NoFamily /\ Junction \in 1..RomBits
        /\ Junction # RomBits /\ bit \in 1..RomBits
    BY JunctionType DEF PassInv, BusyInv, TypeOK
  <1>2. bit - 1 < Junction
    BY <1>1
  <1>3. /\ active = Path(called, Address, bit - 1)
        /\ Rest(called, Aimed, Address, Junction, pass.found)
    BY <1>1, <1>2 DEF BusyInv, Walk
  <1>4. Address \in called /\ Pending(called, Address, bit)
    BY <1>1, <1>3 DEF PassInv, Rest, LastPending
  <1>5. Address \in active /\ Address[bit] = 0 /\ \E d \in active : d[bit] = 1
    BY <1>3, <1>4, OnOwnPath DEF Pending
  <1> QED BY <1>5, BitsSent DEF Fork

\* Once the turn is behind, where it was does not matter.
LEMMA WalkFrom ==
  ASSUME NEW C, NEW A, NEW f, NEW w, NEW n, NEW j, NEW k, NEW z, NEW F,
         n >= j, n >= k, ~(n < k), Walk(C, A, f, w, n, j, z, F)
  PROVE  Walk(C, A, f, w, n, k, z, F)
  BY DEF Walk

LEMMA AlarmBitPass ==
  ASSUME TypeOK, PassInv, BusyInv, AlarmBit
  PROVE  PassInv' /\ IdleInv' /\ BusyInv'
  <1>1. /\ busy = "alarm" /\ pass.kind = "alarm" /\ ~pass.over /\ pass \in PassType
        /\ pass.aim = NoFamily /\ done \in BOOLEAN
        /\ alarmSearchAddress \in Word /\ bit \in 1..RomBits /\ RomBits \in Nat
    BY Bits DEF AlarmBit, PassInv, TypeOK
  <1>2. /\ pass'.kind = pass.kind /\ pass'.aim = pass.aim /\ pass'.calm = pass.calm
        /\ busy' \in {"none", "alarm"} /\ (busy' # "none" => ~pass'.over)
    <2>1. CASE bit < RomBits
      BY <1>1, <2>1 DEF AlarmBit
    <2>2. CASE ~(bit < RomBits)
      BY <1>1, <2>2, FoundKeeps DEF AlarmBit, Return
    <2> QED BY <2>1, <2>2
  <1>3. called' = called /\ Aimed' = Aimed /\ (Watched' <=> Watched)
    BY <1>2, SamePass DEF AlarmBit, bus
  <1>4. CASE ~Watched
    <2>1. PassInv'
      BY <1>1, <1>2, <1>3, <1>4 DEF PassInv
    <2> QED BY <1>3, <1>4, <2>1, NotWatched
  <1>5. CASE Watched
    <2> DEFINE v == AlarmDirection
               u == alarmSearchAddress'
               y == IF Fork /\ v = 0 THEN bit ELSE LastTaken
    <2>1. v \in {0, 1} /\ ~(IdBit = 1 /\ CmpBit = 1)
      BY Directions DEF AlarmBit
    <2>2. u \in Word /\ u[bit] = v
          /\ \A k \in 1..RomBits : k # bit => u[k] = alarmSearchAddress[k]
      <3>1. alarmSearchAddress' = [alarmSearchAddress EXCEPT ![bit] = v]
        BY DEF AlarmBit
      <3> HIDE DEF v
      <3> QED BY <1>1, <2>1, <3>1 DEF Word
    <2>3. PICK a \in active : a[bit] = v
      BY <2>1, SomeoneFollows
    <2>4. /\ Address = alarmSearchAddress /\ Junction = alarmSearchJunction + 1
          /\ LastTaken = IF bit - 1 < Junction THEN lastJunction + 1 ELSE Junction
          /\ NothingLeft = alarmSearchExhausted
      BY <1>1 DEF Address, Junction, LastTaken, NothingLeft
    <2>5. /\ Junction \in 0..(RomBits - 1) /\ lastJunction + 1 \in 0..RomBits
          /\ alarmSearchJunction \in Int /\ lastJunction \in Int
      <3>1. Junction \in 0..RomBits /\ Junction # RomBits /\ lastJunction + 1 \in 0..RomBits
        BY <1>1, <1>5, JunctionType DEF BusyInv
      <3>2. NoJunction \in Int
        BY DEF NoJunction
      <3>3. alarmSearchJunction \in Int /\ lastJunction \in Int
        BY <3>2 DEF TypeOK
      <3> QED BY <1>1, <3>1, <3>3
    <2>6. /\ bitIndex = alarmSearchJunction <=> bit = Junction
          /\ bitIndex < alarmSearchJunction <=> bit < Junction
          /\ bitIndex > alarmSearchJunction <=> bit > Junction
          /\ bitIndex + 1 = bit
      BY <1>1, <2>4, <2>5 DEF bitIndex
    <2>7. v = IF ~Fork THEN IdBit ELSE IF bit = Junction THEN 1
              ELSE IF bit < Junction THEN Address[bit] ELSE 0
      BY <2>4, <2>6 DEF AlarmDirection
    <2>8. IdBit # CmpBit => v = IdBit
      BY <2>7 DEF Fork
    <2>9. /\ \A d \in active : d[bit] # v => Fork
          /\ (\E d \in active : d[bit] = 1) /\ v = 0 <=> Fork /\ v = 0
      <3> HIDE DEF v
      <3>1. /\ \A d \in active : d[bit] # v => IdBit = 0 /\ CmpBit = 0
            /\ (\E d \in active : d[bit] = 1) /\ v = 0 <=> IdBit = CmpBit /\ v = 0
        BY <2>1, <2>8, Leaving
      <3>2. IdBit = CmpBit <=> Fork
        BY <2>1, BitsSent DEF Fork
      <3> QED BY <3>1, <3>2 DEF Fork
    <2>10. \A d \in active :
            d[bit] # u[bit] => u[bit] = IF bit < Junction THEN Address[bit]
                                        ELSE IF bit = Junction THEN 1 ELSE 0
      <3>1. bit < Junction => bit # Junction
        BY <1>1, <2>5
      <3> HIDE DEF v, u, y
      <3> QED BY <2>2, <2>7, <2>9, <3>1
    <2>11. y = IF u[bit] = 0 /\ (\E d \in active : d[bit] = 1) THEN bit ELSE LastTaken
      BY <2>2, <2>9
    <2>12. /\ Walk(called, Aimed, pass.aim, u, bit, Junction, y, pass.found)
           /\ Following(u[bit]) = Path(called, u, bit) /\ a \in Following(u[bit])
      <3> HIDE DEF v, u, y
      <3> QED BY <1>1, <1>5, <2>2, <2>3, <2>4, <2>10, <2>11, BitStep
    <2>13. alarmSearchAddress' = u
      BY DEF AlarmBit
    <2>14. bit = Junction => Fork
      BY <1>1, <1>5, ForkAtJunction
    <2>15. PendingZero \/ NewJunction <=> Fork /\ v = 0
      BY <1>1, <2>4, <2>5, <2>6, <2>7 DEF PendingZero, NewJunction
    <2>16. Done <=> y = 0
      <3>1. done <=> LastTaken = 0
        BY <1>1, <1>5 DEF BusyInv
      <3>2. bit # 0
        BY <1>1
      <3> HIDE DEF v
      <3> QED BY <2>15, <3>1, <3>2 DEF Done
    <2>17. LastTaken \in 0..(bit - 1)
      BY <1>1, <1>5 DEF BusyInv, Walk, LastPending
    <2> DEFINE jn == alarmSearchJunction' + 1
    <2>18. jn = IF Fork /\ bit = Junction THEN lastJunction + 1
                ELSE IF Fork /\ bit > Junction THEN bit ELSE Junction
      <3>1. CASE Fork /\ bit = Junction
        <4>1. ~NewJunction
          BY <1>1, <2>5, <2>6, <3>1 DEF NewJunction
        <4> QED BY <2>6, <3>1, <4>1 DEF AlarmBit
      <3>2. CASE Fork /\ bit > Junction
        <4>1. NewJunction /\ ~(bit = Junction)
          BY <1>1, <2>5, <2>6, <3>2 DEF NewJunction
        <4> QED BY <2>6, <3>2, <4>1 DEF AlarmBit
      <3>3. CASE ~(Fork /\ bit = Junction) /\ ~(Fork /\ bit > Junction)
        <4>1. ~NewJunction /\ ~(Fork /\ bitIndex = alarmSearchJunction)
          BY <2>6, <3>3 DEF NewJunction
        <4> QED BY <2>4, <3>3, <4>1 DEF AlarmBit
      <3> QED BY <3>1, <3>2, <3>3
    <2>19. /\ bit < Junction => jn = Junction
           /\ ~(bit < Junction) => jn = y
      <3>1. CASE bit < Junction
        <4>1. bit # Junction /\ ~(bit > Junction)
          BY <1>1, <2>5, <3>1
        <4> QED BY <2>18, <3>1, <4>1
      <3>2. CASE bit = Junction
        <4>1. bit - 1 < Junction /\ ~(bit < Junction)
          BY <1>1, <2>5, <3>2
        <4> QED BY <2>4, <2>7, <2>14, <2>18, <3>2, <4>1
      <3>3. CASE bit > Junction
        <4>1. ~(bit - 1 < Junction) /\ bit # Junction /\ ~(bit < Junction)
          BY <1>1, <2>5, <3>3
        <4> QED BY <2>4, <2>7, <2>18, <3>3, <4>1
      <3>4. bit < Junction \/ bit = Junction \/ bit > Junction
        BY <1>1, <2>5
      <3> QED BY <3>1, <3>2, <3>3, <3>4
    <2>20. y \in 0..bit
      BY <1>1, <2>17
    <2>21. CASE bit < RomBits
      <3>1. /\ bit' = bit + 1 /\ active' = Following(v) /\ busy' = busy /\ pass' = pass
            /\ lastJunction' = IF PendingZero THEN bitIndex ELSE lastJunction
            /\ done' = Done
        BY <2>21 DEF AlarmBit
      <3>2. bit' - 1 = bit
        BY <1>1, <3>1
      <3>3. Address' = u /\ Junction' = jn
            /\ LastTaken' = IF bit < jn THEN lastJunction' + 1 ELSE jn
        BY <1>1, <2>13, <3>1, <3>2 DEF Address, Junction, LastTaken
      <3>4. active' = Path(called, u, bit) /\ active' # {}
        BY <2>2, <2>12, <3>1
      <3>5. LastTaken' = y
        <4>1. CASE bit < Junction
          <5>1. bit - 1 < Junction /\ ~(bit > Junction) /\ jn = Junction
            BY <1>1, <2>5, <2>19, <4>1
          <5>2. PendingZero <=> Fork /\ v = 0
            BY <2>6, <2>15, <5>1 DEF NewJunction
          <5> HIDE DEF v
          <5> QED BY <2>4, <2>6, <3>1, <3>3, <4>1, <5>1, <5>2
        <4>2. CASE ~(bit < Junction)
          <5>1. jn = y /\ ~(bit < y)
            BY <1>1, <2>19, <2>20, <4>2
          <5> QED BY <3>3, <5>1
        <4> QED BY <4>1, <4>2
      <3>6. Walk(called, Aimed, pass.aim, u, bit, jn, y, pass.found)
        <4>1. CASE bit < Junction
          BY <2>12, <2>19, <4>1
        <4>2. CASE ~(bit < Junction)
          <5>1. bit >= Junction /\ bit >= jn /\ ~(bit < jn)
            BY <1>1, <2>5, <2>19, <2>20, <4>2
          <5> HIDE DEF v, u, y, jn
          <5> QED BY <2>12, <5>1, WalkFrom
        <4> QED BY <4>1, <4>2
      <3>7. jn # RomBits
        BY <1>1, <2>5, <2>19, <2>20, <2>21
      <3>8. BusyInv'
        <4> HIDE DEF v, u, y, jn
        <4> QED BY <1>1, <1>3, <1>5, <2>16, <3>1, <3>2, <3>3, <3>4, <3>5, <3>6, <3>7
                   DEF BusyInv
      <3>9. PassInv'
        BY <1>1, <1>2, <1>3, <3>1 DEF PassInv
      <3>10. IdleInv'
        BY <1>1, <3>1 DEF IdleInv
      <3> QED BY <3>8, <3>9, <3>10
    <2>22. CASE ~(bit < RomBits)
      <3>1. bit = RomBits /\ ~(bit < Junction)
        BY <1>1, <2>5, <2>22
      <3>2. alarmSearchExhausted' = Done /\ Found(u) /\ busy' = "none" /\ UNCHANGED bus
        BY <2>13, <2>22 DEF AlarmBit, Return
      <3>3. Address' = u /\ Junction' = y /\ (NothingLeft' <=> y = 0)
        <4>1. Address' = u /\ Junction' = jn /\ NothingLeft' = Done
          BY <1>1, <1>2, <2>13, <3>2 DEF Address, Junction, NothingLeft
        <4> QED BY <2>16, <2>19, <3>1, <4>1
      <3> HIDE DEF v, u, y
      <3> QED BY <1>1, <1>5, <2>2, <2>12, <3>1, <3>2, <3>3, Returned
    <2> QED BY <2>21, <2>22
  <1> QED BY <1>4, <1>5

\* Only a device on the bus has an alarm.
AlarmsPresent == alarmed \subseteq present

LEMMA AlarmsStep ==
  ASSUME AlarmsPresent, [Next]_vars
  PROVE  AlarmsPresent'
  <1>1. CASE BusChanges
    BY <1>1 DEF BusChanges, Plug, Unplug, Alarm, AlarmsPresent
  <1>2. ASSUME UNCHANGED <<present, alarmed>>
        PROVE  AlarmsPresent'
    BY <1>2 DEF AlarmsPresent
  <1>3. CASE Step
    BY <1>2, <1>3 DEF Step, search, SearchFails, SearchBreaks, SearchBit, alarmSearch,
                      AlarmSearchFails, AlarmBreaks, AlarmBit, bus
  <1>4. CASE Start
    BY <1>2, <1>4 DEF Start, reset_search, resetAlarmSearch, target_search, bus
  <1>5. CASE UNCHANGED vars
    BY <1>2, <1>5 DEF vars, bus
  <1> QED BY <1>1, <1>3, <1>4, <1>5 DEF Next

\* A call that begins, at the first bit.
LEMMA BeginPass ==
  ASSUME TypeOK, PassInv, IdleInv, search \/ alarmSearch
  PROVE  PassInv' /\ IdleInv' /\ BusyInv'
  <1>1. /\ pass' = pass /\ pass \in PassType
        /\ busy = "none" /\ busy' = pass.kind /\ ~pass.over
        /\ bit' = 1 /\ active' = called /\ ~NothingLeft /\ last_zero' = 0
        /\ lastJunction' = NoJunction /\ done' = TRUE /\ UNCHANGED <<bus, normal, alarm>>
        /\ pass.kind = "search" => called # {}
    BY DEF search, alarmSearch, Begin, called, Called, NothingLeft, NoMore, Presence,
           TypeOK
  <1>2. called' = called /\ Aimed' = Aimed /\ (Watched' <=> Watched)
    BY <1>1, SamePass DEF bus
  <1>3. pass.kind \in {"search", "alarm"} /\ pass.kind # "none"
    BY <1>1 DEF PassType
  <1>4. PassInv'
    BY <1>1, <1>2, <1>3 DEF PassInv
  <1>5. IdleInv'
    BY <1>1, <1>3 DEF IdleInv
  <1>6. CASE ~Watched
    BY <1>2, <1>4, <1>5, <1>6, NotWatched
  <1>7. CASE Watched
    <2>1. /\ Between(called, Aimed, pass.aim, Address, Junction, pass.found)
          /\ Junction = RomBits => pass.aim # NoFamily
          /\ Junction = 0 => pass.found = {}
      BY <1>1, <1>7 DEF IdleInv
    <2>2. Junction \in 0..RomBits /\ pass.found \in SUBSET called
      BY <1>7, JunctionType DEF PassInv
    <2>3. /\ Walk(called, Aimed, pass.aim, Address, 0, Junction, 0, pass.found)
          /\ Path(called, Address, 0) = called
      BY <2>1, <2>2, AimedAt, WalkBegin
    <2>4. Address' = Address /\ Junction' = Junction /\ bit' - 1 = 0
      BY <1>1 DEF Address, Junction, normal, alarm
    <2>5. LastTaken' = 0
      <3>1. CASE pass.kind = "search"
        BY <1>1, <3>1 DEF LastTaken
      <3>2. CASE pass.kind = "alarm"
        <4>1. lastJunction' = -1
          BY <1>1, <1>7, <3>2 DEF Watched, NoJunction
        <4>2. Junction' \in 0..RomBits /\ (~(0 < Junction') => Junction' = 0)
          BY <2>2, <2>4, Bits
        <4> QED BY <1>1, <2>4, <3>2, <4>1, <4>2 DEF LastTaken
      <3> QED BY <1>3, <3>1, <3>2
    <2>6. BusyInv'
      BY <1>1, <1>2, <2>1, <2>3, <2>4, <2>5 DEF BusyInv
    <2> QED BY <1>4, <1>5, <2>6
  <1> QED BY <1>6, <1>7

\* A call that fails at once ends the pass: nothing is left, or nobody is there.
LEMMA FailPass ==
  ASSUME TypeOK, AlarmsPresent, PassInv, IdleInv, SearchFails \/ AlarmSearchFails
  PROVE  PassInv' /\ IdleInv' /\ BusyInv'
  <1>1. /\ busy = "none" /\ busy' = "none" /\ ~pass.over /\ Over /\ UNCHANGED bus
        /\ NothingLeft \/ present = {}
    BY DEF SearchFails, AlarmSearchFails, NothingLeft, NoMore, Presence
  <1>2. /\ pass'.kind = pass.kind /\ pass'.aim = pass.aim /\ pass'.calm = pass.calm
        /\ pass'.over = TRUE /\ pass'.found = pass.found /\ pass'.twice = pass.twice
    BY <1>1, OverKeeps DEF TypeOK
  <1>3. called' = called /\ Aimed' = Aimed /\ (Watched' <=> Watched)
    BY <1>1, <1>2, SamePass DEF bus
  <1>4. PassInv' /\ BusyInv'
    BY <1>1, <1>2, <1>3 DEF PassInv, BusyInv
  <1>5. CASE ~Watched
    BY <1>3, <1>4, <1>5, NotWatched
  <1>6. CASE Watched
    <2>1. CASE NothingLeft
      <3>1. /\ Between(called, Aimed, pass.aim, Address, Junction, pass.found)
            /\ Junction = 0 /\ pass.found # {}
        BY <1>1, <1>6, <2>1 DEF IdleInv
      <3>2. Junction # RomBits
        BY <3>1, Bits
      <3>3. Rest(called, Aimed, Address, 0, pass.found)
        BY <3>1, <3>2 DEF Between
      <3> QED BY <1>2, <1>3, <1>4, <3>3, AimedAt, AllFound DEF IdleInv
    <2>2. CASE present = {}
      <3>1. called = {} /\ Aimed = {}
        BY <2>2, AimedAt DEF called, Called, AlarmsPresent
      <3> QED BY <1>2, <1>3, <1>4, <3>1 DEF IdleInv
    <2> QED BY <1>1, <2>1, <2>2
  <1> QED BY <1>5, <1>6

\* A call that nobody answers ends the pass: nobody was called.
LEMMA BreakPass ==
  ASSUME TypeOK, PassInv, BusyInv, SearchBreaks \/ AlarmBreaks
  PROVE  PassInv' /\ IdleInv' /\ BusyInv'
  <1>1. /\ busy # "none" /\ busy' = "none" /\ Over /\ UNCHANGED bus /\ IdBit = 1 /\ CmpBit = 1
    BY DEF SearchBreaks, AlarmBreaks, Return
  <1>2. /\ pass'.kind = pass.kind /\ pass'.aim = pass.aim /\ pass'.calm = pass.calm
        /\ pass'.over = TRUE /\ pass'.found = pass.found /\ pass'.twice = pass.twice
    BY <1>1, OverKeeps DEF TypeOK
  <1>3. called' = called /\ Aimed' = Aimed /\ (Watched' <=> Watched)
    BY <1>1, <1>2, SamePass DEF bus
  <1>4. PassInv' /\ BusyInv'
    BY <1>1, <1>2, <1>3 DEF PassInv, BusyInv
  <1>5. CASE ~Watched
    BY <1>3, <1>4, <1>5, NotWatched
  <1>6. CASE Watched
    <2>1. active = {}
      <3>1. \A d \in active : d[bit] # 0 /\ d[bit] # 1 /\ d[bit] \in {0, 1}
        BY <1>1, BitsSent
      <3> QED BY <3>1
    <2>2. called = {}
      BY <1>1, <1>6, <2>1 DEF BusyInv
    <2>3. Aimed = {}
      BY <2>2, AimedAt
    <2> QED BY <1>2, <1>3, <1>4, <2>3 DEF IdleInv
  <1> QED BY <1>5, <1>6

\* A pass begins: nothing was found, and nothing is pending.
LEMMA StartPass ==
  ASSUME TypeOK, Start
  PROVE  PassInv' /\ IdleInv' /\ BusyInv'
  <1>1. CASE reset_search
    <2>1. /\ pass' = NewPass("search", NoFamily) /\ busy' = "none" /\ UNCHANGED bus
          /\ LastDiscrepancy' = 0 /\ LastDeviceFlag' = FALSE
      BY <1>1 DEF reset_search
    <2>2. Aimed' = called' /\ Junction' = 0 /\ NothingLeft' = FALSE
          /\ pass'.found = {} /\ ~pass'.over /\ ~pass'.twice /\ pass'.kind = "search"
      BY <2>1 DEF NewPass, Aimed, Junction, NothingLeft
    <2>3. 0 # RomBits
      BY Bits
    <2>4. PassInv' /\ BusyInv'
      BY <2>1, <2>2 DEF PassInv, BusyInv
    <2>5. IdleInv'
      BY <2>2, <2>3 DEF IdleInv, Between
    <2> QED BY <2>4, <2>5
  <1>2. CASE resetAlarmSearch
    <2>1. /\ pass' = NewPass("alarm", NoFamily) /\ busy' = "none" /\ UNCHANGED bus
          /\ alarmSearchJunction' = NoJunction /\ alarmSearchExhausted' = FALSE
      BY <1>2 DEF resetAlarmSearch
    <2>2. /\ Aimed' = called' /\ NothingLeft' = FALSE /\ pass'.aim = NoFamily
          /\ pass'.found = {} /\ ~pass'.over /\ ~pass'.twice /\ pass'.kind = "alarm"
      BY <2>1 DEF NewPass, Aimed, NothingLeft
    <2>3. 0 # RomBits
      BY Bits
    <2>4. Watched' => Junction' = 0
      <3>1. Watched' => alarmSearchJunction' = -1
        BY <2>1, <2>2 DEF Watched, NoJunction
      <3> QED BY <2>2, <3>1 DEF Junction
    <2>5. PassInv' /\ BusyInv'
      BY <2>1, <2>2 DEF PassInv, BusyInv
    <2>6. IdleInv'
      BY <2>2, <2>3, <2>4 DEF IdleInv, Between
    <2> QED BY <2>5, <2>6
  <1>3. ASSUME NEW e \in Devices, target_search(Family(e))
        PROVE  PassInv' /\ IdleInv' /\ BusyInv'
    <2> DEFINE f == Family(e)
    <2>1. /\ pass' = NewPass("search", f) /\ busy' = "none" /\ UNCHANGED bus
          /\ ROM_NO' = [k \in 1..RomBits |-> IF k <= FamilyBits THEN f[k] ELSE 0]
          /\ LastDiscrepancy' = RomBits /\ LastDeviceFlag' = FALSE
      BY <1>3 DEF target_search, BehindAll
    <2>2. f # NoFamily
      BY OneWireAssumption
    <2> HIDE DEF f
    <2>3. /\ Aimed' = {d \in called' : HasFamily(d, f)} /\ NothingLeft' = FALSE
          /\ pass'.found = {} /\ ~pass'.over /\ ~pass'.twice /\ pass'.kind = "search"
          /\ pass'.aim = f /\ Address' = ROM_NO' /\ Junction' = RomBits
      BY <2>1, <2>2 DEF NewPass, Aimed, NothingLeft, Address, Junction
    <2>4. RomBits # 0
      BY Bits
    <2>5. PassInv' /\ BusyInv'
      BY <2>1, <2>3 DEF PassInv, BusyInv
    <2>6. Target(called', Aimed', f, ROM_NO', 0, {})
      <3>1. \A k \in 1..FamilyBits : k \in 1..RomBits /\ k <= FamilyBits
        BY Bits
      <3>2. HasFamily(ROM_NO', f)
        BY <2>1, <3>1 DEF HasFamily
      <3>3. \A k \in 1..RomBits : k > 0 /\ k > FamilyBits => ROM_NO'[k] = 0
        <4>1. \A k \in 1..RomBits : k > FamilyBits => ~(k <= FamilyBits)
          BY Bits
        <4> QED BY <2>1, <4>1
      <3>4. Lower(called', ROM_NO', 0) = {}
        BY DEF Lower
      <3> QED BY <3>2, <3>3, <3>4 DEF Target
    <2>7. IdleInv'
      BY <2>2, <2>3, <2>4, <2>6 DEF IdleInv, Between
    <2> QED BY <2>5, <2>7
  <1> QED BY <1>1, <1>2, <1>3 DEF Start

LEMMA InitPass == Init => PassInv /\ IdleInv /\ BusyInv
  <1> SUFFICES ASSUME Init PROVE PassInv /\ IdleInv /\ BusyInv
    OBVIOUS
  <1>1. /\ busy = "none" /\ pass.kind = "search" /\ pass.aim = NoFamily /\ ~pass.over
        /\ pass.found = {} /\ ~pass.twice /\ LastDiscrepancy = 0 /\ LastDeviceFlag = FALSE
    BY DEF Init, NewPass
  <1>2. Aimed = called /\ Junction = 0 /\ ~NothingLeft
    BY <1>1 DEF Aimed, Junction, NothingLeft
  <1>3. 0 # RomBits
    BY Bits
  <1>4. PassInv /\ BusyInv
    BY <1>1 DEF PassInv, BusyInv
  <1>5. IdleInv
    BY <1>1, <1>2, <1>3 DEF IdleInv, Between
  <1> QED BY <1>4, <1>5

LEMMA StepPass ==
  ASSUME TypeOK, AlarmsPresent, PassInv, IdleInv, BusyInv, [Next]_vars
  PROVE  PassInv' /\ IdleInv' /\ BusyInv'
  <1>1. CASE SearchBit
    BY <1>1, SearchBitPass
  <1>2. CASE AlarmBit
    BY <1>2, AlarmBitPass
  <1>3. CASE search \/ alarmSearch
    BY <1>3, BeginPass
  <1>4. CASE SearchFails \/ AlarmSearchFails
    BY <1>4, FailPass
  <1>5. CASE SearchBreaks \/ AlarmBreaks
    BY <1>5, BreakPass
  <1>6. CASE Start
    BY <1>6, StartPass
  <1>7. CASE BusChanges
    <2>1. /\ pass'.kind = pass.kind /\ pass'.aim = pass.aim /\ ~pass'.calm
          /\ pass'.over = pass.over /\ busy' = busy
      BY <1>7 DEF BusChanges, TypeOK, PassType
    <2>2. ~Watched'
      BY <2>1 DEF Watched
    <2>3. PassInv'
      BY <2>1, <2>2 DEF PassInv
    <2> QED BY <2>2, <2>3, NotWatched
  <1>8. CASE UNCHANGED vars
    <2>1. /\ UNCHANGED <<present, alarmed, busy, bit, active, pass, last_zero, lastJunction>>
          /\ UNCHANGED <<ROM_NO, LastDiscrepancy, LastDeviceFlag, done>>
          /\ UNCHANGED <<alarmSearchAddress, alarmSearchJunction, alarmSearchExhausted>>
      BY <1>8 DEF vars, bus, normal, alarm, locals
    <2>2. called' = called /\ Aimed' = Aimed /\ (Watched' <=> Watched)
      BY <2>1, SamePass
    <2>3. Address' = Address /\ Junction' = Junction /\ NothingLeft' = NothingLeft
          /\ LastTaken' = LastTaken
      BY <2>1 DEF Address, Junction, NothingLeft, LastTaken
    <2> QED BY <2>1, <2>2, <2>3 DEF PassInv, IdleInv, BusyInv
  <1> QED
    BY <1>1, <1>2, <1>3, <1>4, <1>5, <1>6, <1>7, <1>8 DEF Next, Step

\* PassInv says that nothing is found twice while a pass is watched, and IdleInv that at
\* its end all is found; a pass is over only while no call runs.
LEMMA WatchedComplete ==
  ASSUME TypeOK, PassInv, IdleInv, CharSigned
  PROVE  Complete
  <1> SUFFICES ASSUME pass.calm PROVE ~pass.twice /\
                  (pass.over /\ pass.aim = NoFamily => pass.found = Called(pass.kind))
    BY DEF Complete
  <1>1. Watched
    BY DEF Watched
  <1>2. ~pass.twice /\ pass.found \subseteq called
    BY <1>1 DEF PassInv
  <1>3. ASSUME pass.over, pass.aim = NoFamily
        PROVE  pass.found = called
    BY <1>1, <1>2, <1>3 DEF PassInv, IdleInv, Aimed
  <1> QED BY <1>2, <1>3 DEF called

\* What holds of a pass, whatever is called when.
Watching == TypeOK /\ AlarmsPresent /\ PassInv /\ IdleInv /\ BusyInv

LEMMA InitWatching == Init => Watching
  BY InitType, InitPass DEF Watching, AlarmsPresent, Init

LEMMA StepWatching == Watching /\ [Next]_vars => Watching'
  BY StepType, AlarmsStep, StepPass DEF Watching

\* A pass over a bus that does not change finds every device that is called, once
\* (OneWire.cpp lines 347-475, DallasTemperature.cpp lines 668-745).  Where char is
\* unsigned, the -1 of resetAlarmSearch() is 255, which no bit is behind: the alarm
\* search returns its first device again and again, and the statement is false.
THEOREM CompleteHolds == CharSigned => (Spec => []Complete)
  <1>1. CASE CharSigned
    <2>1. Watching => Complete
      BY <1>1, WatchedComplete DEF Watching
    <2> QED BY InitWatching, StepWatching, <2>1, PTL DEF Spec
  <1>2. CASE ~CharSigned
    BY <1>2
  <1> QED BY <1>1, <1>2

-----------------------------------------------------------------------------
(* A search for a family                                                   *)

\* There are finitely many addresses.
LEMMA DevicesFinite == IsFiniteSet(Devices)
  <1> DEFINE Ones(w) == {k \in 1..RomBits : w[k] = 1}
             map == [w \in Devices |-> Ones(w)]
             T == SUBSET (1..RomBits)
  <1>1. IsFiniteSet(T)
    <2>1. IsFiniteSet(1..RomBits)
      BY Bits, FS_Interval
    <2> QED BY <2>1, FS_SUBSET
  <1>2. map \in [Devices -> T]
    OBVIOUS
  <1>3. ASSUME NEW d \in Devices, NEW e \in Devices, map[d] = map[e]
        PROVE  d = e
    <2>1. Ones(d) = Ones(e)
      BY <1>3
    <2>2. \A k \in 1..RomBits : d[k] = 1 <=> e[k] = 1
      BY <2>1
    <2>3. d \in Word /\ e \in Word
      BY OneWireAssumption
    <2>4. \A k \in 1..RomBits : d[k] \in {0, 1} /\ e[k] \in {0, 1}
      BY <2>3 DEF Word
    <2>5. \A k \in 1..RomBits : d[k] = e[k]
      BY <2>2, <2>4
    <2>6. d = [k \in 1..RomBits |-> d[k]] /\ e = [k \in 1..RomBits |-> e[k]]
      BY <2>3 DEF Word
    <2>7. [k \in 1..RomBits |-> d[k]] = [k \in 1..RomBits |-> e[k]]
      BY <2>5
    <2> QED BY <2>6, <2>7, Zenon
  <1> HIDE DEF map, T
  <1>4. IsInjective(map)
    BY <1>2, <1>3 DEF IsInjective
  <1>5. map \in Injection(Devices, T)
    BY <1>2, <1>4 DEF Injection
  <1> QED BY <1>1, <1>5, FS_Injection

LEMMA FamilyOf ==
  ASSUME NEW d \in Word, NEW f \in {Family(w) : w \in Word}
  PROVE  Family(d) = f <=> HasFamily(d, f)
  <1>1. PICK w \in Word : f = Family(w)
    OBVIOUS
  <1>2. \A k \in 1..FamilyBits : f[k] = w[k]
    BY <1>1 DEF Family
  <1>3. Family(d) = f => HasFamily(d, f)
    BY DEF Family, HasFamily
  <1>4. ASSUME HasFamily(d, f) PROVE Family(d) = f
    <2>1. \A k \in 1..FamilyBits : d[k] = w[k]
      BY <1>2, <1>4 DEF HasFamily
    <2>2. [k \in 1..FamilyBits |-> d[k]] = [k \in 1..FamilyBits |-> w[k]]
      BY <2>1
    <2> QED BY <1>1, <2>2 DEF Family
  <1> QED BY <1>3, <1>4

\* Either all of the family is found, or nothing but them.
LEMMA FamilyFirst ==
  ASSUME TypeOK, PassInv, IdleInv, BusyInv, Watched
  PROVE  Aimed \subseteq pass.found \/ pass.found \subseteq Aimed
  <1>1. CASE busy = "none"
    <2>1. CASE pass.over
      BY <1>1, <2>1 DEF IdleInv
    <2>2. CASE ~pass.over
      <3>1. Between(called, Aimed, pass.aim, Address, Junction, pass.found)
        BY <1>1, <2>2 DEF IdleInv
      <3> QED BY <3>1 DEF Between, Target, Rest
    <2> QED BY <2>1, <2>2
  <1>2. CASE busy # "none"
    <2>1. Walk(called, Aimed, pass.aim, Address, bit - 1, Junction, LastTaken, pass.found)
      BY <1>2 DEF BusyInv
    <2>2. bit - 1 < Junction \/ bit - 1 >= Junction
      BY JunctionType DEF TypeOK
    <2> QED BY <2>1, <2>2 DEF Walk, Target, Rest, Beyond
  <1> QED BY <1>1, <1>2

LEMMA WatchedTargeted ==
  ASSUME Watching
  PROVE  Targeted
  <1> SUFFICES ASSUME pass.calm, pass.aim # NoFamily
               PROVE  LET aimed == {d \in present : Family(d) = pass.aim} IN
                      /\ Cardinality(pass.found) <= Cardinality(aimed) => pass.found \subseteq aimed
                      /\ pass.over => aimed \subseteq pass.found
    BY DEF Targeted
  <1> DEFINE aimed == {d \in present : Family(d) = pass.aim}
  <1>1. TypeOK /\ PassInv /\ IdleInv /\ BusyInv /\ pass \in PassType
    BY DEF Watching, TypeOK
  <1>2. pass.kind = "search" /\ Watched /\ called = present
    BY <1>1 DEF PassInv, Watched, PassType, called, Called
  <1>3. aimed = Aimed
    <2>1. present \subseteq Word /\ pass.aim \in {Family(w) : w \in Word}
      BY <1>1, OneWireAssumption DEF TypeOK, PassType
    <2>2. \A d \in present : Family(d) = pass.aim <=> HasFamily(d, pass.aim)
      BY <2>1, FamilyOf
    <2> QED BY <1>2, <2>2 DEF Aimed
  <1> HIDE DEF aimed
  <1>4. aimed \subseteq pass.found \/ pass.found \subseteq aimed
    BY <1>1, <1>2, <1>3, FamilyFirst
  <1>5. pass.found \subseteq called /\ called \subseteq Devices
    BY <1>1, <1>2, AimedAt DEF PassInv
  <1>6. ASSUME Cardinality(pass.found) <= Cardinality(aimed), aimed \subseteq pass.found
        PROVE  pass.found = aimed
    <2>1. IsFiniteSet(pass.found)
      BY <1>5, DevicesFinite, FS_Subset
    <2>2. IsFiniteSet(aimed)
      BY <1>6, <2>1, FS_Subset
    <2>3. Cardinality(aimed) = Cardinality(pass.found)
      <3>1. Cardinality(aimed) \in Nat /\ Cardinality(pass.found) \in Nat
        BY <2>1, <2>2, FS_CardinalityType
      <3>2. Cardinality(aimed) <= Cardinality(pass.found)
        BY <1>6, <2>1, FS_Subset
      <3> QED BY <1>6, <3>1, <3>2
    <2> QED BY <1>6, <2>1, <2>3, FS_Subset
  <1>7. pass.over => aimed \subseteq pass.found
    BY <1>1, <1>2, <1>3 DEF PassInv, IdleInv
  <1> QED BY <1>4, <1>6, <1>7 DEF aimed

\* After target_search() a pass over a bus that does not change finds the devices of the
\* family before any other, and all of them (OneWire.cpp lines 317-329).
THEOREM TargetedHolds == Spec => []Targeted
  BY InitWatching, StepWatching, WatchedTargeted, PTL DEF Spec

-----------------------------------------------------------------------------
(* The registers of the sensors                                            *)

Registers == [th : Int, tl : Int, res : Int]

LEMMA Fields ==
  ASSUME NEW s \in Registers, NEW x \in Int
  PROVE  /\ [s EXCEPT !.res = x] \in Registers /\ [s EXCEPT !.res = x].res = x
         /\ [s EXCEPT !.th = x] \in Registers /\ [s EXCEPT !.tl = x] \in Registers
         /\ [s EXCEPT !.th = x].res = s.res /\ [s EXCEPT !.tl = x].res = s.res
  BY DEF Registers

LEMMA TwoFields ==
  ASSUME NEW s \in Registers, NEW x \in Int, NEW y \in Int
  PROVE  /\ [s EXCEPT !.th = x, !.tl = y] \in Registers
         /\ [s EXCEPT !.th = x, !.tl = y].res = s.res
  BY DEF Registers

LEMMA WrittenType ==
  ASSUME NEW d \in All, scratch \in [All -> Registers], NEW s \in Registers
  PROVE  /\ Written(d, s) \in Registers
         /\ Written(d, s).res = IF Bus[d] = S20 THEN scratch[d].res ELSE s.res
<1>1. scratch[d].res \in Int
  BY DEF Registers
<1>2. [s EXCEPT !.res = scratch[d].res] \in Registers
      /\ [s EXCEPT !.res = scratch[d].res].res = scratch[d].res
  BY <1>1, Fields
<1> QED BY <1>2 DEF Written

\* The write that is under way, in registers that the driver is alone to change: it
\* knows what they should be, and between calls they are what is in the EEPROM.
RegisterInv ==
  /\ pc \in {"write", "copy"} => target \in All /\ data = intended /\ intended \in Registers
  /\ pc \notin {"write", "copy"} => ~disturbed
  /\ pc \in {"write", "copy"} /\ ~disturbed => online[target]
  /\ \A d \in All : scratch[d] = eeprom[d] \/ (pc = "copy" /\ d = target)
  /\ pc = "copy" => \/ online[target] /\ scratch[target] = Written(target, intended)
                    \/ disturbed /\ scratch[target] = eeprom[target]

StoreInv ==
  /\ scratch \in [All -> Registers] /\ eeprom \in [All -> Registers]
  /\ online \in [All -> BOOLEAN] /\ disturbed \in BOOLEAN
  /\ RegisterInv

LEMMA StoreInit == SensorsInit => StoreInv
<1> SUFFICES ASSUME SensorsInit PROVE StoreInv
  OBVIOUS
<1>1. [th |-> 125, tl |-> 10, res |-> 12] \in Registers
  BY DEF Registers
<1>2. scratch \in [All -> Registers] /\ eeprom \in [All -> Registers] /\ scratch = eeprom
  BY <1>1 DEF SensorsInit
<1> QED BY <1>2 DEF SensorsInit, StoreInv, RegisterInv

\* What is read with a right CRC is the EEPROM, so that what is written is what the
\* program wants.
LEMMA SettingStore ==
  ASSUME StoreInv, NEW d, NEW clear, isConnected(d, clear), pc # "copy"
  PROVE  d \in All /\ online[d] /\ Received(d, clear) = eeprom[d] /\ eeprom[d] \in Registers
<1>1. d \in All /\ clear /\ online[d]
  BY DEF isConnected, Online
<1> QED BY <1>1 DEF Received, StoreInv, RegisterInv

LEMMA StartsStore ==
  ASSUME StoreInv, NEW d \in All, NEW r \in Registers, pc \in {"idle", "next"}, online[d],
         pc' = "write", target' = d, data' = r, intended' = r,
         scratch' = scratch, eeprom' = eeprom, online' = online, disturbed' = disturbed
  PROVE  StoreInv'
  BY DEF StoreInv, RegisterInv

LEMMA ConfigurationType == ASSUME NEW r PROVE Configuration(r) \in Int
  BY DEF Configuration

LEMMA ConfiguresStore ==
  ASSUME StoreInv, NEW d, NEW r, pc \in {"idle", "next"}, Configures(d, r),
         scratch' = scratch, eeprom' = eeprom, online' = online, disturbed' = disturbed
  PROVE  StoreInv'
<1>1. PICK clear \in BOOLEAN :
        IF isConnected(d, clear) /\ Bus[d] # S20
        THEN Starts(d, LAMBDA s : [s EXCEPT !.res = Configuration(r)], clear)
        ELSE Skips
  BY DEF Configures
<1>2. CASE isConnected(d, clear) /\ Bus[d] # S20
  <2>1. d \in All /\ online[d] /\ Received(d, clear) = eeprom[d] /\ eeprom[d] \in Registers
    BY <1>2, SettingStore
  <2>2. /\ pc' = "write" /\ target' = d
        /\ data' = [Received(d, clear) EXCEPT !.res = Configuration(r)]
        /\ intended' = [eeprom[d] EXCEPT !.res = Configuration(r)]
    BY <1>1, <1>2 DEF Starts
  <2>3. [eeprom[d] EXCEPT !.res = Configuration(r)] \in Registers
    <3>1. eeprom[d] \in Registers /\ Configuration(r) \in Int
      BY <2>1, ConfigurationType
    <3> QED BY <3>1, Fields
  <2> QED BY <2>1, <2>2, <2>3, StartsStore
<1>3. CASE ~(isConnected(d, clear) /\ Bus[d] # S20)
  BY <1>1, <1>3 DEF Skips, StoreInv, RegisterInv
<1> QED BY <1>2, <1>3

LEMMA InRangeType == ASSUME NEW c \in Int PROVE InRange(c) \in -55..125
<1>1. (c + 128) % 256 \in 0..255
  OBVIOUS
<1>2. Char(c) \in Int
  BY <1>1 DEF Char
<1> QED BY <1>2 DEF InRange

LEMMA ChangesStore ==
  ASSUME StoreInv, NEW d \in All,
         \/ \E u \in UserData : setUserData(d, u)
         \/ \E c \in Highs : setHighAlarmTemp(d, c)
         \/ \E c \in Lows : setLowAlarmTemp(d, c)
  PROVE  StoreInv'
<1>0. UserData \subseteq [th : -128..127, tl : -128..127] /\ Highs \subseteq Int /\ Lows \subseteq Int
  BY SensorsAssumption
<1>1. pc = "idle" /\ scratch' = scratch /\ eeprom' = eeprom /\ online' = online
      /\ disturbed' = disturbed
  BY DEF setUserData, setHighAlarmTemp, setLowAlarmTemp, Changes, device
<1>2. CASE \E u \in UserData : setUserData(d, u)
  <2>1. PICK u \in UserData : setUserData(d, u)
    BY <1>2
  <2>2. PICK clear \in BOOLEAN :
          isConnected(d, clear) /\ Starts(d, LAMBDA s : [s EXCEPT !.th = u.th, !.tl = u.tl], clear)
    BY <2>1 DEF setUserData, Changes
  <2>3. online[d] /\ Received(d, clear) = eeprom[d] /\ eeprom[d] \in Registers
    BY <1>1, <2>2, SettingStore
  <2>4. u.th \in Int /\ u.tl \in Int
    BY <1>0
  <2>5. [eeprom[d] EXCEPT !.th = u.th, !.tl = u.tl] \in Registers
    <3>1. eeprom[d] \in Registers
      BY <2>3
    <3> QED BY <3>1, <2>4, TwoFields
  <2>6. /\ pc' = "write" /\ target' = d
        /\ data' = [Received(d, clear) EXCEPT !.th = u.th, !.tl = u.tl]
        /\ intended' = [eeprom[d] EXCEPT !.th = u.th, !.tl = u.tl]
    BY <2>2 DEF Starts
  <2> QED BY <1>1, <2>3, <2>5, <2>6, StartsStore
<1>3. CASE \E c \in Highs : setHighAlarmTemp(d, c)
  <2>1. PICK c \in Highs : setHighAlarmTemp(d, c)
    BY <1>3
  <2>2. PICK clear \in BOOLEAN :
          isConnected(d, clear) /\ Starts(d, LAMBDA s : [s EXCEPT !.th = InRange(c)], clear)
    BY <2>1 DEF setHighAlarmTemp, Changes
  <2>3. online[d] /\ Received(d, clear) = eeprom[d] /\ eeprom[d] \in Registers
    BY <1>1, <2>2, SettingStore
  <2>4. InRange(c) \in Int
    BY <1>0, InRangeType
  <2>5. [eeprom[d] EXCEPT !.th = InRange(c)] \in Registers
    <3>1. eeprom[d] \in Registers
      BY <2>3
    <3> QED BY <3>1, <2>4, Fields
  <2>6. /\ pc' = "write" /\ target' = d
        /\ data' = [Received(d, clear) EXCEPT !.th = InRange(c)]
        /\ intended' = [eeprom[d] EXCEPT !.th = InRange(c)]
    BY <2>2 DEF Starts
  <2> QED BY <1>1, <2>3, <2>5, <2>6, StartsStore
<1>4. CASE \E c \in Lows : setLowAlarmTemp(d, c)
  <2>1. PICK c \in Lows : setLowAlarmTemp(d, c)
    BY <1>4
  <2>2. PICK clear \in BOOLEAN :
          isConnected(d, clear) /\ Starts(d, LAMBDA s : [s EXCEPT !.tl = InRange(c)], clear)
    BY <2>1 DEF setLowAlarmTemp, Changes
  <2>3. online[d] /\ Received(d, clear) = eeprom[d] /\ eeprom[d] \in Registers
    BY <1>1, <2>2, SettingStore
  <2>4. InRange(c) \in Int
    BY <1>0, InRangeType
  <2>5. [eeprom[d] EXCEPT !.tl = InRange(c)] \in Registers
    <3>1. eeprom[d] \in Registers
      BY <2>3
    <3> QED BY <3>1, <2>4, Fields
  <2>6. /\ pc' = "write" /\ target' = d
        /\ data' = [Received(d, clear) EXCEPT !.tl = InRange(c)]
        /\ intended' = [eeprom[d] EXCEPT !.tl = InRange(c)]
    BY <2>2 DEF Starts
  <2> QED BY <1>1, <2>3, <2>5, <2>6, StartsStore
<1> QED BY <1>2, <1>3, <1>4

LEMMA WriteStore ==
  ASSUME StoreInv, WriteScratch
  PROVE  StoreInv'
<1>1. pc = "write" /\ pc' = "copy" /\ target' = target /\ data' = data /\ intended' = intended
      /\ disturbed' = disturbed /\ online' = online /\ eeprom' = eeprom
      /\ scratch' = (IF online[target] THEN [scratch EXCEPT ![target] = Written(target, data)]
                                       ELSE scratch)
  BY DEF WriteScratch, writing
<1>2. target \in All /\ data = intended /\ intended \in Registers
      /\ scratch \in [All -> Registers] /\ scratch[target] = eeprom[target]
  BY <1>1 DEF StoreInv, RegisterInv
<1>3. CASE ~online[target]
  BY <1>1, <1>2, <1>3 DEF StoreInv, RegisterInv
<1>4. CASE online[target]
  <2>1. Written(target, intended) \in Registers
        /\ Written(target, intended).res =
             IF Bus[target] = S20 THEN scratch[target].res ELSE intended.res
    BY <1>2, WrittenType
  <2>2. scratch' \in [All -> Registers] /\ scratch'[target] = Written(target, intended)
        /\ \A d \in All : d # target => scratch'[d] = scratch[d]
    BY <1>1, <1>2, <1>4, <2>1
  <2>3. Bus[target] = S20 => scratch'[target].res = scratch[target].res
    BY <2>1, <2>2
  <2>4. Written(target, intended)' = Written(target, intended)
    BY <1>1, <2>3 DEF Written
  <2>5. \A d \in All : scratch'[d] = eeprom'[d] \/ d = target
    BY <1>1, <2>2 DEF StoreInv, RegisterInv
  <2> QED BY <1>1, <1>2, <1>4, <2>2, <2>4, <2>5 DEF StoreInv, RegisterInv
<1> QED BY <1>3, <1>4

LEMMA CopyStore ==
  ASSUME StoreInv, CopyScratch
  PROVE  StoreInv'
<1>1. pc = "copy" /\ pc' \in {"next", "idle"} /\ ~disturbed' /\ disturbed' \in BOOLEAN
      /\ online' = online /\ scratch' = scratch
      /\ eeprom' = (IF online[target] THEN [eeprom EXCEPT ![target] = scratch[target]]
                                      ELSE eeprom)
  BY DEF CopyScratch, Copied
<1>2. target \in All /\ scratch \in [All -> Registers] /\ eeprom \in [All -> Registers]
  BY <1>1 DEF StoreInv, RegisterInv
<1>3. eeprom' \in [All -> Registers]
  BY <1>1, <1>2
<1>4. \A d \in All : scratch'[d] = eeprom'[d]
  BY <1>1, <1>2 DEF StoreInv, RegisterInv
<1> QED BY <1>1, <1>3, <1>4 DEF StoreInv, RegisterInv

LEMMA PowerStore ==
  ASSUME StoreInv, NEW d \in All, PowerFails(d) \/ PowerReturns(d)
  PROVE  StoreInv'
<1>1. CASE PowerFails(d)
  <2>1. pc' = pc /\ target' = target /\ data' = data /\ intended' = intended /\ eeprom' = eeprom
        /\ online' = [online EXCEPT ![d] = FALSE]
        /\ scratch' = [scratch EXCEPT ![d] = eeprom[d]]
        /\ disturbed' = (disturbed \/ (pc \in {"write", "copy"} /\ target = d))
    BY <1>1 DEF PowerFails
  <2>2. scratch' \in [All -> Registers] /\ online' \in [All -> BOOLEAN]
        /\ scratch'[d] = eeprom[d]
        /\ (\A e \in All : e # d => scratch'[e] = scratch[e] /\ online'[e] = online[e])
    BY <2>1 DEF StoreInv
  <2>3. target # d => Written(target, intended)' = Written(target, intended) \/ pc # "copy"
    BY <2>1, <2>2 DEF Written, StoreInv, RegisterInv
  <2>4. \A e \in All : scratch'[e] = eeprom'[e] \/ (pc' = "copy" /\ e = target')
    BY <2>1, <2>2 DEF StoreInv, RegisterInv
  <2>5. pc' = "copy" => \/ online'[target'] /\ scratch'[target'] = Written(target, intended)'
                        \/ disturbed' /\ scratch'[target'] = eeprom'[target']
    BY <2>1, <2>2, <2>3 DEF StoreInv, RegisterInv
  <2>6. pc' \in {"write", "copy"} /\ ~disturbed' => online'[target']
    BY <2>1, <2>2 DEF StoreInv, RegisterInv
  <2>7. disturbed' \in BOOLEAN /\ (pc' \notin {"write", "copy"} => ~disturbed')
    BY <2>1 DEF StoreInv, RegisterInv
  <2>8. pc' \in {"write", "copy"} =>
          target' \in All /\ data' = intended' /\ intended' \in Registers
    BY <2>1 DEF StoreInv, RegisterInv
  <2>9. eeprom' \in [All -> Registers]
    BY <2>1 DEF StoreInv
  <2> QED BY <2>2, <2>4, <2>5, <2>6, <2>7, <2>8, <2>9 DEF StoreInv, RegisterInv
<1>2. CASE PowerReturns(d)
  <2>1. pc' = pc /\ target' = target /\ data' = data /\ intended' = intended /\ eeprom' = eeprom
        /\ online' = [online EXCEPT ![d] = TRUE] /\ scratch' = scratch /\ disturbed' = disturbed
    BY <1>2 DEF PowerReturns, writing
  <2>2. Written(target, intended)' = Written(target, intended)
    BY <2>1 DEF Written
  <2>3. online' \in [All -> BOOLEAN] /\ \A e \in All : online[e] => online'[e]
    BY <2>1 DEF StoreInv
  <2> QED BY <2>1, <2>2, <2>3 DEF StoreInv, RegisterInv
<1> QED BY <1>1, <1>2

\* Everything else leaves registers alone.
LEMMA OtherStore ==
  ASSUME StoreInv, scratch' = scratch, eeprom' = eeprom, online' = online,
         disturbed' = disturbed, target' = target, data' = data, intended' = intended,
         pc' = pc \/ (pc \notin {"write", "copy"} /\ pc' \notin {"write", "copy"})
  PROVE  StoreInv'
<1>1. Written(target, intended)' = Written(target, intended)
  BY DEF Written
<1> QED BY <1>1 DEF StoreInv, RegisterInv

LEMMA StoreNext ==
  ASSUME StoreInv, [SensorsNext]_sensorsVars
  PROVE  StoreInv'
<1>1. CASE \E d \in All : PowerFails(d) \/ PowerReturns(d)
  BY <1>1, PowerStore
<1>2. CASE WriteScratch
  BY <1>2, WriteStore
<1>3. CASE CopyScratch
  BY <1>3, CopyStore
<1>4. CASE \E r \in Resolutions : \E d \in All : setResolutionOf(d, r)
  BY <1>4, ConfiguresStore DEF setResolutionOf, device
<1>5. CASE \E d \in All : \/ \E u \in UserData : setUserData(d, u)
                          \/ \E c \in Highs : setHighAlarmTemp(d, c)
                          \/ \E c \in Lows : setLowAlarmTemp(d, c)
  BY <1>5, ChangesStore
<1>6. CASE \E i \in 0..(Len(Bus) - 1) : \E u \in UserData : setUserDataByIndex(i, u)
  <2>1. PICK i \in 0..(Len(Bus) - 1), u \in UserData : setUserData(getAddress(i), u)
    BY <1>6 DEF setUserDataByIndex
  <2>2. getAddress(i) \in All
    BY <2>1 DEF setUserData, Changes, isConnected, Online
  <2> QED BY <2>1, <2>2, ChangesStore
<1>7. CASE NextDevice
  <2>1. scratch' = scratch /\ eeprom' = eeprom /\ online' = online /\ disturbed' = disturbed
        /\ pc = "next"
    BY <1>7 DEF NextDevice, device
  <2>2. CASE index < devices
    BY <1>7, <2>1, <2>2, ConfiguresStore DEF NextDevice
  <2>3. CASE ~(index < devices)
    BY <1>7, <2>1, <2>3, OtherStore DEF NextDevice
  <2> QED BY <2>2, <2>3
<1>8. CASE \/ begin \/ setWaitForConversion \/ setCheckForConversion \/ requestTemperatures
           \/ (\E r \in Resolutions : setResolution(r))
           \/ (\E d \in All : ConversionEnds(d)) \/ WaitEnds \/ PollEnds \/ UNCHANGED sensorsVars
  BY <1>8, OtherStore
  DEF begin, setWaitForConversion, setCheckForConversion, requestTemperatures, setResolution,
      ConversionEnds, WaitEnds, PollEnds, sensorsVars, device, writing
<1>9. ASSUME NEW d, requestTemperaturesByAddress(d)
      PROVE  StoreInv'
  BY <1>9, OtherStore DEF requestTemperaturesByAddress, writing
<1>10. CASE \/ \E d \in All : requestTemperaturesByAddress(d)
            \/ \E i \in 0..(Len(Bus) - 1) : requestTemperaturesByIndex(i)
  BY <1>9, <1>10 DEF requestTemperaturesByIndex
<1> QED
  BY <1>1, <1>2, <1>3, <1>4, <1>5, <1>6, <1>7, <1>8, <1>10 DEF SensorsNext, Call

LEMMA SettingStep ==
  ASSUME StoreInv, StoreInv', [SensorsNext]_sensorsVars
  PROVE  /\ \A d \in All : eeprom'[d] # eeprom[d] => pc = "copy" /\ d = target
         /\ pc = "copy" /\ pc' # "copy" =>
              \/ eeprom'[target] = Written(target, intended)
              \/ disturbed /\ eeprom'[target] = eeprom[target]
         /\ pc' = "idle" => scratch' = eeprom'
<1>1. pc' = "idle" => scratch' = eeprom'
  BY DEF StoreInv, RegisterInv
<1>2. CASE CopyScratch
  <2>1. pc = "copy"
        /\ eeprom' = (IF online[target] THEN [eeprom EXCEPT ![target] = scratch[target]]
                                        ELSE eeprom)
    BY <1>2 DEF CopyScratch, Copied
  <2>2. target \in All /\ eeprom \in [All -> Registers]
    BY <2>1 DEF StoreInv, RegisterInv
  <2>3. \A d \in All : eeprom'[d] # eeprom[d] => d = target
    BY <2>1, <2>2
  <2>4. \/ eeprom'[target] = Written(target, intended)
        \/ disturbed /\ eeprom'[target] = eeprom[target]
    BY <2>1, <2>2 DEF StoreInv, RegisterInv
  <2> QED BY <1>1, <2>1, <2>3, <2>4
<1>3. CASE ~CopyScratch
  <2>1. eeprom' = eeprom /\ (pc = "copy" => pc' = "copy")
    BY <1>3
    DEF SensorsNext, Call, begin, setWaitForConversion, setCheckForConversion, requestTemperatures,
        setResolution, setResolutionOf, requestTemperaturesByAddress, requestTemperaturesByIndex,
        setUserData, setHighAlarmTemp, setLowAlarmTemp, setUserDataByIndex, Changes,
        ConversionEnds, PowerFails, PowerReturns, NextDevice, WriteScratch, WaitEnds, PollEnds,
        sensorsVars, device
  <2> QED BY <1>1, <2>1
<1> QED BY <1>2, <1>3

LEMMA StoreSafe == SensorsSpec => []StoreInv
<1>1. StoreInv /\ [SensorsNext]_sensorsVars => StoreInv'
  BY StoreNext
<1> QED BY <1>1, StoreInit, PTL DEF SensorsSpec

\* A setting ends with its registers as the program wanted them or, if the device lost
\* power meanwhile, with all of them as they were; nothing else touches an EEPROM.
THEOREM SettingsSafe == SensorsSpec => SettingsSurvive
<1>1. StoreInv /\ StoreInv' /\ [SensorsNext]_sensorsVars =>
        [/\ \A d \in All : eeprom'[d] # eeprom[d] => pc = "copy" /\ d = target
         /\ pc = "copy" /\ pc' # "copy" =>
              \/ eeprom'[target] = Written(target, intended)
              \/ disturbed /\ eeprom'[target] = eeprom[target]
         /\ pc' = "idle" => scratch' = eeprom']_sensorsVars
  BY SettingStep
<1> QED BY <1>1, StoreSafe, PTL DEF SensorsSpec, SettingsSurvive

-----------------------------------------------------------------------------
(* Alarms                                                                  *)

\* Sixteenths of degrees from -128 to 127.
Readable == -2048..2047

\* What the register of a sensor holds.
RegisterWidth ==
  /\ \A r \in Readings : r.raw \in Readable
  /\ \A model \in {B20, S20} : PowerOn[model].raw \in Readable

Values == {r \in [raw : Int, remain : 0..CountPerC] : r.raw \in Readable}

ReadingInv == reg \in [All -> Values]

LEMMA RegisterValues ==
  ASSUME RegisterWidth
  PROVE  Readings \subseteq Values /\ \A d \in All : PowerOn[Bus[d]] \in Values
<1> DEFINE Records == [raw : Int, remain : 0..CountPerC]
           Narrow(r) == r.raw \in Readable
<1>1. Readings \subseteq Records
  BY SensorsAssumption, Zenon
<1>2. (\A r \in Readings : Narrow(r)) /\ \A model \in {B20, S20} : Narrow(PowerOn[model])
  BY Zenon DEF RegisterWidth
<1>3. \A d \in All : Bus[d] \in {B20, S20}
  BY SensorsAssumption DEF All
<1>4. PowerOn \in [{B20, S20} -> Records]
  BY SensorsAssumption, Zenon
<1>5. Values = {r \in Records : Narrow(r)}
  BY Zenon DEF Values
<1> HIDE DEF Records, Narrow
<1> QED BY <1>1, <1>2, <1>3, <1>4, <1>5

LEMMA ReadingStep ==
  ASSUME RegisterWidth, ReadingInv, [SensorsNext]_sensorsVars
  PROVE  ReadingInv'
<1>1. Readings \subseteq Values /\ \A d \in All : PowerOn[Bus[d]] \in Values
  BY RegisterValues
<1>2. CASE reg' = reg
  BY <1>2 DEF ReadingInv
<1>3. ASSUME NEW d \in All, NEW r \in Values, reg' = [reg EXCEPT ![d] = r]
      PROVE  ReadingInv'
  BY <1>3 DEF ReadingInv
<1>4. ASSUME NEW d \in All, ConversionEnds(d)
      PROVE  \E r \in Values : reg' = [reg EXCEPT ![d] = r]
  BY <1>1, <1>4 DEF ConversionEnds
<1>5. ASSUME NEW d \in All, PowerFails(d)
      PROVE  \E r \in Values : reg' = [reg EXCEPT ![d] = r]
  BY <1>1, <1>5 DEF PowerFails
<1>6. \/ reg' = reg
      \/ \E d \in All : ConversionEnds(d) \/ PowerFails(d)
  BY DEF SensorsNext, Call, begin, setWaitForConversion, setCheckForConversion, requestTemperatures,
         setResolution, setResolutionOf, requestTemperaturesByAddress,
         requestTemperaturesByIndex, setUserData, setHighAlarmTemp, setLowAlarmTemp,
         setUserDataByIndex, Changes, PowerReturns, NextDevice, WriteScratch, CopyScratch,
         WaitEnds, PollEnds, sensorsVars, device
<1>7. CASE \E d \in All : ConversionEnds(d)
  BY <1>3, <1>4, <1>7
<1>8. CASE \E d \in All : PowerFails(d)
  BY <1>3, <1>5, <1>8
<1> QED BY <1>2, <1>6, <1>7, <1>8

\* The driver and the device come to the same whole degree, below zero too.
SameDegree(raw) ==
  {n \in -128..127 : n * 16 <= raw /\ raw < (n + 1) * 16} = {(8 * raw) \div 128}

LEMMA WholeDegrees ==
  ASSUME NEW raw \in Readable
  PROVE  SameDegree(raw)
  BY DEF Readable, SameDegree

\* With readings of 12 bits, hasAlarm() says of every DS18B20 on the bus what the device
\* says of itself when it is asked by an alarm search.
THEOREM AlarmsAgree ==
  ASSUME RegisterWidth
  PROVE  SensorsSpec => []AlarmAgrees
<1>1. SensorsInit => ReadingInv
  BY RegisterValues DEF SensorsInit, ReadingInv
<1>2. ReadingInv /\ [SensorsNext]_sensorsVars => ReadingInv'
  BY ReadingStep
<1>3. ReadingInv => AlarmAgrees
  <2> SUFFICES ASSUME ReadingInv, NEW d \in Online, Bus[d] = B20
               PROVE  hasAlarm(d) <=> DeviceAlarm(d)
    BY DEF AlarmAgrees
  <2> DEFINE temp == (8 * reg[d].raw) \div 128
  <2>1. reg[d].raw \in Readable
    BY DEF ReadingInv, Values, Online
  <2>2. Degrees(calculateTemperature(Bus[d], reg[d])) = temp
    BY DEF Degrees, calculateTemperature, B20, S20
  <2>3. SameDegree(reg[d].raw)
    BY <2>1, WholeDegrees, Zenon
  <2>4. {n \in -128..127 : n * 16 <= reg[d].raw /\ reg[d].raw < (n + 1) * 16} = {temp}
    BY <2>3 DEF SameDegree
  <2> HIDE DEF temp
  <2>5. hasAlarm(d) <=> temp <= scratch[d].tl \/ temp >= scratch[d].th
    BY <2>2, Zenon DEF hasAlarm
  <2>6. DeviceAlarm(d) <=> temp <= scratch[d].tl \/ temp >= scratch[d].th
    BY <2>4 DEF DeviceAlarm
  <2> QED BY <2>5, <2>6
<1> QED BY <1>1, <1>2, <1>3, PTL DEF SensorsSpec

-----------------------------------------------------------------------------
(* The PID controller: gains, ranges and clock of any size                 *)

LEMMA ClampedRange ==
  ASSUME NEW x \in Int, NEW min \in Int, NEW max \in Int, min <= max
  PROVE  Clamped(x, min, max) \in min..max
BY DEF Clamped

\* A difference of two clock values, modulo the clock.
LEMMA Around ==
  ASSUME NEW C \in Nat \ {0}, NEW d \in Int, -C < d, d < C
  PROVE  d % C = IF d >= 0 THEN d ELSE d + C
<1>1. CASE d >= 0
  <2>1. d = (C * (d \div C)) + (d % C) /\ d % C \in 0..(C - 1)
    OBVIOUS
  <2>2. d \div C = 0
    BY <1>1, <2>1
  <2> QED BY <1>1, <2>1, <2>2
<1>2. CASE d < 0
  <2>1. d = (C * (d \div C)) + (d % C) /\ d % C \in 0..(C - 1)
    OBVIOUS
  <2>2. d \div C = -1
    BY <1>2, <2>1
  <2> QED BY <1>2, <2>1, <2>2
<1> QED BY <1>1, <1>2

-----------------------------------------------------------------------------
(* Types                                                                   *)

LEMMA ScalingTypes ==
  ASSUME NEW K \in Int, NEW s \in Nat \ {0}
  PROVE  Integral(K, s) \in Int /\ Derivative(K, s) \in Int
BY PIDAssumption DEF Integral, Derivative

LEMMA SignType == ASSUME NEW d \in {DIRECT, REVERSE} PROVE Sign(d) \in {-1, 1}
BY DEF Sign

LEMMA Difference ==
  ASSUME NEW C \in Nat \ {0}, NEW a \in 0..(C - 1), NEW b \in 0..(C - 1)
  PROVE  (a - b) % C = IF a - b >= 0 THEN a - b ELSE a - b + C
<1>1. a - b \in Int /\ -C < a - b /\ a - b < C
  OBVIOUS
<1> QED BY <1>1, Around

LEMMA TypeInit == PIDInit => PIDTypeOK
<1> SUFFICES ASSUME PIDInit PROVE PIDTypeOK
  OBVIOUS
<1>1. SampleTime \in Nat \ {0} /\ disp \in [p : Int, i : Int, d : Int]
  BY PIDAssumption DEF PIDInit
<1>2. Integral(disp.i, SampleTime) \in Int /\ Derivative(disp.d, SampleTime) \in Int
  BY <1>1, ScalingTypes
<1>3. Sign(controllerDirection) \in {-1, 1}
  BY SignType DEF PIDInit
<1>4. kp \in Int /\ ki \in Int /\ kd \in Int
  BY <1>1, <1>2, <1>3, PIDAssumption DEF PIDInit
<1>5. lastTime \in 0..(Clock - 1) /\ elapsed \in 0..Clock
  BY <1>1, PIDAssumption DEF PIDInit
<1>6. inAuto \in BOOLEAN /\ computed \in BOOLEAN
  BY DEF PIDInit
<1>7. /\ input \in Inputs /\ output \in Int /\ setpoint \in Setpoints
      /\ ITerm \in Int /\ lastInput \in Int
  BY PIDAssumption DEF PIDInit
<1>8. outMin \in Int /\ outMax \in Int /\ outMin < outMax
  BY PIDAssumption DEF PIDInit
<1>9. millis \in 0..(Clock - 1) /\ controllerDirection \in {DIRECT, REVERSE}
  BY PIDAssumption DEF PIDInit
<1> QED
  BY <1>1, <1>4, <1>5, <1>6, <1>7, <1>8, <1>9, Zenon DEF PIDTypeOK

LEMMA TypeStep == PIDTypeOK /\ [PIDNext]_pidVars => PIDTypeOK'
<1> SUFFICES ASSUME PIDTypeOK, [PIDNext]_pidVars PROVE PIDTypeOK'
  OBVIOUS
<1> USE DEF process, mode, gains, limits, memory, time
<1>1. CASE Tick
  BY <1>1, PIDAssumption DEF Tick, PIDTypeOK
<1>2. CASE Program
  BY <1>2, PIDAssumption DEF Program, PIDTypeOK
<1>3. CASE Compute
  <2> DEFINE error == setpoint - input
             sum   == kp * error + ITerm' - kd * (input - lastInput)
  <2>1. input \in Int /\ setpoint \in Int
    BY PIDAssumption DEF PIDTypeOK
  <2>2. ITerm + ki * error \in Int
    BY <2>1 DEF PIDTypeOK
  <2>3. ITerm' \in Int
    BY <1>3, <2>2, ClampedRange DEF Compute, PIDTypeOK, Clamped
  <2>4. sum \in Int
    BY <2>1, <2>3 DEF PIDTypeOK
  <2>5. output' \in Int
    BY <1>3, <2>4 DEF Compute, PIDTypeOK, Clamped
  <2>6. lastInput' \in Int /\ lastTime' \in 0..(Clock - 1) /\ elapsed' \in 0..Clock
    BY <1>3, <2>1, PIDAssumption DEF Compute, PIDTypeOK
  <2>7. computed' \in BOOLEAN
    BY <1>3 DEF Compute
  <2> QED BY <1>3, <2>3, <2>5, <2>6, <2>7, Zenon DEF Compute, PIDTypeOK
<1>4. ASSUME NEW t \in Tunings, SetTunings(t) PROVE PIDTypeOK'
  <2>1. t.p \in Int /\ t.i \in Int /\ t.d \in Int /\ t \in [p : Int, i : Int, d : Int]
    BY PIDAssumption
  <2>2. Integral(t.i, SampleTime) \in Int /\ Derivative(t.d, SampleTime) \in Int
    BY <2>1, ScalingTypes DEF PIDTypeOK
  <2>3. Sign(controllerDirection) \in {-1, 1}
    BY SignType DEF PIDTypeOK
  <2>4. kp' \in Int /\ ki' \in Int /\ kd' \in Int
    BY <1>4, <2>1, <2>2, <2>3, PIDAssumption DEF SetTunings
  <2> QED BY <1>4, <2>1, <2>4 DEF SetTunings, PIDTypeOK
<1>5. ASSUME NEW s \in SampleTimes, SetSampleTime(s) PROVE PIDTypeOK'
  <2>1. s \in Nat \ {0}
    BY <1>5, PIDAssumption DEF SetSampleTime
  <2>2. ki * s \in Int /\ kd * SampleTime \in Int
    BY <2>1 DEF PIDTypeOK
  <2>3. ki' \in Int /\ kd' \in Int
    BY <1>5, <2>1, <2>2 DEF SetSampleTime, Lengthened, Shortened, PIDTypeOK
  <2> QED BY <1>5, <2>1, <2>3 DEF SetSampleTime, PIDTypeOK
<1>6. ASSUME NEW l \in Limits, SetOutputLimits(l) PROVE PIDTypeOK'
  <2>1. l.min \in Int /\ l.max \in Int
    BY PIDAssumption
  <2>2. output' \in Int /\ ITerm' \in Int
    BY <1>6, <2>1 DEF SetOutputLimits, Reclamped, Clamped, PIDTypeOK
  <2> QED BY <1>6, <2>1, <2>2 DEF SetOutputLimits, PIDTypeOK
<1>7. ASSUME NEW auto \in BOOLEAN, SetMode(auto) PROVE PIDTypeOK'
  <2>1. Clamped(output, outMin, outMax) \in Int
    BY DEF Clamped, PIDTypeOK
  <2>2. ITerm' \in Int /\ lastInput' \in Int
    BY <1>7, <2>1, PIDAssumption DEF SetMode, PIDTypeOK
  <2>3. computed' \in BOOLEAN
    BY <1>7 DEF SetMode, PIDTypeOK
  <2> QED BY <1>7, <2>2, <2>3 DEF SetMode, PIDTypeOK
<1>8. ASSUME NEW d \in {DIRECT, REVERSE}, SetControllerDirection(d) PROVE PIDTypeOK'
  <2>1. kp' \in Int /\ ki' \in Int /\ kd' \in Int
    BY <1>8 DEF SetControllerDirection, PIDTypeOK
  <2> QED BY <1>8, <2>1, Zenon DEF SetControllerDirection, PIDTypeOK
<1>9. CASE UNCHANGED pidVars
  BY <1>9 DEF pidVars, PIDTypeOK
<1> QED BY <1>1, <1>2, <1>3, <1>4, <1>5, <1>6, <1>7, <1>8, <1>9 DEF PIDNext

\* Numbers stay numbers, and the range of the output is one, whatever was set.
THEOREM PIDTypeCorrect == PIDSpec => []PIDTypeOK
BY TypeInit, TypeStep, PTL DEF PIDSpec

-----------------------------------------------------------------------------
(* Limits                                                                  *)

\* An output that counts as computed is one of automatic mode.
LimitInv == InLimits /\ (computed => inAuto)

LEMMA LimitsStep == PIDTypeOK /\ LimitInv /\ [PIDNext]_pidVars => LimitInv'
<1> SUFFICES ASSUME PIDTypeOK, LimitInv, [PIDNext]_pidVars PROVE LimitInv'
  OBVIOUS
<1> USE DEF process, mode, gains, limits, memory, time
<1>0. outMin \in Int /\ outMax \in Int /\ outMin < outMax
  BY DEF PIDTypeOK
<1>1. CASE Tick
  BY <1>1 DEF Tick, LimitInv, InLimits
<1>2. CASE Program
  BY <1>2 DEF Program, LimitInv, InLimits
<1>3. CASE Compute
  <2> DEFINE error == setpoint - input
             sum   == kp * error + ITerm' - kd * (input - lastInput)
  <2>1. input \in Int /\ setpoint \in Int
    BY PIDAssumption DEF PIDTypeOK
  <2>2. ITerm + ki * error \in Int
    BY <2>1 DEF PIDTypeOK
  <2>3. ITerm' \in outMin..outMax
    BY <1>0, <1>3, <2>2, ClampedRange DEF Compute
  <2>4. sum \in Int
    BY <2>1, <2>3 DEF PIDTypeOK
  <2>5. output' \in outMin..outMax
    BY <1>0, <1>3, <2>4, ClampedRange DEF Compute
  <2> QED BY <1>3, <2>3, <2>5 DEF Compute, LimitInv, InLimits
<1>4. ASSUME NEW t \in Tunings, SetTunings(t) PROVE LimitInv'
  BY <1>4 DEF SetTunings, LimitInv, InLimits
<1>5. ASSUME NEW s \in SampleTimes, SetSampleTime(s) PROVE LimitInv'
  BY <1>5 DEF SetSampleTime, LimitInv, InLimits
<1>6. ASSUME NEW l \in Limits, SetOutputLimits(l) PROVE LimitInv'
  <2>1. l.min \in Int /\ l.max \in Int /\ l.min <= l.max
    BY <1>6, PIDAssumption DEF SetOutputLimits
  <2>2. output \in Int /\ ITerm \in Int
    BY DEF PIDTypeOK
  <2>3. Clamped(output, l.min, l.max) \in l.min..l.max
    BY <2>1, <2>2, ClampedRange
  <2>4. Clamped(ITerm, l.min, l.max) \in l.min..l.max
    BY <2>1, <2>2, ClampedRange
  <2>5. CASE inAuto
    BY <1>6, <2>3, <2>4, <2>5 DEF SetOutputLimits, Reclamped, LimitInv, InLimits
  <2>6. CASE ~inAuto
    BY <1>6, <2>6 DEF SetOutputLimits, LimitInv, InLimits
  <2> QED BY <2>5, <2>6
<1>7. ASSUME NEW auto \in BOOLEAN, SetMode(auto) PROVE LimitInv'
  <2>1. output \in Int
    BY DEF PIDTypeOK
  <2>2. Clamped(output, outMin, outMax) \in outMin..outMax
    BY <1>0, <2>1, ClampedRange
  <2>3. CASE auto /\ ~inAuto
    BY <1>7, <2>2, <2>3 DEF SetMode, LimitInv, InLimits
  <2>4. CASE auto /\ inAuto
    BY <1>7, <2>4 DEF SetMode, LimitInv, InLimits
  <2>5. CASE ~auto
    BY <1>7, <2>5 DEF SetMode, LimitInv, InLimits
  <2> QED BY <2>3, <2>4, <2>5
<1>8. ASSUME NEW d \in {DIRECT, REVERSE}, SetControllerDirection(d) PROVE LimitInv'
  BY <1>8 DEF SetControllerDirection, LimitInv, InLimits
<1>9. CASE UNCHANGED pidVars
  BY <1>9 DEF pidVars, LimitInv, InLimits
<1> QED BY <1>1, <1>2, <1>3, <1>4, <1>5, <1>6, <1>7, <1>8, <1>9 DEF PIDNext

\* Whatever order limits, modes, tunings and samples come in, the integral and the
\* computed output keep to the limits of the moment.
THEOREM LimitsHold == PIDSpec => []InLimits
<1>1. PIDInit => LimitInv
  BY DEF PIDInit, LimitInv, InLimits
<1>2. LimitInv => InLimits
  BY DEF LimitInv
<1> QED BY <1>1, <1>2, LimitsStep, PIDTypeCorrect, PTL DEF PIDSpec

-----------------------------------------------------------------------------
(* The clock                                                               *)

LEMMA PaceStep == PIDTypeOK /\ PaceInv /\ [PIDNext]_pidVars => PaceInv'
<1> SUFFICES ASSUME PIDTypeOK, PaceInv, [PIDNext]_pidVars PROVE PaceInv'
  OBVIOUS
<1> USE DEF time
<1>0. /\ millis \in 0..(Clock - 1) /\ lastTime \in 0..(Clock - 1) /\ elapsed \in 0..Clock
      /\ Clock \in Nat \ {0}
  BY PIDAssumption DEF PIDTypeOK
<1>1. CASE Tick
  <2> SUFFICES ASSUME elapsed' < Clock PROVE (millis' - lastTime') % Clock = elapsed'
    BY DEF PaceInv
  <2>1. elapsed' = elapsed + 1 /\ elapsed < Clock /\ lastTime' = lastTime
    BY <1>0, <1>1 DEF Tick
  <2>2. millis' = IF millis + 1 < Clock THEN millis + 1 ELSE 0
    <3>1. CASE millis + 1 < Clock
      <4>1. millis + 1 \in Int /\ -Clock < millis + 1 /\ millis + 1 >= 0
        BY <1>0
      <4>2. (millis + 1) % Clock = millis + 1
        BY <1>0, <3>1, <4>1, Around
      <4> QED BY <1>1, <3>1, <4>2 DEF Tick
    <3>2. CASE ~(millis + 1 < Clock)
      <4>1. millis + 1 = Clock
        BY <1>0, <3>2
      <4>2. Clock % Clock = 0
        BY <1>0
      <4> QED BY <1>1, <3>2, <4>1, <4>2 DEF Tick
    <3> QED BY <3>1, <3>2
  <2>3. elapsed = IF millis - lastTime >= 0 THEN millis - lastTime ELSE millis - lastTime + Clock
    BY <1>0, <2>1, Around DEF PaceInv
  <2>4. (millis' - lastTime) % Clock = IF millis' - lastTime >= 0 THEN millis' - lastTime
                                       ELSE millis' - lastTime + Clock
    <3>1. millis' \in 0..(Clock - 1)
      BY <1>0, <2>2
    <3> QED BY <1>0, <3>1, Difference
  <2> QED BY <1>0, <2>1, <2>2, <2>3, <2>4
<1>2. CASE Compute
  <2>1. (millis - millis) % Clock = 0
    BY <1>0, Around
  <2> QED BY <1>2, <2>1 DEF Compute, PaceInv
<1>3. ASSUME ~Tick, ~Compute PROVE PaceInv'
  <2>1. UNCHANGED time
    BY <1>3 DEF PIDNext, pidVars, Program, SetTunings, SetSampleTime, SetOutputLimits, SetMode,
                SetControllerDirection
  <2> QED BY <2>1 DEF PaceInv
<1> QED BY <1>1, <1>2, <1>3

\* However often the clock wraps, and whatever SampleTime it is: a sample is taken when it
\* is due and not before.
THEOREM SamplesPaced == PIDSpec => []Paced
<1>1. PIDInit => PaceInv
  <2> SUFFICES ASSUME PIDInit, elapsed < Clock PROVE (millis - lastTime) % Clock = elapsed
    BY DEF PaceInv
  <2>1. Clock \in Nat \ {0} /\ SampleTime \in 1..(Clock - 1) /\ elapsed = SampleTime /\ millis = 0
    BY PIDAssumption DEF PIDInit
  <2>2. lastTime = Clock - SampleTime
    BY <2>1, Around DEF PIDInit
  <2>3. millis - lastTime = SampleTime - Clock
    BY <2>1, <2>2
  <2> QED BY <2>1, <2>3, Around
<1>2. PaceInv => Paced
  BY DEF PaceInv, Paced, Due
<1> QED BY <1>1, <1>2, PaceStep, PIDTypeCorrect, PTL DEF PIDSpec

-----------------------------------------------------------------------------
(* Gains                                                                   *)

\* A sample time only rescales what was scaled: the quotient is exact.
LEMMA Rescaled ==
  ASSUME NEW a \in Int, NEW s \in Nat \ {0}, NEW n \in Int
  PROVE  ((a * s) * n) \div s = a * n
<1>1. (a * s) * n = (a * n) * s
  OBVIOUS
<1>2. ASSUME NEW b \in Int PROVE (b * s) \div s = b
  OBVIOUS
<1> QED BY <1>1, <1>2

LEMMA Exactly ==
  ASSUME NEW a \in Int, NEW u \in Int, NEW s \in Nat \ {0}, u % s = 0
  PROVE  ((a * u) \div s) * s = a * u /\ (a * u) \div s \in Int
<1>1. PICK q \in Int : q = u \div s
  OBVIOUS
<1>2. u = q * s
  BY <1>1
<1>3. a * u = (a * q) * s
  BY <1>2
<1>4. ASSUME NEW b \in Int PROVE (b * s) \div s = b
  OBVIOUS
<1>5. (a * u) \div s = a * q
  BY <1>3, <1>4
<1> QED  BY <1>3, <1>5

LEMMA Squared ==
  ASSUME NEW a \in Int
  PROVE  a * Unit * Unit = a * (Unit * Unit) /\ Unit * Unit \in Int
BY PIDAssumption

\* The quotients that set the gain of the derivative are exact: the unit can be chosen
\* so for any sample times that a program sets.
ExactUnit ==
  \A s \in {Default.sampleTime} \cup SampleTimes : s > 0 => (Unit * Unit) % s = 0

GainsInv ==
  /\ SampleTime > 0 /\ SampleTime \in {Default.sampleTime} \cup SampleTimes
  /\ GainsScale

\* What the constructor and SetTunings() make of three tunings.
LEMMA Tuned ==
  ASSUME NEW sign \in {-1, 1}, NEW s \in Nat \ {0}, (Unit * Unit) % s = 0,
         NEW i \in Int, NEW d \in Int
  PROVE  /\ sign * Integral(i, s) = sign * i * s
         /\ (sign * Derivative(d, s)) * s = sign * d * Unit * Unit
<1>1. sign * Integral(i, s) = sign * i * s
  BY DEF Integral
<1>2. PICK v : v = (d * (Unit * Unit)) \div s
  OBVIOUS
<1>3. Derivative(d, s) = v
  BY <1>2, Squared DEF Derivative
<1>4. v \in Int /\ v * s = d * (Unit * Unit)
  <2>1. Unit * Unit \in Int
    BY Squared
  <2>2. ((d * (Unit * Unit)) \div s) * s = d * (Unit * Unit) /\ (d * (Unit * Unit)) \div s \in Int
    BY <2>1, Exactly
  <2> QED BY <1>2, <2>2
<1>5. (sign * v) * s = sign * (d * (Unit * Unit))
  BY <1>4
<1>6. sign * d * Unit * Unit = sign * (d * (Unit * Unit))
  BY PIDAssumption
<1> QED BY <1>1, <1>3, <1>5, <1>6

LEMMA GainsInit == ExactUnit /\ PIDInit => GainsInv
<1> SUFFICES ASSUME ExactUnit, PIDInit PROVE GainsInv
  OBVIOUS
<1>1. PICK sign \in {-1, 1} : sign = Sign(controllerDirection)
  BY SignType DEF PIDInit
<1>2. SampleTime \in Nat \ {0} /\ SampleTime = Default.sampleTime
  BY PIDAssumption DEF PIDInit
<1>3. (Unit * Unit) % SampleTime = 0
  BY <1>2 DEF ExactUnit
<1>4. disp.i \in Int /\ disp.d \in Int
  BY TypeInit DEF PIDTypeOK
<1>5. /\ kp = sign * disp.p * Unit /\ ki = sign * Integral(disp.i, SampleTime)
      /\ kd = sign * Derivative(disp.d, SampleTime)
  BY <1>1 DEF PIDInit
<1>6. /\ sign * Integral(disp.i, SampleTime) = sign * disp.i * SampleTime
      /\ (sign * Derivative(disp.d, SampleTime)) * SampleTime = sign * disp.d * Unit * Unit
  <2>1. SampleTime \in Nat \ {0}
    BY <1>2
  <2> QED BY <1>3, <1>4, <2>1, Tuned
<1>7. Scaled(sign)
  BY <1>5, <1>6 DEF Scaled
<1> QED BY <1>2, <1>7 DEF GainsInv, GainsScale

LEMMA GainsStep == ExactUnit /\ PIDTypeOK /\ GainsInv /\ [PIDNext]_pidVars => GainsInv'
<1> SUFFICES ASSUME ExactUnit, PIDTypeOK, GainsInv, [PIDNext]_pidVars
             PROVE  GainsInv'
  OBVIOUS
<1> USE DEF process, mode, gains, limits, memory, time
<1>0. PICK sign \in {-1, 1} : Scaled(sign)
  BY DEF GainsInv, GainsScale
<1>1. /\ disp.p \in Int /\ disp.i \in Int /\ disp.d \in Int /\ kp \in Int /\ ki \in Int /\ kd \in Int
      /\ SampleTime \in Nat \ {0} /\ Unit \in Int
  BY PIDAssumption DEF PIDTypeOK
<1>2. ASSUME UNCHANGED <<kp, ki, kd, SampleTime, disp>> PROVE GainsInv'
  BY <1>2 DEF GainsInv, GainsScale, Scaled
<1>3. ASSUME NEW t \in Tunings, SetTunings(t) PROVE GainsInv'
  <2>1. t.i \in Int /\ t.d \in Int
    BY PIDAssumption
  <2>2. PICK g \in {-1, 1} : g = Sign(controllerDirection)
    BY SignType DEF PIDTypeOK
  <2>3. (Unit * Unit) % SampleTime = 0
    BY DEF GainsInv, ExactUnit
  <2>4. /\ kp' = g * t.p * Unit /\ ki' = g * Integral(t.i, SampleTime)
        /\ kd' = g * Derivative(t.d, SampleTime) /\ disp' = t /\ SampleTime' = SampleTime
    BY <1>3, <2>2 DEF SetTunings
  <2>5. /\ g * Integral(t.i, SampleTime) = g * t.i * SampleTime
        /\ (g * Derivative(t.d, SampleTime)) * SampleTime = g * t.d * Unit * Unit
    <3>1. SampleTime \in Nat \ {0}
      BY <1>1
    <3> QED BY <2>1, <2>3, <3>1, Tuned
  <2>6. Scaled(g)'
    BY <2>4, <2>5 DEF Scaled
  <2> QED BY <2>4, <2>6 DEF GainsInv, GainsScale
<1>4. ASSUME NEW s \in SampleTimes, SetSampleTime(s) PROVE GainsInv'
  <2>1. s \in Nat \ {0} /\ SampleTime' = s /\ kp' = kp /\ disp' = disp
    BY <1>4, PIDAssumption DEF SetSampleTime
  <2>2. ki' = sign * disp.i * s
    <3>1. sign * disp.i \in Int
      BY <1>0, <1>1
    <3>2. ki' = ((sign * disp.i * SampleTime) * s) \div SampleTime
      BY <1>0, <1>4 DEF SetSampleTime, Lengthened, Scaled
    <3>3. ((sign * disp.i * SampleTime) * s) \div SampleTime = sign * disp.i * s
      BY <1>1, <2>1, <3>1, Rescaled
    <3> QED BY <3>2, <3>3
  <2>3. kd' * s = sign * disp.d * Unit * Unit
    <3>1. PICK a \in Int : a = sign * disp.d
      BY <1>0, <1>1
    <3>2. kd * SampleTime = a * (Unit * Unit)
      BY <1>0, <3>1, Squared DEF Scaled
    <3>3. (Unit * Unit) % s = 0
      BY <2>1 DEF ExactUnit
    <3>4. ((a * (Unit * Unit)) \div s) * s = a * (Unit * Unit)
      BY <2>1, <3>1, <3>3, Exactly, Squared
    <3>5. kd' = (kd * SampleTime) \div s
      BY <1>4 DEF SetSampleTime, Shortened
    <3>6. kd' * s = a * Unit * Unit
      BY <3>1, <3>2, <3>4, <3>5, Squared
    <3> QED BY <3>1, <3>6
  <2>4. Scaled(sign)'
    BY <1>0, <2>1, <2>2, <2>3 DEF Scaled
  <2> QED BY <2>1, <2>4 DEF GainsInv, GainsScale
<1>5. ASSUME NEW d \in {DIRECT, REVERSE}, SetControllerDirection(d) PROVE GainsInv'
  <2>1. disp' = disp /\ SampleTime' = SampleTime
    BY <1>5 DEF SetControllerDirection
  <2>2. CASE UNCHANGED gains
    BY <1>2, <2>1, <2>2
  <2>3. CASE kp' = 0 - kp /\ ki' = 0 - ki /\ kd' = 0 - kd
    <3>1. PICK z \in Int : z = disp.d * (Unit * Unit)
      BY <1>1
    <3>2. \A w \in Int : w * disp.d * Unit * Unit = w * z
      BY <1>1, <3>1
    <3>3. kd * SampleTime = sign * z
      BY <1>0, <3>2 DEF Scaled
    <3>4. kd' * SampleTime = (0 - sign) * z
      BY <1>0, <1>1, <2>3, <3>3
    <3>5. kd' * SampleTime = (0 - sign) * disp.d * Unit * Unit
      BY <1>0, <3>2, <3>4
    <3>6. kp' = (0 - sign) * disp.p * Unit /\ ki' = (0 - sign) * disp.i * SampleTime
      <4>1. PICK x \in Int, y \in Int : x = disp.p * Unit /\ y = disp.i * SampleTime
        BY <1>1
      <4>2. \A w \in Int : w * disp.p * Unit = w * x /\ w * disp.i * SampleTime = w * y
        BY <1>1, <4>1
      <4>3. kp = sign * x /\ ki = sign * y
        BY <1>0, <4>2 DEF Scaled
      <4>4. kp' = (0 - sign) * x /\ ki' = (0 - sign) * y
        BY <1>0, <2>3, <4>3
      <4> QED BY <1>0, <4>2, <4>4
    <3>7. Scaled(0 - sign)'
      BY <2>1, <3>5, <3>6 DEF Scaled
    <3>8. 0 - sign \in {-1, 1}
      BY <1>0
    <3> QED BY <2>1, <3>7, <3>8 DEF GainsInv, GainsScale
  <2> QED BY <1>5, <2>2, <2>3 DEF SetControllerDirection
<1>6. ASSUME NEW l \in Limits, SetOutputLimits(l) PROVE GainsInv'
  BY <1>2, <1>6 DEF SetOutputLimits
<1>7. ASSUME NEW auto \in BOOLEAN, SetMode(auto) PROVE GainsInv'
  BY <1>2, <1>7 DEF SetMode
<1>8. CASE Tick \/ Program \/ Compute \/ UNCHANGED pidVars
  BY <1>2, <1>8 DEF Tick, Program, Compute, pidVars
<1> QED BY <1>3, <1>4, <1>5, <1>6, <1>7, <1>8 DEF PIDNext

\* All three gains act in one direction, at the strength that was set last and for the
\* sample time of now, whatever order SetTunings(), SetSampleTime(), SetMode() and
\* SetControllerDirection() come in.  The direction may be the old one: one that is set in
\* manual mode does not reach the gains.
THEOREM GainsHold == ExactUnit => (PIDSpec => []GainsScale)
<1>1. GainsInv => GainsScale
  BY DEF GainsInv
<1>2. CASE ExactUnit
  BY <1>1, <1>2, GainsInit, GainsStep, PIDTypeCorrect, PTL DEF PIDSpec
<1>3. CASE ~ExactUnit
  BY <1>3
<1> QED  BY <1>2, <1>3
=============================================================================
