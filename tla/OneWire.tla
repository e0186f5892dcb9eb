------------------------------ MODULE OneWire -------------------------------
(***************************************************************************)
(* Finding the devices on a one-wire bus: OneWire::search() and             *)
(* DallasTemperature::alarmSearch(), which walk the tree of addresses bit   *)
(* by bit, with what they remember from one call to the next, while devices *)
(* come and go.                                                            *)
(*                                                                         *)
(* A "pass" is what a program does with them: from a reset on, call the     *)
(* search until it returns false.  LastFamilyDiscrepancy, which nothing     *)
(* reads, is left out.                                                     *)
(***************************************************************************)
EXTENDS Integers, FiniteSets

CONSTANTS
  RomBits,      \* bits of an address (64 in the bus protocol)
  FamilyBits,   \* the first of them, the family code (8)
  Devices,      \* the addresses that there are
  CharSigned,   \* is the C type char signed? (on AVR it is, on ARM not)
  MaxChanges    \* bound: devices come and go this many times

Word == [1..RomBits -> {0, 1}]
Family(w) == [i \in 1..FamilyBits |-> w[i]]
NoFamily == [i \in 1..FamilyBits |-> 0]

\* No family code is 0, and the checksum at the end keeps two addresses from
\* differing in the last bit only.
ASSUME OneWireAssumption ==
  /\ RomBits \in Nat /\ FamilyBits \in 1..(RomBits - 1)
  /\ CharSigned \in BOOLEAN /\ MaxChanges \in Nat
  /\ Devices \subseteq Word
  /\ \A d \in Devices : Family(d) # NoFamily
  /\ \A d, e \in Devices : d # e => \E i \in 1..(RomBits - 1) : d[i] # e[i]

VARIABLES
  present, alarmed,         \* the devices on the bus, and those with an alarm
  changes,
  busy,                     \* which search is running
  bit, active,              \* its next bit; the devices that still take part
  ROM_NO, LastDiscrepancy, LastDeviceFlag, last_zero,           \* search()
  alarmSearchAddress, alarmSearchJunction, alarmSearchExhausted,
  lastJunction, done,                                           \* alarmSearch()
  pass                      \* history of the pass: its kind, the family it aims at,
                            \* is it over, has nothing changed, what was found,
                            \* and was something found twice?

bus == <<present, alarmed, changes>>
normal == <<ROM_NO, LastDiscrepancy, LastDeviceFlag>>
alarm == <<alarmSearchAddress, alarmSearchJunction, alarmSearchExhausted>>
locals == <<last_zero, lastJunction, done>>
vars == <<bus, busy, bit, active, normal, alarm, locals, pass>>

\* -1 in a char.
NoJunction == IF CharSigned THEN -1 ELSE 255

NewPass(kind, family) ==
  [kind |-> kind, aim |-> family, over |-> FALSE, calm |-> TRUE, found |-> {}, twice |-> FALSE]
Zeros == [i \in 1..RomBits |-> 0]

PassType ==
  [kind : {"search", "alarm"}, aim : {Family(w) : w \in Word}, over : BOOLEAN,
   calm : BOOLEAN, found : SUBSET Word, twice : BOOLEAN]

TypeOK ==
  /\ present \subseteq Devices /\ alarmed \subseteq Devices /\ changes \in 0..MaxChanges
  /\ busy \in {"none", "search", "alarm"} /\ bit \in 1..RomBits
  /\ active \subseteq Devices
  /\ ROM_NO \in Word /\ LastDiscrepancy \in 0..RomBits /\ LastDeviceFlag \in BOOLEAN
  /\ last_zero \in 0..RomBits
  /\ alarmSearchAddress \in Word /\ alarmSearchJunction \in {NoJunction} \cup 0..(RomBits - 1)
  /\ alarmSearchExhausted \in BOOLEAN
  /\ lastJunction \in {NoJunction} \cup 0..(RomBits - 1) /\ done \in BOOLEAN
  /\ pass \in PassType

Init ==
  /\ present \in SUBSET Devices /\ alarmed \in SUBSET present /\ changes = 0
  /\ busy = "none" /\ bit = 1 /\ active = {}
  /\ ROM_NO = Zeros /\ LastDiscrepancy = 0 /\ LastDeviceFlag = FALSE /\ last_zero = 0
  /\ alarmSearchAddress = Zeros /\ alarmSearchJunction = NoJunction
  /\ alarmSearchExhausted = FALSE /\ lastJunction = NoJunction /\ done = TRUE
  /\ pass = NewPass("search", NoFamily)

-----------------------------------------------------------------------------
(* The bus                                                                 *)

\* Two read_bit(): all active devices send a bit, then its complement; a 0 wins.
IdBit == IF \E d \in active : d[bit] = 0 THEN 0 ELSE 1
CmpBit == IF \E d \in active : d[bit] = 1 THEN 0 ELSE 1

\* Mutant: they stay.
Mut_Following(direction) == active

\* write_bit(): devices with another bit drop out.
Following(direction) == {d \in active : d[bit] = direction}

\* A device is plugged in, which waits for the next reset, or taken off the bus.
Plug(d) ==
  /\ d \notin present
  /\ present' = present \cup {d} /\ UNCHANGED <<alarmed, active>>
Unplug(d) ==
  /\ d \in present
  /\ present' = present \ {d} /\ alarmed' = alarmed \ {d} /\ active' = active \ {d}

\* A conversion raises or clears the alarm of a device.
Alarm(d) ==
  /\ d \in present
  /\ alarmed' = IF d \in alarmed THEN alarmed \ {d} ELSE alarmed \cup {d}
  /\ UNCHANGED <<present, active>>

BusChanges ==
  /\ changes < MaxChanges /\ changes' = changes + 1
  /\ \E d \in Devices : Plug(d) \/ Unplug(d) \/ Alarm(d)
  /\ pass' = [pass EXCEPT !.calm = FALSE]
  /\ UNCHANGED <<busy, bit, normal, alarm, locals>>

-----------------------------------------------------------------------------
(* How a call of a search begins and ends                                  *)

\* Devices with an alarm take part in an alarm search, all in the other one.
Called(kind) == IF kind = "alarm" THEN alarmed ELSE present

\* reset() sees a presence pulse.
Presence == present # {}

Begin(kind) ==
  /\ busy' = kind /\ bit' = 1 /\ active' = Called(kind)
  /\ last_zero' = 0 /\ lastJunction' = NoJunction /\ done' = TRUE

\* It returns true with an address, or false.
Return == busy' = "none" /\ bit' = 1 /\ active' = {} /\ UNCHANGED locals
Found(w) ==
  pass' = [pass EXCEPT !.found = @ \cup {w}, !.twice = @ \/ w \in pass.found]
Over == pass' = [pass EXCEPT !.over = TRUE]

-----------------------------------------------------------------------------
(* OneWire::search()                                                       *)

reset_search ==
  /\ busy = "none"
  /\ ROM_NO' = Zeros /\ LastDiscrepancy' = 0 /\ LastDeviceFlag' = FALSE
  /\ pass' = NewPass("search", NoFamily)
  /\ UNCHANGED <<bus, busy, bit, active, alarm, locals>>

\* Mutant: as for a search from the beginning.
Mut_BehindAll == 0
BehindAll == RomBits

target_search(family) ==
  /\ busy = "none"
  /\ ROM_NO' = [i \in 1..RomBits |-> IF i <= FamilyBits THEN family[i] ELSE 0]
  /\ LastDiscrepancy' = BehindAll /\ LastDeviceFlag' = FALSE
  /\ pass' = NewPass("search", family)
  /\ UNCHANGED <<bus, busy, bit, active, alarm, locals>>

\* "so next 'search' will be like a first"
ResetCounters == LastDiscrepancy' = 0 /\ LastDeviceFlag' = FALSE

\* Mutant: the flag is not looked at.
Mut_NoMore == ~Presence
NoMore == LastDeviceFlag \/ ~Presence

\* A call after the last device, or without a presence pulse, fails at once.
SearchFails ==
  /\ busy = "none" /\ pass.kind = "search" /\ ~pass.over
  /\ NoMore
  /\ ResetCounters /\ Over
  /\ UNCHANGED <<bus, busy, bit, active, ROM_NO, alarm, locals>>

search ==
  /\ busy = "none" /\ pass.kind = "search" /\ ~pass.over
  /\ ~NoMore
  /\ Begin("search")
  /\ UNCHANGED <<bus, normal, alarm, pass>>

\* Mutant: at the last discrepancy, too, the direction is that of the last time.
Mut_SearchDirection ==
  IF IdBit # CmpBit THEN IdBit
  ELSE IF bit <= LastDiscrepancy THEN ROM_NO[bit] ELSE 0

\* Where to go at a bit: where the devices agree, there; before the last
\* discrepancy the way of the last time, there 1, and behind it 0.
SearchDirection ==
  IF IdBit # CmpBit THEN IdBit
  ELSE IF bit < LastDiscrepancy THEN ROM_NO[bit]
  ELSE IF bit = LastDiscrepancy THEN 1 ELSE 0

LastZero == IF IdBit = CmpBit /\ SearchDirection = 0 THEN bit ELSE last_zero

\* Nobody answers: all devices that took part have gone.
SearchBreaks ==
  /\ busy = "search" /\ IdBit = 1 /\ CmpBit = 1
  /\ Return /\ ResetCounters /\ Over
  /\ UNCHANGED <<bus, ROM_NO, alarm>>

SearchBit ==
  /\ busy = "search" /\ ~(IdBit = 1 /\ CmpBit = 1)
  /\ ROM_NO' = [ROM_NO EXCEPT ![bit] = SearchDirection]
  /\ IF bit < RomBits
     THEN /\ bit' = bit + 1 /\ active' = Following(SearchDirection) /\ last_zero' = LastZero
          /\ UNCHANGED <<busy, LastDiscrepancy, LastDeviceFlag, lastJunction, done, pass>>
     ELSE /\ Return
          /\ IF Family(ROM_NO) = NoFamily THEN ResetCounters /\ Over
             ELSE LastDiscrepancy' = LastZero /\ LastDeviceFlag' = (LastZero = 0)
                    /\ Found(ROM_NO')
  /\ UNCHANGED <<bus, alarm>>

-----------------------------------------------------------------------------
(* DallasTemperature::alarmSearch()                                        *)

\* The last byte of the address is not cleared.
resetAlarmSearch ==
  /\ busy = "none"
  /\ alarmSearchJunction' = NoJunction /\ alarmSearchExhausted' = FALSE
  /\ alarmSearchAddress' = [Zeros EXCEPT ![RomBits] = alarmSearchAddress[RomBits]]
  /\ pass' = NewPass("alarm", NoFamily)
  /\ UNCHANGED <<bus, busy, bit, active, normal, locals>>

AlarmSearchFails ==
  /\ busy = "none" /\ pass.kind = "alarm" /\ ~pass.over
  /\ alarmSearchExhausted \/ ~Presence
  /\ Over
  /\ UNCHANGED <<bus, busy, bit, active, normal, alarm, locals>>

alarmSearch ==
  /\ busy = "none" /\ pass.kind = "alarm" /\ ~pass.over
  /\ ~alarmSearchExhausted /\ Presence
  /\ Begin("alarm")
  /\ UNCHANGED <<bus, normal, alarm, pass>>

\* It leaves everything as it is at the bit where nobody answers.
AlarmBreaks ==
  /\ busy = "alarm" /\ IdBit = 1 /\ CmpBit = 1
  /\ Return /\ Over
  /\ UNCHANGED <<bus, normal, alarm>>

\* What the code counts from 0.
bitIndex == bit - 1
Fork == IdBit = 0 /\ CmpBit = 0

\* Only a 0 that was taken before counts as a pending junction.
PendingZero == Fork /\ bitIndex < alarmSearchJunction /\ alarmSearchAddress[bit] = 0

NewJunction == Fork /\ bitIndex > alarmSearchJunction

AlarmDirection ==
  IF ~Fork THEN IdBit
  ELSE IF bitIndex = alarmSearchJunction THEN 1
  ELSE IF bitIndex < alarmSearchJunction THEN alarmSearchAddress[bit] ELSE 0

Done == done /\ ~PendingZero /\ ~NewJunction

AlarmBit ==
  /\ busy = "alarm" /\ ~(IdBit = 1 /\ CmpBit = 1)
  /\ alarmSearchAddress' = [alarmSearchAddress EXCEPT ![bit] = AlarmDirection]
  /\ alarmSearchJunction' = CASE Fork /\ bitIndex = alarmSearchJunction -> lastJunction
                              [] NewJunction                    -> bitIndex
                              [] OTHER                          -> alarmSearchJunction
  /\ IF bit < RomBits
     THEN /\ bit' = bit + 1 /\ active' = Following(AlarmDirection)
          /\ lastJunction' = IF PendingZero THEN bitIndex ELSE lastJunction
          /\ done' = Done
          /\ UNCHANGED <<busy, last_zero, alarmSearchExhausted, pass>>
     ELSE /\ Return
          /\ alarmSearchExhausted' = Done
          /\ Found(alarmSearchAddress')
  /\ UNCHANGED <<bus, normal>>

Step == search \/ SearchFails \/ SearchBreaks \/ SearchBit
          \/ alarmSearch \/ AlarmSearchFails \/ AlarmBreaks \/ AlarmBit

\* The program begins a pass when the last one is over.
Start ==
  /\ pass.over
  /\ \/ reset_search \/ resetAlarmSearch
     \/ \E d \in Devices : target_search(Family(d))

Next == Step \/ Start \/ BusChanges

Spec == Init /\ [][Next]_vars

-----------------------------------------------------------------------------
(* Properties                                                              *)

\* A search returns only addresses of devices, even if some leave while it runs.
NoPhantom == pass.found \subseteq Devices

\* A pass over a bus that does not change finds every device that is called, once.
Complete ==
  pass.calm =>
    /\ ~pass.twice
    /\ pass.over /\ pass.aim = NoFamily => pass.found = Called(pass.kind)

\* "Setup the search to find the device type 'family_code' on the next call to
\* search(*newAddr) if it is present": the search goes on to all of the family.
Targeted ==
  pass.calm /\ pass.aim # NoFamily =>
    LET aimed == {d \in present : Family(d) = pass.aim} IN
    /\ Cardinality(pass.found) <= Cardinality(aimed) => pass.found \subseteq aimed
    /\ pass.over => aimed \subseteq pass.found

\* A pass comes to its end: that of search() whatever happens on the bus, that of
\* alarmSearch() if nothing does; where a device that it wants to try next has gone it
\* finds the same device for ever.
FairSpec == Spec /\ WF_vars(Step)
PassEnds == ~pass.over ~> pass.over \/ (pass.kind = "alarm" /\ ~pass.calm)
=============================================================================
