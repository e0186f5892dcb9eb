------------------------------- MODULE Sensors -------------------------------
(***************************************************************************)
(* DallasTemperature on a bus of DS18B20 and DS18S20 sensors: conversions    *)
(* and the time that the driver waits for them, and the registers that it    *)
(* reads, changes, writes and has copied to EEPROM.  Devices come and go and *)
(* lose power at any time, also between the steps of a write and in a wait;  *)
(* what is read may be noise, which the CRC tells.  Searching is OneWire's,  *)
(* power comes over a wire of its own, and a char is signed (as on AVR).     *)
(***************************************************************************)
EXTENDS Integers, Sequences, FiniteSetsExt, SequencesExt

CONSTANTS
  Bus,             \* the models of the devices, in the order of a search
  Readings,        \* of the temperature register: raw and COUNT_REMAIN
  PowerOn,         \* what it holds after power came, per model
  Resolutions,     \* that the program sets
  Highs, Lows,     \* alarm temperatures that it sets
  UserData         \* its bytes, as [th, tl], that it stores in their place

B20 == "DS18B20"
S20 == "DS18S20"
CountPerC == 16          \* hard-wired in a DS18S20

ASSUME SensorsAssumption ==
  /\ Bus \in Seq({B20, S20})
  /\ Readings \subseteq [raw : Int, remain : 0..CountPerC]
  /\ PowerOn \in [{B20, S20} -> [raw : Int, remain : 0..CountPerC]]
  /\ Resolutions \subseteq Nat /\ Highs \subseteq Int /\ Lows \subseteq Int
  /\ UserData \subseteq [th : -128..127, tl : -128..127]

VARIABLES
  online, scratch, eeprom,      \* devices: scratchpad and EEPROM are [th, tl, res]
  reg,                          \* their temperature registers, and
  conv,                         \* the milliseconds that a conversion takes, 0: there is none
  devices, bitResolution, waitForConversion, checkForConversion,
  pc,                           \* "idle": the program's turn; "wait", "poll": for conversions;
                                \* "next": setResolution() goes on; "write", "copy": registers
  delms,                        \* the time of the wait
  target, data,                 \* of a write
  index,                        \* the device that setResolution() comes to
  disturbed,                    \* history: has the target lost power since it was read?
  intended                      \* history: the registers that the write should leave in its target

device  == <<online, scratch, eeprom, reg, conv>>
flags   == <<waitForConversion, checkForConversion>>
driver  == <<devices, bitResolution, flags>>
writing == <<target, data, index, disturbed, intended>>
sensorsVars == <<device, driver, pc, writing, delms>>

All     == DOMAIN Bus
Nobody  == 0
Nothing == [th |-> 0, tl |-> 0, res |-> 0]

-----------------------------------------------------------------------------
(* Temperatures                                                            *)

\* In 1/128 degrees, from sixteenths or halves of them.
calculateTemperature(model, r) ==
  IF model = S20
  THEN 128 * (r.raw \div 2) - 16 + ((CountPerC - r.remain) * 128) \div CountPerC
  ELSE 8 * r.raw

\* Mutant: rounded to the nearest.
Mut_Degrees(t) == (t + 64) \div 128

\* The shift of a negative number rounds down.
Degrees(t) == t \div 128

hasAlarm(d) ==
  LET temp == Degrees(calculateTemperature(Bus[d], reg[d]))
  IN  temp <= scratch[d].tl \/ temp >= scratch[d].th

\* What a DS18B20 compares: the bits of its register that stand for whole degrees.
DeviceAlarm(d) ==
  \E temp \in {n \in -128..127 : n * 16 <= reg[d].raw /\ reg[d].raw < (n + 1) * 16} :
    temp <= scratch[d].tl \/ temp >= scratch[d].th

\* What a parameter of type char makes of a number: 130 becomes -126.
Char(n) == ((n + 128) % 256) - 128

\* So that of the numbers above 125 only 126 and 127 become 125.
InRange(celsius) ==
  IF Char(celsius) > 125 THEN 125 ELSE IF Char(celsius) < -55 THEN -55 ELSE Char(celsius)

-----------------------------------------------------------------------------
(* Devices                                                                 *)

\* What a conversion takes, at most.
ConversionTime(d) ==
  CASE Bus[d] = S20 -> 750 [] scratch[d].res = 9 -> 94 [] scratch[d].res = 10 -> 188
    [] scratch[d].res = 11 -> 375 [] OTHER -> 750

SensorsInit ==
  /\ online \in [All -> BOOLEAN]
  /\ eeprom = [d \in All |-> [th |-> 125, tl |-> 10, res |-> 12]] /\ scratch = eeprom
  /\ reg = [d \in All |-> PowerOn[Bus[d]]] /\ conv = [d \in All |-> 0]
  /\ devices = 0 /\ bitResolution = 9 /\ waitForConversion = TRUE /\ checkForConversion = TRUE
  /\ pc = "idle" /\ delms = 0 /\ target = Nobody /\ data = Nothing /\ index = 0
  /\ disturbed = FALSE /\ intended = Nothing

ConversionEnds(d) ==
  /\ conv[d] > 0
  /\ conv' = [conv EXCEPT ![d] = 0]
  /\ \E r \in Readings : reg' = [reg EXCEPT ![d] = r]
  /\ UNCHANGED <<online, scratch, eeprom, driver, pc, writing, delms>>

\* It is unplugged, or its power fails.
PowerFails(d) ==
  /\ online[d]
  /\ online' = [online EXCEPT ![d] = FALSE] /\ conv' = [conv EXCEPT ![d] = 0]
  /\ scratch' = [scratch EXCEPT ![d] = eeprom[d]]
  /\ reg' = [reg EXCEPT ![d] = PowerOn[Bus[d]]]
  /\ disturbed' = (disturbed \/ (pc \in {"write", "copy"} /\ target = d))
  /\ UNCHANGED <<eeprom, driver, pc, delms, target, data, index, intended>>

PowerReturns(d) ==
  /\ ~online[d] /\ online' = [online EXCEPT ![d] = TRUE]
  /\ UNCHANGED <<scratch, eeprom, reg, conv, driver, pc, writing, delms>>

-----------------------------------------------------------------------------
(* The bus                                                                 *)

Online == {d \in All : online[d]}
Listed == SetToSortSeq(Online, <)

\* Where the search ends before the index, the buffer holds the last device found;
\* without any it holds what the memory held, which is no device's address.
getAddress(i) ==
  IF Listed = <<>> THEN Nobody ELSE IF i < Len(Listed) THEN Listed[i + 1] ELSE Listed[Len(Listed)]

\* Mutant: a wrong CRC does not matter.
Mut_isConnected(d, clear) == d \in Online

\* The scratchpad came, and with the right CRC.
isConnected(d, clear) == d \in Online /\ clear

\* What a program reads if it does not look at the CRC.
Received(d, clear) == IF clear THEN scratch[d] ELSE [scratch[d] EXCEPT !.th = 0, !.tl = 0]

-----------------------------------------------------------------------------
(* Finding devices                                                         *)

ResolutionRead(d, clear) ==
  IF Bus[d] = S20 THEN 12 ELSE IF isConnected(d, clear) THEN scratch[d].res ELSE 0

Widest(noisy) == Max({bitResolution} \cup {ResolutionRead(d, d \notin noisy) : d \in Online})

begin ==
  /\ pc = "idle"
  /\ \E noisy \in SUBSET Online : bitResolution' = Widest(noisy)
  /\ devices' = Len(Listed)
  /\ UNCHANGED <<device, flags, pc, writing, delms>>

-----------------------------------------------------------------------------
(* Registers: they are read, one of them is changed, all are written and copied *)

Configuration(r) == IF r \in {10, 11, 12} THEN r ELSE 9

\* A DS18S20 has no configuration register.
Written(d, s) == IF Bus[d] = S20 THEN [s EXCEPT !.res = scratch[d].res] ELSE s

\* A call, in the loop over all devices or alone, has read the registers of d.
Starts(d, Changed(_), clear) ==
  /\ pc' = "write" /\ target' = d /\ data' = Changed(Received(d, clear))
  /\ intended' = Changed(eeprom[d])

Skips == pc' = pc /\ UNCHANGED <<target, data, intended>>

\* setResolution() for one device
Configures(d, r) ==
  \E clear \in BOOLEAN :
    IF isConnected(d, clear) /\ Bus[d] # S20
    THEN Starts(d, LAMBDA s : [s EXCEPT !.res = Configuration(r)], clear)
    ELSE Skips

setResolutionOf(d, r) ==
  /\ pc = "idle" /\ Configures(d, r)
  /\ UNCHANGED <<device, driver, index, disturbed, delms>>

Constrained(r) == Max({9, Min({r, 12})})

\* For all: the driver waits for that resolution from here on.
setResolution(r) ==
  /\ pc = "idle" /\ pc' = "next" /\ index' = 0
  /\ bitResolution' = Constrained(r)
  /\ UNCHANGED <<device, devices, flags, target, data, disturbed, intended, delms>>

NextDevice ==
  /\ pc = "next"
  /\ IF index < devices
     THEN index' = index + 1 /\ Configures(getAddress(index), bitResolution)
     ELSE index' = 0 /\ pc' = "idle" /\ UNCHANGED <<target, data, intended>>
  /\ UNCHANGED <<device, driver, disturbed, delms>>

\* setUserData(), setHighAlarmTemp() and setLowAlarmTemp()
Changes(d, Changed(_)) ==
  /\ pc = "idle"
  /\ \E clear \in BOOLEAN : isConnected(d, clear) /\ Starts(d, Changed, clear)
  /\ UNCHANGED <<device, driver, index, disturbed, delms>>

setUserData(d, u)      == Changes(d, LAMBDA s : [s EXCEPT !.th = u.th, !.tl = u.tl])
setHighAlarmTemp(d, c) == Changes(d, LAMBDA s : [s EXCEPT !.th = InRange(c)])
setLowAlarmTemp(d, c)  == Changes(d, LAMBDA s : [s EXCEPT !.tl = InRange(c)])

\* A program gives an index for which there is a device.
setUserDataByIndex(i, u) == i < Len(Listed) /\ setUserData(getAddress(i), u)

WriteScratch ==
  /\ pc = "write" /\ pc' = "copy"
  /\ scratch' = IF online[target] THEN [scratch EXCEPT ![target] = Written(target, data)]
                                  ELSE scratch
  /\ UNCHANGED <<online, eeprom, reg, conv, driver, writing, delms>>

Copied(d) == scratch[d]

\* A device that has lost power in between copies what it had before.
CopyScratch ==
  /\ pc = "copy"
  /\ eeprom' = IF online[target] THEN [eeprom EXCEPT ![target] = Copied(target)] ELSE eeprom
  /\ pc' = (IF index > 0 THEN "next" ELSE "idle")
  /\ target' = Nobody /\ data' = Nothing /\ disturbed' = FALSE /\ intended' = Nothing
  /\ UNCHANGED <<online, scratch, reg, conv, driver, index, delms>>

-----------------------------------------------------------------------------
(* Conversions                                                             *)

setWaitForConversion ==
  /\ pc = "idle" /\ waitForConversion' = ~waitForConversion
  /\ UNCHANGED <<device, devices, bitResolution, checkForConversion, pc, writing, delms>>

setCheckForConversion ==
  /\ pc = "idle" /\ checkForConversion' = ~checkForConversion
  /\ UNCHANGED <<device, devices, bitResolution, waitForConversion, pc, writing, delms>>

millisToWaitForConversion(r) ==
  CASE r = 9 -> 94 [] r = 10 -> 188 [] r = 11 -> 375 [] OTHER -> 750

Converts(D) == conv' = [d \in All |-> IF d \in D THEN ConversionTime(d) ELSE conv[d]]

requestTemperatures ==
  /\ pc = "idle"
  /\ Converts(Online)
  /\ IF waitForConversion
     THEN pc' = "wait" /\ delms' = millisToWaitForConversion(bitResolution)
     ELSE UNCHANGED <<pc, delms>>
  /\ UNCHANGED <<online, scratch, eeprom, reg, driver, writing>>

\* Without an answer it returns false; but a DS18S20 is not asked, and it is enough then
\* that anybody is there.
requestTemperaturesByAddress(d) ==
  /\ pc = "idle" /\ Online # {}
  /\ \E clear \in BOOLEAN :
       /\ ResolutionRead(d, clear) # 0
       /\ Converts({d} \cap Online)
       /\ IF ~waitForConversion THEN UNCHANGED <<pc, delms>>
          ELSE IF checkForConversion THEN pc' = "poll" /\ UNCHANGED delms
          ELSE pc' = "wait"
               /\ delms' = millisToWaitForConversion(ResolutionRead(d, clear))
  /\ UNCHANGED <<online, scratch, eeprom, reg, driver, writing>>

requestTemperaturesByIndex(i) ==
  getAddress(i) # Nobody /\ requestTemperaturesByAddress(getAddress(i))

\* The delay is over, and with it each conversion that takes no longer.
WaitEnds ==
  /\ pc = "wait" /\ \A d \in All : conv[d] > 0 => conv[d] > delms
  /\ pc' = "idle" /\ delms' = 0
  /\ UNCHANGED <<device, driver, writing>>

\* It polls the low byte of the temperature, which is seldom 0 before the conversion.
PollEnds ==
  /\ pc = "poll" /\ pc' = "idle"
  /\ UNCHANGED <<device, driver, writing, delms>>

-----------------------------------------------------------------------------

Call == NextDevice \/ WriteScratch \/ CopyScratch \/ WaitEnds \/ PollEnds

SensorsNext ==
  \/ begin \/ setWaitForConversion \/ setCheckForConversion \/ requestTemperatures
  \/ \E r \in Resolutions : setResolution(r) \/ \E d \in All : setResolutionOf(d, r)
  \/ \E d \in All :
       \/ requestTemperaturesByAddress(d)
       \/ \E u \in UserData : setUserData(d, u)
       \/ \E c \in Highs : setHighAlarmTemp(d, c)
       \/ \E c \in Lows : setLowAlarmTemp(d, c)
       \/ ConversionEnds(d) \/ PowerFails(d) \/ PowerReturns(d)
  \/ \E i \in 0..(Len(Bus) - 1) :
       requestTemperaturesByIndex(i) \/ \E u \in UserData : setUserDataByIndex(i, u)
  \/ Call

SensorsSpec == SensorsInit /\ [][SensorsNext]_sensorsVars

-----------------------------------------------------------------------------
(* Properties                                                              *)

\* A setting leaves in the EEPROM of its device all that the program wanted, with the
\* other registers as they were; if the device lost power meanwhile, all of that or
\* nothing.  Nothing else changes any EEPROM, and between calls each device works with
\* what is in it.
SettingsSurvive ==
  [][/\ \A d \in All : eeprom'[d] # eeprom[d] => pc = "copy" /\ d = target
     /\ pc = "copy" /\ pc' # "copy" =>
          \/ eeprom'[target] = Written(target, intended)
          \/ disturbed /\ eeprom'[target] = eeprom[target]
     /\ pc' = "idle" => scratch' = eeprom']_sensorsVars

\* hasAlarm() says of a DS18B20 what the device says of itself.
AlarmAgrees == \A d \in Online : Bus[d] = B20 => (hasAlarm(d) <=> DeviceAlarm(d))
=============================================================================
