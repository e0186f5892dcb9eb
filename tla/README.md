# Verification of ArduMash

ArduMash is a brewing controller for an Arduino with a DS18B20 temperature
sensor, an LCD keypad shield and a relay that switches the heater. The sketch
`ArduMash.ino` works a recipe off (heat to a temperature, hold it for some
minutes, wait for the brewer) and comes with the libraries it uses or means to
use: an EEPROM record store, the sensor and bus drivers, a cooperative
scheduler, a PID controller and the network clients.

Paths below are relative to `src/`. Everything in this directory is run inside
it: `tlc -workers 2 -config MCMashFaults.cfg MCMash`, `tlapm MashProofs.tla`.

## 1. Inventory

### Components, state, operations

| Component | State | Operations |
|---|---|---|
| Brewing controller, `ArduMash.ino/ArduMash.ino.ino` | `systemState`, `lastSystemState`, `currentRecipe`, `currentStep`, the table `recipe[1][10]` (per step: status, start time), `tempC`, `heatingState`, `lastInput` | `setup`, `loop` = request and read the temperature, `stepController`, `heaterController`, `inputController`, `screenController`; `startStep` |
| EEPROM record library, `libraries/DB` | header in RAM and in the EEPROM, head and table address, error flag | `create`, `open`, `write`, `read`, `deleteRec`, `insert`, `append` |
| One-wire bus, `libraries/OneWire` | search state: ROM number, last discrepancy, last family discrepancy, last device | `reset`, `read`/`write`, `select`, `reset_search`, `target_search`, `search`, `crc8`, `crc16` |
| Sensor driver, `libraries/DallasTemperature` | device count, bit resolution, wait-for-conversion, alarm search state | `begin`, `requestTemperatures`, `getTempC`, `setResolution`, alarms |
| Scheduler, `libraries/Scheduler` | circular list of tasks, their stacks | `start`, `startLoop`, `yield`, death of a task |
| PID, `libraries/PID` | gains, integral term, last input, mode, direction, limits, last time | `Compute`, `SetMode`, `SetOutputLimits`, `SetTunings`, `SetSampleTime`, `SetControllerDirection` |
| HTTP client, `libraries/ArduinoHttpClient` | request/response state, content length, bytes consumed | `beginRequest` .. `endRequest`, `responseStatusCode`, headers, body, `stop` |
| WebSocket client, same directory | transmit and receive frame state | `begin`, `beginMessage`/`write`/`endMessage`, `parseMessage`, `read`, `ping` |
| MQTT client, `libraries/ArduinoCloud/src/lib/mqtt` | packet id, keep-alive timers, ping outstanding, connected, clean session | `connect`, `publish`, `subscribe`, `yield`, `disconnect` |
| Cloud thing, `libraries/ArduinoCloud/src` | property table, last and shadow values | `begin`, `addProperty`, `poll`, message arrival |
| Wi-Fi driver, `libraries/NanoESP` | the module's connections | AT command dialogue |
| Brew, `libraries/Brew` | none | a header no file includes |

### How they interact

The sketch is one thread: `loop()` calls the sensor driver, which blocks for a
conversion over the one-wire bus, then the four controllers, which talk to each
other only through globals. `stepController` and `inputController` both call
`startStep`, and all three assign `systemState`; `heaterController` reads it
and `tempC`; `screenController` compares it with its value of the last round.
The sketch opens a DB table at boot. The world outside acts at any time: the
mash, the sensor's contact, the operator's keys, the power.
The cloud thing drives the MQTT client over a network wrapper; the WebSocket
client is an HTTP client that switched protocol. The scheduler, the PID
controller and the network clients are libraries the sketch does not call yet.

### What is hard here

* **Order within a round.** Who assigns `systemState` last wins. Finishing,
  waiting and confirming may all happen in one round.
* **Stale readings.** The relay follows a reading one conversion old and stands
  for a whole further round.
* **Counters that wrap.** `millis()` is 32 bits, elapsed minutes and record
  numbers are bytes.
* **Sensor and power faults.** -127 and 85 degrees look like temperatures.
  A reset forgets the recipe. A power failure can hit between two EEPROM bytes.
* **Progress.** Steps wait for a temperature, a time or a key.

### What makes each component correct

* Controller: steps in order, none skipped, none cut short; heater off when
  finished, bounded overshoot; one press is one action; the display shows the
  state the program is in; every step and recipe ends.
* DB: a table is a sequence of records; a call touches one table; a power failure
  damages only what the interrupted call was writing.
* OneWire: the search visits every device once; CRCs. DallasTemperature: the
  scratchpad keeps its alarm bytes, conversions are awaited long enough.
* Scheduler: every live task runs again and again; a dead one never does.
* PID: output and integral within limits, no bump between modes.
* HTTP/WebSocket/MQTT: calls out of order are refused, a message is read to its
  end and no further, replies match requests, the keep-alive notices a dead peer.

`PROJECT.json` lists the hazards with the line where each bites.


## 2. Modules

`EXTENDS` and `INSTANCE` make this structure; a module not named as the base of
another stands for itself.

    MCMash, MashProofs -> Mash
    MCDB, DBProofs -> DB -> (refines) DBTable
    Scheduler -> (refines) RoundRobin;   SchedulerProofs -> Scheduler
    MCCloudSession -> CloudSession
    CloudProofs -> CloudSession, CloudProperties
    MCHttpClient, HttpClientProofs -> HttpClient
    MCPacketStream, PacketStreamProofs -> PacketStream -> MqttPacket
    MCWebSocket, WebSocketProofs -> WebSocket
    MCControl, ControlProofs -> OneWire, Sensors, PID

`CloudSession` composes the thing's `poll()`, the MQTT client, the network
wrapper, the TCP connection and the broker. `CloudProperties` stands on it: what
`CloudSession` shows of a connected thing (`SubscribedWhenOnline`) is what
`CloudProperties` assumes of one. The definitions that both would name alike bear the
name of what they are about in `CloudProperties` (`PropertiesSpec`, `Resume` for
`poll()`, `Forward` for the broker), so that `CloudProofs` can speak of both;
`Sensors` and `PID` have `SensorsSpec`, `sensorsVars`, `PIDSpec` and so on for
`ControlProofs` and `MCControl`.
`PacketStream` stands below `CloudSession`: packets arrive whole there, and `InStep`
says up to when they may be taken to. `Mash` composes the
sketch with its plant.

### Mash: the sketch

`pc` is the function that `loop()` is in: `requestTemperatures`,
`readTemperature`, `stepController`, `heaterController`, `inputController`,
`screenController` are one action each, in the order of `ArduMash.ino.ino:131-140`,
and `setup` comes first. `startStep`, which two of them call, is an operator, so
that it takes effect inside the step of its caller and what the caller assigns
afterwards overwrites it, as in the code. `systemState`, `lastSystemState`,
`currentRecipe`, `currentStep`, `tempC`, `heatingState`, `lastInput` are the
globals; `stepStatus` and `startTime` the two fields of `recipe[0][..]` that
change, `Recipe` those that do not. `relay` and `lcd` are the outputs. The world:
`mashTemp` moves by at most `Rise` in a round (up only under the relay),
`Unplug`/`Replug` lose and restore the sensor's contact (then it holds 85
degrees), `PowerCycle` resets the board at any function. Time passes while the
conversion is awaited. The arrow keys move the recipe and the step out of the table,
as far as `MaxRecipe` and `MaxStep`. What lies there is not the recipe's: `startStep`
finds an end marker there or not, the initial screen shows the numbers, and the
functions that would use the slot stop the model. `StaysInTable` says from where that
is not reached: from any real step, however the operator came to it.

### DB and DBTable: the EEPROM records

A public call computes what it will write, in the order of the code, into
`todo`; `EEPROMWrite` writes one byte; the next call begins when all are written,
and `PowerFail` drops the rest and the header in RAM. The EEPROM is an array of
bytes with addresses that wrap, head addresses and record sizes as in the code.
`DBTable` is the promise: sequences of records, every call at once.

### CloudSession: poll() and the MQTT client

`pc` tells which blocking loop of `poll()` the thread is in: dialling
(`"dial"`), waiting for the CONNACK, subscribing property by property (`"sub"`,
`"suback"`), yielding. The client's `isconnected`, `ping_outstanding`, its timers
and its packets are variables; TCP is up, down, or broken without anyone having
noticed. A send may fail, or leave a torn packet that the broker cannot parse.
The broker accepts or refuses, answers, publishes, and drops a silent client.

### CloudProperties: values

One property as two things and a dashboard see it: `writeProperty` with its
permission, policy and lapse, `push`, and `callback` (`updatePropertyFromTopic`),
with messages to and from the broker under way. `age` is `millis() - runtime`,
modulo the clock.

### Scheduler and RoundRobin

The heap is a set of blocks; `coopSpawn` takes a stack and a task block (or fails
at either), links the task into the ring, `yield` saves the registers in the task
and takes those of the next, `return` unlinks and frees the running task while
it still runs on its own stack. `RoundRobin` is the promise: a queue.

### OneWire: the two searches

`search` or `alarmSearch` begins with a reset (`Begin`), then handles one bit of
an address per step: the wired-AND of the bits of the devices that still take
part, the branch bookkeeping of the code, the bit written back. Devices come, go
and change their alarm between any two bits. `pass` is the history of one
enumeration: what was found since the last reset of the search.

### HttpClient

`responseStatusCode`, `skipResponseHeaders` wait in `pc` and take one piece from
the stream per step through the state machine of `HttpClient.cpp:393` and
`HttpClient.cpp:650`; `read` takes body bytes; `stop`, `beginRequest`,
`startRequest`, `endRequest` are the program's calls, in any order that the
client's state lets pass; `beginRequest` looks at no state, and the history `again`
tells that it was called in the middle of an exchange. The server answers in order;
pieces arrive one by one, late or never; the connection may end at any time. Every
piece carries the number of the request that it answers, so that `foreign` can tell
when something was taken for what it is not.

### MqttPacket and PacketStream: packets and their bytes

`MqttPacket` holds the packet codes as operators: the length field with its encoder
and decoder, `MQTTPacket_len`, the serializers and the deserializer of a PUBLISH.
Texts are lengths. A serializer is what it announces (`rem`), what it writes behind
the length field (`bytes`) and what it returns (`rc`): in the code these are three
computations. `PacketStream` puts the client on a stream: the broker's packets stand
in `wire`, `arrived` and `pos` count bytes that came and that were read. `ReadHeader`,
`decodePacket`, `CheckSize`, `ReadBody` and `BodyTimeout` are the reads of
`readPacket()` (`MQTTClient.h:375`), each of which may find nothing; `ByteAt` is what
the stream has at a place, also for a client that has lost the boundary between two
packets. `failed` is the history of that: a read inside a packet did not get all.

### WebSocket

The frames of the server and the bytes that came stand as in `PacketStream`. `pc`
is the read of `parseMessage()` that is next: `flushRx`, `ReadHeader`, `ReadSize`,
`Dispatch` (the mask, and what the type asks for), `Echo` (the answer to a PING, byte
by byte) and `FlushAndStop`. `read`, `readString`, `write`, `beginMessage`,
`endMessage`, `ping`, `begin` and `stop` are the program's. `iRxSize` is unsigned:
below 0 it is `Huge`. `begin` also runs on an open connection, upgraded or not: there
the request goes into the stream and the first byte of a frame is taken for a status
line. `halted` is a write behind `iTxBuffer`, after which nothing is known. `lost` is
the history of a byte of a header that was used before it came, or of a frame that no
`parseMessage()` had found; bytes of a payload may come as late as they like. `out` is
the frame that a step has sent.

### PID

One action per method. A second has `Unit` ticks and numbers with a fraction stand
in units of `1/Unit`, so that `Ki * SampleTimeInSec` is a product of integers.
`elapsed` is the time since `lastTime`, which the code knows from a clock that wraps.
`controllerDirection` and the sign of the gains are separate, as in the code, where the
first can change without the second.

### Sensors: the temperature driver

Devices have a scratchpad, an EEPROM, a temperature register and a conversion under
way; the driver has its resolution and its two flags. `begin` reads the resolutions;
`requestTemperatures` and the requests by address and index start conversions and go
to `wait` or `poll`; a setting reads the registers, changes one, writes them
(`WriteScratch`) and has them copied (`CopyScratch`); `setResolution` of all devices
does that for one after the other (`NextDevice`). `PowerFails`, `PowerReturns` and
`ConversionEnds` come between any two of these, and what is read may be noise, which
`isConnected` tells by its CRC. `calculateTemperature`, `Degrees` and `hasAlarm` are
the conversions of the code, `DeviceAlarm` what the data sheet says of the device.
Alarm temperatures pass through a signed `char` (`Char`) before they are limited to
-55..125, so that 126 becomes 125, but 255 becomes -1.

## 3. Runs

| Run | Module, configuration | Question | States |
|---|---|---|---|
| `mash_faults` | MCMash, MCMashFaults | safety of the sketch under sensor and power faults | 1.7 M |
| `mash_live` | MCMash, MCMashLive | overshoot, and steps that end, with a healthy sensor | 195 k |
| `mash_manual_end` | MCMash, MCMashManualEnd | violated: is a recipe like that of `setup()` ever finished? | |
| `db_table` | MCDB, MCDB | the library implements its table, byte by byte | 213 k |
| `cloud_session` | MCCloudSession, MCCloudSession | subscriptions, keep-alive, progress | 65 k |
| `cloud_properties` | CloudProperties | copies agree, lapse holds, values get through | 198 k |
| `scheduler` | Scheduler | ring, memory, stacks, round robin | 25 k |
| `control` | MCControl, MCControl | searches, registers of sensors, the PID's limits | 704 k |
| `http_client` | MCHttpClient, MCHttpClient | own answer, the end of a body, calls return | 265 k |
| `http_body_end` | MCHttpClient, MCHttpClientEnd | violated: is the end of a body told only at its end? | |
| `mqtt_packets` | MCPacketStream | packets in pieces, sizes at the limits | 88 k |
| `websocket` | MCWebSocket | frames in pieces, control frames, answers | 613 k |

The two violated runs are the findings of `PROJECT.json`: each has one property, a
comment of the code as it stands, and TLC shows how the code comes to break it
(section 4).

`control` puts three libraries into one run that share no state: `MCControl` starts with
the searches and goes on, from one state of the bus, to the sensors or to the PID
controller. Each does all that it does alone, and their states add up.

### Properties, by hazard

* **The finish is decided and enforced in different functions.**
  `FinishedRelayOff`: once finished, the relay is off, outside the one function
  that is about to switch it.
* **The table's redundant fields.** `OnlyOneRuns` relates marks and start times of all
  slots to the step; `StepsInOrder` says how a step is left; `StaysInTable` that the
  zero record stops a recipe before the table ends, with an operator who has browsed
  anywhere.
* **A screen that is drawn once.** `ScreenMatchesState`.
* **Bytes and clocks that wrap.** `TimedStepHeldFull` counts the ticks of a rest
  with a counter that does not wrap.
* **Readings that lie.** `StepEndsWhenReached` (with a healthy sensor only the mash
  ends a temperature step), `OverheatBound` (a reading a round late, a decision a
  round long).
* **Progress.** `StepsEnd`: every step ends, also a rest of the longest duration that
  a byte can count. `RecipeFinishes` asks more, and is violated.
* **Power fails inside a call.** `InterruptedKeeps`, and `ImplementsTable`, whose
  abstract table shows an interrupted call only behind the record it named.
* **Subscriptions and answers.** `SubscribedWhenOnline`, `AcksMatch`, `KeptAlive`,
  `PollReturns`.
* **Messages that cross.** `Agreed`, `Spacing`, `CatchesUp`.
* **The ring and who owns memory.** `Ring`, `NoLeak`, `OwnStack`,
  `ImplementsRoundRobin`, `EveryTaskRuns`.
* **The bookkeeping of a search.** `NoPhantom`, `Complete`, `Targeted`, `PassEnds`.
* **What an earlier answer leaves behind.** `OwnAnswer`, `EndNotMissed`, `Returns`,
  and `EndOfBodyTold`, which is violated.
* **Bytes that have not come yet.** `InStep` of `PacketStream` and of `WebSocket`:
  the client stands where the next packet or frame begins, or in the one it has
  found. `TypeRight`, `YieldReturns`. `PingAnswered`: none of the payload of a PING is
  missing from the answer, however late its bytes come and whatever the program has
  open. `ParseReturns` assumes nothing of the server: a call is held, if at all, in
  `flushRx()`, whose wait has no limit in the code.
* **Three computations of one size.** `SentWhole`.
* **Limits, modes and samples in any order.** `InLimits`.
* **Registers that are read, changed, written and copied.** `SettingsSurvive`, over
  power failures between any two of these and over noise.
* **Two ways to a whole degree.** `AlarmAgrees`.

### Bounds, and why they are enough

* Mash: `LastSlot = 3` gives in `MCMashFaults` a manual, a timed, an automatic step and
  the end marker, every kind of step next to another kind. `ByteMod`, `ClockMod` are
  small so that both wrap within a step; `MinuteTicks = 2` makes minutes differ from
  ticks, `LoopTicks = {1, 2}` lets rounds jump over instants. `Boil` is just above
  the hottest target, `Rise = 1` and `Hysteresis = 1` leave one temperature inside
  the band. `HeldCap` covers the longest rest (2 minutes of 2 ticks). `MaxStep = 4` and
  `MaxRecipe = 1` are one behind the table in both directions. The other two
  configurations have the steps of `setup()` by their kinds and in their order, the
  last one confirmed by the operator, and a rest that is the longest that
  `ByteMod = 6` can measure.
* DB: two tables of `MaxRecs = 3` records of one byte side by side fill the EEPROM
  exactly, so that a byte too far hits the neighbour or wraps; with three records
  a shift moves two. `ByteMod = 5` keeps the count of records near its limit.
* CloudSession: two properties, so that one can be subscribed and one not.
  `Command > KeepAlive` as in the code (the time-out is 30 s, the interval 10 s).
  The code can be silent for a whole interval and notices that only at the next
  call: `KeepAlive + PollGap <= Grace` is assumed (MQTT grants one and a half
  intervals). `QueueCap = 2` bounds the broker only.
* CloudProperties: `ClockMod = 5`, `Lapse = 2` is the tightest pair that
  `2 * Lapse <= ClockMod` allows; two values besides the empty one. `QueueCap = 2`
  lets two messages cross two.
* Scheduler: five blocks hold the program's own task and two more with their
  stacks; either allocation may also fail while blocks are free. `LastPoint = 1` makes a resumed task
  differ from a new one.
* OneWire: addresses of four bits, two of them family; five devices, which makes
  every pattern of branches of this depth appear in some subset. `MaxChanges = 1`
  per behaviour.
* HttpClient: two requests, bodies of 0 and 2 bytes and without a length: one
  byte read and one left. What an exchange leaves behind meets the next one only.
* PacketStream: a buffer of 136 bytes, just above the size at which the length field
  gets its second byte; packets that fit exactly and that are a byte too long, texts
  of every size around both limits. Pauses (`Cuts`) behind each of the first four
  bytes, that is around header, length and topic; two packets, because the second
  shows whether the client is in step.
* WebSocket: `iTxBuffer` (128 bytes) has `BufferSize = 20` and the word `iTxSize`
  (4 or 8) `WordSize = 8`, enough for writes that fit, are cut and overrun; frames
  with lengths of all three forms. Two frames: a fragment and its continuation, or a
  PING behind a message that is not read to its end. A stream pauses behind the first
  and the third byte of a frame, so that headers, lengths and payloads of a PING come
  late; a message of the program may be open.
* PID: `Unit = 10` so that every quotient of the run is exact, sample times of one
  and two ticks on a clock of three.
* Sensors: one DS18B20 and one DS18S20, which has no configuration register and is
  asked differently; the lowest and the highest resolution; one alarm temperature
  outside the range of the device (126), one outside a `char` (255), one negative
  reading.

### Fairness

* `Mash`: weak fairness of `setup \/ loop` (one thread, nothing blocks for ever);
  strong fairness of the plant: a heated mash warms up, an unheated one cools, again
  and again; strong fairness of Select where the program would obey it.
* `CloudSession`: weak fairness of the program, of the end of `yield()`, of time,
  of a broker that is connected and of the discovery of a dead link; strong
  fairness of dialling; from some time on no failure (no loss, refusal, time-out,
  torn write). Without the last, `poll()` may try for ever.
* `CloudProperties`: weak fairness of time, broker, callbacks and `poll()`, strong
  of `writeProperty()` (the program calls it whenever it likes, but never stops);
  from some time on the measured value and the connections stay.
* `Scheduler`: weak fairness of `yield \/ return`: tasks are cooperative; from some
  time on none is started, as a new task runs before those that wait.
* `OneWire`: weak fairness of the step of a search. `HttpClient`: weak fairness of
  a call that waits; none of the server or the network, so that `Returns` rests on
  the time-outs.
* `PacketStream`: weak fairness of the reads of `yield()`, none of broker or network.
* `WebSocket`: weak fairness of the steps of `parseMessage()`, none of the server.

TLC also checks the runs for deadlocks, except `websocket`, where memory behind the
buffer may be overwritten (`halted`) and nothing can be said of what follows.

## 4. Observed while modelling

The first two are the findings, each shown by a run. The others are kept out of the
properties by an assumption, a bound or a history variable that the module names, and
the hazards of `PROJECT.json` say which.

* Finding: the recipe that never finishes. `startStep()` is to "check if Recipe is
  finished and set system state to finished" (`ArduMash.ino.ino:305`), but the input
  controller, which calls it when Select confirms the last step, assigns `ST_RUNNING`
  right after (line 223). The last step of the recipe in `setup()` waits for Select:
  each Select makes it run once more, the heater goes on regulating for it and the
  finish screen is never shown. `mash_manual_end` has such a recipe; with a `Confirm`
  that keeps the `ST_FINISH` of `startStep()` the same configuration finds
  `RecipeFinishes` to hold.
* Finding: the end of a body that is told too early. `beginRequest()`
  (`HttpClient.cpp:57`) may follow the body of an earlier answer on a kept connection,
  which no comment forbids, and as `WebSocketClient::begin()` (line 32) does in
  any state. `startRequest()` then does not see that a body was read and keeps
  `iBodyLengthConsumed`: `endOfBodyReached()` is true as soon as the next headers end,
  against "true if we are now at the end of the body, else false" (`HttpClient.h:235`).
  `http_body_end` shows it; `EndNotMissed` is the half of the promise that does hold.
* The sketch. Starting at the zero slot (reach it with the keys, press Select)
  leads behind the table: `startStep()` finishes, line 213 overwrites it. The keys
  browse without a limit. The comment at line 39 calls a slot running (1) or finished
  (3), yet in `ST_FINISH` the last step stays at 1, and slots in front of the one that
  was started get 3 although they never ran: `OnlyOneRuns` asks for neither. The
  `ST_WAIT` branch does not set `lastInput`, so that one long press confirms two
  prompts. A prompt can be confirmed in the round before it is shown. A step at 100
  degrees waits for a reading of exactly that. A rest longer than 255 minutes never
  ends. The 85 degrees of a sensor that lost power end a temperature step, and with a
  disconnected one (-127) the heater stays on and the step does not end; for these
  `OverheatBound`, `StepEndsWhenReached` and `StepsEnd` assume a healthy sensor.
* DB. `recno < 0` never holds for a byte: `insert(0)` counts a record that it does
  not write and `deleteRec(0)` removes record 1, or wraps the count of an empty
  table to 255. Nothing checks the EEPROM's size.
* MQTT. `ping_outstanding` (`MQTTClient.h:615`) survives the connection: after a
  reconnect the client never pings again and the broker drops it, against the comment
  at line 175; `KeptAlive` speaks of the first connection. A dead link with a ping
  outstanding is never noticed by the client. A packet that arrives in pieces, or a
  torn write, leaves the stream out of step, and the connection stays. Timers compare
  absolute times. `MQTTDeserialize_suback` lets one code too many pass
  (`MQTTSubscribeClient.c:119`, `>`); `MQTTPacket_readnb` counts polls as bytes of the
  length; `MQTTstrlen` and `writeMQTTString` prefer different forms of a text that has
  both; the payload of a PUBLISH with QoS above 0 can have length -2;
  `payload[payloadlen] = '\0'` (`ArduinoCloudThing.cpp:100`) may be one behind the
  buffer.
* Properties. An `ON_CHANGE` value that was written while offline is never sent
  again, although the debug output says "OK, Published". A property that was not
  written for half of the range of `millis()` cannot be written for the other half.
  The loops `i <= properties_count` read the entry behind the last one.
* OneWire and sensors. `alarmSearch()` (`DallasTemperature.cpp:705`) returns the same
  device for ever when the devices behind the junction that it wants to try next have
  gone; on boards whose `char` is unsigned (line 648) it
  returns the first of several devices for ever.
  `setResolution` of one device, or of all with a DS18S20 on the bus, can leave the
  driver with a wait that is too short, against the comment at line 267: a DS18S20 takes
  750 ms also after `setResolution(9)`, which makes the driver wait for 94.
  `isConversionAvailable()` polls a byte that the last conversion may have left (line
  282). The waits are modelled as they are, and no property is about them. The
  constant at line 447 is 0.125 degrees where the comment at 437 says 0.25.
  `setUserDataByIndex()` behind the last device writes to the last. A scratchpad of
  zeros has a valid CRC. The wait compares `millis() - delms` with the start, which
  fails in the first milliseconds after a reset.
* HTTP. With `beginRequest()` in the middle of an exchange the rest of the last answer
  is not dropped either, and can be taken for the new one: `OwnAnswer` excepts that
  (`again`). In the model a piece of a body is never read as a status line, which is
  what a body that has no `HTTP/` in it is; and a flush drops what has come, not what
  comes later. The empty line after a 1xx answer is read as a bad status line.
  `!connect() > 0` takes an error number for success. `headerAvailable()` does not
  return while nothing arrives. `contentLength()` is 0, never
  `kNoContentLengthHeader` (`HttpClient.h:244`), without the header and before it was
  read.
* WebSocket. `write()` takes `sizeof(iTxSize)` for the size of the buffer, so that a
  long message overruns it. A PING inside a message of the program is appended to it
  and sends it. Bytes of a PING that have not come are echoed as 255 and asked for
  again, so that the PONG can be longer than the PING: `PingAnswered` says that it is
  never shorter. Bytes of a length that have not come count as such. A control frame
  between fragments overwrites their type. `flushRx()` has no time-out: it spins while
  nothing comes and when the connection ends. Reading past the frame wraps `iRxSize`.
  `iTxStarted` survives a reconnect. The mask moves on by the size that was asked for,
  not by what was read. `read() << 8 | read()` leaves the order to the compiler (the
  model takes the one from left to right).
* PID. In manual mode `SetControllerDirection()` leaves the gains with the old sign
  until the tunings are set again, so that in automatic mode the output goes the way
  that lines 168-173 warn of; `GainsHold` says nothing of the direction. Negative
  tunings at construction leave the gains uninitialised.

## 5. Proofs

`tlapm` checks `MashProofs`, `DBProofs`, `SchedulerProofs`, `CloudProofs`,
`HttpClientProofs`, `WebSocketProofs`, `PacketStreamProofs` and `ControlProofs`. The theorems
hold for every value of the constants that satisfies the `ASSUME`s of the modules.

* **Mash.** `TypeCorrect`. `FinishSafe` (`FinishedRelayOff`) is inductive with the
  types: the step controller, the only one that finishes outside the input
  controller, hands over to the heater controller. `OverheatSafe` assumes
  `~SensorFaults` and needs `HeatInv`: at each function of the round, how far the
  mash may have got away from what was last measured, and that the relay, where it
  is high, was switched for a target above that. `TableSafe` (`StaysInTable`),
  `StatusSafe` (`OnlyOneRuns`), `OrderSafe` (`StepsInOrder`) assume of the recipe
  `WellFormed` (the zero record in the last slot, slots that a byte can count) and
  nothing of the operator. Behind a real step there is a slot (`NextStepInTable`), which
  `startStep` enters or takes for the end. `OnlyOneRuns` needs that the input controller
  is reached inside the table only (`InputInTable`), and then is inductive with the
  types. `TimedSafe` (`TimedStepHeldFull`) rests on
  `HeldInv`: `millis()` never tells more time since the start of a step than has gone
  by, although it may tell less, and the byte `runTime` less again. `ReachedSafe`
  (`StepEndsWhenReached`, `~SensorFaults`) follows the one late reading through the
  round (`ReachedInv`: register, reading and mash at the target only after the step
  began). `BlindStepSafe` (`BlindStepHolds`): -127 ends no step. `ScreenSafe`
  (`ScreenMatchesState`) needs `ScreenInv`: the display lags behind the state by at
  most the part of a round that is still to come, and `ST_WAIT` is not left and
  entered again in between.
* **DB.** `InterruptedSafe` (`InterruptedKeeps`) for any number of tables, record
  sizes and places, as long as the caller keeps each table to its space (`TablesFit`,
  `TablesApart`). `DBInv` says what a running call still has to write: bytes of
  records, none in front of the one it names (`Cells`), and the count behind them
  (`Ordered`); that between calls RAM and the head agree (`RestInv`), and that each head
  tells of no more records than there is space for (`Sound`). What each call puts into
  its list is a lemma each (`RecBytesIn`, `ShiftDownIn`, `ShiftUpIn`), and `RecordByte`
  is what one byte of it leaves alone. `TableImplemented` (`ImplementsTable`) proves the
  refinement step by step. Its invariant `TableInv` stands beside `DBInv`: what the list
  of writes of a running call will make of memory (`Settled`) is fixed when the call
  begins (`Finishes`), because the writes agree where they meet, so that it does not
  matter how many were done; bytes of records are values or erased (`Clean`). A list is
  looked at as a set of writes (`Writes`), and of each call a lemma says which records it
  moves where (`Moved`, `CallMakes`). A power failure needs only what `DBInv` already says
  of the bytes that were not written.
* **PacketStream.** `SentSafe` (`SentWhole`) has no induction but a lemma for each
  serializer: `MQTTPacket_len` is never below the true size (`LenEnough`) and C
  strings are counted alike in both halves (`TextWhole`). `ReadbufSafe`
  (`FitsReadbuf`): whatever bytes are taken for a length, also out of step, no read
  goes behind `readbuf`; it rests on `StreamInv`, that packets lie one behind the other
  from the first byte on, so that each byte is of one of them (`ByteAtPacket`).
  `InStepSafe` (`InStep`) assumes a broker whose packets keep to the protocol
  (topics of 16 bits, lengths of 28) and proves for every such sequence, every size of
  the buffer and every arrival of the bytes what TLC checks for two packets:
  `StepInv` says which bytes of the next packet are in `header` and `field`, and
  `DecodeEncode` that the length field that was written is the number that is read,
  over all four digits of seven bits.
* **WebSocket.** `InStepHolds` (`InStep`), `TypeRightHolds` (`TypeRight`) and
  `PingAnsweredHolds` (`PingAnswered`) share one invariant, `SocketInv`, which says for
  each read of `parseMessage()` where in the frame the client stands (`PosInv`), which
  bytes of the length are known (`SizeInv`, from `SizeDigits`: a length is the number
  that its bytes make, over all three forms), and what stands behind the length
  (`MaskInv`). It holds until a byte of a header is read that had not come (`lost`), and rests on
  `WireInv`: frames lie one behind the other, so that each byte is of one of them
  (`ByteAtFrame`), and a continuation comes behind a fragment with only control frames
  between (`Continues`). From this `OpInv` follows: the opcode is that of the message
  unless a control frame has overwritten it. `EchoInv`, what was read of a PING is in the
  buffer, needs `TxInv`: a message that is open while frames are parsed is the
  program's, and then the answer is no PONG. The theorems hold for buffers of any size
  and any number of frames; lengths are below `2^24`, since the model's `SizeByte`
  gives a length three bytes.
* **PID** (in `ControlProofs`). `LimitsHold` (`InLimits`), `SamplesPaced` (`Paced`, from `PaceInv`: the
  difference of two readings of a clock that wraps is the time between them, unless
  that is a whole round), `GainsHold` (`GainsScale`): the three gains have one sign, the
  strength that was set last, and the sample time of now in them. That it is the sign of
  `controllerDirection` is not claimed, and is false after a change in manual mode. The
  gain of the derivative is a quotient: `GainsHold` assumes `ExactUnit`, a unit in which
  the quotients by the sample times of the program are exact, as they are for numbers
  that are not rounded; the run has one.
* **Sensors** (in `ControlProofs`). `SettingsSafe` (`SettingsSurvive`) from `RegisterInv`: between calls
  every scratchpad is what its EEPROM holds, so that what is read with a right CRC is
  the EEPROM, and the write that is under way knows the registers that its target
  should have; alarm temperatures are any integers, and `InRangeType` is what the
  conversion to `char` and the limits make of them. `AlarmsAgree` (`AlarmAgrees`) assumes `RegisterWidth`, readings of 12 bits.
* **Scheduler.** `TypeCorrect`, `RingIntact`, `MemoryIsOwned` from
  `RingInv == TypeOK /\ Linked /\ OneRing /\ NoLeak`. `OneRing` speaks of closed
  sets of tasks, not of paths, so that insertion and deletion are proved by adding
  or removing one element of the set. `StacksAreOwn` adds the saved registers,
  `BoardNeverHalts` that the program's own task stays on the ring (`MainStays`).
  `RoundRobinImplemented` (`ImplementsRoundRobin`) proves that the ring, read from the
  running task on, is the abstract queue. The refinement mapping is a recursive function
  (`Following`); that it exists (`PathIs`), and that it meets every task once before it is
  back (`RingCounts`, from `OneRing`), takes induction over numbers. A lemma cannot have
  that as an operator, so it is stated for sets (`Inductive`: a set that holds 0 and the
  next of each of its numbers holds them all), from the minimum that every set of
  numbers has (`HasMin`, the library's well-foundedness of `<`).
* **HttpClient.** `OwnAnswerHolds` (`OwnAnswer`) and `TypeCorrect` assume nothing. Their
  invariant `HistoryInv` is the types and, while `beginRequest()` has not come in the
  middle of an exchange (`~again`), where the client stands on the stream (`InStep`):
  there is a number `d`, the pieces that it has read of the answer to the last request,
  such that what has arrived and what is under way are the pieces that follow
  (`Stream`), and the state of the client is the one that belongs there (`Reading`). A
  `d` below zero counts the bytes of an earlier body that are still in front: a
  connection is only kept when the earlier headers were read to their end
  (`KeptConnection`), and then these are refused as a status line, one after the other.
  `AnswerFits` is the shape of an answer, with and without 1xx and length.
* **CloudSession** (in `CloudProofs`). `TypeCorrect` and `AcksMatchHolds` (`AcksMatch`)
  share one invariant, as an answer that nobody asked for would move the position of
  `mqttSubscribe()` too: `AckInv` says that at most one SUBSCRIBE or SUBACK is under way,
  that it is for the position, and that there is none while no request waits
  (who gives up closes). `SubscribedHolds` (`SubscribedWhenOnline`) adds `SessionInv`:
  CONNECT is the first packet on a connection and CONNACK its answer (`ConnectFirst`,
  `ConnackFirst`), an answer that says yes is true of the broker (`ConnackTrue`,
  `SubackTrue`), and the properties before the position are subscribed to. `KeptAliveHolds`
  (`KeptAlive`) adds `KeepInv`: while the client has dialled at most once, a ping that
  it waits for, or its answer, is under way (`PingUnderWay`), and when nothing is under
  way to the broker, that has not been silent for longer than the client has not sent,
  plus what the program lets pass between two calls of `poll()` (`Overdue`). They hold for
  any number of properties, any intervals with `KeepAlive + PollGap <= Grace`, and
  queues of any length.
* **CloudProperties** (in `CloudProofs`). `SpacingHolds` from `AgeInv`: while less than a
  lapse has gone since the last publication, the clock difference is that time, because
  the lapse is at most half of the clock's range. `AgreedHolds` (`Agreed`) from
  `AgreeInv`: at every moment the end of the queue of a thing is the value that it will
  come to (`Holds`), for the mirror the last message (`MirrorHolds`), for the owner, too,
  once the broker has seen what it published (`OwnerHolds`); a property without an echo
  is never ahead of what the owner published last (`NoEcho`).
* **OneWire** (in `ControlProofs`). `TypeCorrect`, `PhantomFree` from
  `SearchInv == TypeOK /\ OnPath /\ NoPhantom`: while a search runs, every device
  that takes part agrees with the address on the bits handled so far, and one that
  answers a bit stays (`SomeoneFollows`). At the last bit the two devices that could
  be left are one, because the checksum keeps addresses from differing there only.
  `CompleteHolds` (`Complete`) and `TargetedHolds` (`Targeted`) rest on one invariant,
  `Watching`, for both searches, although they keep their books differently: `Walk` says
  at every bit that what was found is what lies below the path taken (`Beyond`), or, in
  front of the bit where the search turns, what lies below the address found last
  (`Rest`), and that what the search remembers is the last bit where a 1 is pending
  (`LastPending`). `WalkStep` proves it for a bit whichever code chose it, and
  `SearchBitPass` and `AlarmBitPass` that each code chooses so. `CompleteHolds` assumes
  `CharSigned`: where `char` is unsigned the alarm search returns its first device
  for ever, and `Complete` is false of the code. `TargetedHolds` needs no assumption; that
  `Cardinality` says what it should needs that there are finitely many addresses of
  `RomBits` bits (`DevicesFinite`).

Only model-checked: everything about progress (fairness is beyond the prover), and
`EndNotMissed`. Proved and not in a run: `BlindStepHolds`, `NeverHalts`, `Paced`,
`FitsReadbuf`, `GainsScale`, and the types. The other `TypeOK` say what the variables are.

## 6. Not modelled

* NanoESP, a dialogue of AT commands that no other code here uses: its waits and
  the parsing of the module's answers are string searches on a serial line. `Brew` is a
  header that nothing includes.
* Bit timing of the one-wire bus, the checksums (assumed where they matter), the
  layout of screens and numbers, logging, the names of topics, URL encoding,
  base64, authentication headers, single HTTP headers, the bytes of texts and
  payloads, parasite power.
* Stack overflow of tasks, and reads behind arrays, whose effect nothing bounds.
* The wrap-around of the MQTT timers. QoS 1 and 2, which the build leaves out.

## 7. Plan

Done, in the order of importance for the program: the sketch and its proofs, the
record library with its abstract table, the session, the properties, the scheduler
with its abstract queue, the bus searches, HTTP requests; then MQTT packets on their
stream, the WebSocket client, the PID controller and the sensor driver. What would
come next:

1. `NanoESP`: the AT dialogue and the table of its connections.
2. `CloudSession` on `PacketStream` instead of on whole packets, and the wrap-around
   of its timers.
