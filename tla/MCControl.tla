------------------------------ MODULE MCControl ------------------------------
(* The libraries of a control loop: the searches of the bus, the sensors and *)
(* the PID controller. They share no state, so that what one may do does not *)
(* depend on the others: a behaviour uses the bus and then either the        *)
(* sensors or the controller, each in every way in which it is used alone,   *)
(* and their states add up instead of multiplying.                           *)
(*                                                                           *)
(* Addresses have four bits: two of a family code other than 0, one that     *)
(* numbers the device, and a checksum over these. The sensors are a DS18B20  *)
(* and a DS18S20, with a temperature below zero that lies between two        *)
(* thresholds, and alarms that a sensor does not reach (126) and a char does *)
(* not hold (255). The controller has gains of every kind, ranges that the   *)
(* output leaves, and requests that are refused.                             *)
EXTENDS OneWire, Sensors, PID

MCWord    == [1..4 -> {0, 1}]
Checked   == {w \in MCWord : w[1] + w[2] > 0 /\ w[4] = (w[1] + w[2] + w[3]) % 2}
MCDevices == Checked \ {<<1, 1, 1, 1>>}

MCBus      == <<B20, S20>>
MCReadings == {[raw |-> -8, remain |-> 4]}
MCPowerOn  ==
  (B20 :> [raw |-> 85 * 16, remain |-> 0]) @@ (S20 :> [raw |-> 85 * 2, remain |-> 12])
MCUserData == {[th |-> 30, tl |-> -1]}

MCTunings ==
  {[p |-> 1, i |-> 2, d |-> 0], [p |-> 0, i |-> 1, d |-> 1], [p |-> -1, i |-> 0, d |-> 0]}
MCLimits  == {[min |-> -2, max |-> 4], [min |-> 3, max |-> 3]}
MCDefault == [min |-> 0, max |-> 8, sampleTime |-> 1]

-----------------------------------------------------------------------------

VARIABLE using      \* which of the libraries

controlVars == <<using, vars, sensorsVars, pidVars>>

ControlInit ==
  /\ using = "bus" /\ Init
  /\ SensorsInit /\ online = [d \in All |-> TRUE]
  /\ PIDInit /\ input = 0 /\ output = 9 /\ controllerDirection = DIRECT
  /\ disp = [p |-> 1, i |-> 2, d |-> 0]

UseBus        == using = "bus" /\ Next /\ UNCHANGED <<using, sensorsVars, pidVars>>
UseSensors    == using = "sensors" /\ SensorsNext /\ UNCHANGED <<using, vars, pidVars>>
UseController == using = "controller" /\ PIDNext /\ UNCHANGED <<using, vars, sensorsVars>>

\* From one state of the bus only: nothing was ever on it, and a search has said so.
Change ==
  /\ using = "bus" /\ changes = 0 /\ present = {}
  /\ pass = [NewPass("search", NoFamily) EXCEPT !.over = TRUE]
  /\ using' \in {"sensors", "controller"}
  /\ UNCHANGED <<vars, sensorsVars, pidVars>>

ControlNext == UseBus \/ UseSensors \/ UseController \/ Change

ControlSpec == ControlInit /\ [][ControlNext]_controlVars /\ WF_vars(Step)
=============================================================================
