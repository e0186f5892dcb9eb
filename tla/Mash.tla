-------------------------------- MODULE Mash --------------------------------
(***************************************************************************)
(* The brewing controller of ArduMash.ino: a cooperative loop              *)
(*                                                                         *)
(*   request -> read -> step -> heater -> input -> screen -> request ...   *)
(*                                                                         *)
(* in which each controller function is one action, closed with the world  *)
(* around the board: the mash in the kettle, the one-wire temperature      *)
(* sensor, the operator at the five-button LCD shield, and the power.      *)
(*                                                                         *)
(* Outside the recipe table (~InTable) the program reads and writes memory *)
(* that is not the recipe's: the model stops there, at the first function  *)
(* that would use the slot; StaysInTable tells which runs never get there. *)
(*                                                                         *)
(* Units.  Time is counted in ticks and passes while the conversion of the *)
(* sensor is awaited, which is where the loop spends it; MinuteTicks and   *)
(* ButtonDelay are the program's 60000 ms and 350 ms in ticks.             *)
(* Temperatures are integers; Hysteresis is the program's 0.5 degrees.     *)
(***************************************************************************)
EXTENDS Integers

CONSTANTS
  LastSlot,      \* recipe[r] has the slots 0..LastSlot
  Recipe,        \* what setup() writes into recipe[0]: the fixed fields per slot
  ByteMod,       \* a byte counts modulo ByteMod (256)
  ClockMod,      \* millis() counts modulo ClockMod (2^32 ms)
  MinuteTicks,   \* ticks of a minute
  ButtonDelay,   \* ticks of buttonDelay
  LoopTicks,     \* how many ticks one round of loop() may take
  BootTicks,     \* ticks that setup() takes (it ends with delay(3000))
  HeldCap,       \* bound: the history variable held saturates here
  Hysteresis,    \* 0.5 degrees
  Rise,          \* bound: how far the mash can warm up in one round
  Ambient,       \* the mash does not cool below this
  Boil,          \* the mash does not get hotter than this
  StartTemps,    \* mash temperatures when the board is first powered
  Disconnected,  \* DEVICE_DISCONNECTED_C
  PowerOnTemp,   \* what a sensor that has not converted yet reads (85 degrees)
  MaxStep,       \* the operator browses no further than this step ...
  MaxRecipe,     \* ... and this recipe (the code does not stop him)
  SensorFaults,  \* may the sensor lose contact?
  PowerCycles    \* may the power fail?

Slots == 0..LastSlot
Keys  == {"RIGHT", "UP", "DOWN", "LEFT", "SELECT", "NONE"}

ASSUME RecipeAssumption ==
  /\ LastSlot \in Nat
  /\ Recipe \in [Slots -> [recipe : Nat, targetTemp : Int, duration : Nat,
                           autoContinue : BOOLEAN]]
ASSUME ClockAssumption ==
  /\ ByteMod \in Nat \ {0} /\ ClockMod \in Nat \ {0} /\ MinuteTicks \in Nat \ {0}
  /\ ButtonDelay \in Nat /\ BootTicks \in Nat /\ HeldCap \in Nat
  /\ LoopTicks \subseteq Nat \ {0}
  /\ MaxStep \in Nat /\ MaxRecipe \in Nat
ASSUME PlantAssumption ==
  /\ Hysteresis \in Nat /\ Rise \in Nat
  /\ Ambient \in Int /\ Boil \in Int /\ Disconnected \in Int /\ PowerOnTemp \in Int
  /\ StartTemps \subseteq Int
ASSUME SwitchAssumption == SensorFaults \in BOOLEAN /\ PowerCycles \in BOOLEAN

VARIABLES
  \* the program
  pc,               \* the function that runs next
  systemState, lastSystemState, currentRecipe, currentStep,
  stepStatus, startTime,     \* the fields of recipe[0][...] that change
  tempC, heatingState, lastInput,
  found,            \* did setup() obtain the address insideThermometer?
  \* the board and the world
  clock,            \* millis()
  relay,            \* RELAY_PIN is HIGH
  lcd,              \* which screen, about which step
  mashTemp, plugged, scratchpad,   \* the mash, the sensor's contact and register
  \* history
  held,             \* ticks since the current step was started (up to HeldCap)
  reached           \* was the mash as hot as the current step wants, since then?

recipeVars  == <<currentRecipe, currentStep, stepStatus, startTime>>
stateVars   == <<systemState, lastSystemState>>
heaterVars  == <<heatingState, relay>>
plantVars   == <<mashTemp, plugged, scratchpad>>
historyVars == <<held, reached>>
vars == <<pc, recipeVars, stateVars, heaterVars, tempC, lastInput, found, clock,
          lcd, plantVars, historyVars>>

Blank == <<"blank", 0>>
AtMost(n, cap) == IF n > cap THEN cap ELSE n

TypeOK ==
  /\ pc \in {"setup", "request", "read", "step", "heater", "input", "screen"}
  /\ systemState \in {"INIT", "RUNNING", "FINISH", "WAIT"}
  /\ lastSystemState \in {"NONE", "INIT", "RUNNING", "FINISH", "WAIT"}
  /\ currentRecipe \in 0..(ByteMod - 1) /\ currentStep \in 0..(ByteMod - 1)
  /\ stepStatus \in [Slots -> {0, 1, 3}]
  /\ startTime \in [Slots -> 0..(ClockMod - 1)]
  /\ tempC \in Int /\ heatingState \in BOOLEAN /\ relay \in BOOLEAN
  /\ lastInput \in 0..(ClockMod - 1) /\ clock \in 0..(ClockMod - 1)
  /\ found \in BOOLEAN /\ plugged \in BOOLEAN
  /\ lcd \in {"blank", "boot", "init", "status", "finish", "prompt"} \X (0..(ByteMod - 1))
  /\ mashTemp \in Int /\ scratchpad \in Int
  /\ held \in 0..HeldCap /\ reached \in BOOLEAN

-----------------------------------------------------------------------------
(* Start, reset and setup()                                                *)

\* The initial values of the globals (lastSystemState = -1 is no state).
NoSteps == [i \in Slots |-> 0]

Init ==
  /\ pc = "setup" /\ systemState = "INIT" /\ lastSystemState = "NONE"
  /\ currentRecipe = 0 /\ currentStep = 0 /\ stepStatus = NoSteps /\ startTime = NoSteps
  /\ tempC = 0 /\ heatingState = FALSE /\ lastInput = 0 /\ found = FALSE
  /\ clock = 0 /\ relay = FALSE /\ lcd = Blank
  /\ mashTemp \in StartTemps /\ plugged = TRUE /\ scratchpad = PowerOnTemp
  /\ held = 0 /\ reached = FALSE

\* setup(): the recipe table is loaded, the bus is searched for the sensor once,
\* the boot screen is shown for three seconds.
setup ==
  /\ pc = "setup"
  /\ pc' = "request"
  /\ found' = plugged
  /\ clock' = (clock + BootTicks) % ClockMod
  /\ lcd' = <<"boot", 0>>
  /\ UNCHANGED <<recipeVars, stateVars, heaterVars, tempC, lastInput, plantVars,
                 held, reached>>

\* The power fails and returns: nothing of the run was saved, the relay drops.
PowerCycle ==
  /\ PowerCycles /\ pc # "setup"
  /\ pc' = "setup" /\ systemState' = "INIT" /\ lastSystemState' = "NONE"
  /\ currentRecipe' = 0 /\ currentStep' = 0 /\ stepStatus' = NoSteps /\ startTime' = NoSteps
  /\ tempC' = 0 /\ heatingState' = FALSE /\ lastInput' = 0 /\ found' = FALSE
  /\ clock' = 0 /\ relay' = FALSE /\ lcd' = Blank /\ scratchpad' = PowerOnTemp
  /\ held' = 0 /\ reached' = FALSE
  /\ UNCHANGED <<mashTemp, plugged>>

-----------------------------------------------------------------------------
(* The sensor                                                              *)

Unplug ==
  /\ SensorFaults /\ pc # "setup" /\ plugged
  /\ plugged' = FALSE
  /\ UNCHANGED <<pc, recipeVars, stateVars, heaterVars, tempC, lastInput, found,
                 clock, lcd, mashTemp, scratchpad, historyVars>>

\* A sensor that gets its supply back holds the power-on value until it converts.
Replug ==
  /\ ~plugged
  /\ plugged' = TRUE /\ scratchpad' = PowerOnTemp
  /\ UNCHANGED <<pc, recipeVars, stateVars, heaterVars, tempC, lastInput, found,
                 clock, lcd, mashTemp, historyVars>>

\* getTempC(insideThermometer): the scratchpad of the sensor that setup() found.
getTempC == IF found /\ plugged THEN scratchpad ELSE Disconnected

\* Where the mash may be after a round with the relay as it is.
NextMashTemps ==
  {t \in (mashTemp - 1)..(mashTemp + Rise) :
     \/ t = mashTemp
     \/ relay /\ t > mashTemp /\ t <= Boil
     \/ ~relay /\ t < mashTemp /\ t >= Ambient}

CurrentTarget == Recipe[currentStep].targetTemp
InTable == currentRecipe = 0 /\ currentStep \in Slots
AtRealStep == InTable /\ Recipe[currentStep].recipe # 0

\* sensors.requestTemperatures() blocks for the conversion: time passes, the mash
\* moves, and the register gets a value from some moment in between.
requestTemperatures ==
  /\ pc = "request"
  /\ pc' = "read"
  /\ \E d \in LoopTicks :
       /\ clock' = (clock + d) % ClockMod
       /\ held' = AtMost(held + d, HeldCap)
  /\ mashTemp' \in NextMashTemps
  /\ scratchpad' \in IF plugged THEN {mashTemp, mashTemp'} ELSE {scratchpad}
  /\ reached' = (reached \/ (InTable /\ mashTemp' >= CurrentTarget))
  /\ UNCHANGED <<recipeVars, stateVars, heaterVars, tempC, lastInput, found, lcd, plugged>>

readTemperature ==
  /\ pc = "read"
  /\ pc' = "step"
  /\ tempC' = getTempC
  /\ UNCHANGED <<recipeVars, stateVars, heaterVars, lastInput, found, clock, lcd,
                 plantVars, historyVars>>

-----------------------------------------------------------------------------
(* startStep()                                                             *)

\* Mutant: the slot that is left is tested instead of the one to start.
Mut_TestsOldSlot(s) == IF InTable THEN {Recipe[currentStep].recipe = 0} ELSE BOOLEAN

\* startStep() tests recipe[currentRecipe][s].recipe == 0; behind the last slot it
\* reads whatever lies there.
IsEndMarker(s) ==
  IF currentRecipe = 0 /\ s \in Slots THEN {Recipe[s].recipe = 0} ELSE BOOLEAN

Mut_KeepStartTimes(s) == [i \in Slots |-> IF i = s THEN clock ELSE startTime[i]]

StatusAfterStart(s) ==
  [i \in Slots |-> IF i < s THEN 3 ELSE IF i = s THEN 1 ELSE stepStatus[i]]
StartTimeAfterStart(s) ==
  [i \in Slots |-> IF i < s THEN 0 ELSE IF i = s THEN clock ELSE startTime[i]]

\* startStep(s) except for its assignment to systemState, which is StateAfterStart.
\* Does nothing in ST_FINISH or at the end marker; otherwise makes s the current
\* step, ticks off the steps before it and notes the time.
startStep(s, end) ==
  IF systemState = "FINISH" \/ end
  THEN UNCHANGED <<currentStep, stepStatus, startTime, held, reached>>
  ELSE /\ currentStep' = s
       /\ stepStatus' = StatusAfterStart(s)
       /\ startTime' = StartTimeAfterStart(s)
       /\ held' = 0
       /\ reached' = (s \in Slots /\ mashTemp >= Recipe[s].targetTemp)

\* Mutant: a slot is skipped.
Mut_SkipSlot == (currentStep + 2) % ByteMod

StateAfterStart(end) == IF end THEN "FINISH" ELSE systemState

\* The byte that startStep(currentStep + 1) receives.
NextStep == (currentStep + 1) % ByteMod

-----------------------------------------------------------------------------
(* stepController()                                                        *)

\* Mutant: a minute that has begun counts.
Mut_MinutesBegun ==
  ((((clock - startTime[currentStep]) % ClockMod) + MinuteTicks - 1) \div MinuteTicks) % ByteMod

\* (byte) ((millis() - Step.startTime) / 60000)
RunTime == (((clock - startTime[currentStep]) % ClockMod) \div MinuteTicks) % ByteMod

\* Mutants: with the heater's tolerance; a minute more than the duration.
Mut_NearTarget ==
  IF Recipe[currentStep].duration = 0
  THEN tempC + Hysteresis >= CurrentTarget ELSE RunTime >= Recipe[currentStep].duration
Mut_MinuteMore ==
  IF Recipe[currentStep].duration = 0
  THEN tempC >= CurrentTarget ELSE RunTime > Recipe[currentStep].duration

StepOver ==
  IF Recipe[currentStep].duration = 0
  THEN tempC >= CurrentTarget
  ELSE RunTime >= Recipe[currentStep].duration

stepController ==
  /\ pc = "step" /\ InTable
  /\ pc' = "heater"
  /\ \/ /\ systemState \in {"FINISH", "INIT"} \/ ~StepOver
        /\ UNCHANGED <<recipeVars, systemState, held, reached>>
     \/ /\ systemState \notin {"FINISH", "INIT"} /\ StepOver
        /\ Recipe[currentStep].autoContinue
        /\ \E end \in IsEndMarker(NextStep) :
             startStep(NextStep, end) /\ systemState' = StateAfterStart(end)
        /\ UNCHANGED currentRecipe
     \/ /\ systemState \notin {"FINISH", "INIT"} /\ StepOver
        /\ ~Recipe[currentStep].autoContinue
        /\ systemState' = "WAIT"
        /\ UNCHANGED <<recipeVars, held, reached>>
  /\ UNCHANGED <<lastSystemState, heaterVars, tempC, lastInput, found, clock, lcd,
                 plantVars>>

-----------------------------------------------------------------------------
(* heaterController()                                                      *)

\* Mutant: the hysteresis lies above the target.
Mut_BandAbove ==
  IF CurrentTarget + Hysteresis < tempC THEN FALSE
  ELSE IF CurrentTarget > tempC THEN TRUE
  ELSE heatingState

\* Two-point control: off above the target, on more than 0.5 degrees below it.
HeatWanted ==
  IF CurrentTarget < tempC THEN FALSE
  ELSE IF CurrentTarget > tempC + Hysteresis THEN TRUE
  ELSE heatingState

\* Runs in every state, ST_INIT included; ST_FINISH forces the heater off.
HeaterOn == HeatWanted /\ systemState # "FINISH"

heaterController ==
  /\ pc = "heater" /\ InTable
  /\ pc' = "input"
  /\ heatingState' = HeaterOn
  /\ relay' = heatingState'
  /\ UNCHANGED <<recipeVars, stateVars, tempC, lastInput, found, clock, lcd,
                 plantVars, historyVars>>

-----------------------------------------------------------------------------
(* inputController()                                                       *)

KeysAccepted == (clock - lastInput) % ClockMod > ButtonDelay

\* Does the program do something with this key now?
Obeyed(key) ==
  /\ KeysAccepted
  /\ \/ systemState = "INIT" /\ key \in {"UP", "RIGHT", "SELECT"}
     \/ systemState = "INIT" /\ key = "DOWN" /\ currentRecipe # 0
     \/ systemState = "INIT" /\ key = "LEFT" /\ currentStep # 0
     \/ systemState = "WAIT" /\ key = "SELECT"

Ignore(key) ==
  /\ ~Obeyed(key)
  /\ UNCHANGED <<recipeVars, systemState, lastInput, lcd, historyVars>>

\* ST_INIT: the arrow keys choose the recipe and the step.
Browse(key) ==
  /\ Obeyed(key) /\ key # "SELECT"
  /\ key = "UP" => currentRecipe < MaxRecipe
  /\ key = "RIGHT" => currentStep < MaxStep
  /\ currentRecipe' = CASE key = "UP"   -> (currentRecipe + 1) % ByteMod
                        [] key = "DOWN" -> currentRecipe - 1
                        [] OTHER        -> currentRecipe
  /\ currentStep' = CASE key = "RIGHT" -> (currentStep + 1) % ByteMod
                      [] key = "LEFT"  -> currentStep - 1
                      [] OTHER         -> currentStep
  /\ lastInput' = clock
  /\ UNCHANGED <<systemState, stepStatus, startTime, lcd, held, reached>>

\* ST_INIT: Select starts the recipe at the chosen step.
StartRecipe(key) ==
  /\ Obeyed(key) /\ key = "SELECT" /\ systemState = "INIT"
  /\ \E end \in IsEndMarker(currentStep) : startStep(currentStep, end)
  /\ systemState' = "RUNNING"
  /\ lastInput' = clock
  /\ lcd' = Blank
  /\ UNCHANGED currentRecipe

\* ST_WAIT: Select goes on to the next step.
Confirm(key) ==
  /\ Obeyed(key) /\ key = "SELECT" /\ systemState = "WAIT"
  /\ \E end \in IsEndMarker(NextStep) : startStep(NextStep, end)
  /\ systemState' = "RUNNING"
  /\ UNCHANGED <<currentRecipe, lastInput, lcd>>

inputController(key) ==
  /\ pc = "input"
  /\ pc' = "screen"
  /\ Ignore(key) \/ Browse(key) \/ StartRecipe(key) \/ Confirm(key)
  /\ UNCHANGED <<lastSystemState, heaterVars, tempC, found, clock, plantVars>>

-----------------------------------------------------------------------------
(* screenController()                                                      *)

\* The screens, by what they show.
initScreen          == <<"init", currentStep>>
displayStatusScreen == <<"status", currentStep>>
waitAtStepEnd       == <<"prompt", currentStep>>
finishScreen        == <<"finish", 0>>

ScreenFor(state) ==
  CASE state = "INIT"    -> initScreen
    [] state = "RUNNING" -> displayStatusScreen
    [] state = "FINISH"  -> finishScreen
    [] OTHER             -> waitAtStepEnd

\* Mutant: a prompt is taken for one that is drawn already.
Mut_PromptOnce == IF systemState = "WAIT" THEN lcd ELSE ScreenFor(systemState)

\* What the display shows after this round.  The prompt is drawn only when
\* ST_WAIT is new; the other screens are drawn every round.
NextScreen ==
  IF systemState = "WAIT" /\ lastSystemState = "WAIT" THEN lcd ELSE ScreenFor(systemState)

\* displayStatusScreen() also reads the temperature again.
screenController ==
  /\ pc = "screen"
  /\ systemState = "INIT" \/ InTable
  /\ pc' = "request"
  /\ lcd' = NextScreen
  /\ tempC' = IF systemState = "RUNNING" THEN getTempC ELSE tempC
  /\ lastSystemState' = systemState
  /\ UNCHANGED <<recipeVars, systemState, heaterVars, lastInput, found, clock,
                 plantVars, historyVars>>

-----------------------------------------------------------------------------
loop ==
  \/ requestTemperatures \/ readTemperature \/ stepController \/ heaterController
  \/ (\E key \in Keys : inputController(key))
  \/ screenController

Next == setup \/ loop \/ PowerCycle \/ Unplug \/ Replug
Spec == Init /\ [][Next]_vars

-----------------------------------------------------------------------------
(* Fairness: the board keeps running loop(); the operator presses Select   *)
(* again and again while the program would obey it; the heater warms the   *)
(* mash and without it the mash cools, until Boil and Ambient.             *)

PressSelect == inputController("SELECT") /\ Obeyed("SELECT")
Warm == requestTemperatures /\ mashTemp' > mashTemp
Cool == requestTemperatures /\ mashTemp' < mashTemp

ProgramFairness == WF_vars(setup \/ loop)
PlantFairness   == SF_vars(Warm) /\ SF_vars(Cool)
FairSpec == Spec /\ ProgramFairness /\ PlantFairness /\ SF_vars(PressSelect)

-----------------------------------------------------------------------------
(* Safety                                                                  *)

\* Once the recipe is finished the relay is off: the finish is noticed before the
\* heater controller of the same round, and no later round turns it on again.
FinishedRelayOff == systemState = "FINISH" /\ pc # "heater" => ~relay /\ ~heatingState

\* At most one slot is marked as running (1), the one the program is in, and it
\* alone has a start time; while the recipe runs it is marked, and the slots behind
\* it are untouched.  (Nothing is said of the mark in ST_FINISH, where the last step
\* stays at 1, and of slots in front of the one that was started: the comment at
\* line 39 calls these running and finished.)
OnlyOneRuns ==
  \A i \in Slots :
    /\ systemState = "INIT" \/ i > currentStep => stepStatus[i] = 0
    /\ stepStatus[i] = 1 => i = currentStep
    /\ startTime[i] # 0 => stepStatus[i] = 1
    /\ systemState \in {"RUNNING", "WAIT"} /\ AtRealStep /\ i = currentStep =>
         stepStatus[i] = 1

\* After a round the display belongs to the state of the program and the step it
\* is in, although the prompt of ST_WAIT is drawn once only.
ScreenMatchesState ==
  pc = "request" /\ lastSystemState # "NONE" =>
    /\ lastSystemState = systemState
    /\ lcd = ScreenFor(systemState)

\* With a healthy sensor the mash never gets more than two rounds of heating above
\* the hottest target of the recipe (or where it started): one round the reading
\* is late, one round the decision lasts.
WantedOrFound(bound) ==
  \E t \in {Recipe[i].targetTemp : i \in Slots} \cup StartTemps : bound <= t
OverheatBound == WantedOrFound(mashTemp - 2 * Rise)

-----------------------------------------------------------------------------
(* What a step may do                                                      *)

\* A zero slot is no step, also when the operator has started there.
InStep   == systemState = "RUNNING" /\ AtRealStep /\ pc # "setup"
StepLeft == InStep /\ pc' # "setup" /\ (systemState' # "RUNNING" \/ currentStep' # currentStep)

\* A step with a duration ends no earlier than that many full minutes after its
\* start, however often millis() and the byte runTime have wrapped around.
TimedStepHeldFull ==
  [][StepLeft /\ Recipe[currentStep].duration > 0
       => held >= AtMost(Recipe[currentStep].duration * MinuteTicks, HeldCap)]_vars

\* A step without a duration ends only when the mash itself (not just a reading)
\* has been at its target since the step began (line 36).
StepEndsWhenReached ==
  [][StepLeft /\ Recipe[currentStep].duration = 0 => reached]_vars

\* A step without a duration does not end on the reading of a lost sensor.
BlindStepHolds ==
  [][StepLeft /\ Recipe[currentStep].duration = 0 => tempC # Disconnected]_vars

\* The recipe is worked off slot by slot; a step that is not autoContinue is left
\* from ST_WAIT only, in the input controller (line 37).
StepsInOrder ==
  [][currentStep' # currentStep /\ systemState # "INIT" /\ pc' # "setup"
       => /\ currentStep' = currentStep + 1
          /\ Recipe[currentStep].autoContinue \/ systemState = "WAIT"]_vars

\* A recipe that is started at a real step is at a real step as long as it runs: the
\* zero slot that the comment at line 42 asks for stops it before the table ends,
\* wherever the operator may have browsed before.
StaysInTable ==
  [][AtRealStep /\ (systemState # "INIT" \/ systemState' # "INIT") /\ pc' # "setup"
       => AtRealStep']_vars

-----------------------------------------------------------------------------
(* Progress                                                                *)

\* Every step ends: the program does not stay in ST_RUNNING without the start of a
\* further step (held is 0 there only), neither in a rest of the longest duration that
\* the byte runTime can count nor in a temperature step, whose reading is always late.
StepsEnd == []<>(systemState # "RUNNING" \/ held = 0)

\* What the comment in startStep() promises (line 305): "Check if Recipe is finished
\* and set system state to finished".  It does not hold of a recipe whose last step
\* is confirmed, as that of setup() is: the input controller overwrites ST_FINISH
\* (line 223), and the program waits at the last step again.
RecipeFinishes == <>(systemState = "FINISH")
=============================================================================
