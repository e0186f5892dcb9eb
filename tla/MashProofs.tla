----------------------------- MODULE MashProofs -----------------------------
(***************************************************************************)
(* Theorems about Mash for every recipe, clock and plant.                  *)
(***************************************************************************)
EXTENDS Mash, TLAPS

\* Remainders are what a byte and millis() hold.
LEMMA ModRange ==
  ASSUME NEW n \in Int, NEW m \in Nat \ {0}
  PROVE  n % m \in 0..(m - 1)
  OBVIOUS

LEMMA AtMostRange ==
  ASSUME NEW n \in Nat, NEW cap \in Nat
  PROVE  AtMost(n, cap) \in 0..cap
  BY DEF AtMost

\* Where the mash goes in a round: it stays, or it gets warmer by at most Rise
\* while the relay is on, or it gets colder while it is off.
LEMMA MashMoves ==
  ASSUME mashTemp \in Int, relay \in BOOLEAN, NEW t \in NextMashTemps
  PROVE  t \in Int /\ t <= mashTemp + Rise /\ (~relay => t <= mashTemp)
  BY PlantAssumption DEF NextMashTemps

\* startStep() keeps the types of what it writes.
LEMMA StartStepTypes ==
  ASSUME TypeOK, NEW s \in 0..(ByteMod - 1), NEW end \in BOOLEAN, startStep(s, end)
  PROVE  /\ currentStep' \in 0..(ByteMod - 1)
         /\ stepStatus' \in [Slots -> {0, 1, 3}]
         /\ startTime' \in [Slots -> 0..(ClockMod - 1)]
         /\ held' \in 0..HeldCap /\ reached' \in BOOLEAN
<1>1. CASE systemState = "FINISH" \/ end
  BY <1>1 DEF startStep, TypeOK
<1>2. CASE ~(systemState = "FINISH" \/ end)
  <2>1. currentStep' = s /\ held' = 0 /\ reached' \in BOOLEAN
    BY <1>2 DEF startStep
  <2>2. stepStatus' = StatusAfterStart(s) /\ startTime' = StartTimeAfterStart(s)
    BY <1>2 DEF startStep
  <2>3. StatusAfterStart(s) \in [Slots -> {0, 1, 3}]
    BY DEF StatusAfterStart, TypeOK
  <2>4. StartTimeAfterStart(s) \in [Slots -> 0..(ClockMod - 1)]
    BY ClockAssumption DEF StartTimeAfterStart, TypeOK
  <2> QED BY <2>1, <2>2, <2>3, <2>4, ClockAssumption
<1> QED BY <1>1, <1>2

-----------------------------------------------------------------------------
(* Type correctness                                                        *)

LEMMA StartTypes ==
  /\ NoSteps \in [Slots -> {0, 1, 3}] /\ NoSteps \in [Slots -> 0..(ClockMod - 1)]
  /\ 0 \in 0..(ByteMod - 1) /\ 0 \in 0..(ClockMod - 1)
  /\ 0 \in 0..HeldCap
  /\ Blank \in {"blank", "boot", "init", "status", "finish", "prompt"} \X (0..(ByteMod - 1))
  BY ClockAssumption DEF NoSteps, Blank

LEMMA TypeInit == Init => TypeOK
<1> SUFFICES ASSUME Init PROVE TypeOK
  OBVIOUS
<1>1. stepStatus \in [Slots -> {0, 1, 3}] /\ startTime \in [Slots -> 0..(ClockMod - 1)]
  BY StartTypes DEF Init
<1>2. lcd \in {"blank", "boot", "init", "status", "finish", "prompt"} \X (0..(ByteMod - 1))
  BY StartTypes DEF Init
<1>3. mashTemp \in Int /\ scratchpad \in Int
  BY PlantAssumption DEF Init
<1>4. /\ pc = "setup" /\ systemState = "INIT" /\ lastSystemState = "NONE"
      /\ heatingState \in BOOLEAN /\ relay \in BOOLEAN /\ found \in BOOLEAN
      /\ plugged \in BOOLEAN /\ reached \in BOOLEAN
  BY DEF Init
<1>5. /\ currentRecipe \in 0..(ByteMod - 1) /\ currentStep \in 0..(ByteMod - 1)
      /\ tempC \in Int /\ lastInput \in 0..(ClockMod - 1) /\ clock \in 0..(ClockMod - 1)
      /\ held \in 0..HeldCap
  BY ClockAssumption DEF Init
<1> QED
  BY <1>1, <1>2, <1>3, <1>4, <1>5 DEF TypeOK

LEMMA TypeInput ==
  ASSUME TypeOK, NEW key \in Keys, inputController(key)
  PROVE  TypeOK'
<1>1. CASE Ignore(key)
  BY <1>1 DEF inputController, Ignore, TypeOK, recipeVars, stateVars, heaterVars,
     plantVars, historyVars
<1>2. CASE Browse(key)
  <2>1. /\ currentRecipe' \in 0..(ByteMod - 1) /\ currentStep' \in 0..(ByteMod - 1)
    <3>1. /\ (currentRecipe + 1) % ByteMod \in 0..(ByteMod - 1)
          /\ (currentStep + 1) % ByteMod \in 0..(ByteMod - 1)
      BY ClockAssumption, ModRange DEF TypeOK
    <3>2. /\ key = "DOWN" => currentRecipe - 1 \in 0..(ByteMod - 1)
          /\ key = "LEFT" => currentStep - 1 \in 0..(ByteMod - 1)
      BY <1>2, ClockAssumption DEF Browse, Obeyed, TypeOK
    <3>3. /\ currentRecipe \in 0..(ByteMod - 1) /\ currentStep \in 0..(ByteMod - 1)
      BY DEF TypeOK
    <3> QED BY <1>2, <3>1, <3>2, <3>3 DEF Browse
  <2>2. lastInput' \in 0..(ClockMod - 1)
    BY <1>2, ClockAssumption DEF Browse, TypeOK
  <2> QED
    BY <1>2, <2>1, <2>2 DEF inputController, Browse, TypeOK, heaterVars, plantVars
<1>3. CASE StartRecipe(key)
  <2>1. PICK end \in BOOLEAN : startStep(currentStep, end)
    BY <1>3 DEF StartRecipe, IsEndMarker
  <2>2. currentStep \in 0..(ByteMod - 1)
    BY DEF TypeOK
  <2>3. /\ currentStep' \in 0..(ByteMod - 1)
        /\ stepStatus' \in [Slots -> {0, 1, 3}]
        /\ startTime' \in [Slots -> 0..(ClockMod - 1)]
        /\ held' \in 0..HeldCap /\ reached' \in BOOLEAN
    BY <2>1, <2>2, StartStepTypes
  <2> QED
    BY <1>3, <2>3, ClockAssumption
    DEF inputController, StartRecipe, TypeOK, heaterVars, plantVars, Blank
<1>4. CASE Confirm(key)
  <2>1. PICK end \in BOOLEAN : startStep(NextStep, end)
    BY <1>4 DEF Confirm, IsEndMarker
  <2>2. NextStep \in 0..(ByteMod - 1)
    <3>1. currentStep + 1 \in Int /\ ByteMod \in Nat \ {0}
      BY ClockAssumption DEF TypeOK
    <3>2. (currentStep + 1) % ByteMod \in 0..(ByteMod - 1)
      BY <3>1, ModRange
    <3> QED BY <3>2 DEF NextStep
  <2>3. /\ currentStep' \in 0..(ByteMod - 1)
        /\ stepStatus' \in [Slots -> {0, 1, 3}]
        /\ startTime' \in [Slots -> 0..(ClockMod - 1)]
        /\ held' \in 0..HeldCap /\ reached' \in BOOLEAN
    BY <2>1, <2>2, StartStepTypes
  <2> QED
    BY <1>4, <2>3, ClockAssumption
    DEF inputController, Confirm, TypeOK, heaterVars, plantVars
<1> QED BY <1>1, <1>2, <1>3, <1>4 DEF inputController

LEMMA TypeStepController ==
  ASSUME TypeOK, stepController
  PROVE  TypeOK'
<1>1. CASE UNCHANGED <<recipeVars, held, reached>> /\ systemState' \in {systemState, "WAIT"}
  BY <1>1 DEF stepController, TypeOK, recipeVars, heaterVars, plantVars
<1>2. CASE \E end \in IsEndMarker(NextStep) :
             /\ startStep(NextStep, end) /\ systemState' = StateAfterStart(end)
             /\ UNCHANGED currentRecipe
  <2>1. PICK end \in BOOLEAN :
          startStep(NextStep, end) /\ systemState' = StateAfterStart(end)
    BY <1>2 DEF IsEndMarker
  <2>2. NextStep \in 0..(ByteMod - 1)
    <3>1. currentStep + 1 \in Int /\ ByteMod \in Nat \ {0}
      BY ClockAssumption DEF TypeOK
    <3>2. (currentStep + 1) % ByteMod \in 0..(ByteMod - 1)
      BY <3>1, ModRange
    <3> QED BY <3>2 DEF NextStep
  <2>3. /\ currentStep' \in 0..(ByteMod - 1)
        /\ stepStatus' \in [Slots -> {0, 1, 3}]
        /\ startTime' \in [Slots -> 0..(ClockMod - 1)]
        /\ held' \in 0..HeldCap /\ reached' \in BOOLEAN
    BY <2>1, <2>2, StartStepTypes
  <2>4. systemState' \in {"INIT", "RUNNING", "FINISH", "WAIT"}
    BY <2>1 DEF StateAfterStart, TypeOK
  <2> QED
    BY <1>2, <2>3, <2>4 DEF stepController, TypeOK, heaterVars, plantVars
<1> QED BY <1>1, <1>2 DEF stepController, recipeVars

LEMMA TypeNext ==
  ASSUME TypeOK, [Next]_vars
  PROVE  TypeOK'
<1>1. CASE setup
  <2>1. clock' \in 0..(ClockMod - 1)
    <3>1. clock + BootTicks \in Int /\ ClockMod \in Nat \ {0}
      BY ClockAssumption DEF TypeOK
    <3>2. (clock + BootTicks) % ClockMod \in 0..(ClockMod - 1)
      BY <3>1, ModRange
    <3> QED BY <1>1, <3>2 DEF setup
  <2>2. lcd' \in {"blank", "boot", "init", "status", "finish", "prompt"} \X (0..(ByteMod - 1))
    BY <1>1, StartTypes DEF setup
  <2> QED
    BY <1>1, <2>1, <2>2 DEF setup, TypeOK, recipeVars, stateVars, heaterVars, plantVars
<1>2. CASE requestTemperatures
  <2>1. PICK d \in LoopTicks : /\ clock' = (clock + d) % ClockMod
                               /\ held' = AtMost(held + d, HeldCap)
    BY <1>2 DEF requestTemperatures
  <2>2. d \in Nat /\ ClockMod \in Nat \ {0} /\ HeldCap \in Nat /\ ButtonDelay + 1 \in Nat
    BY ClockAssumption
  <2>3. clock' \in 0..(ClockMod - 1)
    <3>1. clock + d \in Int
      BY <2>2, ClockAssumption DEF TypeOK
    <3>2. (clock + d) % ClockMod \in 0..(ClockMod - 1)
      BY <2>2, <3>1, ModRange
    <3> QED BY <2>1, <3>2
  <2>4. held' \in 0..HeldCap
    <3>1. held + d \in Nat
      BY <2>2, ClockAssumption DEF TypeOK
    <3> QED BY <2>1, <2>2, <3>1, AtMostRange
  <2>5. mashTemp' \in Int /\ scratchpad' \in Int
    BY <1>2, MashMoves DEF requestTemperatures, TypeOK
  <2>6. reached' \in BOOLEAN
    BY <1>2 DEF requestTemperatures, TypeOK
  <2> QED
    BY <1>2, <2>3, <2>4, <2>5, <2>6
    DEF requestTemperatures, TypeOK, recipeVars, stateVars, heaterVars
<1>3. CASE readTemperature
  BY <1>3, PlantAssumption
  DEF readTemperature, getTempC, TypeOK, recipeVars, stateVars, heaterVars, plantVars,
      historyVars
<1>4. CASE stepController
  BY <1>4, TypeStepController
<1>5. CASE heaterController
  <2>1. HeaterOn \in BOOLEAN
    BY DEF HeaterOn, HeatWanted, TypeOK
  <2> QED
    BY <1>5, <2>1 DEF heaterController, TypeOK, recipeVars, stateVars, plantVars, historyVars
<1>6. CASE \E key \in Keys : inputController(key)
  BY <1>6, TypeInput
<1>7. CASE screenController
  <2>1. lcd' \in {"blank", "boot", "init", "status", "finish", "prompt"} \X (0..(ByteMod - 1))
    BY <1>7, ClockAssumption
    DEF screenController, NextScreen, ScreenFor, initScreen, displayStatusScreen,
        waitAtStepEnd, finishScreen, TypeOK
  <2>2. tempC' \in Int
    BY <1>7, PlantAssumption DEF screenController, getTempC, TypeOK
  <2> QED
    BY <1>7, <2>1, <2>2
    DEF screenController, TypeOK, recipeVars, heaterVars, plantVars, historyVars
<1>8. CASE PowerCycle
  <2>1. stepStatus' \in [Slots -> {0, 1, 3}] /\ startTime' \in [Slots -> 0..(ClockMod - 1)]
    BY <1>8, StartTypes DEF PowerCycle
  <2>2. lcd' \in {"blank", "boot", "init", "status", "finish", "prompt"} \X (0..(ByteMod - 1))
    BY <1>8, StartTypes DEF PowerCycle
  <2>3. /\ pc' = "setup" /\ systemState' = "INIT" /\ lastSystemState' = "NONE"
        /\ heatingState' \in BOOLEAN /\ relay' \in BOOLEAN /\ found' \in BOOLEAN
        /\ plugged' \in BOOLEAN /\ reached' \in BOOLEAN
        /\ mashTemp' \in Int /\ scratchpad' \in Int
    BY <1>8, PlantAssumption DEF PowerCycle, TypeOK
  <2>4. /\ currentRecipe' \in 0..(ByteMod - 1) /\ currentStep' \in 0..(ByteMod - 1)
        /\ tempC' \in Int /\ lastInput' \in 0..(ClockMod - 1) /\ clock' \in 0..(ClockMod - 1)
        /\ held' \in 0..HeldCap
    BY <1>8, ClockAssumption DEF PowerCycle
  <2> QED
    BY <2>1, <2>2, <2>3, <2>4 DEF TypeOK
<1>9. CASE Unplug
  BY <1>9 DEF Unplug, TypeOK, recipeVars, stateVars, heaterVars, historyVars
<1>10. CASE Replug
  BY <1>10, PlantAssumption
  DEF Replug, TypeOK, recipeVars, stateVars, heaterVars, historyVars
<1>11. CASE UNCHANGED vars
  BY <1>11 DEF vars, TypeOK, recipeVars, stateVars, heaterVars, plantVars, historyVars
<1> QED
  BY <1>1, <1>2, <1>3, <1>4, <1>5, <1>6, <1>7, <1>8, <1>9, <1>10, <1>11 DEF Next, loop

\* Every variable keeps its type: in particular currentStep stays a byte, and the
\* table holds no status that startStep() does not write.
THEOREM TypeCorrect == Spec => []TypeOK
  <1> QED BY TypeInit, TypeNext, PTL DEF Spec

-----------------------------------------------------------------------------
(* The finished recipe                                                     *)

LEMMA FinishNext ==
  ASSUME TypeOK, FinishedRelayOff, [Next]_vars
  PROVE  FinishedRelayOff'
<1>1. CASE stepController
  BY <1>1 DEF stepController, FinishedRelayOff
<1>2. CASE heaterController
  BY <1>2 DEF heaterController, HeaterOn, FinishedRelayOff, stateVars
<1>3. CASE \E key \in Keys : inputController(key)
  BY <1>3
  DEF inputController, Ignore, Browse, StartRecipe, Confirm, FinishedRelayOff, heaterVars
<1>4. CASE setup \/ requestTemperatures \/ readTemperature \/ Unplug \/ Replug
  BY <1>4
  DEF setup, requestTemperatures, readTemperature, Unplug, Replug, FinishedRelayOff,
      stateVars, heaterVars
<1>5. CASE screenController
  BY <1>5 DEF screenController, FinishedRelayOff, heaterVars
<1>6. CASE PowerCycle
  BY <1>6 DEF PowerCycle, FinishedRelayOff
<1>7. CASE UNCHANGED vars
  BY <1>7 DEF vars, FinishedRelayOff, stateVars, heaterVars
<1> QED
  BY <1>1, <1>2, <1>3, <1>4, <1>5, <1>6, <1>7 DEF Next, loop

\* However the sensor behaves, once the recipe is finished the relay is low from the
\* heater controller of that round on.
THEOREM FinishSafe == Spec => []FinishedRelayOff
<1>1. Init => FinishedRelayOff
  BY DEF Init, FinishedRelayOff
<1> QED
  BY <1>1, TypeCorrect, FinishNext, PTL DEF Spec

-----------------------------------------------------------------------------
(* The bound on the temperature                                            *)

\* Why two rounds: the reading is at most one round of heating behind the mash
\* (from "read" on), so the heater is left on only up to one such round above the
\* target, and then warms for one round more.
HeatInv ==
  /\ plugged /\ (pc # "setup" => found) /\ (pc = "setup" => ~relay)
  /\ pc = "read" => mashTemp <= scratchpad + Rise
  /\ pc \in {"step", "heater"} => mashTemp <= tempC + Rise
  /\ relay /\ pc \in {"input", "screen", "request"} => WantedOrFound(mashTemp - Rise)
  /\ OverheatBound

LEMMA WantedOrFoundMono ==
  ASSUME NEW a \in Int, NEW b \in Int, a <= b, WantedOrFound(b)
  PROVE  WantedOrFound(a)
<1>1. PICK t \in {Recipe[i].targetTemp : i \in Slots} \cup StartTemps : b <= t
  BY DEF WantedOrFound
<1>2. t \in Int
  BY RecipeAssumption, PlantAssumption
<1> QED BY <1>1, <1>2 DEF WantedOrFound

\* A reading from the start or the end of a round is at most Rise behind its end.
LEMMA ReadingBehind ==
  ASSUME NEW before \in Int, NEW after \in Int, after <= before + Rise,
         NEW reading \in {before, after}
  PROVE  after <= reading + Rise
  BY PlantAssumption

LEMMA HeatInit == Init => HeatInv
<1> SUFFICES ASSUME Init PROVE HeatInv
  OBVIOUS
<1>1. mashTemp \in StartTemps /\ mashTemp \in Int /\ Rise \in Nat
  BY PlantAssumption DEF Init
<1>2. WantedOrFound(mashTemp - 2 * Rise)
  BY <1>1 DEF WantedOrFound
<1> QED BY <1>2 DEF Init, HeatInv, OverheatBound

LEMMA HeatNext ==
  ASSUME ~SensorFaults, TypeOK, HeatInv, [Next]_vars
  PROVE  HeatInv'
<1> USE PlantAssumption
<1> mashTemp \in Int /\ scratchpad \in Int /\ tempC \in Int /\ relay \in BOOLEAN /\ Rise \in Nat
  BY DEF TypeOK
<1>1. CASE setup
  BY <1>1 DEF setup, HeatInv, OverheatBound, WantedOrFound, heaterVars, plantVars
<1>2. CASE requestTemperatures
  <2>1. /\ mashTemp' \in Int /\ mashTemp' <= mashTemp + Rise
        /\ ~relay => mashTemp' <= mashTemp
    BY <1>2, MashMoves DEF requestTemperatures
  <2>2. scratchpad' \in {mashTemp, mashTemp'}
    BY <1>2 DEF requestTemperatures, HeatInv
  <2>3. WantedOrFound(mashTemp' - 2 * Rise)
    <3>1. CASE relay
      <4>1. WantedOrFound(mashTemp - Rise)
        BY <1>2, <3>1 DEF requestTemperatures, HeatInv
      <4> QED
        BY <2>1, <4>1, WantedOrFoundMono
    <3>2. CASE ~relay
      <4>1. WantedOrFound(mashTemp - 2 * Rise)
        BY DEF HeatInv, OverheatBound
      <4> QED
        BY <2>1, <3>2, <4>1, WantedOrFoundMono
    <3> QED BY <3>1, <3>2
  <2>4. OverheatBound'
    BY <2>3 DEF OverheatBound, WantedOrFound
  <2>5. mashTemp' <= scratchpad' + Rise
    BY <2>1, <2>2, ReadingBehind
  <2>6. pc' = "read" /\ plugged' /\ found'
    BY <1>2 DEF requestTemperatures, HeatInv
  <2> QED
    BY <2>4, <2>5, <2>6 DEF HeatInv
<1>3. CASE readTemperature
  BY <1>3
  DEF readTemperature, getTempC, HeatInv, OverheatBound, WantedOrFound, heaterVars, plantVars
<1>4. CASE stepController
  BY <1>4 DEF stepController, HeatInv, OverheatBound, WantedOrFound, heaterVars, plantVars
<1>5. CASE heaterController
  <2>1. relay' => WantedOrFound(mashTemp - Rise)
    <3>1. ASSUME relay' PROVE CurrentTarget >= tempC
      <4>1. CurrentTarget \in Int
        BY <1>5, RecipeAssumption DEF heaterController, InTable, CurrentTarget
      <4>2. HeaterOn
        BY <1>5, <3>1 DEF heaterController
      <4>3. ~(CurrentTarget < tempC)
        BY <4>2 DEF HeaterOn, HeatWanted
      <4> QED BY <4>1, <4>3
    <3>2. CurrentTarget \in {Recipe[i].targetTemp : i \in Slots} /\ CurrentTarget \in Int
      BY <1>5, RecipeAssumption DEF heaterController, InTable, CurrentTarget
    <3>3. mashTemp - Rise <= tempC
      BY <1>5 DEF heaterController, HeatInv
    <3>4. WantedOrFound(CurrentTarget)
      BY <3>2 DEF WantedOrFound
    <3>5. ASSUME relay' PROVE mashTemp - Rise <= CurrentTarget
      BY <3>1, <3>2, <3>3, <3>5
    <3> QED
      BY <3>2, <3>4, <3>5, WantedOrFoundMono
  <2> QED
    BY <1>5, <2>1 DEF heaterController, HeatInv, OverheatBound, WantedOrFound, plantVars
<1>6. CASE \E key \in Keys : inputController(key)
  BY <1>6
  DEF inputController, HeatInv, OverheatBound, WantedOrFound, heaterVars, plantVars
<1>7. CASE screenController
  BY <1>7
  DEF screenController, HeatInv, OverheatBound, WantedOrFound, heaterVars, plantVars
<1>8. CASE PowerCycle
  BY <1>8 DEF PowerCycle, HeatInv, OverheatBound, WantedOrFound
<1>9. CASE Unplug \/ Replug
  BY <1>9 DEF Unplug, Replug, HeatInv
<1>10. CASE UNCHANGED vars
  BY <1>10 DEF vars, HeatInv, OverheatBound, WantedOrFound, heaterVars, plantVars
<1> QED
  BY <1>1, <1>2, <1>3, <1>4, <1>5, <1>6, <1>7, <1>8, <1>9, <1>10 DEF Next, loop

\* While the sensor keeps its contact the mash never gets hotter than the hottest
\* target of the recipe (or than it was found) plus two rounds of heating,
\* whichever step the operator selects and however often the power fails.
THEOREM OverheatSafe ==
  ASSUME ~SensorFaults
  PROVE  Spec => []OverheatBound
<1>1. HeatInv => OverheatBound
  BY DEF HeatInv
<1>2. TypeOK /\ HeatInv /\ [Next]_vars => HeatInv'
  BY HeatNext
<1> QED
  BY <1>1, <1>2, HeatInit, TypeCorrect, PTL DEF Spec

-----------------------------------------------------------------------------
(* Progress through the recipe table                                       *)

\* A recipe as setup() writes it: the last slot is the zero record, and a byte can
\* count one slot more.  The operator may browse wherever he likes.
WellFormed == LastSlot + 1 < ByteMod /\ Recipe[LastSlot].recipe = 0

\* The input controller runs after the heater controller of the same round, which
\* has used the current slot.
InputInTable == pc = "input" => InTable

LEMMA InputInTableSafe == Spec => []InputInTable
<1>1. Init => InputInTable
  BY DEF Init, InputInTable
<1>2. ASSUME InputInTable, [Next]_vars PROVE InputInTable'
  <2>1. CASE heaterController \/ Unplug \/ Replug \/ UNCHANGED vars
    BY <1>2, <2>1
    DEF heaterController, Unplug, Replug, vars, InputInTable, InTable, recipeVars
  <2>2. CASE ~(heaterController \/ Unplug \/ Replug \/ UNCHANGED vars)
    <3>1. pc' # "input"
      BY <1>2, <2>2
      DEF Next, loop, setup, requestTemperatures, readTemperature, stepController,
          inputController, screenController, PowerCycle
    <3> QED BY <3>1 DEF InputInTable
  <2> QED BY <2>1, <2>2
<1> QED BY <1>1, <1>2, PTL DEF Spec

\* In the table NextStep does not wrap.
LEMMA NextStepCounts ==
  ASSUME WellFormed, TypeOK, InTable
  PROVE  NextStep = currentStep + 1 /\ NextStep \in 0..(LastSlot + 1)
<1>1. currentStep \in 0..LastSlot /\ LastSlot \in Nat
  BY RecipeAssumption DEF InTable, Slots
<1>2. currentStep + 1 \in 0..(ByteMod - 1)
  BY <1>1, ClockAssumption DEF WellFormed
<1>3. ASSUME NEW n \in 0..(ByteMod - 1) PROVE n % ByteMod = n
  BY <1>3, ClockAssumption
<1> QED BY <1>1, <1>2, <1>3 DEF NextStep

\* From a real step it leads to a slot of the table.
LEMMA NextStepInTable ==
  ASSUME WellFormed, TypeOK, AtRealStep
  PROVE  NextStep = currentStep + 1 /\ NextStep \in Slots
<1>1. currentStep \in 0..LastSlot /\ currentStep # LastSlot /\ LastSlot \in Nat
  BY RecipeAssumption DEF AtRealStep, InTable, Slots, WellFormed
<1> QED BY <1>1, NextStepCounts DEF AtRealStep, Slots

\* Which steps move the current step: the step controller and Select go on to
\* NextStep, Select in ST_INIT starts where the operator has browsed to.
LEMMA MovesByStart ==
  ASSUME InputInTable, Next, pc' # "setup",
         systemState # "INIT" \/ systemState' # "INIT",
         UNCHANGED <<currentRecipe, currentStep>> => FALSE
  PROVE  /\ InTable /\ currentRecipe' = currentRecipe /\ currentStep' = NextStep
         /\ systemState # "INIT"
         /\ FALSE \in IsEndMarker(NextStep)
         /\ Recipe[currentStep].autoContinue \/ systemState = "WAIT"
<1>1. CASE stepController
  <2>1. PICK end \in IsEndMarker(NextStep) : startStep(NextStep, end)
    BY <1>1 DEF stepController, recipeVars
  <2>2. ~end /\ currentStep' = NextStep
    BY <1>1, <2>1 DEF startStep, stepController, recipeVars
  <2>3. end \in BOOLEAN
    BY <2>1 DEF IsEndMarker
  <2> QED BY <1>1, <2>1, <2>2, <2>3 DEF stepController, recipeVars
<1>2. CASE \E key \in Keys : inputController(key)
  <2>1. PICK key \in Keys : inputController(key)
    BY <1>2
  <2>2. ~Ignore(key)
    BY DEF Ignore, recipeVars
  <2>3. ~Browse(key)
    BY DEF Browse, Obeyed
  <2>4. ~StartRecipe(key)
    BY DEF StartRecipe, startStep
  <2>5. Confirm(key)
    BY <2>1, <2>2, <2>3, <2>4 DEF inputController
  <2>6. PICK end \in IsEndMarker(NextStep) : startStep(NextStep, end)
    BY <2>5 DEF Confirm
  <2>7. ~end /\ currentStep' = NextStep
    BY <2>5, <2>6 DEF startStep, Confirm
  <2>8. end \in BOOLEAN
    BY <2>6 DEF IsEndMarker
  <2> QED BY <2>1, <2>5, <2>6, <2>7, <2>8 DEF Confirm, Obeyed, inputController, InputInTable
<1>3. ~(setup \/ requestTemperatures \/ readTemperature \/ heaterController
         \/ screenController \/ PowerCycle \/ Unplug \/ Replug)
  BY DEF setup, requestTemperatures, readTemperature, heaterController, screenController,
     PowerCycle, Unplug, Replug, recipeVars
<1> QED BY <1>1, <1>2, <1>3 DEF Next, loop

\* One zero slot at the end is enough: a recipe that runs at a real step never gets
\* out of the table, nor to a zero slot.
THEOREM TableSafe ==
  ASSUME WellFormed
  PROVE  Spec => StaysInTable
<1>1. ASSUME TypeOK, InputInTable, Next, AtRealStep, pc' # "setup",
             systemState # "INIT" \/ systemState' # "INIT"
      PROVE  AtRealStep'
  <2>1. CASE UNCHANGED <<currentRecipe, currentStep>>
    BY <1>1, <2>1 DEF AtRealStep, InTable
  <2>2. CASE ~UNCHANGED <<currentRecipe, currentStep>>
    <3>1. /\ currentRecipe' = currentRecipe /\ currentStep' = NextStep
          /\ FALSE \in IsEndMarker(NextStep)
      BY <1>1, <2>2, MovesByStart
    <3>2. NextStep \in Slots /\ currentRecipe = 0
      BY <1>1, NextStepInTable DEF AtRealStep, InTable
    <3>3. Recipe[NextStep].recipe # 0
      BY <3>1, <3>2 DEF IsEndMarker
    <3> QED BY <3>1, <3>2, <3>3 DEF AtRealStep, InTable
  <2> QED BY <2>1, <2>2
<1>2. TypeOK /\ InputInTable /\ [Next]_vars =>
        [AtRealStep /\ (systemState # "INIT" \/ systemState' # "INIT") /\ pc' # "setup"
           => AtRealStep']_vars
  BY <1>1
<1> QED BY <1>2, TypeCorrect, InputInTableSafe, PTL DEF Spec, StaysInTable

\* The steps are worked off slot by slot, none is skipped or repeated, and a step
\* that needs the operator is left from ST_WAIT only.
THEOREM OrderSafe ==
  ASSUME WellFormed
  PROVE  Spec => StepsInOrder
<1>1. ASSUME TypeOK, InputInTable, Next,
             currentStep' # currentStep, systemState # "INIT", pc' # "setup"
      PROVE  /\ currentStep' = currentStep + 1
             /\ Recipe[currentStep].autoContinue \/ systemState = "WAIT"
  <2>1. /\ InTable /\ currentStep' = NextStep
        /\ Recipe[currentStep].autoContinue \/ systemState = "WAIT"
    BY <1>1, MovesByStart
  <2> QED BY <1>1, <2>1, NextStepCounts
<1>2. TypeOK /\ InputInTable /\ [Next]_vars =>
        [currentStep' # currentStep /\ systemState # "INIT" /\ pc' # "setup"
           => /\ currentStep' = currentStep + 1
              /\ Recipe[currentStep].autoContinue \/ systemState = "WAIT"]_vars
  BY <1>1
<1> QED BY <1>2, TypeCorrect, InputInTableSafe, PTL DEF Spec, StepsInOrder

-----------------------------------------------------------------------------
(* The marks in the table                                                  *)

recipeState == <<systemState, currentRecipe, currentStep, stepStatus, startTime>>

LEMMA MarksUnchanged ==
  ASSUME OnlyOneRuns, UNCHANGED recipeState
  PROVE  OnlyOneRuns'
  BY DEF OnlyOneRuns, recipeState, AtRealStep, InTable

\* What a startStep(s) that does start s makes of the marks: the slots behind s were
\* untouched before, because s is the current step or the one after it.
LEMMA MarksStarted ==
  ASSUME TypeOK, OnlyOneRuns, NEW s \in Nat,
         \A i \in Slots : i > s => stepStatus[i] = 0,
         currentStep' = s, systemState' # "INIT",
         stepStatus' = StatusAfterStart(s), startTime' = StartTimeAfterStart(s)
  PROVE  OnlyOneRuns'
<1> SUFFICES ASSUME NEW i \in Slots
    PROVE /\ i > s => stepStatus'[i] = 0
          /\ stepStatus'[i] = 1 => i = s
          /\ startTime'[i] # 0 => stepStatus'[i] = 1
          /\ i = s => stepStatus'[i] = 1
  BY DEF OnlyOneRuns
<1>1. stepStatus'[i] = IF i < s THEN 3 ELSE IF i = s THEN 1 ELSE stepStatus[i]
  BY DEF StatusAfterStart
<1>2. startTime'[i] = IF i < s THEN 0 ELSE IF i = s THEN clock ELSE startTime[i]
  BY DEF StartTimeAfterStart
<1>3. i > s => stepStatus[i] = 0 /\ startTime[i] = 0
  BY DEF OnlyOneRuns
<1>4. i \in Nat
  BY RecipeAssumption DEF Slots
<1> QED BY <1>1, <1>2, <1>3, <1>4

\* The same for the step after the current one.
LEMMA MarksAdvance ==
  ASSUME WellFormed, TypeOK, OnlyOneRuns, InTable, systemState' # "INIT",
         currentStep' = NextStep,
         stepStatus' = StatusAfterStart(NextStep),
         startTime' = StartTimeAfterStart(NextStep)
  PROVE  OnlyOneRuns'
<1>1. NextStep = currentStep + 1 /\ NextStep \in Nat /\ currentStep \in Nat
  BY NextStepCounts, RecipeAssumption DEF TypeOK
<1>2. \A i \in Slots : i \in Nat
  BY RecipeAssumption DEF Slots
<1>3. \A i \in Slots : i > NextStep => stepStatus[i] = 0
  BY <1>1, <1>2 DEF OnlyOneRuns
<1> QED BY <1>1, <1>3, MarksStarted

LEMMA MarksInput ==
  ASSUME WellFormed, TypeOK, InputInTable, OnlyOneRuns,
         NEW key \in Keys, inputController(key)
  PROVE  OnlyOneRuns'
<1>0. InTable
  BY DEF inputController, InputInTable
<1>1. CASE Ignore(key)
  BY <1>1, MarksUnchanged DEF Ignore, recipeVars, recipeState
<1>2. CASE Browse(key)
  BY <1>2 DEF Browse, Obeyed, OnlyOneRuns
<1>3. CASE StartRecipe(key)
  <2>1. /\ systemState = "INIT" /\ systemState' = "RUNNING" /\ currentRecipe' = currentRecipe
        /\ startStep(currentStep, Recipe[currentStep].recipe = 0)
    BY <1>0, <1>3 DEF StartRecipe, IsEndMarker, InTable
  <2>2. CASE Recipe[currentStep].recipe = 0
    <3>1. UNCHANGED <<currentStep, stepStatus, startTime>>
      BY <2>1, <2>2 DEF startStep
    <3>2. ~AtRealStep'
      BY <2>1, <2>2, <3>1 DEF AtRealStep
    <3> QED BY <2>1, <3>1, <3>2 DEF OnlyOneRuns
  <2>3. CASE Recipe[currentStep].recipe # 0
    <3>1. /\ currentStep' = currentStep /\ stepStatus' = StatusAfterStart(currentStep)
          /\ startTime' = StartTimeAfterStart(currentStep)
      BY <2>1, <2>3 DEF startStep
    <3>2. currentStep \in Nat /\ \A i \in Slots : stepStatus[i] = 0
      BY <2>1, ClockAssumption DEF OnlyOneRuns, TypeOK
    <3> QED BY <2>1, <3>1, <3>2, MarksStarted
  <2> QED BY <2>2, <2>3
<1>4. CASE Confirm(key)
  <2>1. /\ systemState = "WAIT" /\ systemState' = "RUNNING" /\ currentRecipe' = currentRecipe
    BY <1>4 DEF Confirm
  <2>2. PICK end \in BOOLEAN : startStep(NextStep, end)
    BY <1>4 DEF Confirm, IsEndMarker
  <2>3. CASE end
    <3>1. UNCHANGED <<currentStep, stepStatus, startTime>>
      BY <2>2, <2>3 DEF startStep
    <3> QED BY <2>1, <3>1 DEF OnlyOneRuns, AtRealStep, InTable
  <2>4. CASE ~end
    <3>1. /\ currentStep' = NextStep /\ stepStatus' = StatusAfterStart(NextStep)
          /\ startTime' = StartTimeAfterStart(NextStep)
      BY <2>1, <2>2, <2>4 DEF startStep
    <3> QED BY <1>0, <2>1, <3>1, MarksAdvance
  <2> QED BY <2>3, <2>4
<1> QED BY <1>1, <1>2, <1>3, <1>4 DEF inputController

LEMMA MarksStepController ==
  ASSUME WellFormed, TypeOK, OnlyOneRuns, stepController
  PROVE  OnlyOneRuns'
<1>1. CASE UNCHANGED <<recipeVars, systemState>>
  BY <1>1, MarksUnchanged DEF recipeVars, recipeState
<1>2. CASE /\ systemState \notin {"FINISH", "INIT"} /\ systemState' = "WAIT"
           /\ UNCHANGED recipeVars
  <2>1. systemState \in {"RUNNING", "WAIT"}
    BY <1>2 DEF TypeOK
  <2> QED BY <1>2, <2>1 DEF OnlyOneRuns, AtRealStep, InTable, recipeVars
<1>3. ASSUME systemState \notin {"FINISH", "INIT"}, NEW end \in IsEndMarker(NextStep),
             startStep(NextStep, end), systemState' = StateAfterStart(end),
             currentRecipe' = currentRecipe
      PROVE  OnlyOneRuns'
  <2>1. end \in BOOLEAN
    BY DEF IsEndMarker
  <2>2. CASE end
    <3>1. systemState' = "FINISH" /\ UNCHANGED <<currentStep, stepStatus, startTime>>
      BY <1>3, <2>2 DEF startStep, StateAfterStart
    <3> QED BY <1>3, <3>1 DEF OnlyOneRuns
  <2>3. CASE ~end
    <3>1. /\ currentStep' = NextStep /\ stepStatus' = StatusAfterStart(NextStep)
          /\ startTime' = StartTimeAfterStart(NextStep) /\ systemState' = systemState
      BY <1>3, <2>3 DEF startStep, StateAfterStart
    <3> QED BY <1>3, <3>1, MarksAdvance DEF stepController
  <2> QED BY <2>1, <2>2, <2>3
<1> QED
  BY <1>1, <1>2, <1>3 DEF stepController

LEMMA MarksNext ==
  ASSUME WellFormed, TypeOK, InputInTable, OnlyOneRuns, [Next]_vars
  PROVE  OnlyOneRuns'
<1>1. CASE stepController
  BY <1>1, MarksStepController
<1>2. CASE \E key \in Keys : inputController(key)
  BY <1>2, MarksInput
<1>3. CASE PowerCycle
  BY <1>3 DEF PowerCycle, NoSteps, OnlyOneRuns
<1>4. CASE \/ setup \/ requestTemperatures \/ readTemperature \/ heaterController
           \/ screenController \/ Unplug \/ Replug \/ UNCHANGED vars
  <2>1. UNCHANGED recipeState
    BY <1>4
    DEF setup, requestTemperatures, readTemperature, heaterController, screenController,
        Unplug, Replug, vars, recipeVars, stateVars, recipeState
  <2> QED BY <2>1, MarksUnchanged
<1> QED BY <1>1, <1>2, <1>3, <1>4 DEF Next, loop

\* At most one slot is marked as running, the one the program is in, and it alone
\* has a start time: also when the operator started in the middle, when he started at
\* a zero slot, and after a power failure.
THEOREM StatusSafe ==
  ASSUME WellFormed
  PROVE  Spec => []OnlyOneRuns
<1>1. Init => OnlyOneRuns
  BY DEF Init, NoSteps, OnlyOneRuns
<1>2. TypeOK /\ InputInTable /\ OnlyOneRuns /\ [Next]_vars => OnlyOneRuns'
  BY MarksNext
<1> QED BY <1>1, <1>2, TypeCorrect, InputInTableSafe, PTL DEF Spec

-----------------------------------------------------------------------------
(* Readings of a lost sensor                                               *)

\* As long as no step asks for a temperature as low as that of a disconnected sensor,
\* a step without a duration never ends on it.
THEOREM BlindStepSafe ==
  ASSUME \A i \in Slots : Recipe[i].targetTemp > Disconnected
  PROVE  Spec => BlindStepHolds
<1>1. ASSUME [Next]_vars
      PROVE  [StepLeft /\ Recipe[currentStep].duration = 0 => tempC # Disconnected]_vars
  <2> SUFFICES ASSUME Next, StepLeft, Recipe[currentStep].duration = 0
      PROVE  tempC # Disconnected
    BY <1>1
  <2>1. systemState = "RUNNING" /\ pc' # "setup"
        /\ (systemState' # "RUNNING" \/ currentStep' # currentStep)
    BY DEF StepLeft, InStep
  <2>2. CASE stepController
    <3>1. StepOver /\ InTable
      BY <2>1, <2>2 DEF stepController, recipeVars
    <3>2. tempC >= Recipe[currentStep].targetTemp /\ currentStep \in Slots
      BY <3>1 DEF StepOver, CurrentTarget, InTable
    <3>3. Recipe[currentStep].targetTemp > Disconnected /\ Disconnected \in Int
          /\ Recipe[currentStep].targetTemp \in Int
      BY <3>2, RecipeAssumption, PlantAssumption
    <3> QED BY <3>2, <3>3
  <2>3. ~(\E key \in Keys : inputController(key))
    BY <2>1
    DEF inputController, Ignore, Browse, StartRecipe, Confirm, Obeyed, recipeVars
  <2>4. ~(setup \/ requestTemperatures \/ readTemperature \/ heaterController
           \/ screenController \/ PowerCycle \/ Unplug \/ Replug)
    BY <2>1
    DEF setup, requestTemperatures, readTemperature, heaterController, screenController,
        PowerCycle, Unplug, Replug, recipeVars, stateVars
  <2> QED BY <2>2, <2>3, <2>4 DEF Next, loop
<1> QED BY <1>1, PTL DEF Spec, BlindStepHolds

-----------------------------------------------------------------------------
(* The screen                                                              *)

\* The prompt is on the display from the round on that has drawn it until ST_WAIT is
\* left, because only steps that are not autoContinue are waited at, and these are not
\* left by the step controller.
ScreenInv ==
  /\ pc = "setup" => lastSystemState = "NONE"
  /\ systemState = "WAIT" => ~Recipe[currentStep].autoContinue
  /\ pc \in {"request", "read", "step"} /\ lastSystemState # "NONE" =>
       lastSystemState = systemState /\ lcd = ScreenFor(systemState)
  /\ pc \in {"heater", "input", "screen"} /\ lastSystemState = "WAIT" /\ systemState = "WAIT" =>
       lcd = ScreenFor("WAIT")

LEMMA ScreenNext ==
  ASSUME TypeOK, ScreenInv, [Next]_vars
  PROVE  ScreenInv'
<1> USE DEF ScreenInv, ScreenFor, initScreen, displayStatusScreen, waitAtStepEnd, finishScreen
<1>1. CASE setup
  BY <1>1 DEF setup, recipeVars, stateVars
<1>2. CASE requestTemperatures
  BY <1>2 DEF requestTemperatures, recipeVars, stateVars
<1>3. CASE readTemperature
  BY <1>3 DEF readTemperature, recipeVars, stateVars
<1>4. CASE stepController
  <2>1. CASE \E end \in IsEndMarker(NextStep) :
               startStep(NextStep, end) /\ systemState' = StateAfterStart(end)
    <3>1. CASE systemState = "WAIT"
      BY <1>4, <2>1, <3>1 DEF stepController, recipeVars
    <3>2. CASE systemState # "WAIT"
      BY <1>4, <2>1, <3>2 DEF stepController, StateAfterStart, recipeVars
    <3> QED BY <3>1, <3>2
  <2>2. CASE systemState' = "WAIT" /\ UNCHANGED recipeVars /\ ~Recipe[currentStep].autoContinue
    BY <1>4, <2>2 DEF stepController, recipeVars
  <2>3. CASE UNCHANGED <<recipeVars, systemState>>
    BY <1>4, <2>3 DEF stepController, recipeVars
  <2> QED BY <1>4, <2>1, <2>2, <2>3 DEF stepController
<1>5. CASE heaterController
  BY <1>5 DEF heaterController, recipeVars, stateVars
<1>6. CASE \E key \in Keys : inputController(key)
  BY <1>6
  DEF inputController, Ignore, Browse, StartRecipe, Confirm, Obeyed, recipeVars
<1>7. CASE screenController
  BY <1>7 DEF screenController, NextScreen, recipeVars, TypeOK
<1>8. CASE PowerCycle
  BY <1>8 DEF PowerCycle
<1>9. CASE Unplug \/ Replug
  BY <1>9 DEF Unplug, Replug, recipeVars, stateVars
<1>10. CASE UNCHANGED vars
  BY <1>10 DEF vars, recipeVars, stateVars
<1> QED
  BY <1>1, <1>2, <1>3, <1>4, <1>5, <1>6, <1>7, <1>8, <1>9, <1>10 DEF Next, loop

\* After every round the display shows the state that the program is in and its step.
THEOREM ScreenSafe == Spec => []ScreenMatchesState
<1>1. Init => ScreenInv
  BY DEF Init, ScreenInv
<1>2. ScreenInv => ScreenMatchesState
  BY DEF ScreenInv, ScreenMatchesState
<1> QED BY <1>1, <1>2, ScreenNext, TypeCorrect, PTL DEF Spec

-----------------------------------------------------------------------------
(* The time that a step is held                                            *)

LEMMA Division ==
  ASSUME NEW n \in Nat, NEW m \in Nat \ {0}
  PROVE  /\ n = m * (n \div m) + (n % m) /\ n % m \in 0..(m - 1) /\ n \div m \in Nat
         /\ n % m <= n
         /\ n >= m => n % m <= n - m
<1>1. n = m * (n \div m) + (n % m) /\ n % m \in 0..(m - 1) /\ n \div m \in Nat
  OBVIOUS
<1>2. \A q \in Nat : m * q \in Nat /\ (q >= 1 => m * q >= m)
  OBVIOUS
<1>3. n % m <= n
  BY <1>1, <1>2
<1>4. ASSUME n >= m PROVE n \div m >= 1
  <2>1. n \div m = 0 => m * (n \div m) = 0
    OBVIOUS
  <2> QED BY <1>1, <1>4, <2>1
<1> QED BY <1>1, <1>2, <1>3, <1>4

LEMMA Remainder ==
  ASSUME NEW n \in Nat, NEW m \in Nat \ {0}
  PROVE  n % m \in 0..(m - 1) /\ n % m <= n /\ (n >= m => n % m <= n - m)
  BY Division

LEMMA Multiples ==
  ASSUME NEW m \in Nat, NEW a \in Nat, NEW b \in Nat, a <= b
  PROVE  m * a <= m * b /\ m * a = a * m /\ m * a \in Nat
  OBVIOUS

LEMMA ModDifference ==
  ASSUME NEW m \in Nat \ {0}, NEW a \in 0..(m - 1), NEW b \in 0..(m - 1)
  PROVE  (a - b) % m = IF a - b >= 0 THEN a - b ELSE a - b + m
<1> DEFINE d == a - b
<1>1. d \in (-m)..(m - 1) /\ d # -m
  OBVIOUS
<1>2. d = (m * (d \div m)) + (d % m) /\ d % m \in 0..(m - 1) /\ d \div m \in Int
  OBVIOUS
<1>3. \A q \in Int : /\ q >= 1 => m * q >= m
                     /\ q <= -2 => m * q <= -m - m
                     /\ q = 0 => m * q = 0
                     /\ q = -1 => m * q = -m
  OBVIOUS
<1>4. CASE d >= 0
  <2>1. d \div m = 0
    BY <1>1, <1>2, <1>3, <1>4
  <2> QED BY <1>2, <1>3, <1>4, <2>1
<1>5. CASE d < 0
  <2>1. d \div m = -1
    BY <1>1, <1>2, <1>3, <1>5
  <2> QED BY <1>2, <1>3, <1>5, <2>1
<1> QED BY <1>1, <1>4, <1>5

\* A difference of two readings of millis() grows by no more than the time that goes by.
LEMMA ClockGrows ==
  ASSUME NEW m \in Nat \ {0}, NEW c \in 0..(m - 1), NEW s \in 0..(m - 1), NEW d \in Nat
  PROVE  (((c + d) % m) - s) % m <= ((c - s) % m) + d
<1> DEFINE n == c + d
           r == n % m
<1>0. n \in Nat
  OBVIOUS
<1> HIDE DEF n
<1>1. r \in 0..(m - 1) /\ r <= n /\ (n >= m => r <= n - m)
  BY <1>0, Remainder, Zenon
<1>2. n < m => r = n
  BY <1>0
<1>3. (r - s) % m = IF r - s >= 0 THEN r - s ELSE r - s + m
  BY <1>1, ModDifference
<1>4. (c - s) % m = IF c - s >= 0 THEN c - s ELSE c - s + m
  BY ModDifference
<1> HIDE DEF r
<1>5. n = c + d
  BY DEF n
<1>6. (r - s) % m <= ((c - s) % m) + d
  <2>1. CASE n < m
    BY <1>1, <1>2, <1>3, <1>4, <1>5, <2>1
  <2>2. CASE n >= m
    BY <1>0, <1>1, <1>3, <1>4, <1>5, <2>2
  <2> QED BY <1>0, <2>1, <2>2
<1> QED BY <1>6 DEF n, r

\* As long as held counts, millis() tells no more time since the start of the step than
\* has gone by: it may have wrapped, and then it tells less.
HeldInv ==
  /\ pc = "setup" => systemState = "INIT"
  /\ systemState \in {"RUNNING", "WAIT"} /\ AtRealStep /\ held < HeldCap =>
       (clock - startTime[currentStep]) % ClockMod <= held

\* A startStep(s) notes the time, or the program stays at the step it waits at, or it
\* finishes, or it is at a zero slot.
LEMMA HeldStart ==
  ASSUME TypeOK, NEW s, NEW end \in BOOLEAN, systemState # "FINISH",
         end => systemState = "WAIT" \/ systemState' = "FINISH" \/ ~AtRealStep',
         startStep(s, end), clock' = clock, currentRecipe' = currentRecipe,
         pc' # "setup", HeldInv
  PROVE  HeldInv'
<1>1. CASE end
  BY <1>1 DEF startStep, HeldInv, AtRealStep, InTable
<1>2. CASE ~end
  <2>1. currentStep' = s /\ startTime' = StartTimeAfterStart(s) /\ held' = 0
    BY <1>2 DEF startStep
  <2>2. AtRealStep' => startTime'[s] = clock
    <3>1. AtRealStep' => s \in Slots
      BY <2>1 DEF AtRealStep, InTable
    <3> QED BY <2>1, <3>1, RecipeAssumption DEF StartTimeAfterStart, Slots
  <2>3. clock - clock = 0 /\ 0 % ClockMod = 0
    BY ClockAssumption DEF TypeOK
  <2> QED BY <2>1, <2>2, <2>3 DEF HeldInv
<1> QED BY <1>1, <1>2

LEMMA HeldNext ==
  ASSUME TypeOK, InputInTable, HeldInv, [Next]_vars
  PROVE  HeldInv'
<1>1. CASE setup
  BY <1>1 DEF setup, HeldInv, stateVars, TypeOK
<1>2. CASE requestTemperatures
  <2> SUFFICES ASSUME systemState \in {"RUNNING", "WAIT"}, AtRealStep, held' < HeldCap
      PROVE (clock' - startTime[currentStep]) % ClockMod <= held'
    BY <1>2, Zenon
    DEF requestTemperatures, HeldInv, recipeVars, stateVars, AtRealStep, InTable
  <2>1. PICK d \in LoopTicks : /\ clock' = (clock + d) % ClockMod
                               /\ held' = AtMost(held + d, HeldCap)
    BY <1>2 DEF requestTemperatures
  <2>2. d \in Nat /\ HeldCap \in Nat /\ held \in Nat /\ ClockMod \in Nat \ {0}
    BY ClockAssumption DEF TypeOK
  <2>3. held' = held + d /\ held < HeldCap
    BY <2>1, <2>2 DEF AtMost
  <2>4. clock \in 0..(ClockMod - 1) /\ startTime[currentStep] \in 0..(ClockMod - 1)
    BY DEF TypeOK, AtRealStep, InTable
  <2>5. (clock' - startTime[currentStep]) % ClockMod
          <= ((clock - startTime[currentStep]) % ClockMod) + d
    BY <2>1, <2>2, <2>4, ClockGrows
  <2>6. (clock - startTime[currentStep]) % ClockMod <= held
    BY <2>3 DEF HeldInv
  <2>7. /\ (clock' - startTime[currentStep]) % ClockMod \in Int
        /\ (clock - startTime[currentStep]) % ClockMod \in Int
    <3>1. clock' \in Int
      BY <2>1, <2>2, <2>4
    <3> QED BY <3>1, <2>2, <2>4
  <2> QED BY <2>2, <2>3, <2>5, <2>6, <2>7
<1>3. CASE stepController
  <2>1. CASE UNCHANGED <<recipeVars, held>> /\ (systemState' = systemState
                \/ (systemState' = "WAIT" /\ systemState \notin {"FINISH", "INIT"}))
    BY <1>3, <2>1 DEF stepController, HeldInv, recipeVars, TypeOK, AtRealStep, InTable
  <2>2. CASE /\ systemState \notin {"FINISH", "INIT"}
             /\ \E end \in IsEndMarker(NextStep) :
                  startStep(NextStep, end) /\ systemState' = StateAfterStart(end)
             /\ UNCHANGED currentRecipe
    <3>1. PICK end \in BOOLEAN :
            startStep(NextStep, end) /\ systemState' = StateAfterStart(end)
      BY <2>2 DEF IsEndMarker
    <3>2. clock' = clock /\ pc' # "setup" /\ (end => systemState' = "FINISH")
      BY <1>3, <3>1 DEF stepController, StateAfterStart
    <3> QED BY <2>2, <3>1, <3>2, HeldStart
  <2> QED BY <1>3, <2>1, <2>2 DEF stepController
<1>4. CASE \E key \in Keys : inputController(key)
  <2>1. PICK key \in Keys : inputController(key)
    BY <1>4
  <2>2. CASE Ignore(key) \/ Browse(key)
    BY <2>1, <2>2
    DEF inputController, Ignore, Browse, Obeyed, HeldInv, recipeVars, historyVars,
        AtRealStep, InTable
  <2>3. CASE StartRecipe(key)
    <3>0. InTable
      BY <2>1 DEF inputController, InputInTable
    <3>1. startStep(currentStep, Recipe[currentStep].recipe = 0)
      BY <2>3, <3>0 DEF StartRecipe, IsEndMarker, InTable
    <3>2. /\ clock' = clock /\ pc' # "setup" /\ systemState = "INIT"
          /\ currentRecipe' = currentRecipe
      BY <2>1, <2>3 DEF inputController, StartRecipe, Obeyed
    <3>3. Recipe[currentStep].recipe = 0 => ~AtRealStep'
      BY <3>1 DEF startStep, AtRealStep
    <3> QED BY <3>1, <3>2, <3>3, HeldStart
  <2>4. CASE Confirm(key)
    <3>1. PICK end \in BOOLEAN : startStep(NextStep, end)
      BY <2>4 DEF Confirm, IsEndMarker
    <3>2. /\ clock' = clock /\ pc' # "setup" /\ systemState = "WAIT"
          /\ currentRecipe' = currentRecipe
      BY <2>1, <2>4 DEF inputController, Confirm
    <3> QED BY <3>1, <3>2, HeldStart
  <2> QED BY <2>1, <2>2, <2>3, <2>4 DEF inputController
<1>5. CASE PowerCycle
  BY <1>5 DEF PowerCycle, HeldInv
<1>6. CASE \/ readTemperature \/ heaterController \/ screenController \/ Unplug \/ Replug
           \/ UNCHANGED vars
  BY <1>6
  DEF readTemperature, heaterController, screenController, Unplug, Replug, vars, HeldInv,
      recipeVars, stateVars, historyVars, AtRealStep, InTable
<1> QED BY <1>1, <1>2, <1>3, <1>4, <1>5, <1>6 DEF Next, loop

\* What TimedStepHeldFull says of one step of the loop.
LEMMA HeldLongEnough ==
  ASSUME TypeOK, AtRealStep, HeldInv, StepOver, systemState = "RUNNING",
         Recipe[currentStep].duration > 0
  PROVE  held >= AtMost(Recipe[currentStep].duration * MinuteTicks, HeldCap)
<1> DEFINE x == (clock - startTime[currentStep]) % ClockMod
           minutes == x \div MinuteTicks
           D == Recipe[currentStep].duration
<1>1. currentStep \in Slots /\ D \in Nat /\ MinuteTicks \in Nat \ {0} /\ HeldCap \in Nat
      /\ ByteMod \in Nat \ {0} /\ held \in 0..HeldCap
  BY RecipeAssumption, ClockAssumption DEF AtRealStep, InTable, TypeOK
<1>2. x \in Nat
  <2>1. clock - startTime[currentStep] \in Int /\ ClockMod \in Nat \ {0}
    BY <1>1, ClockAssumption DEF TypeOK
  <2>2. x \in 0..(ClockMod - 1)
    BY <2>1, ModRange, Zenon
  <2> HIDE DEF x
  <2> QED BY <2>1, <2>2
<1>3. minutes % ByteMod >= D
  BY DEF StepOver, RunTime
<1>4. held < HeldCap => x <= held
  BY DEF HeldInv
<1> HIDE DEF x, D
<1>5. /\ x = MinuteTicks * minutes + (x % MinuteTicks) /\ minutes \in Nat
      /\ x % MinuteTicks \in 0..(MinuteTicks - 1)
  BY <1>1, <1>2, Division
<1> HIDE DEF minutes
<1>6. minutes >= D
  <2> DEFINE byte == minutes % ByteMod
  <2>1. byte <= minutes /\ byte \in 0..(ByteMod - 1)
    BY <1>1, <1>5, Remainder, Zenon
  <2>2. byte >= D
    BY <1>3
  <2> HIDE DEF byte
  <2> QED BY <1>1, <1>5, <2>1, <2>2
<1>7. /\ MinuteTicks * D <= MinuteTicks * minutes /\ MinuteTicks * D = D * MinuteTicks
      /\ MinuteTicks * D \in Nat
  BY <1>1, <1>5, <1>6, Multiples
<1>8. MinuteTicks * minutes \in Nat
  BY <1>1, <1>5, Multiples
<1>9. D * MinuteTicks <= x
  BY <1>1, <1>2, <1>5, <1>7, <1>8
<1>10. held >= AtMost(D * MinuteTicks, HeldCap)
  BY <1>1, <1>2, <1>4, <1>7, <1>9 DEF AtMost
<1> QED BY <1>10 DEF D

LEMMA TimedNext ==
  ASSUME TypeOK, HeldInv, Next, StepLeft, Recipe[currentStep].duration > 0
  PROVE  held >= AtMost(Recipe[currentStep].duration * MinuteTicks, HeldCap)
<1>1. systemState = "RUNNING" /\ AtRealStep /\ pc' # "setup"
      /\ (systemState' # "RUNNING" \/ currentStep' # currentStep)
  BY DEF StepLeft, InStep
<1>2. CASE stepController
  <2>1. StepOver
    BY <1>1, <1>2 DEF stepController, recipeVars
  <2> QED BY <1>1, <2>1, HeldLongEnough
<1>3. ~(\E key \in Keys : inputController(key))
  BY <1>1 DEF inputController, Ignore, Browse, StartRecipe, Confirm, Obeyed, recipeVars
<1>4. ~(setup \/ requestTemperatures \/ readTemperature \/ heaterController
         \/ screenController \/ PowerCycle \/ Unplug \/ Replug)
  BY <1>1
  DEF setup, requestTemperatures, readTemperature, heaterController, screenController,
      PowerCycle, Unplug, Replug, recipeVars, stateVars
<1> QED BY <1>2, <1>3, <1>4 DEF Next, loop

\* A rest is never cut short: whatever the widths of millis() and of the byte runTime,
\* the step ends no earlier than its minutes after its start.
THEOREM TimedSafe == Spec => TimedStepHeldFull
<1>1. Init => HeldInv
  BY DEF Init, HeldInv
<1>2. TypeOK /\ InputInTable /\ HeldInv /\ [Next]_vars => HeldInv'
  BY HeldNext
<1>3. TypeOK /\ HeldInv /\ [Next]_vars =>
        [StepLeft /\ Recipe[currentStep].duration > 0
           => held >= AtMost(Recipe[currentStep].duration * MinuteTicks, HeldCap)]_vars
  BY TimedNext
<1> QED BY <1>1, <1>2, <1>3, TypeCorrect, InputInTableSafe, PTL DEF Spec, TimedStepHeldFull

-----------------------------------------------------------------------------
(* Steps that wait for a temperature                                       *)

\* What the mash, the sensor's register and the reading say of the target is only what
\* has been so since the step began.
ReachedInv ==
  /\ pc = "setup" => systemState = "INIT"
  /\ systemState \in {"RUNNING", "WAIT"} /\ AtRealStep =>
       /\ mashTemp >= CurrentTarget => reached
       /\ pc = "read" /\ scratchpad >= CurrentTarget => reached
       /\ pc = "step" /\ tempC >= CurrentTarget => reached

LEMMA ReachedStart ==
  ASSUME NEW s, NEW end \in BOOLEAN, systemState # "FINISH",
         end => systemState = "WAIT" \/ systemState' = "FINISH" \/ ~AtRealStep',
         startStep(s, end), currentRecipe' = currentRecipe, mashTemp' = mashTemp,
         pc' \in {"heater", "screen"}, ReachedInv
  PROVE  ReachedInv'
<1>1. CASE end
  BY <1>1 DEF startStep, ReachedInv, CurrentTarget, AtRealStep, InTable
<1>2. CASE ~end
  <2>1. currentStep' = s /\ reached' = (s \in Slots /\ mashTemp >= Recipe[s].targetTemp)
    BY <1>2 DEF startStep
  <2> QED BY <2>1 DEF ReachedInv, CurrentTarget, AtRealStep, InTable
<1> QED BY <1>1, <1>2

LEMMA ReachedNext ==
  ASSUME ~SensorFaults, TypeOK, InputInTable, HeatInv, ReachedInv, [Next]_vars
  PROVE  ReachedInv'
<1>1. CASE setup
  BY <1>1 DEF setup, ReachedInv, stateVars
<1>2. CASE requestTemperatures
  <2>1. /\ pc' = "read" /\ scratchpad' \in {mashTemp, mashTemp'}
        /\ AtRealStep => reached' = (reached \/ mashTemp' >= CurrentTarget)
        /\ CurrentTarget' = CurrentTarget /\ systemState' = systemState
        /\ AtRealStep' = AtRealStep
    BY <1>2
    DEF requestTemperatures, HeatInv, recipeVars, stateVars, CurrentTarget, AtRealStep, InTable
  <2>2. systemState \in {"RUNNING", "WAIT"} /\ AtRealStep => (mashTemp >= CurrentTarget => reached)
    BY DEF ReachedInv
  <2> QED BY <2>1, <2>2 DEF ReachedInv
<1>3. CASE readTemperature
  BY <1>3
  DEF readTemperature, getTempC, HeatInv, ReachedInv, recipeVars, stateVars, plantVars,
      historyVars, CurrentTarget, AtRealStep, InTable
<1>4. CASE stepController
  <2>1. CASE UNCHANGED <<recipeVars, reached>> /\ (systemState' = systemState
                \/ (systemState' = "WAIT" /\ systemState \notin {"FINISH", "INIT"}))
    BY <1>4, <2>1
    DEF stepController, ReachedInv, recipeVars, plantVars, TypeOK, CurrentTarget,
        AtRealStep, InTable
  <2>2. CASE /\ systemState \notin {"FINISH", "INIT"}
             /\ \E end \in IsEndMarker(NextStep) :
                  startStep(NextStep, end) /\ systemState' = StateAfterStart(end)
             /\ UNCHANGED currentRecipe
    <3>1. PICK end \in BOOLEAN :
            startStep(NextStep, end) /\ systemState' = StateAfterStart(end)
      BY <2>2 DEF IsEndMarker
    <3>2. mashTemp' = mashTemp /\ pc' = "heater" /\ (end => systemState' = "FINISH")
      BY <1>4, <3>1 DEF stepController, StateAfterStart, plantVars
    <3> QED BY <2>2, <3>1, <3>2, ReachedStart
  <2> QED BY <1>4, <2>1, <2>2 DEF stepController
<1>5. CASE \E key \in Keys : inputController(key)
  <2>1. PICK key \in Keys : inputController(key)
    BY <1>5
  <2>2. CASE Ignore(key) \/ Browse(key)
    BY <2>1, <2>2
    DEF inputController, Ignore, Browse, Obeyed, ReachedInv, recipeVars, historyVars,
        plantVars, CurrentTarget, AtRealStep, InTable
  <2>3. CASE StartRecipe(key)
    <3>0. InTable
      BY <2>1 DEF inputController, InputInTable
    <3>1. startStep(currentStep, Recipe[currentStep].recipe = 0)
      BY <2>3, <3>0 DEF StartRecipe, IsEndMarker, InTable
    <3>2. /\ mashTemp' = mashTemp /\ pc' = "screen" /\ systemState = "INIT"
          /\ currentRecipe' = currentRecipe
      BY <2>1, <2>3 DEF inputController, StartRecipe, Obeyed, plantVars
    <3>3. Recipe[currentStep].recipe = 0 => ~AtRealStep'
      BY <3>1 DEF startStep, AtRealStep
    <3> QED BY <3>1, <3>2, <3>3, ReachedStart
  <2>4. CASE Confirm(key)
    <3>1. PICK end \in BOOLEAN : startStep(NextStep, end)
      BY <2>4 DEF Confirm, IsEndMarker
    <3>2. /\ mashTemp' = mashTemp /\ pc' = "screen" /\ systemState = "WAIT"
          /\ currentRecipe' = currentRecipe
      BY <2>1, <2>4, <3>1 DEF inputController, Confirm, plantVars
    <3> QED BY <3>1, <3>2, ReachedStart
  <2> QED BY <2>1, <2>2, <2>3, <2>4 DEF inputController
<1>6. CASE PowerCycle
  BY <1>6 DEF PowerCycle, ReachedInv
<1>7. CASE heaterController \/ screenController \/ UNCHANGED vars
  BY <1>7
  DEF heaterController, screenController, vars, ReachedInv, recipeVars, stateVars, plantVars,
      historyVars, CurrentTarget, AtRealStep, InTable
<1>8. ~(Unplug \/ Replug)
  BY DEF Unplug, Replug, HeatInv
<1> QED BY <1>1, <1>2, <1>3, <1>4, <1>5, <1>6, <1>7, <1>8 DEF Next, loop

LEMMA ReachedEnds ==
  ASSUME ReachedInv, Next, StepLeft, Recipe[currentStep].duration = 0
  PROVE  reached
<1>1. systemState = "RUNNING" /\ AtRealStep /\ pc' # "setup"
      /\ (systemState' # "RUNNING" \/ currentStep' # currentStep)
  BY DEF StepLeft, InStep
<1>2. CASE stepController
  BY <1>1, <1>2 DEF stepController, recipeVars, StepOver, ReachedInv
<1>3. ~(\E key \in Keys : inputController(key))
  BY <1>1 DEF inputController, Ignore, Browse, StartRecipe, Confirm, Obeyed, recipeVars
<1>4. ~(setup \/ requestTemperatures \/ readTemperature \/ heaterController
         \/ screenController \/ PowerCycle \/ Unplug \/ Replug)
  BY <1>1
  DEF setup, requestTemperatures, readTemperature, heaterController, screenController,
      PowerCycle, Unplug, Replug, recipeVars, stateVars
<1> QED BY <1>2, <1>3, <1>4 DEF Next, loop

\* With a healthy sensor a step without a duration ends only after the mash itself has
\* been at its target, although the reading is late.
THEOREM ReachedSafe ==
  ASSUME ~SensorFaults
  PROVE  Spec => StepEndsWhenReached
<1>1. Init => ReachedInv
  BY DEF Init, ReachedInv
<1>2. TypeOK /\ HeatInv /\ [Next]_vars => HeatInv'
  BY HeatNext
<1>3. TypeOK /\ InputInTable /\ HeatInv /\ ReachedInv /\ [Next]_vars => ReachedInv'
  BY ReachedNext
<1>4. ReachedInv /\ [Next]_vars =>
        [StepLeft /\ Recipe[currentStep].duration = 0 => reached]_vars
  BY ReachedEnds
<1> QED
  BY <1>1, <1>2, <1>3, <1>4, HeatInit, TypeCorrect, InputInTableSafe, PTL
  DEF Spec, StepEndsWhenReached
=============================================================================
