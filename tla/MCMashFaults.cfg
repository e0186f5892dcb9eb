SPECIFICATION Spec
CONSTANTS
  LastSlot = 3
  Recipe <- AutoEnd
  ByteMod = 5
  ClockMod = 8
  MinuteTicks = 2
  ButtonDelay = 2
  LoopTicks <- MCLoopTicks
  BootTicks = 3
  HeldCap = 4
  Hysteresis = 1
  Rise = 1
  Ambient = 1
  Boil = 4
  StartTemps <- MCStartTemps
  Disconnected <- MCDisconnected
  PowerOnTemp = 5
  MaxStep = 4
  MaxRecipe = 1
  SensorFaults = TRUE
  PowerCycles = TRUE
INVARIANTS
  FinishedRelayOff
  
  ScreenMatchesState
PROPERTIES
  TimedStepHeldFull
  StepsInOrder
  StaysInTable
