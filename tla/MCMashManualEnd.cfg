SPECIFICATION FairSpec
CONSTANTS
  LastSlot = 4
  Recipe <- AsInSetup
  ByteMod = 6
  ClockMod = 7
  MinuteTicks = 1
  ButtonDelay = 1
  LoopTicks <- OneTick
  BootTicks = 2
  HeldCap = 5
  Hysteresis = 1
  Rise = 1
  Ambient = 0
  Boil = 6
  StartTemps <- MCStartTemps
  Disconnected <- MCDisconnected
  PowerOnTemp = 9
  MaxStep = 1
  MaxRecipe = 0
  SensorFaults = FALSE
  PowerCycles = FALSE
PROPERTIES
  RecipeFinishes
