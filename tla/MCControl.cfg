SPECIFICATION ControlSpec
CONSTANTS
  RomBits = 4
  FamilyBits = 2
  Devices <- MCDevices
  CharSigned = TRUE
  MaxChanges = 1
  Bus <- MCBus
  Readings <- MCReadings
  PowerOn <- MCPowerOn
  Resolutions = {9, 12}
  Highs = {126}
  Lows = {255}
  UserData <- MCUserData
  Unit = 10
  Inputs = {0, 2}
  Setpoints = {1}
  Outputs = {9}
  Limits <- MCLimits
  Tunings <- MCTunings
  SampleTimes = {0, 1, 2}
  Default <- MCDefault
  Clock = 3
INVARIANTS
  NoPhantom
  Complete
  Targeted
  AlarmAgrees
  InLimits
PROPERTIES
  PassEnds
  SettingsSurvive
