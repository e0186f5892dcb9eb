SPECIFICATION PropertiesFairSpec
CONSTANTS
  Values = {1, 2}
  ClockMod = 5
  Lapse = 2
  MessageCap = 2
INVARIANTS
  Agreed
PROPERTIES
  Spacing
  CatchesUp
