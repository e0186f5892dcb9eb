SPECIFICATION Spec
CONSTANTS
  ByteMod = 5
  EEPROMSize = 14
  HeadPtrs <- MCHeadPtrs
  RecSizes = {1}
  Values = {1, 2}
  MaxRecs = 3
  PowerFails = TRUE
INVARIANTS
  InterruptedKeeps
PROPERTIES
  ImplementsTable
