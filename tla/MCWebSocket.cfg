SPECIFICATION FairSpec
CONSTANTS
  BufferSize = 20
  WordSize = 8
  Huge = 1000000
  Frames <- MCFrames
  MaxFrames = 2
  Cuts = {1, 3}
  Reads = {2, 100000}
  Writes = {12, 30}
INVARIANTS
  InStep
  TypeRight
PROPERTIES
  PingAnswered
  ParseReturns
CHECK_DEADLOCK FALSE
