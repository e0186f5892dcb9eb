SPECIFICATION FairSpec
CONSTANTS
  Blocks = {b1, b2, b3, b4, b5}
  NoStack = NoStack
  LastPoint = 1
INVARIANTS
  Ring
  NoLeak
  OwnStack
PROPERTIES
  ImplementsRoundRobin
  EveryTaskRuns
