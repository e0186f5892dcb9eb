SPECIFICATION FairSpec
CONSTANTS
  MaxPacketSize = 136
  Packets <- MCPackets
  MaxPackets = 2
  Cuts = {1, 2, 3, 4}
  Texts = {0, 1, 60, 120, 125, 126, 131, 132}
INVARIANTS
  InStep
  SentWhole
PROPERTIES
  YieldReturns
