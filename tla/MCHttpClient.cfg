SPECIFICATION FairSpec
CONSTANTS
  MaxRequests = 2
  Lengths = {0, 2}
  NoLength <- MCNoLength
  Informational = TRUE
INVARIANTS
  OwnAnswer
  EndNotMissed
PROPERTIES
  Returns
