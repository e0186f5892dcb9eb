SPECIFICATION FairSpec
CONSTANTS
  LastProp = 2
  KeepAlive = 4
  Command = 5
  PollGap = 2
  Grace = 6
  QueueCap = 2
INVARIANTS
  SubscribedWhenOnline
  KeptAlive
PROPERTIES
  AcksMatch
  PollReturns
