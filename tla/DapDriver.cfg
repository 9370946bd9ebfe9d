SPECIFICATION FairSpec
CONSTANTS
  hid = hid
  bulk = bulk
  None = None
  Drivers <- MCDrivers
  Own <- MCOwn
  DefaultSize = 64
  MaxSessions <- MCMaxSessions
  MaxCommands <- MCMaxCommands
INVARIANT
  OwnResponses
  EachOnce
  TransfersIntact
  OwnSize
PROPERTY
  CommandsEnd
CHECK_DEADLOCK FALSE
