SPECIFICATION FairSpec
CONSTANTS
  d1 = d1
  d2 = d2
  None = None
  MaxAccepts = 1
  Devices <- One
  MaxConnections = 1
  QueueCapacity = 1
  Events <- Leave
PROPERTY
  DisconnectFrees
CHECK_DEADLOCK FALSE
