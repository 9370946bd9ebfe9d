SPECIFICATION PatientSpec
CONSTANTS
  d1 = d1
  d2 = d2
  None = None
  MaxAccepts = 1
  Devices <- One
  MaxConnections = 1
  QueueCapacity = 1
  Events <- AllEvents
INVARIANT
  TornDownAfterExit
PROPERTY
  ClosingCompletes
  ShutdownEnds
CHECK_DEADLOCK FALSE
