SPECIFICATION Spec
CONSTANTS
  d1 = d1
  d2 = d2
  None = None
  MaxAccepts = 2
  Devices <- Two
  MaxConnections = 2
  QueueCapacity = 1
  Events <- StopAndThread
SYMMETRY SymmetricDevices
INVARIANT
  OwnerListed
  FaultsKnown
CHECK_DEADLOCK FALSE
