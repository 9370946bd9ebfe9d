SPECIFICATION Spec
CONSTANTS
  d1 = d1
  d2 = d2
  None = None
  MaxAccepts = 2
  Devices <- Two
  MaxConnections = 2
  QueueCapacity = 1
  Events <- Leave
SYMMETRY SymmetricDevices
INVARIANT
  HeldWhileServed
  ReapNotLost
  ChecksStillHold
PROPERTY
  OnlyOwnDeviceReleased
CHECK_DEADLOCK FALSE
