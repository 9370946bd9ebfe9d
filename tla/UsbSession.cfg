SPECIFICATION Spec
CONSTANTS
  None = None
  HalfClock = 1200000000
  PortCycles = 10
  FastCycles = 0
  SlowCycles = 3
  DefaultClock = 1000000
  AllocFails = TRUE
  StringLengths <- MCStringLengths
  Seqnums = {1, 2}
  QueueCapacity = 2
  UrbDataMax = 512
  Setups <- MCSetups
  Commands <- MCCommands
INVARIANT
  InStep
  UnlinkTrue
  ClockHeld
PROPERTY
  ResponseKept
