SPECIFICATION Spec
CONSTANTS
  None = None
  Cells <- MCCells
  DHCSR = DHCSR
  DEMCR = DEMCR
  AIRCR = AIRCR
  DCRDR = DCRDR
  DCRSR = DCRSR
  Word = 2
  AutoPage = 4
  CoreRegs <- MCCoreRegs
  Hosts = {"hw", "sw", "cpp"}
  Accesses <- MCAccesses
INVARIANT
  DebugEnabled
