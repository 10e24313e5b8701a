CONSTANTS
  None = None
  Unit = 1
  Insns <- MCInsns
  Careful = TRUE
  InitRegs <- MCRegs
  InitPcs <- MCPcs
  InitMems <- MCMems
  MaxInsns = 1
  MaxFaults = 2
SPECIFICATION Spec
INVARIANT TypeOK
PROPERTY ArchSpec
CHECK_DEADLOCK FALSE
