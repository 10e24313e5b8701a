SPECIFICATION Spec
CONSTANTS
  AddrSpace = 8
  RamBase = 0
  InsnBits <- TrapGuest
  AddrWrites <- Odd
  InsnSizes <- LongOnly
  JumpTargets <- Zero
  Faults <- Illegal
  DeviceLines <- TimerAndDisk
INVARIANTS
  TypeOK
PROPERTIES
  TrapArchSpec
  HandlerProtected
  TrapTouchesOnlyStack
  PrivilegeRisesOnlyByTrap
  NoLostInterrupt
