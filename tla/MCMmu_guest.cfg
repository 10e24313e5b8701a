SPECIFICATION GuestSpec
CONSTANTS
  Radix = 2
  Levels = 2
  MemSlots <- BothTables
  Requests <- GuestRequests
  Stores <- GuestStores
  SatpWrites <- OnAndOff
  RootSpan = 8
  TlbSize = 2
INVARIANTS
  TypeOK
  ReplacementOrder
  CopiesBehindMemory
PROPERTY TlbInvisible
