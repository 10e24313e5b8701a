SPECIFICATION FairSpec
CONSTANTS
  Build = "native"
  Chars <- OneKey
  HasDisk = FALSE
  TxLoads = 2
INVARIANTS
  TypeOK
  DataIsAnnounced
  DataIsData
  PendingIsClaimable
PROPERTY DataIsRead
