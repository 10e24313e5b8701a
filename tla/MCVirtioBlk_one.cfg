SPECIFICATION FairSpec
CONSTANTS
  Depth = 1
  QueueNum = 2
  IdSpan = 4
  Delay = 2
  Sectors <- TwoSectors
  Data <- Bits
INVARIANTS
  TypeOK
  UnseenIsAnnounced
  LayoutCurrent
PROPERTIES
  ServesRequests
  EveryRequestAnswered
