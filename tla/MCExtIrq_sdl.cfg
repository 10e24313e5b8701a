SPECIFICATION FairSpec
CONSTANTS
  Build = "sdl"
  Chars <- TwoKeys
  HasDisk = TRUE
  TxLoads = 0
INVARIANT ClaimIsPending
PROPERTY DiskIsServed
