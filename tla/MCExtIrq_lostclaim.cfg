SPECIFICATION FairSpec
CONSTANTS
  Build = "sdl"
  Chars <- OneKey
  HasDisk = TRUE
  TxLoads = 0
PROPERTY DataIsRead
