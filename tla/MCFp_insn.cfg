SPECIFICATION Spec
CONSTANTS
  None = None
  Single <- MCSingle
  Double <- MCDouble
  Word = 5
  Long = 7
  Careful = TRUE
  Contents <- MCContents
  Ambient <- MCAmbient
  Insns <- MCInsns
  MaxFaults = 2
PROPERTY ArchSpec
CHECK_DEADLOCK FALSE
