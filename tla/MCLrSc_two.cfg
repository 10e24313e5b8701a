SPECIFICATION LockSpec
CONSTANTS
  t1 = t1
  t2 = t2
  Contenders <- Two
  Rounds = 3
  Faulting = TRUE
INVARIANTS
  MutualExclusion
  NoLostIncrement
SYMMETRY TwoAlike
CHECK_DEADLOCK FALSE
