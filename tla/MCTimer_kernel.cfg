SPECIFICATION Spec
CONSTANTS
  Base = 4
  MaxTime = 5
  None = None
  Steady = TRUE
  Careful = TRUE
INVARIANTS
  TypeOK
  AlarmIsArmed
PROPERTIES
  AlarmSpec
  AlarmRings
  SignalComes
