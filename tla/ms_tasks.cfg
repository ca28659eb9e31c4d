SPECIFICATION LiveSpec
CONSTANTS
  N = 2
  MaxEvents = 2
  Weight = 2
INVARIANTS HeldUntilEnd
PROPERTIES EndIsNoted StopEnds
CHECK_DEADLOCK FALSE
