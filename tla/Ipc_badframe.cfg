SPECIFICATION Spec
CONSTANTS
  Children = {0, 1}
  MaxDone = 2
  MaxBad = 1
CHECK_DEADLOCK FALSE
PROPERTY Continuing
