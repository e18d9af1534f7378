SPECIFICATION Spec
CONSTANTS
  numChildren = 2
  MayFail = FALSE
  Quick = FALSE
  Overlap = TRUE
  Logs = FALSE
INVARIANT NoneLeftWaiting
CHECK_DEADLOCK FALSE
