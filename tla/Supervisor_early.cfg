SPECIFICATION Spec
CONSTANTS
  numChildren = 2
  MayFail = FALSE
  Quick = TRUE
  Overlap = TRUE
  Logs = FALSE
INVARIANT AllChildrenExited
CHECK_DEADLOCK FALSE
