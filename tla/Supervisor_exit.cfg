SPECIFICATION Spec
CONSTANTS
  numChildren = 4
  MayFail = TRUE
  Quick = FALSE
  Overlap = TRUE
  Logs = TRUE
INVARIANT TypeOK
INVARIANT CountIsExact
INVARIANT AllChildrenExited
CHECK_DEADLOCK FALSE
