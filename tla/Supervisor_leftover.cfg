SPECIFICATION Spec
CONSTANTS
  numChildren = 1
  MayFail = FALSE
  Quick = TRUE
  Overlap = TRUE
  Logs = FALSE
INVARIANT NothingLeftBehind
CHECK_DEADLOCK FALSE
