SPECIFICATION FairSpec
CONSTANTS
  numChildren = 4
  MayFail = FALSE
  Quick = TRUE
  Overlap = FALSE
  Logs = FALSE
INVARIANT NoneLeftWaiting
PROPERTY EndsWithItsChildren
CHECK_DEADLOCK FALSE
