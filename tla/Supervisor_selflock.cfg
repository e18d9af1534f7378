SPECIFICATION FairSpec
CONSTANTS
  numChildren = 1
  MayFail = FALSE
  Quick = FALSE
  Overlap = FALSE
  Logs = TRUE
PROPERTY EndsWithItsChildren
CHECK_DEADLOCK FALSE
