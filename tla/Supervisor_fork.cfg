SPECIFICATION FairSpec
CONSTANTS
  numChildren = 2
  MayFail = TRUE
  Quick = FALSE
  Overlap = FALSE
  Logs = FALSE
PROPERTY EndsWithItsChildren
CHECK_DEADLOCK FALSE
