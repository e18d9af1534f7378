SPECIFICATION FairSpec
CONSTANTS
  Enqueuers = {e1}
  Dequeuers = {d1}
  Items = {i1}
  NULL = NULL
  numElements = 2
  Modes = {"block"}
  Clears = {}
  Aborts = TRUE
PROPERTY AbortIsHeard
