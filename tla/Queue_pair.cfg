SPECIFICATION FairSpec
CONSTANTS
  Enqueuers = {e1}
  Dequeuers = {d1}
  Items = {i1, i2}
  NULL = NULL
  numElements = 4
  Modes = {"block", "timed"}
  Clears = {}
  Aborts = TRUE
INVARIANT NobodyStranded
PROPERTY ImplementsBoundedQueue
PROPERTY SleepersReturn
PROPERTY TimeoutReturns
PROPERTY WokenReadersHearAbort
