SPECIFICATION Spec
CONSTANTS
  Enqueuers = {e1}
  Dequeuers = {d1}
  Items = {i1}
  NULL = NULL
  numElements = 2
  Modes = {"timed"}
  Clears = {}
  Aborts = FALSE
INVARIANT TimeoutMeansEmpty
