SPECIFICATION Spec
CONSTANTS
  Enqueuers = {e1, e2}
  Dequeuers = {d1}
  Items = {i1}
  NULL = NULL
  numElements = 4
  Modes = {"block"}
  Clears = {}
  Aborts = FALSE
INVARIANT NobodyStranded
