SPECIFICATION Spec
CONSTANTS
  Enqueuers = {a, b}
  Dequeuers = {b, c}
  Items = {i1, i2}
  NULL = NULL
  numElements = 4
  Modes = {"block", "timed", "carry"}
  Clears = {TRUE, FALSE}
  Aborts = TRUE
SYMMETRY ItemSymmetry
INVARIANT TypeOK
INVARIANT QueueInv
INVARIANT DequeuedItemIsReal
PROPERTY ImplementsBoundedQueue
