SPECIFICATION Spec
CONSTANTS
  Sizes <- EvenSizes
  Contrasts = {FALSE}
  Roundings = {0, 2}
  MaxFrame = 1
  BadSets <- SomeBad
CHECK_DEADLOCK FALSE
INVARIANT OutputIsOnlyTheScene
