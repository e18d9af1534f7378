SPECIFICATION Spec
CONSTANTS
  Sizes <- EvenSizes
  Contrasts = {FALSE}
  Roundings = {0, 2}
  MaxFrame = 2
  BadSets <- SomeBad
CHECK_DEADLOCK FALSE
INVARIANT VectorsOfThisScene
