SPECIFICATION Spec
CONSTANTS
  Sizes <- EvenSizes
  Contrasts = {TRUE, FALSE}
  Roundings = {0, 2}
  MaxFrame = 3
  BadSets <- SomeBad
CHECK_DEADLOCK FALSE
INVARIANTS
  TypeOK
  NamesDistinct
  OutputBlendsScene
  BadBlocksAreCounted
