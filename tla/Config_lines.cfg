SPECIFICATION Spec
CONSTANTS
  Displays = {"d1", "d2"}
  MaxLines = 4
  MAX_NUM_CARDS = 2
  Garbage = {"blank", "junk"}
INVARIANT TypeOK
INVARIANT ListedCardsAreRead
CHECK_DEADLOCK FALSE
