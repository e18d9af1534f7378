SPECIFICATION Spec
CONSTANTS
  Displays = {"d1", "d2"}
  MaxLines = 3
  MAX_NUM_CARDS = 2
  Garbage = {"blank"}
INVARIANT CardsFitTable
CHECK_DEADLOCK FALSE
