SPECIFICATION Spec
CONSTANTS
  Displays = {"d1", "d2"}
  MaxLines = 2
  MAX_NUM_CARDS = 2
  Garbage = {"blank"}
INVARIANT OneCardPerLine
CHECK_DEADLOCK FALSE
