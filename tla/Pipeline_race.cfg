SPECIFICATION Spec
CONSTANTS
  Children = {c1, c2}
  maxFrames = 14
  NumFrames = 9
  IpcCap = 12
  LogLines <- NoLogging
  Mortal = {}
  Guards = {0}
  Nobody = Nobody
SYMMETRY ChildSymmetry
INVARIANT LoadsItsFrame
CHECK_DEADLOCK FALSE
