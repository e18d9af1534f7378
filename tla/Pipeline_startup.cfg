SPECIFICATION Spec
CONSTANTS
  Children = {c1, c2}
  maxFrames = 10
  NumFrames = 7
  IpcCap = 12
  LogLines <- NoLogging
  Mortal = {}
  Guards = {0}
  Nobody = Nobody
SYMMETRY ChildSymmetry
INVARIANT FilesShowTheirFrame
CHECK_DEADLOCK FALSE
