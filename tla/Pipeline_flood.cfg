SPECIFICATION FairSpec
CONSTANTS
  Children = {c1}
  maxFrames = 10
  NumFrames = 2
  IpcCap = 49
  LogLines <- AsInCode
  Mortal = {}
  Guards = {0}
  Nobody = Nobody
PROPERTY EveryClientIsTold
CHECK_DEADLOCK FALSE
