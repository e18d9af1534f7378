SPECIFICATION FairSpec
CONSTANTS
  Children = {c1, c2}
  maxFrames = 10
  NumFrames = 6
  IpcCap = 12
  LogLines <- NoLogging
  Mortal = {}
  Guards = {0}
  Nobody = Nobody
PROPERTY EveryClientIsTold
CHECK_DEADLOCK FALSE
