SPECIFICATION FairSpec
CONSTANTS
  Children = {c1, c2}
  maxFrames = 10
  NumFrames = 6
  IpcCap = 12
  LogLines <- NoLogging
  Mortal = {c1}
  Guards = {0}
  Nobody = Nobody
INVARIANT StopsOnlyAtTheRing
CHECK_DEADLOCK FALSE
