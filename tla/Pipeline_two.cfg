SPECIFICATION FairSpec
CONSTANTS
  Children = {c1, c2}
  maxFrames = 10
  NumFrames = 3
  IpcCap = 27
  LogLines <- Bursts
  Mortal = {c1}
  Guards = {0, 1}
  Nobody = Nobody
INVARIANT OneTurnEach
INVARIANT DispatchedInOrder
INVARIANT NeverAllWait
PROPERTY Completes
