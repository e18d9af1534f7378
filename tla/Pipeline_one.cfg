SPECIFICATION FairSpec
CONSTANTS
  Children = {c1}
  maxFrames = 10
  NumFrames = 8
  IpcCap = 60
  LogLines <- AsInCode
  Mortal = {}
  Guards = {0, 1}
  Nobody = Nobody
INVARIANT TypeOK
INVARIANT SlotHasOneOwner
INVARIANT UsedCountsOwners
INVARIANT LoadsItsFrame
INVARIANT FilesShowTheirFrame
INVARIANT NeverAllWait
PROPERTY Completes
