SPECIFICATION FairSpec
CONSTANTS
  PutSizes = {}
  CallbackPuts = {1}
  ReadSizes = {1}
  WaitingResults <- NoWaiting
  Faults = {}
  MaxQueued = 2
  MaxArrived = 1
PROPERTY CallbackWriteEnds
CHECK_DEADLOCK FALSE
