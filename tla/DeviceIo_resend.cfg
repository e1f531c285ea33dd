SPECIFICATION Spec
CONSTANTS
  PutSizes = {2}
  CallbackPuts = {}
  ReadSizes = {1}
  WaitingResults <- NoWaiting
  Faults = {"partial"}
  MaxQueued = 2
  MaxArrived = 1
INVARIANT WireNoRepeat
CHECK_DEADLOCK FALSE
