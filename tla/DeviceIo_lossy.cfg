SPECIFICATION Spec
CONSTANTS
  PutSizes = {2, 3}
  CallbackPuts = {1}
  ReadSizes = {1}
  WaitingResults <- AnyWaiting
  Faults = {"scheme", "thread", "open", "write", "busy", "partial", "stdin"}
  MaxQueued = 4
  MaxArrived = 2
INVARIANTS Accounting InboundOnce NoUseAfterFree
CHECK_DEADLOCK FALSE
