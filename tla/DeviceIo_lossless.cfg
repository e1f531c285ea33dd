SPECIFICATION FairSpec
CONSTANTS
  PutSizes = {0, 1, 2}
  CallbackPuts = {1}
  ReadSizes = {1, 2}
  WaitingResults <- NoWaiting
  Faults = {"scheme", "thread", "open", "write"}
  MaxQueued = 4
  MaxArrived = 3
INVARIANTS TypeOK WireIsPrefix OpenedBeforeUse PutHandsOver
PROPERTIES ChannelSpec ConstructorReturns PutEnds Delivered DeleteEnds
CHECK_DEADLOCK FALSE
