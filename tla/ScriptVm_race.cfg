SPECIFICATION Spec
CONSTANTS
  d1 = d1
  d2 = d2
  d3 = d3
  Devices <- MCDevices
  Callbacks <- MCCallbacks
  Script = script
  Nobody = nobody
  Quiet = FALSE
  MaxCalls = 3
INVARIANTS OwnFrame
CHECK_DEADLOCK FALSE
