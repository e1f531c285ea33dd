SPECIFICATION Spec
CONSTANTS
  d1 = d1
  d2 = d2
  d3 = d3
  Devices = {d1, d2}
  Callbacks = {d1, d2}
  Script = script
  Nobody = nobody
  Quiet = TRUE
  MaxCalls = 4

INVARIANT NobodyInFreed
CHECK_DEADLOCK FALSE
