SPECIFICATION Spec
CONSTANTS
  d1 = d1
  d2 = d2
  d3 = d3
  Devices = {d1, d2}
  Callbacks = {d1, d2}
  Script = script
  Nobody = nobody
  Quiet = TRUE
  MaxCalls = 5
INVARIANTS OwnFrame HeightKept FreedLast
PROPERTIES DeletionEnds ExitEnds
CHECK_DEADLOCK FALSE
