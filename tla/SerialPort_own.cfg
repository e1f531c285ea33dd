SPECIFICATION Spec
CONSTANTS
  a = a
  b = b
  c = c
  ttyUSB0 = ttyUSB0
  ttyUSB1 = ttyUSB1
  Ports <- Three
  Lines <- TwoLines
  LineOf <- LineOfThree
  Shared = {ttyUSB0}
  MaxFd = 2
  Script = Script
  Std = Std
  Free = Free
  Other = Other
  Faults = {"mode", "open", "getattr", "setattr", "modem", "write"}
INVARIANTS  NoLeak
CHECK_DEADLOCK FALSE
