SPECIFICATION Spec
CONSTANTS
  a = a
  b = b
  c = c
  ttyUSB0 = ttyUSB0
  ttyUSB1 = ttyUSB1
  Ports <- Two
  Lines <- TwoLines
  LineOf <- LineOfTwo
  Shared = {ttyUSB0}
  MaxFd = 2
  Script = Script
  Std = Std
  Free = Free
  Other = Other
  Faults = {}
INVARIANT OpenedIsOpen
CHECK_DEADLOCK FALSE
