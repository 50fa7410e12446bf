SPECIFICATION Spec
CONSTANTS
  MaxProc = 2
  NPages = 4
  Codes = {1}
PROPERTIES
  WaitReturns
CHECK_DEADLOCK FALSE
