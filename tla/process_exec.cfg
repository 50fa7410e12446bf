SPECIFICATION Spec
CONSTANTS
  MaxProc = 4
  NPages = 4
  Codes = {1, 2}
PROPERTIES
  ExecReturns
CHECK_DEADLOCK FALSE
