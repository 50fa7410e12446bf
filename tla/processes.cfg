SPECIFICATION Spec
CONSTANTS
  MaxProc = 4
  NPages = 5
  Codes = {1, 2}
INVARIANTS
  ParentAlive
  StatusDelivered
CHECK_DEADLOCK FALSE
