SPECIFICATION Spec
CONSTANTS
  Threads = {t1, t2}
  Sectors = {0, 1, 2}
  Values = {0, 1}
  CacheSize = 2
INVARIANTS OneSlot ClosedClean
SYMMETRY ThreadSymmetry
PROPERTIES ImplementsBlockStore
CHECK_DEADLOCK FALSE
