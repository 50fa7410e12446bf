SPECIFICATION Spec
CONSTANTS
  NSectors = 12
  SectorSize = 2
  Direct = 1
  Names = {"a", "b"}
  Words = {7, 8}
  Sizes = {3}
  InitialSizes = {0, 5}
  RootSize = 1
  TableSize = 6
  MaxRefs = 2
  MaxChanges = 4
  StackByte = TRUE
INVARIANTS NoSharing SurvivesReboot
PROPERTIES ImplementsFiles
CHECK_DEADLOCK FALSE
