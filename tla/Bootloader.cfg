SPECIFICATION Spec
CONSTANTS
  RamWords = 2
  MaxFaults = 1
  SectorWords = 6
  Files <- mcFiles
  Boards <- mcBoards
INVARIANTS HandOver 
PROPERTIES RefusesOnlyBad
CHECK_DEADLOCK FALSE
