SPECIFICATION Spec
CONSTANTS
  Depth = 2
  MaxErrors = 2
  MaxCommands = 5
  MayFail <- mcMayFail
  Boards <- mcBoards
  Commands <- mcCommands
INVARIANTS
  
  
  SnapshotIsNew
PROPERTIES
  GatedWhileClockIsDead
CHECK_DEADLOCK FALSE
