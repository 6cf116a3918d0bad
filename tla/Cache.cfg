SPECIFICATION Spec
CONSTANTS
  Tag = {"t1", "t2", "u"}
  Uncached = {"u"}
  NUM_BLOCKS = 2
  BLOCK = 4
  READ_ONLY = FALSE
  ResetTag = "t1"
  Accesses <- MCAccesses
  Faulty = {0}
  Junk <- MCJunk
INVARIANTS
  ReadsLatest
  NothingForgotten
PROPERTIES
  WritesOnly
  SyncFlushes
