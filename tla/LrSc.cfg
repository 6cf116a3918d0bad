SPECIFICATION Programs
CONSTANTS
  Addr = {0}
  Word <- Bit
  Alu <- BitAlu
  GranuleSize = 1
  Faulty = {}
  None = None
  Requests <- Instructions
INVARIANTS
  LockIsExclusive
  AluMatchesZaamo
PROPERTIES
  SomeUpdateCompletes
  EveryAccessAnswered
