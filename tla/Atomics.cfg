SPECIFICATION Spec
CONSTANTS
  Addr = {0, 1, 2}
  Word <- Bit
  Alu <- BitAlu
  GranuleSize = 2
  Faulty = {1}
  None = None
  Requests <- AllRequests
PROPERTIES
  ImplementsAtomicMemory
