SPECIFICATION Spec
CONSTANTS
  Data = {d1, d2}
  Depth = 4
INVARIANTS
  TypeOK
PROPERTIES
  ImplementsQueue
  HeadOnOutput
