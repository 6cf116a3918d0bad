SPECIFICATION Spec
CONSTANTS
  MaxClocks = 2
  Processors <- mcProcessors
INVARIANTS
  ReportsTheProcessor
  FpuMatchesEmulation
  QuietBetweenTests
  TimeIsKept
  StartsAsLaunched
CHECK_DEADLOCK FALSE
PROPERTIES
  Terminates
