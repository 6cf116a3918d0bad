SPECIFICATION FairSpec
CONSTANTS
  Depth = 8
  NUM = 4
  Descriptors <- MCDescriptors
INVARIANTS
  CopiesAsProgrammed
PROPERTIES
  DoneMeansDone
  EveryStartEnds
