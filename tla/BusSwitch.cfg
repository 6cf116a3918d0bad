SPECIFICATION FairSpec
CONSTANTS
  ROUND_ROBIN_EN = TRUE
  MaxBurst = 3
INVARIANTS
  AnswerToOwner
  NoStrobeLost
  LockIsExclusive
PROPERTIES
  NoStarvation
