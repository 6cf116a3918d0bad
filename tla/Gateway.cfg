SPECIFICATION FairSpec
CONSTANTS
  ROUND_ROBIN_EN = TRUE
  Internal = {"A"}
  Enabled = {"A", "X"}
  Tmo <- MCTmo
  Latency <- MCLatency
  Silence = 9
  MaxBurst = 3
  MaxPause = 1
INVARIANTS
  WatchedAndAnsweredOnce
PROPERTIES
  TimeoutIsSilence
  EveryAccessEnds
