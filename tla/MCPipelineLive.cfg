SPECIFICATION FairSpec
CONSTANTS
  Consumer = consumer
  Cadencer = cadencer
  StatsLoop = stats_loop
  e1 = e1
  e2 = e2
  Escalations = {}
  MaxWindows = 2
  Workers = 1
  Grace = TRUE
  BpL1 = 1
  BpL2 = 9
  BpL3 = 9
  ErrLimit = 9
PROPERTIES
  EveryWindowEnds
  SourceEndEndsSession
  StopEndsSession
CHECK_DEADLOCK FALSE
