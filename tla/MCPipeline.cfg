SPECIFICATION Spec
CONSTANTS
  Consumer = consumer
  Cadencer = cadencer
  StatsLoop = stats_loop
  e1 = e1
  e2 = e2
  Escalations <- MCEscalations
  MaxWindows = 2
  Workers = 1
  Grace = TRUE
  BpL1 = 9
  BpL2 = 9
  BpL3 = 9
  ErrLimit = 9
SYMMETRY MCSym
INVARIANTS
  NoUseAfterClose
  AliveIsTracked
  SingleEscalation
  WindowsAccounted
PROPERTIES
  CancelOnlyAfterGrace
  PoolImplemented
CHECK_DEADLOCK FALSE
