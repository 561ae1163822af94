SPECIFICATION PoolFairSpec
CONSTANTS
  t1 = t1
  t2 = t2
  t3 = t3
  t4 = t4
  Tasks <- MCTasks
  Workers = 2
INVARIANTS
  SlotsConserved
  InFlightExact
  NoLostWakeup
  GrantsInOrder
PROPERTIES
  EveryWaiterServed
CHECK_DEADLOCK FALSE
