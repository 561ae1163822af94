SPECIFICATION FairSpec
CONSTANTS
  c1 = c1
  c2 = c2
  Conns <- MCConns
  Stopper = stopper_task
  End = end_of_stream
  Kinds = {"http"}
  QueueMax = 2
  MaxFrames = 3
PROPERTIES
  StopCompletes
CHECK_DEADLOCK FALSE
