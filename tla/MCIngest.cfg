SPECIFICATION FairSpec
CONSTANTS
  c1 = c1
  c2 = c2
  Conns <- MCConns
  Stopper = stopper_task
  End = end_of_stream
  Kinds = {"ws", "http", "kcp", "pull"}
  QueueMax = 3
  MaxFrames = 3
INVARIANTS
  EndNotLost
  ReceivedOnceInOrder
PROPERTIES
  ImplementsChannel
  CloseEndsConsumer
  KcpStopCompletes
CHECK_DEADLOCK FALSE
