SPECIFICATION MCSpec
CONSTANTS
  Links = {c1, c2}
  Packets <- MCPackets
  MaxPackets = 2
  e1 = e1
  e2 = e2
  o1 = o1
  o2 = o2
  c1 = c1
  c2 = c2
  Emitters = {e1, e2}
  Observers = {o1, o2}
  MaxSeq = 2
  ReplayMax = 1
  Messages <- MCMessages
  MaxMessages = 3
  LenSize = 2
  HeaderSize = 2
  PayloadCap = 2
  Misread = 1000000
  MinGap = 2
  Window = 5
  Stride <- MCStride
  MaxFrames <- MCMaxFrames
  RingMax = 4
  MaxStep = 2
  MaxPts = 12
  Late = 1
  MaxWindows = 3
  Workers = 2
  BpL1 = 2
  BpL2 = 3
  BpL3 = 3
  ErrLimit = 1
  MaxErrors = 2
  Windows = {1, 2}
  MaxRetry = 1
  Spans <- MCSpans
  MostEvents = 2
  GateTimes = {1}
  MaxGate = 1
  Jitter = 0
  Kept = 1
SYMMETRY MCSym
INVARIANTS
  FramingExact
  RingIncreasing
  WindowsSpaced
  WindowWhole
  EventsConserved
  NewsIsTold
  ObserverMissesNothing
  HandoverLosesNothing
PROPERTIES
  LadderNeedsCause
  EventNeverRegresses
  NoFrameAfterClose
CHECK_DEADLOCK FALSE
