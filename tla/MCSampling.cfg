SPECIFICATION CadenceSpec
CONSTANTS
  MinGap = 1
  Window = 12
  Stride <- DefaultStride
  MaxFrames <- DefaultMaxFrames
  RingMax = 64
  MaxStep = 1
  MaxPts = 14
  Late = 32
  MaxWindows = 2
INVARIANTS
  UniformSample
CHECK_DEADLOCK FALSE
