SPECIFICATION Spec
CONSTANTS
  Blocks = {b1, b2}
  Ptrs = {p1, p2, p3}
  ThreadsNum = 2
  HealthCount = 1
  CountRange = 8
  MaxBackground = 4
  MaxRequests = 3
  None = None
SYMMETRY Symmetry
INVARIANTS TimerSound ThrottleBound CountExact DirtyHasTimer
CHECK_DEADLOCK FALSE
