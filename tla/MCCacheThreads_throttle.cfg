SPECIFICATION FairSpec
CONSTANTS
  Blocks = {b1, b2}
  Ptrs = {p1, p2, p3, p4}
  ThreadsNum = 2
  HealthCount = 4
  CountRange = 8
  MaxBackground = 4
  MaxRequests = 2
  None = None
PROPERTIES CallbackProceeds
CHECK_DEADLOCK FALSE
