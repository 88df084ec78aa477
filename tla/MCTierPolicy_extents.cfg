SPECIFICATION Spec
CONSTANTS
  BlockSize = 2
  TotalSize = 6
  CountRange = 5
  Clients <- Extents
  MaxRequests = 1
  ThreadsNum = 3
  Replicas = {r1}
INVARIANTS AckOnce
CHECK_DEADLOCK FALSE
