SPECIFICATION Spec
CONSTANTS
  BlockSize = 2
  TotalSize = 6
  CountRange = 5
  Clients <- Mixed
  MaxRequests = 2
  ThreadsNum = 3
  Replicas = {}
INVARIANTS AckDurable
CHECK_DEADLOCK FALSE
