SPECIFICATION Spec
CONSTANTS
  BlockSize = 2
  TotalSize = 6
  CountRange = 5
  Clients <- Separate
  MaxRequests = 3
  ThreadsNum = 3
  Replicas = {r1}
INVARIANTS SplitExact BarrierMatches MergeExact AckDurable ReadsCurrent FlushDurable
CHECK_DEADLOCK FALSE
