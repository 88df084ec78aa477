SPECIFICATION FairSpec
CONSTANTS
  r1 = r1
  r2 = r2
  r3 = r3
  r4 = r4
  b1 = b1
  b2 = b2
  w1 = w1
  w2 = w2
  None = None
  Requests = {r1, r2, r3, r4}
  Blocks = {b1, b2}
  Workers = {w1, w2}
  Repeat = {}
  MayFail = FALSE
  IoType <- EvictTypes
  Span <- EvictSpan
PROPERTY RequestsComplete
CHECK_DEADLOCK FALSE
