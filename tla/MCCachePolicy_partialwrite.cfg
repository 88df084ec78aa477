SPECIFICATION Spec
CONSTANTS
  BlocksCount = 1
  CacheBlocks = 1
  SectorCount = 2
  Vals = {v1}
  Base = Base
  Zero = Zero
  Garbage = Garbage
  None = None
  WriteBack = {TRUE}
  ReadOnly = FALSE
  Extents <- PartialIO
  MayFail = FALSE
  BadFlushRead = FALSE
  MaxChain = 1
SYMMETRY ValSymmetry
INVARIANTS ReadsLatestWrite
