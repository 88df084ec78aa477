SPECIFICATION Spec
CONSTANTS
  BlocksCount = 2
  CacheBlocks = 1
  SectorCount = 2
  Vals = {v1}
  Base = Base
  Zero = Zero
  Garbage = Garbage
  None = None
  WriteBack = {TRUE}
  ReadOnly = FALSE
  Extents <- PartialIO
  MayFail = TRUE
  BadFlushRead = TRUE
  MaxChain = 1
SYMMETRY ValSymmetry
INVARIANTS EntryPartition MetaInjective ListsAgree
CHECK_DEADLOCK FALSE
