SPECIFICATION CrashSpec
CONSTANTS
  BlocksCount = 2
  CacheBlocks = 2
  SectorCount = 1
  Vals = {v1}
  Base = Base
  Zero = Zero
  Garbage = Garbage
  None = None
  WriteBack = {TRUE}
  ReadOnly = FALSE
  Extents <- ResidentIO
  MayFail = FALSE
  BadFlushRead = FALSE
  MaxChain = 1
SYMMETRY ValSymmetry
INVARIANTS AckedSurvive
