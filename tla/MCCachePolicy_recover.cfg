SPECIFICATION CrashSpec
CONSTANTS
  BlocksCount = 2
  CacheBlocks = 1
  SectorCount = 2
  Vals = {v1, v2}
  Base = Base
  Zero = Zero
  Garbage = Garbage
  None = None
  WriteBack = {TRUE}
  ReadOnly = FALSE
  Extents <- ResidentIO
  MayFail = TRUE
  BadFlushRead = FALSE
  MaxChain = 2
SYMMETRY ValSymmetry
INVARIANTS TypeOK EntryPartition AckedSurvive CrashConsistent
PROPERTIES CrashVolumeSpec
