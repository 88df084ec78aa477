SPECIFICATION Spec
CONSTANTS
  BlocksCount = 2
  CacheBlocks = 1
  SectorCount = 1
  Vals = {v1, v2}
  Base = Base
  Zero = Zero
  Garbage = Garbage
  None = None
  WriteBack = {TRUE, FALSE}
  ReadOnly = FALSE
  Extents <- DiscardIO
  MayFail = FALSE
  BadFlushRead = FALSE
  MaxChain = 2
SYMMETRY ValSymmetry
INVARIANTS EntryPartition MetaInjective ReadsLatestWrite AckedSurvive CleanIsSynced ListsAgree
PROPERTIES VolumeSpec
CHECK_DEADLOCK FALSE
