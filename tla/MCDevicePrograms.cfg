SPECIFICATION ProgramsSpec
CONSTANTS
  Calls <- RowsCalls
  PoolCalls <- PoolCopies
  SelectCalls <- TopKCalls
  IndexBits = 4
  Unwritten <- Garbage
  MaxChunk = 2
  Granule = 2
  GroupBudget = 8
  MaxGroup = 2
  BatchBudget = 10
  IndexBudget = 2
  SourceBudget = 6
  TileSize = 4
  Bits = 6
  MaxK = 8
  NarrowTiles = 3
  MaxFaceRows = 16
  MaxCandidates = 16
  Infinity = 50
  NotANumber = 51
  ChunkTiles = 3
  FaceWidth = 2
  Blank = Blank
INVARIANTS EndsAsPromised TransfersStayInside ElementsGoOutOnce NeverWaitForEachOther SelectsTheBest SemaphoresEndAtZero QuantizesByRow CopiesThePairs
