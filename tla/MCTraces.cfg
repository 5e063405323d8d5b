SPECIFICATION TracesSpec
CONSTANTS
  Addrs = {1, 2, 3, 4}
  Regions <- MCRegions
  Buffers = {b1, b2, b3}
  Traces = {t1, t2}
  NoTrace = NoTrace
  Programs = {1, 2}
  Indices = {1, 2}
  MaxValue = 2
  MaxCapture = 11
  MaxEager = 1
  ChunkSize = 3
  QueueSize = 2
  CacheSlots = 2
  NoProgram = NoProgram
INVARIANTS OneOwner RunsTheChosenBranches
PROPERTIES PoolProtects CaptureRestoresPool
