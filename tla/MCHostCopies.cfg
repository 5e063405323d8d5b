SPECIFICATION FairSpec
CONSTANTS
  t1 = t1
  t2 = t2
  x1 = x1
  x2 = x2
  Nobody = Nobody
  Threads <- MCThreads
  Runs <- OneOrTwo
  Tensors <- MCTensors
  Sharded <- MCSharded
  MaxMeshes = 3
  MaxCopies = 2
INVARIANTS NothingLeftOnClosedMesh HostBufferOutlivesReads OneThreadClosesAfterCopies
PROPERTIES HandOverCompletes
