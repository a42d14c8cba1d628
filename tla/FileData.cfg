CONSTANTS
  BLKSIZE = 2
  N_DIRECT = 1
  N_INDIRECT = 2
  NBlocks = 5
  Buffers <- MCBuffers
SPECIFICATION Spec
INVARIANT NoBlockLost
INVARIANT ReadsContent
PROPERTY KeepsPromise
