SPECIFICATION FairSpec
CONSTANTS
  NIBBLE = 2
  HALF_BLOCK_SIZE = 2
  CLUSTER_BLOCK_COUNT = 2
  BLOCKS = 67
  MEMORY = 8
  Words = {0, 1}
  Images <- MCImages
  Memories <- MCMemories
  Requests <- MCRequests
INVARIANT DiskInv
PROPERTIES
  ImplementsBlockStore
  EveryCallReturns
