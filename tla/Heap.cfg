SPECIFICATION HeapSpec
CONSTANTS
  NumBytes = 3
  Orders = {0, 1, 3, 4}
  InitialBitmaps <- KernelBitmaps
  BootFrames = {}
  MaxHeld = 5
  MaxReserved = 0
  ChunkRequests = {0, 1, 5, 9}
  CHUNK_SIZE = 512
  Layouts <- MCLayouts
  MaxIssued = 4
INVARIANTS
  HeldByClients
  SlicesExclusive
  StacksApart
  BlocksFit
  AllocationsDisjoint
  FitsLayout
  ChunksAccounted
