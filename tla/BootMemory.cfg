SPECIFICATION Spec
CONSTANTS
  MaxAddr = 90
  PageSize = 2
  OneMiB = 20
  OneGiB = 60
  TableRatio = 14
  NumBytes = 5
  MapCapacity = 8
  Boots <- MCBoots
  GarbageSizes <- MCGarbage
INVARIANTS
  TablesInFreeMemory
  WritesInBounds
  FreeFramesAreUnused
  NothingLost
