SPECIFICATION Spec
CONSTANTS
  NumBytes = 2
  Orders = {0, 2}
  InitialBitmaps <- QuadBitmaps
  BootFrames = {3, 11}
  MaxHeld = 3
  MaxReserved = 1
PROPERTY AllocatesOnlyFree
