SPECIFICATION Spec
CONSTANTS
  NumBytes = 3
  Orders = {0, 1, 3, 4, 25}
  InitialBitmaps <- FragmentedBitmaps
  BootFrames = {21}
  MaxHeld = 3
  MaxReserved = 1
INVARIANTS
  Accounted
  AssertsHold
PROPERTIES
  ExhaustionIsReal
  ImplementsContract
