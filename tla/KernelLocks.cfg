SPECIFICATION Spec
CONSTANTS
  MaxDepth = 4
  MaxIrqs = 2
INVARIANTS
  NeverSpins
  IdleIsClean
PROPERTY CallsReturnOrHalt
