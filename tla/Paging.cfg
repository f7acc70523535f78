SPECIFICATION Spec
CONSTANTS
  Radix = 2
  Pages <- MCPages
  Frames <- MCFrames
  TableFrames <- MCTableFrames
  LeafFlagSets <- MCLeafFlags
  ParentFlagSets <- MCParentFlags
  MaskFlagSets <- MCMasks
  OpaqueSets <- MCOpaque
INVARIANTS
  TablesOwned
  PathHasFlags
PROPERTY
  ImplementsPageMap
