SPECIFICATION TemplateSpec
CONSTANTS
  Radix = 4
  Pages <- MCAllPages
  Frames <- MCNone
  TableFrames <- MCNoFrames
  LeafFlagSets <- MCNone
  ParentFlagSets <- MCNone
  MaskFlagSets <- MCNone
  OpaqueSets <- MCNone
  AddressBits <- MCAddressBits
  LowPages = 4
  PhysBase = 128
  KernelBase = 240
  KernelImage <- MCKernelImage
  MaxFrames = 50
  TableRatio = 2
  FirstBump = 8
  Layouts <- MCLayouts
INVARIANTS
  TemplateIsExact
  WritableXorExecutable
