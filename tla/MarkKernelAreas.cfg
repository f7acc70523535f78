SPECIFICATION Spec
CONSTANTS
  MaxAddr = 6
  PageSize = 2
  MaxRegions = 2
  MaxAreas = 2
  Alignments = {2, 4}
INVARIANTS
  MarkedExactly
  OutputSorted
  AtMostTwoMorePerArea
  DifferencesPartition
  RoundingIsExact
