CONSTANTS
  UsedKinds <- MCKinds
  RootPath = "root"
  OtherPaths = {"part"}
  MaxID = 2
  MaxResources = 3
  MaxHandles = 3
  MaxLayers = 2
SPECIFICATION MergeSpec
INVARIANTS
  MergedModelIsWellFormed
  MergeCopiesEveryTable
CHECK_DEADLOCK FALSE
