CONSTANTS
  PartNames = {"a", "b"}
  ThumbnailName = "b"
  RootName = "root"
  MaxParts = 2
  MaxArrays = 2
  MaxExports = 3
  MaxFailures = 1
SPECIFICATION Spec
INVARIANTS
  AcceptedPackagesAreWhole
  CompletedExportReadsBack
PROPERTIES
  RepeatedExportIsTheSame
CHECK_DEADLOCK FALSE
