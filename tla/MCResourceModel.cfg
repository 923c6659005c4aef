CONSTANTS
  UsedKinds <- MCKinds
  RootPath = "root"
  OtherPaths = {"part"}
  MaxID = 2
  MaxResources = 3
  MaxHandles = 4
  MaxLayers = 2
SPECIFICATION Spec
INVARIANTS
  LookupTablesListTheModel
  BuildItemsAreKnownByTheirHandles
  APIModelsNeverCollide
  ReferencesResolve
PROPERTIES
  UniqueIDsAreNeverReused
