CONSTANTS
  NameSpaces = {"", "vendor"}
  Names = {"Title", "Designer", "Custom"}
  Reserved = {"Title", "Designer"}
  MaxCount = 2
  MaxData = 3
  OwnerTypes = {"object", "item", "component"}
  MaxOwners = 4
  MaxUUID = 6
  PartNames = {"a", "b"}
  ThumbnailName = "thumbnail"
  MaxAttachments = 3
  MaxTextures = 1
  MaxObjects = 4
  MaxComponents = 2
  a = a
  b = b
  c = c
  Stacks <- MCStacks
  MaxZ = 2
  MaxSlices = 2
  MaxRefs = 2
  MeshNames = {"m1", "m2"}
  Properties = {"p"}
  MaxFaces = 2
  MaxMerges = 3
  MaxNodes = 4
  Triangles <- MCTriangles
  FaceLists <- MCFaceLists
  BeamEnds <- MCBeamEnds
  BeamLists <- MCBeamLists
  RefLists <- MCRefLists
  MaxElements = 4
  ItemCount = 2
  ObjectTypes = {"model", "surface"}
  LayerPaths = {"layer1", "layer2"}
  Streams = {"stream"}
  MaxToolLayers = 2
  MaxRegistered = 1
  MaxSegments = 2
  MaxExports = 2
SPECIFICATION Spec
INVARIANTS
  DistinctUnlessRenamed
  RegistryIsExact
  MapAndListAgree
  ComponentsAreWrittenFirst
  ReferencesAreOrdered
  MergedMeshIsTheSources
  ManifoldIsClosed
  LatticeIsSane
  FacetsAreTheFaces
  ListedLayersHaveTheirParts
PROPERTIES
  OthersStayAttached
CHECK_DEADLOCK FALSE
