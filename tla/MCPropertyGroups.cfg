CONSTANTS
  Scenarios <- MCScenarios
  MaxIDs = 3
  LayerIDs = {1, 2}
  Ratios = {1, 2}
  MaxLayers = 2
  MaxSettings = 2
SPECIFICATION Spec
INVARIANTS
  FacesKeepTheirProperty
  MergedFacesShowTheSame
CHECK_DEADLOCK FALSE
