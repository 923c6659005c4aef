CONSTANTS
  IDs = {1}
  Root = "root"
  Other = "other"
  Documents = {}
  MaxMistakes = 0
  Scenarios <- MCScenarios
  Contents = {"empty", "faces", "beams"}
  Polygons = {"closed", "open", "point"}
  Types = {"model", "surface", "other"}
  MaxRetries = 1
SPECIFICATION RoundTripSpec
INVARIANTS WrittenModelsAreRead ReadModelIsTheWritten
CHECK_DEADLOCK FALSE
