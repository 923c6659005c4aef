CONSTANTS
  IDs = {1, 2, 3, 4}
  Root = "root"
  Other = "other"
  Documents <- MCDocuments
  MaxMistakes = 1
SPECIFICATION Spec
INVARIANTS
  FramesFollowElements
  ReadModelIsConsistent
  StrictAcceptsTheFormat
PROPERTIES
  ReadEnds
CHECK_DEADLOCK FALSE
