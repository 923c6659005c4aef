CONSTANTS
  Documents <- MCDocuments
  Capacities = {4, 5, 6, 7, 8, 9, 10, 11, 12, 14, 16, 20}
SPECIFICATION Spec
INVARIANTS EntitiesDoNotDependOnTheBuffer StringsEndAtTheirDelimiter TheEndIsReached
CHECK_DEADLOCK FALSE
