CONSTANTS
  Documents <- MCDocuments
  Capacities = {9}
SPECIFICATION Spec
INVARIANT StringsAreTerminated
CHECK_DEADLOCK FALSE
