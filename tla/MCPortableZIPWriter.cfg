CONSTANTS
  Names = {"model", "long"}
  LongNames = {"long"}
  Bytes = {1, 2}
  Chunks <- MCChunks
  MaxKey = 4
  BufferSize = 2
  EndOfStream = 0
  MaxData = 4
  MaxFailures = 2
SPECIFICATION Spec
INVARIANTS
  StaleStreamsAreClosed
  FinishedArchiveReadsBack
PROPERTIES
  ClosedEntriesAreFinal
CHECK_DEADLOCK FALSE
