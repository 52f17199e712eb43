SPECIFICATION Spec
CONSTANTS
  MaxLines = 7
  FileAfter = 2
  Chunk = 2
  Keep = 1
PROPERTY FullOutputSaved
CHECK_DEADLOCK FALSE
