SPECIFICATION Spec
CONSTANTS
  Ids = {c1, c2}
  MaxSaves = 2
  MaxStarts = 2
  MaxSize = 1
  BatchSize = 1
  Backfill = {}
PROPERTY CopiesNeverGoBack
CHECK_DEADLOCK FALSE
