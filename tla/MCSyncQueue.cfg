SPECIFICATION FairSpec
CONSTANTS
  Ids = {c1, c2}
  MaxSaves = 2
  MaxStarts = 2
  MaxSize = 1
  BatchSize = 1
  Backfill = {c1}
INVARIANT Accounted
PROPERTIES RemoteMovesForward Drains DisposeEnds
\* The number of starts is bounded.
CHECK_DEADLOCK FALSE
