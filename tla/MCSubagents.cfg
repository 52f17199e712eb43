SPECIFICATION FairAgents
CONSTANTS
  Agents = {a1}
  MaxTurns = 2
  MaxEmpty = 2
  MaxAttempts = 3
  MaxCalls = 2
INVARIANTS AbortedAsksOnceMore TurnsAreBounded
PROPERTY RunsEnd
\* The call returns.
CHECK_DEADLOCK FALSE
