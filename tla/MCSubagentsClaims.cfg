SPECIFICATION FairAgents
CONSTANTS
  Agents = {a1}
  MaxTurns = 1
  MaxEmpty = 1
  MaxAttempts = 2
  MaxCalls = 2
\* What comments and messages of the code say; each is violated: one at a time.
PROPERTY TimeIsLimited
\* INVARIANT OnlyWholeReplies
\* PROPERTY AgentJobsDie
\* PROPERTY AbortedRunsNoTool
\* INVARIANT FindingsAreKept
\* The call returns.
CHECK_DEADLOCK FALSE
