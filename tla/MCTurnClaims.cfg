SPECIFICATION TurnSpec
CONSTANTS
  MaxChunks = 4
  MaxUsage = 1
  MaxBlocks = 3
  MaxCalls = 2
  MaxXml = 2
\* What comments of the code say; each is violated: one at a time.
INVARIANT OneChannel
\* PROPERTY PartialTellsNothing
\* PROPERTY TextIsShownWhole
\* A reply ends.
CHECK_DEADLOCK FALSE
