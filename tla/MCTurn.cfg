SPECIFICATION FairTurn
CONSTANTS
  MaxChunks = 4
  MaxUsage = 1
  MaxBlocks = 3
  MaxCalls = 2
  MaxXml = 2
INVARIANT EachCallOnce
PROPERTIES ImplementsChannel ReadToEndWithoutConsumer StoppedStartsNoTool TurnEnds
\* A reply ends.
CHECK_DEADLOCK FALSE
