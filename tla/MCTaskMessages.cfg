SPECIFICATION FairMessages
CONSTANTS
  Agent = Agent
  Cleanup = Cleanup
  Jobs = {j1}
  Empty = Empty
  MaxMessages = 3
  MaxClicks = 1
  SameMillisecond = FALSE
INVARIANT DiskFollows
PROPERTIES AnswersAreFresh AsksSettle
\* The user may not answer, and the task may have nothing more to say.
CHECK_DEADLOCK FALSE
