SPECIFICATION FairMessages
CONSTANTS
  Agent = Agent
  Cleanup = Cleanup
  Jobs = {j1}
  Empty = Empty
  MaxMessages = 2
  MaxClicks = 1
  SameMillisecond = TRUE
INVARIANT DiskFollows
PROPERTIES AnswersAreFresh AsksSettle
\* The user may not answer, and the task may have nothing more to say.
CHECK_DEADLOCK FALSE
