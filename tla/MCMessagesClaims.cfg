SPECIFICATION MessagesSpec
CONSTANTS
  Agent = Agent
  Cleanup = Cleanup
  Jobs = {j1}
  Empty = Empty
  MaxMessages = 3
  MaxClicks = 1
  SameMillisecond = FALSE
\* What one would like of the list; each is violated: one at a time.
PROPERTY CompleteStays
\* PROPERTY AnswersAreMeant
\* INVARIANT RunningIsShown
CHECK_DEADLOCK FALSE
