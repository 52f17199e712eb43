SPECIFICATION Spec
CONSTANTS
    MaxMessages = 8
    MaxMarks = 1
    MaxSkips = 1
    MaxRetries = 1
INVARIANT SentOnce
\* The history is bounded.
CHECK_DEADLOCK FALSE
