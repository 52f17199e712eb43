SPECIFICATION FairSpec
CONSTANTS
  MaxLines = 7
  FileAfter = 2
  Chunk = 2
  Keep = 1
INVARIANTS LogIsWhole BackgroundLogIsWhole
PROPERTY Answers
\* The command and the user may stop.
CHECK_DEADLOCK FALSE
