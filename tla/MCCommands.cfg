SPECIFICATION FairSpec
CONSTANTS
  Cmds = {c1, c2}
  Signalled = {c1}
  Interactive = {c2}
  MaxAborts = 2
  None = None
PROPERTIES CancelledWasAtWork TeardownKills TrackedEnds
\* Every command may have ended, and the task have been torn down.
CHECK_DEADLOCK FALSE
