SPECIFICATION FairSpec
CONSTANTS
  Cmds = {c1, c2}
  Signalled = {c1}
  Interactive = {c2}
  MaxAborts = 2
  None = None
PROPERTY NoZombies
CHECK_DEADLOCK FALSE
