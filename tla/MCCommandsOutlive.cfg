SPECIFICATION Spec
CONSTANTS
  Cmds = {c1, c2}
  Signalled = {c1, c2}
  Interactive = {}
  MaxAborts = 1
  None = None
PROPERTY JobsDieWithTask
CHECK_DEADLOCK FALSE
