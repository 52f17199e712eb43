SPECIFICATION SharedSpec
CONSTANTS
  Ops = {w1}
  Commands = {c1}
  f1 = f1
  Bye = Bye
  MaxChunks = 1
  Files = {f1}
  FileOf <- OneFile
  None = None
  MaxEdits = 2
CHECK_DEADLOCK FALSE
INVARIANT WorkspaceIsOwn
