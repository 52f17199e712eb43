SPECIFICATION SerialSpec
CONSTANTS
  Tasks = {t1, t2}
  Users = {u1}
  NoTask = NoTask
  MaxRetry = 1
  HooksEnabled = FALSE
SYMMETRY Symm
PROPERTIES OrphanRunsNoTool
