SPECIFICATION Spec
CONSTANTS
  Tasks = {t1, t2}
  Users = {u1}
  NoTask = NoTask
  MaxRetry = 1
  HooksEnabled = TRUE
SYMMETRY Symm
INVARIANT AbandonedOnlyInCancel
\* Overlapping calls may want more Task objects than there are slots.
CHECK_DEADLOCK FALSE
