SPECIFICATION FairSerialSpec
CONSTANTS
  Tasks = {t1, t2}
  Users = {u1}
  NoTask = NoTask
  MaxRetry = 1
  HooksEnabled = TRUE
INVARIANTS WorkerIsCurrent AbandonedOnlyInCancel
PROPERTIES OrphanRunsNoTool CancelReleases RetriesEnd
