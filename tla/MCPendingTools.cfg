SPECIFICATION FairSpec
CONSTANTS
  Jobs = {j1, j2, j3}
  NoJob = NoJob
INVARIANTS AnnouncedOnce WaiterIsTold
PROPERTY EveryJobSettles
\* A torn-down task starts no more tools.
CHECK_DEADLOCK FALSE
