SPECIFICATION Spec
CONSTANTS
  Jobs = {j1, j2}
  NoJob = NoJob
SYMMETRY Symm
PROPERTIES ApprovalWaitsForUser
\* A torn-down task starts no more tools.
CHECK_DEADLOCK FALSE
