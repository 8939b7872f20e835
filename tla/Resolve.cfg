SPECIFICATION Spec
CONSTANTS
  Procs = {p1, p2}
  Entries <- MCEntries
  Givens <- MCGivens
  Environments <- MCEnvironments
  Other = "other"
  NotThere = "none"
  Asked = {0, 90}
  kAttempts = 4
\* A load ends with both files, or with an error.
CHECK_DEADLOCK FALSE
INVARIANTS
  FindsItsOwn
  RequestsAllowed
  BackoffHonoured
SYMMETRY MCSymmetry
