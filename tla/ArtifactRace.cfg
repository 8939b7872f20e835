SPECIFICATION Spec
CONSTANTS
  Runs = {r1, r2}
  NoFile = NoFile
  Size = 2
  MayOverlap = TRUE
  Sent = {"right"}
\* Every run ends, and with the last of them the system.
CHECK_DEADLOCK FALSE
INVARIANT CompleteIsVerified
