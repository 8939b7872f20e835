SPECIFICATION Spec
CONSTANTS
  Runs = {r1, r2, r3}
  NoFile = NoFile
  Size = 2
  MayOverlap = FALSE
  Sent = {"right", "wrong"}
\* Every run ends, and with the last of them the system.
CHECK_DEADLOCK FALSE
INVARIANTS
  CompleteIsVerified
  HandsOutWhole
PROPERTIES
  DownloadLeftAlone
  LinkedFilesStay
