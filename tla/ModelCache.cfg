SPECIFICATION Spec
CONSTANTS
  Procs = {p1, p2}
  Offline = {}
  Names = {n1, n2, n3}
  NoName = NoName
  kAttempts = 2
  MaxCrashes = 1
  MaxEvicts = 1
INVARIANTS
  TypeOK
  VerifiedFilesOnly
  NoStrayPartials
PROPERTIES
  PartialUndisturbed
  EveryLoadEnds
