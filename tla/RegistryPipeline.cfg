SPECIFICATION Spec
CONSTANTS
  Models = {m1, m2}
  Verdicts = {equivalent, divergent}
  NoVerdict = NoVerdict
  Absent = Absent
  MaxCommit = 2
  MaxRuns = 4
INVARIANTS
  PinsOfOneCommit
  VerdictHasBasis
  OneMeasurement
  ShippedIsMeasured
SYMMETRY Symmetry
