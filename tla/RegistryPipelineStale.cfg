SPECIFICATION Spec
CONSTANTS
  Models = {m1}
  Verdicts = {equivalent, divergent}
  NoVerdict = NoVerdict
  Absent = Absent
  MaxCommit = 2
  MaxRuns = 4
INVARIANT ShippedAsMeasured
