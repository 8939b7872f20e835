SPECIFICATION Spec
CONSTANTS
  NoKey = NoKey
  Threads = {t1, t2}
  Keys = {k1}
  LoadOutcomes = {"session", "error", "throw"}
  MaxOpens = 3
  MaxConfigs = 0
\* Opens are bounded, so a behaviour may stop with everything closed.
CHECK_DEADLOCK FALSE
INVARIANT FailedLoadIsForgotten
