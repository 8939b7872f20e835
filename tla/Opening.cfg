SPECIFICATION OpeningSpec
CONSTANTS
  NoKey = NoKey
  Threads = {t1, t2}
  Keys = {k1, k2}
  LoadOutcomes = {"session", "error", "throw"}
  MaxOpens = 3
  MaxConfigs = 0
  NoThread = NoThread
  Sizes = {1, 2}
  NoPool = NoPool
\* Opens are bounded, so a behaviour may stop with everything closed.
CHECK_DEADLOCK FALSE
PROPERTIES
  EveryOpenReturns
  ImplementsModelSharing
  ImplementsSessionStore
  HandlesFixPool
