SPECIFICATION Spec
CONSTANTS
  Threads = {t1, t2, t3}
  NoThread = NoThread
  Sizes = {0, 1, 2}
  NoPool = NoPool
INVARIANTS
  NoOrtBeforeApi
  PoolAsConfigured
PROPERTIES
  ImplementsRuntimeSetting
  EveryLoadEnds
