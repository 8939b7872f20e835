SPECIFICATION EmbedderSpec
CONSTANTS
  NoKey = NoKey
  NoObject = NoObject
  Threads = {t1, t2, t3}
  Keys = {k1, k2}
  Objects = {o1, o2}
  LoadOutcomes = {"session", "error", "throw"}
  MaxOpens = 5
  MaxConfigs = 1
\* Opens are bounded, so a behaviour may stop with everything closed.
CHECK_DEADLOCK FALSE
SYMMETRY Symmetry
INVARIANTS
  TypeOK
  SingleFlight
  OneLiveSessionPerKey
  SettledListingExact
  PendingHasLoader
  HandlesAreOpens
  ValidIsLive
PROPERTIES
  OpenSetsOut
  HeldIsNotReloaded
  ImplementsStore
