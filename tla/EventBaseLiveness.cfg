SPECIFICATION FairSpec
CONSTANTS
  rd = rd
  tm = tm
  pt = pt
  sg = sg
  xt = xt
  q1 = q1
  main = main
  other = other
  UserEvent = {rd, sg}
  LoopExit = {}
  th_notify = th_notify
  CommonQueue = {}
  NoQueue = NoQueue
  EvEvents <- Kinds
  Persist = {rd, pt}
  InitPri <- RdFirst
  NPrio = 1
  Thread = {main, other}
  NoThread = NoThread
  NoEvent = NoEvent
  Deferred = {d1, d2}
  MAX_DEFERRED = 1
  Durations = {}
  Duration <- OneUnit
  NO_CACHE_TIME = FALSE
  Ncalls = {1}
  MaxVirtual = 0
  MaxTime = 1
  Uses <- LiveUses
PROPERTIES WaitersReleased BreakStops ActiveServed DeferredYields
CHECK_DEADLOCK FALSE
