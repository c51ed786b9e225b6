SPECIFICATION Spec
CONSTANTS
  rd = rd
  tm = tm
  pt = pt
  sg = sg
  xt = xt
  q1 = q1
  main = main
  other = other
  UserEvent = {rd}
  LoopExit = {}
  th_notify = th_notify
  CommonQueue = {}
  NoQueue = NoQueue
  EvEvents <- Kinds
  Persist = {rd, pt}
  InitPri <- RdFirst
  NPrio = 1
  Thread = {main, other}
  NoThread = NoThread
  NoEvent = NoEvent
  Deferred = {d1}
  MAX_DEFERRED = 1
  Durations = {1}
  Duration <- OneUnit
  NO_CACHE_TIME = FALSE
  Ncalls = {1, 2}
  MaxVirtual = 1
  MaxTime = 1
  Uses <- OneReader
PROPERTIES DelWaitsForCallback
CHECK_DEADLOCK FALSE
