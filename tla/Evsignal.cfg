SPECIFICATION FairSpec
CONSTANTS
  e1 = e1
  e2 = e2
  e3 = e3
  s1 = s1
  s2 = s2
  b1 = b1
  b2 = b2
  Base = {b1, b2}
  NoBase = NoBase
  Event = {e1, e2, e3}
  NoEvent = NoEvent
  Sig = {s1, s2}
  EvSig <- Sigs
  EvBase <- Apart
  PairSize = 1
  Failing = {b2}
INVARIANTS HandlersRight SignalNotLost
PROPERTIES SignalServed
CHECK_DEADLOCK FALSE
