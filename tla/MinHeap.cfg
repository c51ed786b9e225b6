\* Six events: an erase sifts the last event up only when it was in the other
\* subtree, which takes a heap of six slots.  Two due times are enough for
\* every outcome of a comparison, ties included.  A first allocation of 2
\* makes the array grow twice.
SPECIFICATION Spec
CONSTANTS
  Event = {e1, e2, e3, e4, e5, e6}
  Time = {0, 1}
  InitCap = 2
  NoEvent = NoEvent
SYMMETRY EventSymmetry
INVARIANTS TopIsEarliest BackPointersExact
PROPERTY ImplementsTimerQueue
CHECK_DEADLOCK FALSE
