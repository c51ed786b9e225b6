SPECIFICATION Spec
CONSTANTS
  s0 = s0
  s1 = s1
  s2 = s2
  p1 = p1
  p2 = p2
  f = f
  below = below
  NoBev = NoBev
  Bev = {s0, s1, s2, p1, p2, f, below}
  Kind <- Kinds
  Link <- Links
  NullFilter = FALSE
  Rates <- Configurations
  GroupRate = 2
  MinShares = {64}
  MaxBytes = 2
  RMarks <- ReadMarks
  WMarks <- WriteMarks
  MaxLim = 2
  FlushModes = {"flush", "finished"}
  FlushAlone = FALSE
  SetfdConnecting = FALSE
  Parts = {"socket", "pair", "filter", "limit", "group", "ssl"}
  MaxRecords = 2
  OHigh = {0, 1}
  SslMay = {}
INVARIANTS Watched Resumed RefsRight Told SslProceeds
CHECK_DEADLOCK FALSE
SYMMETRY Alike
