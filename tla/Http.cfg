SPECIFICATION MCSpec
CONSTANTS
  r1 = r1
  r2 = r2
  Parts = {"http", "listener", "pool", "server"}
  HReq = {r1, r2}
  Sides = {"outgoing", "incoming"}
  MaxRetries = 1
  MaxPieces = 6
  MaxBreaks = 2
  HFaults = {}
  HMay = {}
  Conn = {k1, k2}
  LThread = {"enable", "set_cb"}
  LMay = {}
  Call = {c1, c2, c3}
  PConn = {k1, k2}
  NoConn = NoConn
  SCall = {c1, c2}
  OutHooks = {"continue", "pause"}
  RpcMay = {}
  RpcCareful = TRUE
INVARIANTS HttpAsserts HttpAccounted HttpProceeds ListenerKept RpcAccounted
CHECK_DEADLOCK FALSE
PROPERTY RequestsEnd
