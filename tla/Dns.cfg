SPECIFICATION MCSpec
CONSTANTS
  h1 = h1
  h2 = h2
  n1 = n1
  n2 = n2
  q1 = q1
  q2 = q2
  q3 = q3
  SReq = {q1, q2, q3}
  Parts = {"resolver", "gai", "port"}
  Handle = {h1, h2}
  NS = {n1, n2}
  NoNs = NoNs
  Searching = {h2}
  RawFirst = {h2}
  NumDomains = 1
  HighId = 3
  MaxInflight = 2
  Limits = {0}
  IdFrom = {0}
  PerHead = 5
  MaxTx = 1
  MaxReissues = 1
  MaxTimeouts = 0
  MaxEvents = 2
  First = {h1}
  Careful = TRUE
INVARIANTS ResolverConsistent OneCallback GaiToldOnce PortCounted
PROPERTY DnsEnds
CHECK_DEADLOCK FALSE
