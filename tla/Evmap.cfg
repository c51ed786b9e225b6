SPECIFICATION MCSpec
CONSTANTS
  Parts = {"epoll", "other"}
  Names = {"poll", "select", "win32", "devpoll", "kqueue", "evport"}
  MaxFd = 2
  Room = 1
  GetN = 2
  DuringReturn = FALSE
  r1 = r1
  r2 = r2
  rw = rw
  w2 = w2
  d1 = d1
  d2 = d2
  Event = {r1, r2, rw, w2}
  Fd = {d1, d2}
  File = {f1, f2, p1}
  NoFile = NoFile
  EvFd <- Fds
  EvEvents <- Kinds
  Unpollable = {p1}
  Backends = {"epoll", "epoll_changelist"}
  MaxCount = 2
  INITIAL_NEVENT = 1
  MAX_NEVENT = 2
INVARIANTS MapConsistent KernelMatches BackendRight
