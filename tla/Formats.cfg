SPECIFICATION MCSpec
CONSTANTS
  Parts = {"lines", "tags", "dns", "http", "texts"}
  MIN_BUFFER_SIZE = 3
  EVBUFFER_CHAIN_SIZE = 1
  EVBUFFER_CHAIN_MAX_AUTO_SIZE = 8
  MAX_TO_COPY_IN_EXPAND = 3
  MAX_TO_REALIGN_IN_EXPAND = 2
  NUM_READ_IOVEC = 2
  PRINTF_SPACE = 2
  MaxBytes = 4
  Spreads = {"add", "reference", "expand"}
  MaxEntries = 2
  MaxItems = 3
  BufLen = 80
  UdpLen = 70
  MaxAddrs = 2
  MaxLabels = 4
  HOST_NAME_MAX = 5
  Methods = {"GET", "HEAD", "POST"}
  MaxRequests = 2
  MaxBody = 2
  HttpCareful = TRUE
INVARIANTS LinesRight PacketsUnderstood FramingAgrees TextsKept
CHECK_DEADLOCK FALSE
