SPECIFICATION Spec
CONSTANTS
  b1 = b1
  b2 = b2
  MIN_BUFFER_SIZE = 3
  EVBUFFER_CHAIN_SIZE = 1
  EVBUFFER_CHAIN_MAX_AUTO_SIZE = 8
  MAX_TO_COPY_IN_EXPAND = 3
  MAX_TO_REALIGN_IN_EXPAND = 2
  NUM_READ_IOVEC = 2
  PRINTF_SPACE = 2
  MaxBytes = 6
  MaxPending = 6
  Buffer = {b1, b2}
  Uses <- ReadAndAdd
INVARIANTS AssertsHold
CHECK_DEADLOCK FALSE
