SPECIFICATION FairSpec
CONSTANTS
  BUF_LEN = 3
  WRITE_DEPTH = 2
  WRITE_THRESHOLD = 1
  READ_DEPTH = 1
  DEFAULT_TIMEOUT = 2
  INT_MAX = 5
  Timeouts = {1, 3}
  MAX_CALL = 3
  WRITE_LIMIT = 5
  TYPE_LIMIT = 0
  Calls = {"write", "ioctl", "close"}
INVARIANTS TypeOK
PROPERTIES WriteReturns AcceptedIsSent TxIsPipe
CHECK_DEADLOCK FALSE
