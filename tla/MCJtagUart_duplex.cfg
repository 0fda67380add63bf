SPECIFICATION FairSpec
CONSTANTS
  BUF_LEN = 3
  WRITE_DEPTH = 1
  WRITE_THRESHOLD = 0
  READ_DEPTH = 2
  DEFAULT_TIMEOUT = 2
  INT_MAX = 4
  Timeouts = {}
  MAX_CALL = 2
  WRITE_LIMIT = 1
  TYPE_LIMIT = 4
  Calls = {"write", "read"}
INVARIANTS IrqArmed
PROPERTIES TypedIsReceived RxIsPipe
CHECK_DEADLOCK FALSE
