\* The calls are bounded by MAX_CALLS.
SPECIFICATION Spec
CONSTANTS
  FIFO_DEPTH = 1
  RETRIES = 1
  MAX_SIZE = 2
  MAX_SLOW = 1
  MAX_BOTH = 4
  MAX_CALLS = 2
INVARIANTS JobSuccess
CHECK_DEADLOCK FALSE
