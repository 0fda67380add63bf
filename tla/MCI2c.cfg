\* The calls are bounded by MAX_CALLS.
SPECIFICATION FairSpec
CONSTANTS
  FIFO_DEPTH = 2
  RETRIES = 1
  MAX_SIZE = 3
  MAX_SLOW = 1
  MAX_BOTH = 3
  MAX_CALLS = 2
INVARIANTS TypeOK EnabledIfNeeded SuccessIsComplete LateIsTold
PROPERTIES TransfersEnd
CHECK_DEADLOCK FALSE
