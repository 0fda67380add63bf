\* Refreshes at any time.
SPECIFICATION DisplaySpec
CONSTANT MAX_FRAMES = 3
INVARIANT ShownIsWhole
CHECK_DEADLOCK FALSE
