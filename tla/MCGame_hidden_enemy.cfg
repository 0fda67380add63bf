\* An enemy behind one that could not be placed.
SPECIFICATION FairSpec
CONSTANTS
  NUM_LEVELS = 1
  MAX_ENEMIES = 3
  ENEMY_SPAWN_RATE = 3
  BOX_SIZE = 2
  BOX_OFFSET = 1
  SAFE_DISTANCE = 1
  WIDTH = 9
  HEIGHT = 9
  STEP = 2
  END_START = 6
  END_STEP = 1
  WIN_LEVEL = 1
  NAME_WORDS = 0
  NAME = 50
  Readings = {0, 119, 255}
INVARIANTS EveryTouchCounts
