\* Three levels, a player twice as fast as the enemies, and arrays in game.h's
\* proportion: the last level has more enemies than MAX_ENEMIES.
SPECIFICATION FairSpec
CONSTANTS
  NUM_LEVELS = 3
  MAX_ENEMIES = 2
  ENEMY_SPAWN_RATE = 1
  BOX_SIZE = 2
  BOX_OFFSET = 2
  SAFE_DISTANCE = 2
  WIDTH = 9
  HEIGHT = 11
  STEP = 2
  END_START = 6
  END_STEP = 1
  WIN_LEVEL = 3
  NAME_WORDS = 1
  NAME = 50
  Readings = {0, 119, 255}
INVARIANTS TypeOK VerdictUntilFirstWin LevelShown MainInOrder
PROPERTIES NoEnemyVanishes ChaseTerminates
