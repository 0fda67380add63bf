\* The numbers of system.h and lcd.h; counters and words of a few values.
SPECIFICATION Spec
CONSTANTS
  HALF = 3
  LOAD = 5
  FREQ = 7
  PERIOD = 125
  UNITS = "ms"
  IP_FREQ_IN_HZ = 100000000
  FS_MAX_HZ = 400000
  FS_MIN_HZ = 100000
  SS_MIN_HZ = 1
  DIFF_LCNT_HCNT = 60
  U16 = 65536
  WIDTH = 320
  HEIGHT = 240
  MAX_X = 3200
  MAX_Y = 3350
  NO_TOUCH_X = 340
  SYSID_ID = 0
  SYSID_TIMESTAMP = 9
  U32 = 16
  Chars = {"a", "b"}
  Strings <- MessageStrings
  Speeds <- BorderSpeeds
  Answers <- BorderAnswers
  Hardware <- NearHardware
INVARIANTS TypeOK NoTickLost ServicesRight
PROPERTY TimestampIsTime
