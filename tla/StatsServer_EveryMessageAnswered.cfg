SPECIFICATION Spec
CONSTANTS
  Conns = {c1, c2}
  Addresses = {a1}
  RealMutex = TRUE
  STATS_SAVE_INTERVAL = 1
  CLEANUP_INTERVAL = 1
  MAX_ENTRY_AGE = 2
  Start = 2
  MaxNow = 4
PROPERTIES
  EveryMessageAnswered
CHECK_DEADLOCK FALSE
