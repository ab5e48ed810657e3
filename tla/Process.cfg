SPECIFICATION Spec
CONSTANTS
  MAX_FDS = 3
  MAX_ARGV_COUNT = 2
  Argcs = {0, 1, 3}
  MAX_PID = 4
  MAX_DEPTH = 3
INVARIANTS TypeOK FreedOnce
