SPECIFICATION Spec
CONSTANTS
  INODE_COUNT = 6
  NBLOCKS = 5
  MAX_ENTRIES = 6
  f = f
  g = g
  Names = {f, g}
  Types = {"dir", "file"}
  Faults = {"reset", "read", "write"}
  MAX_FAULTS = 2
  MAX_CALLS = 2
SYMMETRY Symmetry
INVARIANTS TypeOK NamesSound BlocksApart ProtectedPresent
PROPERTIES NothingLost
CHECK_DEADLOCK FALSE
