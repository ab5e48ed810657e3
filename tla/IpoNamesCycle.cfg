SPECIFICATION Spec
CONSTANTS
  INODE_COUNT = 5
  DIR_ENTRIES_PER_BLOCK = 3
  MAX_ENTRIES = 6
  Names <- MCNames
  BadName = "?"
  Paths <- MCPaths
  CreateTypes = {"file"}
INVARIANT AllReachable
