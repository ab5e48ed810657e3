SPECIFICATION Spec
CONSTANTS
  INODE_COUNT = 6
  DIR_ENTRIES_PER_BLOCK = 3
  MAX_ENTRIES = 6
  Names <- MCNames
  BadName = "?"
  Paths <- MCPaths
  CreateTypes = {"file", "dir"}
PROPERTY OnlyEmptyDeleted
