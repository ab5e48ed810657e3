SPECIFICATION Spec
CONSTANTS
  NBLOCKS = 3
  INODE_COUNT = 2
  BLOCK_SIZE = 2
  DIRECT_BLOCKS = 1
  PER_BLOCK = 2
  ENTRY_SIZE = 2
  WORD = 16
  MAX_FDS = 1
  Requests <- AllRequests
INVARIANTS TypeOK BlocksOwned NoLeak ReadIsPrefix
PROPERTIES ReadFindsWritten
