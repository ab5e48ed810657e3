SPECIFICATION Spec
CONSTANTS
  BLOCK_SIZE = 512
  INODE_SIZE = 76
  WORD = 1073741824
  MIN_BLOCKS = 10
  ROUNDS = 8
  EDITOR_MIN_BLOCKS = 100
  EDITOR_INODES = 256
  Geometries <- SomeGeometries
INVARIANTS PartsFit FoundInItsPart
CHECK_DEADLOCK FALSE
