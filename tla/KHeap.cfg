SPECIFICATION FairSpec
CONSTANTS
  HEAP_SIZE = 28
  Sizes <- GranularSizes
  Data = {7}
  KMALLOC_MAGIC = 1001
  KMALLOC_FREED_MAGIC = 1002
INVARIANTS TypeOK HeapWalkable PayloadsDisjoint LostOnlyIfReused
PROPERTIES HeldIsStable KmallocReturns
