SPECIFICATION Spec
CONSTANTS
  HEAP_SIZE = 20
  Sizes <- OddSizes
  Data = {7}
  KMALLOC_MAGIC = 1001
  KMALLOC_FREED_MAGIC = 1002
INVARIANT HeapWalkable
