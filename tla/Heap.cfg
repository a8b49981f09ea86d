SPECIFICATION Spec
CONSTANTS
  HEAP_SIZE = 88
  HDR = 12
  U32 = 65536
  Requests = {1, 8, 17}
INVARIANTS
  Tiled
  Coalesced
PROPERTIES
  FailsOnlyWhenFull
  ImplementsAllocator
