CONSTANTS
  MAX_PAGES = 10
  PAGE_SIZE = 4
  BYTE = 2
  WORD = 64
  LOW_PAGES = 1
  KERNEL_END = 5
  MemoryMaps <- Maps
  HEAP_PAGES = 4
  SlabSizes = {1, 2}
  MAX_SLAB_PAGES = 1
  Sizes = {1, 2, 4}
  MAX_HELD = 4
SPECIFICATION Spec
INVARIANT NothingShared
