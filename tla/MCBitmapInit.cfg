SPECIFICATION MemorySpec
CONSTANTS
  PAGE_SIZE = 4
  BYTE_BITS = 2
  LOW_END = 4
  KERNEL_END = 8
  MAX_ILLEGAL = 3
  PHYS_END = 18
  MAX_MORE = 1
  MemoryMaps <- AllMaps
INVARIANTS FreeFramesAreSafe UsableFramesAreFree BitmapInUsableMemory
  HandedOnce
