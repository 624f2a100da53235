SPECIFICATION Spec
CONSTANTS
  FRAME_COUNT = 7
  RESERVED = {0}
  START_VIRT = 8
  END_VIRT = 12
  ADDR_PAGES = 16
  CANON_LOW = 4
  CANON_HIGH = 6
  TABLE_PAGES = 2
  OVERFLOW_CHECKS = TRUE
  PAGE_SIZE = 4
  BLOCK_SIZES <- MCBlockSizes
  MAX_LIST_LENGTH = 2
  MAX_LARGE_ALLOCS = 2
  Layouts <- MixedLayouts
INVARIANTS NoOverlap BlocksConserved
PROPERTY HeapPromise
