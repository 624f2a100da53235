SPECIFICATION Spec
CONSTANTS
  FRAME_COUNT = 10
  RESERVED = {0}
  START_VIRT = 8
  END_VIRT = 12
  ADDR_PAGES = 16
  CANON_LOW = 4
  CANON_HIGH = 6
  TABLE_PAGES = 2
  OVERFLOW_CHECKS = TRUE
  PAGE_SIZE = 2
  BLOCK_SIZES <- OneBlockSize
  MAX_LIST_LENGTH = 2
  MAX_LARGE_ALLOCS = 2
  Layouts <- PageLayouts
INVARIANTS
  Backed FrameOwnership HeapWindow DeallocSucceeds
  FailsOnlyWhenExhausted StaleEntriesHarmless LargeTracked
PROPERTIES  CallsAdvance CallsReturn
