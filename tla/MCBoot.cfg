SPECIFICATION Spec
CONSTANTS
  FRAME_COUNT = 12
  RESERVED = {2}
  TRAMPOLINE = 8
  HEAP_FRAMES = 4
  MAX_TAKEN = 3
INVARIANTS BootInOrder EoiEndsOwn KeyIsRead
PROPERTY KeysAccepted
