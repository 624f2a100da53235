SPECIFICATION VgaSpec
CONSTANTS
  BUFFER_HEIGHT = 3
  BUFFER_WIDTH = 2
  Bytes <- MCBytes
  MAX_LINES = 5
INVARIANT ShowsText
CHECK_DEADLOCK FALSE
