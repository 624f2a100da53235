SPECIFICATION FbSpec
CONSTANTS
  WIDTH = 9
  HEIGHT = 13
  STRIDE = 10
  CHAR_RASTER_WIDTH = 2
  CHAR_RASTER_HEIGHT = 3
  LINE_SPACING = 2
  BORDER_PADDING = 1
  MAX_Y = 30
INVARIANTS PixelsInBuffer GlyphsApart
