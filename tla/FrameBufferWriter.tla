-------------------------- MODULE FrameBufferWriter --------------------------
(***************************************************************************)
(* The framebuffer console (kernel/src/framebuffer.rs): where write_char   *)
(* puts each character on the screen.  Positions are in pixels.  The state *)
(* is the cursor and the characters drawn since the screen was cleared,    *)
(* each by the position of its upper left pixel; colours are left out.     *)
(***************************************************************************)
EXTENDS Integers

CONSTANTS
  WIDTH, HEIGHT, STRIDE,    \* of FrameBufferInfo
  CHAR_RASTER_WIDTH, CHAR_RASTER_HEIGHT,
  LINE_SPACING,             \* 2
  BORDER_PADDING,           \* 1
  MAX_Y                     \* bound: a line feed below this row is not tried

\* The screen has room for a character and the padding around it.
ASSUME ScreenAssumption ==
  /\ {WIDTH, HEIGHT, STRIDE, CHAR_RASTER_WIDTH, CHAR_RASTER_HEIGHT} \subseteq Nat \ {0}
  /\ {LINE_SPACING, BORDER_PADDING, MAX_Y} \subseteq Nat
  /\ WIDTH <= STRIDE
  /\ BORDER_PADDING + CHAR_RASTER_WIDTH <= WIDTH
  /\ BORDER_PADDING + CHAR_RASTER_HEIGHT + BORDER_PADDING <= HEIGHT

VARIABLES
  x_pos, y_pos,   \* the cursor
  glyphs          \* positions of the characters on the screen

fb_vars == <<x_pos, y_pos, glyphs>>

LineHeight == CHAR_RASTER_HEIGHT + LINE_SPACING

\* new: a cleared screen.
FbInit ==
  /\ x_pos = BORDER_PADDING
  /\ y_pos = BORDER_PADDING
  /\ glyphs = {}

newline ==
  /\ y_pos < MAX_Y
  /\ y_pos' = y_pos + LineHeight
  /\ x_pos' = BORDER_PADDING
  /\ UNCHANGED glyphs

carriage_return ==
  /\ x_pos' = BORDER_PADDING
  /\ UNCHANGED <<y_pos, glyphs>>

\* write_char: there is no room for a character in the line.
Wraps == x_pos + CHAR_RASTER_WIDTH > WIDTH

\* Mutation: the height of the character is forgotten.
Clears_m(y) == y + BORDER_PADDING > HEIGHT

\* write_char: there is no room for a line at y.
Clears(y) == y + CHAR_RASTER_HEIGHT + BORDER_PADDING > HEIGHT

\* Mutation: the cursor moves one pixel too few.
Advance_m(x) == x + CHAR_RASTER_WIDTH - 1

\* write_rendered_char: the cursor after a character.
Advance(x) == x + CHAR_RASTER_WIDTH

\* write_char of a character that is not a line end: a newline if it does not
\* fit in the line, a clear screen if the line does not fit on the screen.
write_char ==
  LET x1 == IF Wraps THEN BORDER_PADDING ELSE x_pos
      y1 == IF Wraps THEN y_pos + LineHeight ELSE y_pos
      x2 == IF Clears(y1) THEN BORDER_PADDING ELSE x1
      y2 == IF Clears(y1) THEN BORDER_PADDING ELSE y1
  IN  /\ glyphs' = (IF Clears(y1) THEN {} ELSE glyphs) \cup {<<x2, y2>>}
      /\ x_pos' = Advance(x2)
      /\ y_pos' = y2

FbNext == newline \/ carriage_return \/ write_char

FbSpec == FbInit /\ [][FbNext]_fb_vars

-----------------------------------------------------------------------------
(***************************************************************************)
(* Properties.                                                             *)
(***************************************************************************)

\* The type of every variable; the cursor is inside the left padding and at
\* most at the right edge.
FbTypeOK ==
  /\ x_pos \in BORDER_PADDING .. WIDTH
  /\ y_pos \in Nat /\ y_pos >= BORDER_PADDING
  /\ glyphs \subseteq Nat \X Nat

\* write_pixel's offset of a pixel, in pixels.
pixel_offset(x, y) == y * STRIDE + x

\* write_pixel never indexes outside the framebuffer, which would panic: every
\* pixel of every character is in a row of the screen and in the buffer.
PixelsInBuffer ==
  \A g \in glyphs :
    /\ g[1] + CHAR_RASTER_WIDTH <= WIDTH
    /\ pixel_offset(g[1] + CHAR_RASTER_WIDTH - 1, g[2] + CHAR_RASTER_HEIGHT - 1)
         < HEIGHT * STRIDE

Apart(a, la, b) == a + la <= b \/ b + la <= a

\* A character is drawn over another only in the same place (after a carriage
\* return): no two characters on the screen overlap in part, whatever the
\* mixture of line feeds, returns, wrapped lines and cleared screens.
GlyphsApart ==
  \A g, h \in glyphs :
    \/ g = h
    \/ Apart(g[1], CHAR_RASTER_WIDTH, h[1])
    \/ Apart(g[2], CHAR_RASTER_HEIGHT, h[2])
=============================================================================
