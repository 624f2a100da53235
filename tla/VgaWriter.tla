------------------------------ MODULE VgaWriter ------------------------------
(***************************************************************************)
(* The VGA text console (kernel/src/vga_buffer.rs): write_byte writes in   *)
(* the last row and scrolls.  The kernel's print! no longer uses it.       *)
(*                                                                         *)
(* lines records what was written, cut in lines by a definition of its own *)
(* (AddByte) that knows nothing of the screen, the scrolling or the        *)
(* column: what the screen must show is the last of these lines.           *)
(***************************************************************************)
EXTENDS Integers, Sequences

CONSTANTS
  BUFFER_HEIGHT, BUFFER_WIDTH,   \* 25 and 80
  Bytes,                         \* printable bytes
  MAX_LINES                      \* bound: lines written

Blank == " "
Old == "old"          \* what the screen holds before the kernel writes to it
Other == "0xfe"       \* what is shown for a byte that is not printable
LineFeed == "\n"

ASSUME BufferAssumption ==
  /\ BUFFER_HEIGHT \in Nat \ {0} /\ BUFFER_WIDTH \in Nat \ {0} /\ MAX_LINES \in Nat
  /\ LineFeed \notin Bytes

VARIABLES
  chars,             \* the screen: row, column, character
  column_position,
  lines              \* the lines written so far, the last one last

vga_vars == <<chars, column_position, lines>>

Rows == 0 .. BUFFER_HEIGHT - 1
Columns == 0 .. BUFFER_WIDTH - 1

Row(ch) == [col \in Columns |-> ch]

\* Mutation: the last row is not cleared.
new_line_m(screen) ==
  [row \in Rows |-> IF row < BUFFER_HEIGHT - 1 THEN screen[row + 1] ELSE screen[row]]

\* The screen after new_line, with clear_row.
new_line(screen) ==
  [row \in Rows |-> IF row < BUFFER_HEIGHT - 1 THEN screen[row + 1] ELSE Row(Blank)]

\* write_byte: the last row is full.
Full == column_position >= BUFFER_WIDTH

\* write_byte of a line feed, and of a character.
WriteLineFeed ==
  /\ chars' = new_line(chars)
  /\ column_position' = 0

WriteCharacter(byte) ==
  LET screen == IF Full THEN new_line(chars) ELSE chars
      col == IF Full THEN 0 ELSE column_position
  IN  /\ chars' = [screen EXCEPT ![BUFFER_HEIGHT - 1][col] = byte]
      /\ column_position' = col + 1

\* write_string: a byte that is not printable is shown as 0xfe.
Visible(byte) == IF byte \in Bytes THEN byte ELSE Other

\* The lines of the text: a line ends at a line feed, or when the next character
\* does not fit.
AddByte(byte) ==
  LET last == lines[Len(lines)]
  IN  IF byte = LineFeed THEN Append(lines, <<>>)
      ELSE IF Len(last) < BUFFER_WIDTH
        THEN [lines EXCEPT ![Len(lines)] = Append(last, Visible(byte))]
        ELSE Append(lines, <<Visible(byte)>>)

\* write_string, one byte.
write_string(byte) ==
  /\ lines' = AddByte(byte)
  /\ Len(lines') <= MAX_LINES
  /\ \/ byte = LineFeed /\ WriteLineFeed
     \/ byte # LineFeed /\ WriteCharacter(Visible(byte))

VgaInit ==
  /\ chars = [row \in Rows |-> Row(Old)]
  /\ column_position = 0
  /\ lines = << <<>> >>

VgaNext == \E byte \in Bytes \cup {LineFeed, "unprintable"} : write_string(byte)

VgaSpec == VgaInit /\ [][VgaNext]_vga_vars

-----------------------------------------------------------------------------
(***************************************************************************)
(* Properties.                                                             *)
(***************************************************************************)

Shape == [Columns -> Bytes \cup {Blank, Old, Other}]

\* The type of every variable: write_byte never indexes outside the row.
VgaTypeOK ==
  /\ chars \in [Rows -> Shape]
  /\ column_position \in 0 .. BUFFER_WIDTH
  /\ lines \in Seq(Seq(Bytes \cup {Other})) /\ lines # <<>>

\* Line n of a text on the screen.  The first line is written on a screen that
\* was not cleared, so what is to its right and above it is old.
Shown(text, n) ==
  IF n < 1 THEN Row(Old)
  ELSE [col \in Columns |->
          IF col < Len(text[n]) THEN text[n][col + 1] ELSE IF n = 1 THEN Old ELSE Blank]

\* The screen shows the last BUFFER_HEIGHT lines of all that was written, the
\* last one in the last row: wrapping and scrolling lose and repeat nothing
\* (write_byte, new_line, clear_row).
ShowsText ==
  \A row \in Rows : chars[row] = Shown(lines, Len(lines) - (BUFFER_HEIGHT - 1 - row))
=============================================================================
