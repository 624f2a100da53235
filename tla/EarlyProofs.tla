----------------------------- MODULE EarlyProofs -----------------------------
(***************************************************************************)
(* Proofs about what the kernel has before its heap: the consoles and the  *)
(* memory map.  Console, for every set of application processors: where    *)
(* each context can be, and that the interrupt flag is kept.               *)
(* FrameBufferWriter and VgaWriter, for every size of the screen: where    *)
(* characters are drawn, and that the screen shows the text.  BitmapInit   *)
(* and BootInfoFrames, for every memory map: which frames are free.        *)
(***************************************************************************)
EXTENDS Console, FrameBufferWriter, VgaWriter, BootInfoFrames, FiniteSetTheorems, TLAPS

(***************************************************************************)
(* The console and the interrupt flag.                                     *)
(***************************************************************************)
\* Nothing is locked and interrupts are off when the kernel starts.
LEMMA InitConsoleInv == Init => ConsoleInv
  BY APsAssumption DEF Init, ConsoleInv, TypeOK, FlagInv, MainFlag, SerialPlaces, Contexts

\* Steps of the foreground: print, serial_print, enable and a panic.
LEMMA MainKeepsInv ==
  ASSUME ConsoleInv, print \/ serial_print \/ enable \/ main_panics
  PROVE  ConsoleInv'
<1> USE APsAssumption DEF ConsoleInv
<1>c. "main" \in Contexts /\ "handler" \in Contexts /\ APs \subseteq Contexts
  BY DEF Contexts
<1>h. "handler" # "main" /\ "main" \notin APs /\ "handler" \notin APs
  OBVIOUS
<1>1. TypeOK' /\ pc["handler"] = "none" /\ pc'["handler"] = "none" /\ pc["main"] = "run"
  BY <1>c, <1>h DEF TypeOK, print, serial_print, enable, main_panics, Goto, Runs, locks, flags
<1>2. FlagInv'
  BY <1>1, <1>c, <1>h DEF TypeOK, FlagInv, MainFlag, SerialPlaces, print, serial_print, enable,
        main_panics, Goto, Runs, locks, flags
<1>3. QED BY <1>1, <1>2

\* An interrupt or an exception starts a handler, and a handler ends.
LEMMA HandlerKeepsInv ==
  ASSUME ConsoleInv,
         interrupt \/ page_fault \/ breakpoint \/ double_fault \/ handler_return
  PROVE  ConsoleInv'
<1> USE APsAssumption DEF ConsoleInv
<1>c. "main" \in Contexts /\ "handler" \in Contexts /\ APs \subseteq Contexts
  BY DEF Contexts
<1>h. "handler" # "main" /\ "main" \notin APs /\ "handler" \notin APs
  OBVIOUS
<1>1. TypeOK' /\ pc'["main"] = pc["main"]
  BY <1>c, <1>h DEF TypeOK, interrupt, page_fault, breakpoint, double_fault, handler_return,
        Gate, Goto, Runs, locks
<1>2. pc["main"] \notin SerialPlaces
  BY DEF FlagInv, SerialPlaces, interrupt, page_fault, breakpoint, double_fault,
        handler_return, Goto
<1>3. FlagInv'
  BY <1>1, <1>2, <1>c, <1>h DEF TypeOK, FlagInv, MainFlag, SerialPlaces, interrupt, page_fault,
        breakpoint, double_fault, handler_return, Gate, Goto, Runs, locks
<1>4. QED BY <1>1, <1>3

\* A step within a print or a panic.
LEMMA PrintStepKeepsInv ==
  ASSUME ConsoleInv, NEW c \in Contexts, PrintStep(c)
  PROVE  ConsoleInv'
<1> USE APsAssumption DEF ConsoleInv
<1>c. "main" \in Contexts /\ "handler" \in Contexts /\ APs \subseteq Contexts
  BY DEF Contexts
<1>h. "handler" # "main" /\ "main" \notin APs /\ "handler" \notin APs
  OBVIOUS
<1>d. c = "main" \/ c = "handler" \/ c \in APs
  BY DEF Contexts
<1>1. CASE fb_lock(c) \/ fb_unlock(c) \/ write_pixel_panics(c) \/ panic(c)
  <2>1. c \notin APs
    BY <1>1, <1>c DEF TypeOK, fb_lock, fb_unlock, write_pixel_panics, panic, Goto
  <2>2. TypeOK' /\ \A d \in Contexts \ {c} : pc'[d] = pc[d]
    BY <1>1, <2>1, <1>c, <1>h, <1>d DEF TypeOK, fb_lock, fb_unlock, write_pixel_panics, panic,
          Goto, After, flags
  <2>3. pc[c] \notin SerialPlaces /\ pc'[c] \notin SerialPlaces /\ pc'[c] # "none" /\ pc[c] # "none"
    BY <1>1, <2>1, <1>c, <1>h, <1>d DEF TypeOK, fb_lock, fb_unlock, write_pixel_panics, panic,
          Goto, After, SerialPlaces
  <2>4. UNCHANGED <<interrupts, saved, frame, enabled>>
    BY <1>1 DEF fb_lock, fb_unlock, write_pixel_panics, panic, flags
  <2>5. QED BY <2>1, <2>2, <2>3, <2>4, <1>c, <1>h, <1>d DEF FlagInv, MainFlag
<1>2. CASE serial_lock(c)
  <2>1. TypeOK'
    BY <1>2, <1>c, <1>h, <1>d DEF TypeOK, serial_lock, Goto, flags
  <2>2. QED
    BY <1>2, <2>1, <1>c, <1>h, <1>d DEF TypeOK, FlagInv, MainFlag, SerialPlaces, serial_lock,
          Goto, Runs, flags
<1>3. CASE serial_unlock(c)
  <2>1. TypeOK'
    BY <1>3, <1>c, <1>h, <1>d DEF TypeOK, serial_unlock, Goto, After, Restored
  <2>2. QED
    BY <1>3, <2>1, <1>c, <1>h, <1>d DEF TypeOK, FlagInv, MainFlag, SerialPlaces, serial_unlock,
          Goto, Runs, After, Restored
<1>4. QED BY <1>1, <1>2, <1>3 DEF PrintStep

\* Every step keeps the invariant.
LEMMA NextKeepsInv == ConsoleInv /\ [Next]_vars => ConsoleInv'
<1> SUFFICES ASSUME ConsoleInv, [Next]_vars PROVE ConsoleInv'
  OBVIOUS
<1>1. CASE print \/ serial_print \/ enable \/ main_panics
  BY <1>1, MainKeepsInv
<1>2. CASE interrupt \/ page_fault \/ breakpoint \/ double_fault \/ handler_return
  BY <1>2, HandlerKeepsInv
<1>3. ASSUME NEW c \in Contexts, PrintStep(c) PROVE ConsoleInv'
  BY <1>3, PrintStepKeepsInv
<1>4. ASSUME NEW a \in APs, ap_startup(a) PROVE ConsoleInv'
  BY <1>4, APsAssumption DEF ConsoleInv, TypeOK, FlagInv, MainFlag, ap_startup, Goto, locks,
        flags, Contexts
<1>5. CASE UNCHANGED vars
  BY <1>5 DEF ConsoleInv, TypeOK, FlagInv, MainFlag, vars, locks, flags
<1>6. QED BY <1>1, <1>2, <1>3, <1>4, <1>5 DEF Next

\* The inductive invariant of the consoles.
THEOREM ConsoleInvariant == Spec => []ConsoleInv
<1>1. QED BY InitConsoleInv, NextKeepsInv, PTL DEF Spec

\* Only main and the handlers print on the screen and panic; an AP only ever
\* holds the serial port.
THEOREM ContextsInPlace == Spec => []TypeOK
<1>1. ConsoleInv => TypeOK
  BY DEF ConsoleInv
<1>2. QED BY <1>1, ConsoleInvariant, PTL

\* serial::_print is never interrupted on the boot processor, however many APs
\* contend for the port.
THEOREM SerialPrintUninterrupted == Spec => []SerialUninterrupted
<1>1. ConsoleInv => SerialUninterrupted
  BY DEF ConsoleInv, FlagInv, SerialUninterrupted, SerialPlaces
<1>2. QED BY <1>1, ConsoleInvariant, PTL

\* Prints, interrupts and exceptions that return leave the interrupt flag as
\* kernel_main set it.
THEOREM FlagIsRestored == Spec => []FlagRestored
<1>1. ConsoleInv => FlagRestored
  BY DEF ConsoleInv, FlagInv, MainFlag, FlagRestored, SerialPlaces
<1>2. QED BY <1>1, ConsoleInvariant, PTL

\* A step of one context to a place where it holds no lock, which leaves the
\* locks alone, keeps each lock with its writer.
LEMMA OtherStepsKeepLocks ==
  ASSUME ConsoleInv, LockInv, NEW c \in Contexts,
         NEW place \in {"run", "fb_lock", "serial_lock", "panic_lock", "eoi", "none"},
         pc' = [pc EXCEPT ![c] = place], pc[c] # "serial_write",
         UNCHANGED <<FRAMEBUFFER_WRITER, SERIAL1>>
  PROVE  LockInv'
<1>1. DOMAIN pc = Contexts
  BY DEF ConsoleInv, TypeOK
<1>2. pc'[c] = place /\ \A d \in Contexts \ {c} : pc'[d] = pc[d]
  BY <1>1
<1>3. place \notin {"serial_write", "fb_write", "panic_write"}
  OBVIOUS
<1>. QED
  BY <1>2, <1>3 DEF LockInv

\* A step within a print or a panic keeps each lock with its writer.
LEMMA PrintStepKeepsLocks ==
  ASSUME ConsoleInv, LockInv, NEW c \in Contexts, PrintStep(c)
  PROVE  LockInv'
<1>1. DOMAIN pc = Contexts
  BY DEF ConsoleInv, TypeOK
<1>2. After(c) \in {"run", "eoi", "loop"}
  BY DEF After
<1>f. "free" \notin Contexts
  BY APsAssumption DEF Contexts
<1>3. ASSUME NEW place, pc' = [pc EXCEPT ![c] = place]
      PROVE  pc'[c] = place /\ \A d \in Contexts \ {c} : pc'[d] = pc[d]
  BY <1>1, <1>3
<1>4. CASE fb_lock(c)
  <2>1. /\ FRAMEBUFFER_WRITER = "free" /\ FRAMEBUFFER_WRITER' = c /\ SERIAL1' = SERIAL1
        /\ pc[c] \in {"fb_lock", "panic_lock"}
    BY <1>4 DEF fb_lock, Goto
  <2>2. PICK place \in {"fb_write", "panic_write"} : pc' = [pc EXCEPT ![c] = place]
    BY <1>4 DEF fb_lock, Goto
  <2>3. pc'[c] \in {"fb_write", "panic_write"} /\ \A d \in Contexts \ {c} : pc'[d] = pc[d]
    BY <1>3, <2>2
  <2>. QED
    BY <1>f, <2>1, <2>3 DEF LockInv
<1>5. CASE fb_unlock(c) \/ panic(c)
  <2>1. /\ pc[c] \in {"fb_write", "panic_write"} /\ FRAMEBUFFER_WRITER' = "free"
        /\ SERIAL1' = SERIAL1
    BY <1>5 DEF fb_unlock, panic, Goto
  <2>2. PICK place \in {"run", "eoi", "loop", "halt"} : pc' = [pc EXCEPT ![c] = place]
    BY <1>2, <1>5 DEF fb_unlock, panic, Goto
  <2>3. /\ pc'[c] \in {"run", "eoi", "loop", "halt"}
        /\ \A d \in Contexts \ {c} : pc'[d] = pc[d]
    BY <1>3, <2>2
  <2>4. \A d \in Contexts \ {c} : pc[d] \notin {"fb_write", "panic_write"}
    BY <2>1 DEF LockInv
  <2>. QED
    BY <2>1, <2>3, <2>4 DEF LockInv
<1>6. CASE write_pixel_panics(c)
  <2>1. /\ pc[c] # "serial_write" /\ pc' = [pc EXCEPT ![c] = "panic_lock"]
        /\ UNCHANGED <<FRAMEBUFFER_WRITER, SERIAL1>>
    BY <1>6 DEF write_pixel_panics, Goto
  <2>. QED
    BY <2>1, OtherStepsKeepLocks
<1>7. CASE serial_lock(c)
  <2>1. /\ SERIAL1 = "free" /\ SERIAL1' = c /\ FRAMEBUFFER_WRITER' = FRAMEBUFFER_WRITER
        /\ pc' = [pc EXCEPT ![c] = "serial_write"]
    BY <1>7 DEF serial_lock, Goto
  <2>2. pc'[c] = "serial_write" /\ \A d \in Contexts \ {c} : pc'[d] = pc[d]
    BY <1>3, <2>1
  <2>3. \A d \in Contexts : pc[d] # "serial_write"
    BY <1>f, <2>1 DEF LockInv
  <2>. QED
    BY <2>1, <2>2, <2>3 DEF LockInv
<1>8. CASE serial_unlock(c)
  <2>1. /\ pc[c] = "serial_write" /\ SERIAL1' = "free"
        /\ FRAMEBUFFER_WRITER' = FRAMEBUFFER_WRITER /\ pc' = [pc EXCEPT ![c] = After(c)]
    BY <1>8 DEF serial_unlock, Goto
  <2>2. pc'[c] \in {"run", "eoi", "loop"} /\ \A d \in Contexts \ {c} : pc'[d] = pc[d]
    BY <1>2, <1>3, <2>1
  <2>3. \A d \in Contexts \ {c} : pc[d] # "serial_write"
    BY <2>1 DEF LockInv
  <2>. QED
    BY <1>f, <2>1, <2>2, <2>3 DEF LockInv
<1>. QED
  BY <1>4, <1>5, <1>6, <1>7, <1>8 DEF PrintStep

\* Every step keeps each lock with its writer.
LEMMA NextKeepsLocks == ConsoleInv /\ LockInv /\ [Next]_vars => LockInv'
<1>. SUFFICES ASSUME ConsoleInv, LockInv, [Next]_vars PROVE LockInv'
  OBVIOUS
<1>c. "main" \in Contexts /\ "handler" \in Contexts /\ APs \subseteq Contexts
  BY DEF Contexts
<1>1. CASE print \/ serial_print \/ enable \/ main_panics
  <2>1. /\ pc["main"] # "serial_write" /\ UNCHANGED <<FRAMEBUFFER_WRITER, SERIAL1>>
        /\ \E place \in {"run", "fb_lock", "serial_lock", "panic_lock"} :
             pc' = [pc EXCEPT !["main"] = place]
    BY <1>1 DEF print, serial_print, enable, main_panics, Goto, locks
  <2>. QED
    BY <1>c, <2>1, OtherStepsKeepLocks
<1>2. CASE interrupt \/ page_fault \/ breakpoint \/ double_fault \/ handler_return
  <2>1. /\ pc["handler"] # "serial_write" /\ UNCHANGED <<FRAMEBUFFER_WRITER, SERIAL1>>
        /\ \E place \in {"fb_lock", "serial_lock", "panic_lock", "eoi", "none"} :
             pc' = [pc EXCEPT !["handler"] = place]
    BY <1>2 DEF interrupt, page_fault, breakpoint, double_fault, handler_return, Gate, Goto, locks
  <2>. QED
    BY <1>c, <2>1, OtherStepsKeepLocks
<1>3. ASSUME NEW c \in Contexts, PrintStep(c) PROVE LockInv'
  BY <1>3, PrintStepKeepsLocks
<1>4. ASSUME NEW a \in APs, ap_startup(a) PROVE LockInv'
  <2>1. /\ pc[a] # "serial_write" /\ UNCHANGED <<FRAMEBUFFER_WRITER, SERIAL1>>
        /\ pc' = [pc EXCEPT ![a] = "serial_lock"]
    BY <1>4 DEF ap_startup, Goto, locks
  <2>. QED
    BY <1>c, <2>1, OtherStepsKeepLocks
<1>5. CASE UNCHANGED vars
  BY <1>5 DEF LockInv, vars, locks
<1>6. QED BY <1>1, <1>2, <1>3, <1>4, <1>5 DEF Next

\* Each lock is with its writer throughout.
THEOREM LocksWithWriters == Spec => []LockInv
<1>1. Init => LockInv
  <2>1. "free" \notin Contexts
    BY APsAssumption DEF Contexts
  <2>. QED
    BY <2>1 DEF Init, LockInv
<1>2. QED BY <1>1, ConsoleInvariant, NextKeepsLocks, PTL DEF Spec

\* Mutual exclusion on the serial port and on the screen, for every number of
\* APs, whatever interrupts, faults and panics.
THEOREM ConsolesExclude == Spec => []OneWriter
<1>1. LockInv => OneWriter
  BY DEF LockInv, OneWriter
<1>2. QED BY <1>1, LocksWithWriters, PTL

\* Whoever holds the serial port has a processor to release it with.
THEOREM SerialHolderGoesOn == Spec => []SerialHolderRuns
<1>1. ConsoleInv /\ LockInv => SerialHolderRuns
  BY DEF ConsoleInv, TypeOK, FlagInv, SerialPlaces, LockInv, SerialHolderRuns, Runs
<1>2. QED BY <1>1, ConsoleInvariant, LocksWithWriters, PTL

-----------------------------------------------------------------------------
(***************************************************************************)
(* The framebuffer console draws inside the framebuffer, and never one     *)
(* character over part of another.                                         *)
(***************************************************************************)

\* The inductive invariant: the cursor's type, and that a character on the
\* screen ends inside the width and, with the padding, inside the height.
InScreen ==
  /\ FbTypeOK
  /\ \A g \in glyphs :
       /\ g[1] + CHAR_RASTER_WIDTH <= WIDTH
       /\ g[2] + CHAR_RASTER_HEIGHT + BORDER_PADDING <= HEIGHT

\* The assumption on the sizes, one by one.
LEMMA Sizes ==
  /\ WIDTH \in Nat /\ HEIGHT \in Nat /\ STRIDE \in Nat
  /\ CHAR_RASTER_WIDTH \in Nat /\ CHAR_RASTER_HEIGHT \in Nat
  /\ CHAR_RASTER_WIDTH > 0 /\ CHAR_RASTER_HEIGHT > 0
  /\ LINE_SPACING \in Nat /\ BORDER_PADDING \in Nat
  /\ WIDTH <= STRIDE
  /\ BORDER_PADDING + CHAR_RASTER_WIDTH <= WIDTH
  /\ BORDER_PADDING + CHAR_RASTER_HEIGHT + BORDER_PADDING <= HEIGHT
  BY ScreenAssumption

\* write_pixel's offset of a pixel inside the screen is inside the buffer.
LEMMA OffsetInBuffer ==
  ASSUME NEW x \in Nat, NEW y \in Nat, x < STRIDE, y < HEIGHT
  PROVE  pixel_offset(x, y) < HEIGHT * STRIDE
<1>1. HEIGHT \in Nat /\ STRIDE \in Nat
  BY Sizes
<1>2. PICK d \in Nat : HEIGHT = y + 1 + d
  <2>1. HEIGHT - y - 1 \in Nat /\ HEIGHT = y + 1 + (HEIGHT - y - 1)
    BY <1>1
  <2>. QED
    BY <2>1
<1>3. HEIGHT * STRIDE = y * STRIDE + STRIDE + d * STRIDE
  BY <1>1, <1>2
<1>4. d * STRIDE \in Nat /\ y * STRIDE \in Nat
  BY <1>1
<1>. QED
  BY <1>1, <1>3, <1>4 DEF pixel_offset

\* write_char keeps the invariant: the cursor moves to a place with room for a
\* character, by a new line or a clear screen if need be, and draws it there.
LEMMA WriteCharInv ==
  ASSUME InScreen, write_char
  PROVE  InScreen'
<1>. DEFINE x1 == IF Wraps THEN BORDER_PADDING ELSE x_pos
            y1 == IF Wraps THEN y_pos + LineHeight ELSE y_pos
            x2 == IF Clears(y1) THEN BORDER_PADDING ELSE x1
            y2 == IF Clears(y1) THEN BORDER_PADDING ELSE y1
<1>1. /\ glyphs' = (IF Clears(y1) THEN {} ELSE glyphs) \cup {<<x2, y2>>}
      /\ x_pos' = x2 + CHAR_RASTER_WIDTH /\ y_pos' = y2
  BY DEF write_char, Advance
<1>2. x_pos \in Nat /\ y_pos \in Nat /\ BORDER_PADDING <= x_pos /\ BORDER_PADDING <= y_pos
  BY Sizes DEF InScreen, FbTypeOK
<1>3. x1 \in Nat /\ x1 >= BORDER_PADDING /\ x1 + CHAR_RASTER_WIDTH <= WIDTH
  BY <1>2, Sizes DEF Wraps
<1>4. y1 \in Nat /\ y1 >= BORDER_PADDING
  BY <1>2, Sizes DEF LineHeight
<1>5. /\ x2 \in Nat /\ x2 >= BORDER_PADDING /\ x2 + CHAR_RASTER_WIDTH <= WIDTH
      /\ y2 \in Nat /\ y2 >= BORDER_PADDING
      /\ y2 + CHAR_RASTER_HEIGHT + BORDER_PADDING <= HEIGHT
  BY <1>3, <1>4, Sizes DEF Clears
<1>. HIDE DEF x1, y1, x2, y2
<1>6. glyphs' \subseteq glyphs \cup {<<x2, y2>>}
  BY <1>1
<1>7. FbTypeOK'
  BY <1>1, <1>5, <1>6, Sizes DEF InScreen, FbTypeOK
<1>. QED
  BY <1>5, <1>6, <1>7 DEF InScreen

\* The cursor and the characters stay inside the screen.
THEOREM CursorInScreen == FbSpec => []InScreen
<1>1. FbInit => InScreen
  BY Sizes DEF FbInit, InScreen, FbTypeOK
<1>2. InScreen /\ [FbNext]_fb_vars => InScreen'
  <2>. SUFFICES ASSUME InScreen, [FbNext]_fb_vars PROVE InScreen'
    OBVIOUS
  <2>1. CASE newline
    BY <2>1, Sizes DEF newline, LineHeight, InScreen, FbTypeOK
  <2>2. CASE carriage_return
    BY <2>2, Sizes DEF carriage_return, InScreen, FbTypeOK
  <2>3. CASE write_char
    BY <2>3, WriteCharInv
  <2>4. CASE UNCHANGED fb_vars
    BY <2>4 DEF fb_vars, InScreen, FbTypeOK
  <2>. QED
    BY <2>1, <2>2, <2>3, <2>4 DEF FbNext
<1>. QED
  BY <1>1, <1>2, PTL DEF FbSpec

\* write_pixel never indexes outside the framebuffer: no print panics.
THEOREM DrawsInsideBuffer == FbSpec => []PixelsInBuffer
<1>1. InScreen => PixelsInBuffer
  <2>. SUFFICES ASSUME InScreen, NEW g \in glyphs
                PROVE  /\ g[1] + CHAR_RASTER_WIDTH <= WIDTH
                       /\ pixel_offset(g[1] + CHAR_RASTER_WIDTH - 1,
                                       g[2] + CHAR_RASTER_HEIGHT - 1) < HEIGHT * STRIDE
    BY DEF PixelsInBuffer
  <2>1. g[1] \in Nat /\ g[2] \in Nat
    BY DEF InScreen, FbTypeOK
  <2>2. /\ g[1] + CHAR_RASTER_WIDTH <= WIDTH
        /\ g[2] + CHAR_RASTER_HEIGHT + BORDER_PADDING <= HEIGHT
    BY DEF InScreen
  <2>3. /\ g[1] + CHAR_RASTER_WIDTH - 1 \in Nat /\ g[1] + CHAR_RASTER_WIDTH - 1 < STRIDE
        /\ g[2] + CHAR_RASTER_HEIGHT - 1 \in Nat /\ g[2] + CHAR_RASTER_HEIGHT - 1 < HEIGHT
    BY <2>1, <2>2, Sizes
  <2>. QED
    BY <2>2, <2>3, OffsetInBuffer
<1>. QED
  BY <1>1, CursorInScreen, PTL

\* Positions on a grid: every character is drawn a whole number of characters
\* to the right of the padding and a whole number of lines below it.
GridX(x) == \E n \in Nat : x = BORDER_PADDING + n * CHAR_RASTER_WIDTH
GridY(y) == \E n \in Nat : y = BORDER_PADDING + n * LineHeight

OnGrid ==
  /\ GridX(x_pos) /\ GridY(y_pos)
  /\ \A g \in glyphs : GridX(g[1]) /\ GridY(g[2])

\* Multiples of a length that differ are at least that length apart.
LEMMA MultiplesApart ==
  ASSUME NEW w \in Nat, NEW m \in Nat, NEW n \in Nat, m < n
  PROVE  m * w + w <= n * w
<1>1. PICK d \in Nat : n = m + 1 + d
  <2>1. n - m - 1 \in Nat /\ n = m + 1 + (n - m - 1)
    OBVIOUS
  <2>. QED
    BY <2>1
<1>2. n * w = m * w + w + d * w
  BY <1>1
<1>3. d * w \in Nat /\ m * w \in Nat
  OBVIOUS
<1>. QED
  BY <1>2, <1>3

\* The grid starts at the padding, and a character or a line further is on it.
LEMMA GridSteps ==
  /\ GridX(BORDER_PADDING) /\ GridY(BORDER_PADDING)
  /\ \A x : GridX(x) => GridX(x + CHAR_RASTER_WIDTH)
  /\ \A y : GridY(y) => GridY(y + LineHeight)
<1>. DEFINE W == CHAR_RASTER_WIDTH
            H == LineHeight
<1>1. W \in Nat /\ H \in Nat /\ BORDER_PADDING \in Nat
  BY Sizes DEF LineHeight
<1>2. GridX(BORDER_PADDING) /\ GridY(BORDER_PADDING)
  <2>. HIDE DEF W, H
  <2>1. BORDER_PADDING = BORDER_PADDING + 0 * W /\ BORDER_PADDING = BORDER_PADDING + 0 * H
    BY <1>1
  <2>. QED
    BY <2>1 DEF GridX, GridY, W, H
<1>3. ASSUME NEW x, GridX(x) PROVE GridX(x + W)
  <2>1. PICK n \in Nat : x = BORDER_PADDING + n * W
    BY <1>3 DEF GridX
  <2>. HIDE DEF W
  <2>2. x + W = BORDER_PADDING + (n + 1) * W
    BY <1>1, <2>1
  <2>. QED
    BY <2>2 DEF GridX, W
<1>4. ASSUME NEW y, GridY(y) PROVE GridY(y + H)
  <2>1. PICK n \in Nat : y = BORDER_PADDING + n * H
    BY <1>4 DEF GridY
  <2>. HIDE DEF H
  <2>2. y + H = BORDER_PADDING + (n + 1) * H
    BY <1>1, <2>1
  <2>. QED
    BY <2>2 DEF GridY, H
<1>. QED
  BY <1>2, <1>3, <1>4

\* Every step moves the cursor along the grid.
LEMMA StepOnGrid ==
  ASSUME OnGrid, [FbNext]_fb_vars
  PROVE  OnGrid'
<1>1. CASE newline
  BY <1>1, GridSteps DEF newline, OnGrid, GridX, GridY
<1>2. CASE carriage_return
  BY <1>2, GridSteps DEF carriage_return, OnGrid, GridX, GridY
<1>3. CASE write_char
  <2>. DEFINE x1 == IF Wraps THEN BORDER_PADDING ELSE x_pos
              y1 == IF Wraps THEN y_pos + LineHeight ELSE y_pos
              x2 == IF Clears(y1) THEN BORDER_PADDING ELSE x1
              y2 == IF Clears(y1) THEN BORDER_PADDING ELSE y1
  <2>1. /\ glyphs' = (IF Clears(y1) THEN {} ELSE glyphs) \cup {<<x2, y2>>}
        /\ x_pos' = x2 + CHAR_RASTER_WIDTH /\ y_pos' = y2
    BY <1>3 DEF write_char, Advance
  <2>2. GridX(x1) /\ GridY(y1)
    BY GridSteps DEF OnGrid
  <2>3. GridX(x2) /\ GridY(y2)
    BY <2>2, GridSteps
  <2>. HIDE DEF x1, y1, x2, y2
  <2>4. GridX(x_pos') /\ GridY(y_pos')
    BY <2>1, <2>3, GridSteps
  <2>5. \A g \in glyphs' : GridX(g[1]) /\ GridY(g[2])
    BY <2>1, <2>3 DEF OnGrid
  <2>. QED
    BY <2>4, <2>5 DEF OnGrid, GridX, GridY
<1>4. CASE UNCHANGED fb_vars
  BY <1>4 DEF fb_vars, OnGrid, GridX, GridY
<1>. QED
  BY <1>1, <1>2, <1>3, <1>4 DEF FbNext

\* Characters that are not in the same place do not overlap, for every size of
\* the screen and of the characters: write_char, newline and carriage_return
\* only move the cursor by whole characters and lines.
THEOREM CharactersApart == FbSpec => []GlyphsApart
<1>1. FbInit => OnGrid
  BY GridSteps DEF FbInit, OnGrid
<1>2. OnGrid /\ [FbNext]_fb_vars => OnGrid'
  BY StepOnGrid
<1>3. InScreen /\ OnGrid => GlyphsApart
  <2>. SUFFICES ASSUME InScreen, OnGrid, NEW g \in glyphs, NEW h \in glyphs, g # h
                PROVE  \/ Apart(g[1], CHAR_RASTER_WIDTH, h[1])
                       \/ Apart(g[2], CHAR_RASTER_HEIGHT, h[2])
    BY DEF GlyphsApart
  <2>. DEFINE W == CHAR_RASTER_WIDTH
              H == LineHeight
  <2>1. /\ W \in Nat /\ H \in Nat /\ BORDER_PADDING \in Nat
        /\ CHAR_RASTER_HEIGHT \in Nat /\ CHAR_RASTER_HEIGHT <= H
    BY Sizes DEF LineHeight
  <2>2. PICK a \in Nat, b \in Nat : /\ g[1] = BORDER_PADDING + a * W
                                    /\ h[1] = BORDER_PADDING + b * W
    BY DEF OnGrid, GridX
  <2>3. PICK m \in Nat, n \in Nat : /\ g[2] = BORDER_PADDING + m * H
                                    /\ h[2] = BORDER_PADDING + n * H
    BY DEF OnGrid, GridY
  <2>4. g[1] # h[1] \/ g[2] # h[2]
    <3>1. g \in Nat \X Nat /\ h \in Nat \X Nat
      BY DEF InScreen, FbTypeOK
    <3>. QED
      BY <3>1
  <2>. HIDE DEF W, H
  <2>5. CASE g[1] # h[1]
    <3>1. a < b \/ b < a
      BY <2>2, <2>5
    <3>2. a * W + W <= b * W \/ b * W + W <= a * W
      BY <2>1, <3>1, MultiplesApart
    <3>3. a * W \in Nat /\ b * W \in Nat
      BY <2>1
    <3>4. Apart(g[1], W, h[1])
      BY <2>1, <2>2, <3>2, <3>3 DEF Apart
    <3>. QED
      BY <3>4 DEF W
  <2>6. CASE g[2] # h[2]
    <3>1. m < n \/ n < m
      BY <2>3, <2>6
    <3>2. m * H + H <= n * H \/ n * H + H <= m * H
      BY <2>1, <3>1, MultiplesApart
    <3>3. m * H \in Nat /\ n * H \in Nat
      BY <2>1
    <3>. QED
      BY <2>1, <2>3, <3>2, <3>3 DEF Apart
  <2>. QED
    BY <2>4, <2>5, <2>6
<1>. QED
  BY <1>1, <1>2, <1>3, CursorInScreen, PTL DEF FbSpec

-----------------------------------------------------------------------------
(***************************************************************************)
(* The VGA console shows the last lines of the text.                       *)
(***************************************************************************)

Texts == Seq(Seq(Bytes \cup {Other})) \ {<<>>}

\* A screen shows the end of a text.
Displays(screen, text) ==
  \A row \in Rows : screen[row] = Shown(text, Len(text) - (BUFFER_HEIGHT - 1 - row))

\* The inductive invariant: the types, that column_position is the length of
\* the last line, and what the screen shows.
VgaInv ==
  /\ VgaTypeOK
  /\ column_position = Len(lines[Len(lines)])
  /\ Displays(chars, lines)

\* The sizes of the screen and the last row.
LEMMA ScreenSizes ==
  /\ BUFFER_HEIGHT \in Nat /\ BUFFER_HEIGHT > 0 /\ BUFFER_WIDTH \in Nat /\ BUFFER_WIDTH > 0
  /\ BUFFER_HEIGHT - 1 \in Rows /\ 0 \in Columns /\ LineFeed \notin Bytes
  BY BufferAssumption DEF Rows, Columns

\* There is a last line, and all are sequences of characters.
LEMMA TextTyped ==
  ASSUME NEW text \in Texts
  PROVE  /\ Len(text) \in Nat /\ Len(text) > 0 /\ DOMAIN text = 1 .. Len(text)
         /\ \A n \in 1 .. Len(text) : /\ text[n] \in Seq(Bytes \cup {Other})
                                      /\ Len(text[n]) \in Nat
  BY DEF Texts

\* A line that is the same in two texts is shown in the same way.
LEMMA ShownSame ==
  ASSUME NEW text, NEW other, NEW n \in Int, n < 1 \/ text[n] = other[n]
  PROVE  Shown(text, n) = Shown(other, n)
<1>1. CASE n < 1
  BY <1>1 DEF Shown
<1>2. CASE text[n] = other[n]
  BY <1>2, Zenon DEF Shown
<1>. QED
  BY <1>1, <1>2

\* What Append does to a text.
LEMMA AppendLine ==
  ASSUME NEW text \in Texts, NEW line \in Seq(Bytes \cup {Other})
  PROVE  /\ Append(text, line) \in Texts /\ Len(Append(text, line)) = Len(text) + 1
         /\ Append(text, line)[Len(text) + 1] = line
         /\ \A n \in 1 .. Len(text) : Append(text, line)[n] = text[n]
<1>. DEFINE Lines == Seq(Bytes \cup {Other})
<1>1. text \in Seq(Lines) /\ line \in Lines
  BY DEF Texts
<1>. HIDE DEF Lines
<1>2. /\ Append(text, line) \in Seq(Lines) /\ Len(Append(text, line)) = Len(text) + 1
      /\ Append(text, line)[Len(text) + 1] = line
      /\ \A n \in 1 .. Len(text) : Append(text, line)[n] = text[n]
  BY <1>1
<1>3. Append(text, line) # <<>>
  BY <1>1
<1>. QED
  BY <1>2, <1>3 DEF Texts, Lines

\* new_line: a line that is added below the others scrolls them up by one row.
\* The new one is empty, as clear_row leaves the last row.
LEMMA NewLineShows ==
  ASSUME NEW text \in Texts, NEW screen, Displays(screen, text)
  PROVE  Displays(new_line(screen), Append(text, <<>>))
<1>. DEFINE longer == Append(text, <<>>)
            last == Len(text)
<1>1. /\ Len(longer) = last + 1 /\ longer[last + 1] = <<>>
      /\ \A n \in 1 .. last : longer[n] = text[n]
  BY TextTyped DEF Texts
<1>2. last \in Nat /\ last > 0
  BY TextTyped
<1>. SUFFICES Displays(new_line(screen), longer)
  OBVIOUS
<1>. HIDE DEF longer, last
<1>. SUFFICES ASSUME NEW row \in Rows
              PROVE  new_line(screen)[row] = Shown(longer, Len(longer) - (BUFFER_HEIGHT - 1 - row))
  BY DEF Displays
<1>. DEFINE n == Len(longer) - (BUFFER_HEIGHT - 1 - row)
<1>3. row \in Nat /\ row <= BUFFER_HEIGHT - 1 /\ n \in Int /\ n <= last + 1
  BY <1>1, <1>2, ScreenSizes DEF Rows
<1>4. n = last + 1 - (BUFFER_HEIGHT - 1 - row)
  BY <1>1, <1>2, <1>3, ScreenSizes
<1>5. CASE row < BUFFER_HEIGHT - 1
  <2>1. row + 1 \in Rows /\ new_line(screen)[row] = screen[row + 1]
    BY <1>3, <1>5, ScreenSizes DEF new_line, Rows
  <2>2. n = last - (BUFFER_HEIGHT - 1 - (row + 1)) /\ n <= last
    BY <1>2, <1>3, <1>4, <1>5, ScreenSizes
  <2>3. screen[row + 1] = Shown(text, n)
    BY <2>1, <2>2 DEF Displays, last
  <2>. HIDE DEF n
  <2>4. n < 1 \/ longer[n] = text[n]
    BY <1>1, <1>2, <1>3, <2>2
  <2>5. Shown(longer, n) = Shown(text, n)
    BY <1>3, <2>4, ShownSame
  <2>. QED
    BY <2>1, <2>3, <2>5 DEF n
<1>6. CASE row = BUFFER_HEIGHT - 1
  <2>1. new_line(screen)[row] = Row(Blank)
    BY <1>6, ScreenSizes DEF new_line
  <2>2. n = last + 1 /\ ~(n < 1) /\ n # 1
    BY <1>2, <1>4, <1>6, ScreenSizes
  <2>. HIDE DEF n
  <2>3. longer[n] = <<>>
    BY <1>1, <2>2
  <2>4. \A col \in Columns : ~(col < Len(<<>>))
    BY ScreenSizes DEF Columns
  <2>5. Shown(longer, n) = Row(Blank)
    BY <2>2, <2>3, <2>4, Zenon DEF Shown, Row
  <2>. QED
    BY <2>1, <2>5 DEF n
<1>. QED
  BY <1>3, <1>5, <1>6, ScreenSizes

\* A character that fits in the last line is shown after those before it, and
\* changes no other cell of the screen.
LEMMA CharacterShows ==
  ASSUME NEW text \in Texts, NEW screen \in [Rows -> Shape], Displays(screen, text),
         NEW ch \in Bytes \cup {Other}, Len(text[Len(text)]) < BUFFER_WIDTH,
         NEW longer, Len(longer) = Len(text),
         longer[Len(text)] = Append(text[Len(text)], ch),
         \A n \in 1 .. Len(text) : n # Len(text) => longer[n] = text[n]
  PROVE  Displays([screen EXCEPT ![BUFFER_HEIGHT - 1][Len(text[Len(text)])] = ch], longer)
<1>. DEFINE last == Len(text)
            col == Len(text[last])
            after == [screen EXCEPT ![BUFFER_HEIGHT - 1][col] = ch]
<1>1. /\ last \in Nat /\ last > 0 /\ col \in Nat /\ col < BUFFER_WIDTH
      /\ text[last] \in Seq(Bytes \cup {Other})
  BY TextTyped
<1>2. Len(longer) = last /\ \A n \in 1 .. last : n # last => longer[n] = text[n]
  OBVIOUS
<1>3. longer[last] = Append(text[last], ch)
  OBVIOUS
<1>. SUFFICES ASSUME NEW row \in Rows
              PROVE  after[row] = Shown(longer, Len(longer) - (BUFFER_HEIGHT - 1 - row))
  BY DEF Displays
<1>. DEFINE n == Len(longer) - (BUFFER_HEIGHT - 1 - row)
<1>4. row \in Nat /\ row <= BUFFER_HEIGHT - 1 /\ n \in Int /\ n <= last
  BY <1>2, <1>1, ScreenSizes DEF Rows
<1>5. screen[row] = Shown(text, n)
  BY <1>2 DEF Displays
<1>. HIDE DEF last
<1>6. CASE row # BUFFER_HEIGHT - 1
  <2>1. after[row] = screen[row]
    BY <1>6
  <2>2. n # last
    BY <1>1, <1>2, <1>4, <1>6, ScreenSizes
  <2>. HIDE DEF n, after
  <2>3. Shown(longer, n) = Shown(text, n)
    BY <1>1, <1>2, <1>4, <2>2, ShownSame
  <2>. QED
    BY <1>5, <2>1, <2>3 DEF n
<1>7. CASE row = BUFFER_HEIGHT - 1
  <2>1. n = last /\ n >= 1
    BY <1>1, <1>2, <1>7, ScreenSizes
  <2>2. screen[row] \in Shape /\ after[row] = [screen[row] EXCEPT ![col] = ch]
    BY <1>7
  <2>. HIDE DEF n, after, col
  <2>3. /\ after[row] = [c \in Columns |-> IF c = col THEN ch ELSE screen[row][c]]
    BY <2>2 DEF Shape
  <2>4. ASSUME NEW c \in Columns
        PROVE  (IF c = col THEN ch ELSE screen[row][c])
                 = IF c < Len(longer[n]) THEN longer[n][c + 1] ELSE IF n = 1 THEN Old ELSE Blank
    <3>1. c \in Nat /\ ~(n < 1)
      BY <1>4, <2>1, ScreenSizes DEF Columns
    <3>2. screen[row][c] =
            IF c < col THEN text[last][c + 1] ELSE IF n = 1 THEN Old ELSE Blank
      BY <1>5, <2>1, <3>1 DEF Shown, col
    <3>3. /\ Len(longer[n]) = col + 1 /\ longer[n][col + 1] = ch
          /\ \A k \in 1 .. col : longer[n][k] = text[last][k]
      BY <1>1, <1>3, <2>1 DEF col
    <3>. DEFINE line == longer[n]
                before == text[last]
                width == Len(line)
    <3>a. col \in Nat /\ width = col + 1
      BY <1>1, <3>3, Zenon
    <3>. HIDE DEF line, before, width
    <3>4. CASE c = col
      <4>1. c < width
        BY <3>a, <3>4
      <4>. QED
        BY <3>3, <3>4, <4>1, Zenon DEF line, width
    <3>5. CASE c < col
      <4>1. c < width /\ c # col /\ c + 1 \in 1 .. col
        BY <3>1, <3>a, <3>5
      <4>. QED
        BY <3>2, <3>3, <3>5, <4>1, Zenon DEF line, width
    <3>6. CASE c > col
      <4>1. ~(c < width) /\ c # col /\ ~(c < col)
        BY <3>1, <3>a, <3>6
      <4>. QED
        BY <3>2, <4>1, Zenon DEF line, width
    <3>7. c = col \/ c < col \/ c > col
      BY <3>1, <3>a
    <3>. QED
      BY <3>4, <3>5, <3>6, <3>7, Zenon
  <2>5. ~(n < 1)
    BY <1>4, <2>1
  <2>. QED
    BY <2>3, <2>4, <2>5, Zenon DEF Shown, n
<1>. QED
  BY <1>6, <1>7

\* A screen with one character written in the last row is a screen.
LEMMA CellTyped ==
  ASSUME NEW screen \in [Rows -> Shape], NEW col \in Columns, NEW ch \in Bytes \cup {Other}
  PROVE  [screen EXCEPT ![BUFFER_HEIGHT - 1][col] = ch] \in [Rows -> Shape]
<1>1. screen[BUFFER_HEIGHT - 1] \in Shape
  BY ScreenSizes
<1>2. [screen[BUFFER_HEIGHT - 1] EXCEPT ![col] = ch] \in Shape
  BY <1>1 DEF Shape
<1>. QED
  BY <1>2

\* write_string of one byte, whatever it is: a line feed, a printable byte or
\* another, in a row with room or in a full one.
LEMMA ByteKeepsVgaInv ==
  ASSUME VgaInv, NEW byte \in Bytes \cup {LineFeed, "unprintable"}, write_string(byte)
  PROVE  VgaInv'
<1>. DEFINE last == lines[Len(lines)]
            ch == Visible(byte)
            empty == Append(lines, <<>>)
<1>1. /\ lines \in Texts /\ chars \in [Rows -> Shape]
      /\ column_position = Len(last) /\ column_position \in 0 .. BUFFER_WIDTH
      /\ Displays(chars, lines)
  BY DEF VgaInv, VgaTypeOK, Texts
<1>2. last \in Seq(Bytes \cup {Other}) /\ Len(lines) \in Nat /\ Len(lines) > 0
  BY <1>1, TextTyped
<1>3. new_line(chars) \in [Rows -> Shape]
  BY <1>1, ScreenSizes DEF new_line, Rows, Row, Shape
<1>4. /\ empty \in Texts /\ Len(empty) = Len(lines) + 1 /\ empty[Len(lines) + 1] = <<>>
      /\ \A n \in 1 .. Len(lines) : empty[n] = lines[n]
  <2>1. <<>> \in Seq(Bytes \cup {Other})
    OBVIOUS
  <2>. QED
    BY <1>1, <2>1, AppendLine
<1>5. Displays(new_line(chars), empty)
  BY <1>1, NewLineShows, Zenon
<1>6. CASE byte = LineFeed
  <2>1. lines' = empty /\ chars' = new_line(chars) /\ column_position' = 0
    BY <1>6, Zenon DEF write_string, AddByte, WriteLineFeed
  <2>. DEFINE blank == new_line(chars)
              size == Len(lines) + 1
  <2>a. blank \in [Rows -> Shape] /\ chars' = blank
    BY <1>3, <2>1, Zenon
  <2>b. empty \in Texts /\ Len(empty) = size /\ empty[size] = <<>>
    BY <1>4, Zenon
  <2>. HIDE DEF empty, blank, size
  <2>2. VgaTypeOK'
    <3>1. 0 \in 0 .. BUFFER_WIDTH
      BY ScreenSizes
    <3>. QED
      BY <2>1, <2>a, <2>b, <3>1, Zenon DEF VgaTypeOK, Texts
  <2>3. column_position' = Len(lines'[Len(lines')])
    <3>1. lines'[Len(lines')] = <<>> /\ column_position' = 0
      BY <2>1, <2>b, Zenon
    <3>2. Len(<<>>) = 0
      OBVIOUS
    <3>. QED
      BY <3>1, <3>2, Zenon
  <2>4. Displays(chars', lines')
    BY <1>5, <2>1, Zenon
  <2>. QED
    BY <2>2, <2>3, <2>4 DEF VgaInv, Displays, Shown
<1>7. CASE byte # LineFeed
  <2>1. WriteCharacter(ch) /\ ch \in Bytes \cup {Other}
    BY <1>7 DEF write_string, Visible
  <2>2. lines' = IF Len(last) < BUFFER_WIDTH
                   THEN [lines EXCEPT ![Len(lines)] = Append(last, ch)]
                   ELSE Append(lines, <<ch>>)
    BY <1>7 DEF write_string, AddByte
  <2>. HIDE DEF ch
  <2>3. CASE Len(last) < BUFFER_WIDTH
    <3>1. /\ chars' = [chars EXCEPT ![BUFFER_HEIGHT - 1][Len(last)] = ch]
          /\ column_position' = Len(last) + 1
          /\ lines' = [lines EXCEPT ![Len(lines)] = Append(last, ch)]
      <4>1. ~Full
        BY <1>1, <2>3, ScreenSizes DEF Full
      <4>. QED
        BY <1>1, <2>1, <2>2, <2>3, <4>1 DEF WriteCharacter
    <3>2. /\ lines' \in Texts /\ Len(lines') = Len(lines)
          /\ lines'[Len(lines)] = Append(last, ch)
          /\ \A n \in 1 .. Len(lines) : n # Len(lines) => lines'[n] = lines[n]
      BY <1>1, <1>2, <2>1, <3>1 DEF Texts
    <3>3. Displays(chars', lines')
      BY <1>1, <2>1, <2>3, <3>1, <3>2, CharacterShows, Zenon
    <3>4. VgaTypeOK'
      <4>1. Len(last) \in Columns /\ Len(last) + 1 \in 0 .. BUFFER_WIDTH
        BY <1>2, <2>3, ScreenSizes DEF Columns
      <4>2. chars' \in [Rows -> Shape]
        BY <1>1, <2>1, <3>1, <4>1, CellTyped
      <4>. QED
        BY <3>1, <3>2, <4>1, <4>2 DEF VgaTypeOK, Texts
    <3>5. column_position' = Len(lines'[Len(lines')])
      BY <1>2, <2>1, <3>1, <3>2
    <3>. QED
      BY <3>3, <3>4, <3>5 DEF VgaInv, Displays, Shown
  <2>4. CASE ~(Len(last) < BUFFER_WIDTH)
    <3>1. /\ chars' = [new_line(chars) EXCEPT ![BUFFER_HEIGHT - 1][0] = ch]
          /\ column_position' = 1
          /\ lines' = Append(lines, <<ch>>)
      <4>1. Full
        BY <1>1, <2>4, ScreenSizes DEF Full
      <4>. QED
        BY <1>1, <2>1, <2>2, <2>4, <4>1 DEF WriteCharacter
    <3>2. <<ch>> \in Seq(Bytes \cup {Other}) /\ <<ch>> = Append(<<>>, ch)
      BY <2>1
    <3>3. /\ lines' \in Texts /\ Len(lines') = Len(lines) + 1
          /\ lines'[Len(lines) + 1] = <<ch>>
          /\ \A n \in 1 .. Len(lines) : lines'[n] = lines[n]
      BY <1>1, <3>1, <3>2, AppendLine
    <3>. HIDE DEF empty
    <3>4. /\ Len(empty[Len(empty)]) = 0 /\ 0 < BUFFER_WIDTH
          /\ Len(lines') = Len(empty) /\ lines'[Len(empty)] = Append(empty[Len(empty)], ch)
      <4>1. empty[Len(empty)] = <<>> /\ Len(lines') = Len(empty)
            /\ lines'[Len(empty)] = <<ch>>
        BY <1>4, <3>3, Zenon
      <4>2. Len(<<>>) = 0 /\ 0 < BUFFER_WIDTH
        BY ScreenSizes
      <4>. QED
        BY <3>2, <4>1, <4>2, Zenon
    <3>5. \A n \in 1 .. Len(empty) : n # Len(empty) => lines'[n] = empty[n]
      BY <1>2, <1>4, <3>3
    <3>6. Displays(chars', lines')
      <4>1. Len(empty[Len(empty)]) < BUFFER_WIDTH
        BY <3>4
      <4>2. Displays([new_line(chars) EXCEPT ![BUFFER_HEIGHT - 1][Len(empty[Len(empty)])] = ch],
                     lines')
        BY <1>3, <1>4, <1>5, <2>1, <3>4, <3>5, <4>1, CharacterShows, Zenon
      <4>. QED
        BY <3>1, <3>4, <4>2, Zenon
    <3>7. VgaTypeOK'
      <4>1. chars' \in [Rows -> Shape]
        BY <1>3, <2>1, <3>1, ScreenSizes, CellTyped
      <4>. QED
        BY <3>1, <3>3, <4>1, ScreenSizes DEF VgaTypeOK, Texts
    <3>8. column_position' = Len(lines'[Len(lines')])
      BY <2>1, <3>1, <3>3
    <3>. QED
      BY <3>6, <3>7, <3>8 DEF VgaInv, Displays, Shown
  <2>. QED
    BY <2>3, <2>4
<1>. QED
  BY <1>6, <1>7

\* The VGA console shows the end of everything that was written, for every size
\* of the screen: write_byte and new_line lose and repeat nothing.
THEOREM ScreenShowsText == VgaSpec => []ShowsText
<1>1. VgaInit => VgaInv
  <2>. SUFFICES ASSUME VgaInit PROVE VgaInv
    OBVIOUS
  <2>1. /\ Len(lines) = 1 /\ lines[1] = <<>> /\ Len(lines[1]) = 0 /\ column_position = 0
        /\ lines \in Texts
    BY DEF VgaInit, Texts
  <2>2. VgaTypeOK
    BY <2>1, ScreenSizes DEF VgaInit, VgaTypeOK, Texts, Row, Shape
  <2>3. ASSUME NEW row \in Rows
        PROVE  chars[row] = Shown(lines, Len(lines) - (BUFFER_HEIGHT - 1 - row))
    <3>. DEFINE n == Len(lines) - (BUFFER_HEIGHT - 1 - row)
    <3>1. chars[row] = Row(Old)
      BY DEF VgaInit
    <3>2. n \in Int /\ n <= 1
      BY <2>1, ScreenSizes DEF Rows
    <3>3. \A col \in Columns : ~(col < 0)
      BY ScreenSizes DEF Columns
    <3>. HIDE DEF n
    <3>4. CASE n < 1
      BY <3>1, <3>4 DEF Shown, n
    <3>5. CASE n = 1
      <4>1. Shown(lines, 1) = Row(Old)
        <5>1. ~(1 < 1)
          OBVIOUS
        <5>. QED
          BY <2>1, <3>3, <5>1, Zenon DEF Shown, Row
      <4>. QED
        BY <3>1, <3>5, <4>1 DEF n
    <3>. QED
      BY <3>2, <3>4, <3>5
  <2>. QED
    BY <2>1, <2>2, <2>3 DEF VgaInv, Displays
<1>2. VgaInv /\ [VgaNext]_vga_vars => VgaInv'
  <2>. SUFFICES ASSUME VgaInv, [VgaNext]_vga_vars PROVE VgaInv'
    OBVIOUS
  <2>1. CASE VgaNext
    BY <2>1, ByteKeepsVgaInv DEF VgaNext
  <2>2. CASE UNCHANGED vga_vars
    BY <2>2 DEF vga_vars, VgaInv, VgaTypeOK, Displays, Shown
  <2>. QED
    BY <2>1, <2>2
<1>3. VgaInv => ShowsText
  BY DEF VgaInv, Displays, ShowsText
<1>. QED
  BY <1>1, <1>2, <1>3, PTL DEF VgaSpec

-----------------------------------------------------------------------------
(***************************************************************************)
(* Sets of numbers, for the memory map.                                    *)
(***************************************************************************)
\* A set of numbers that is not empty has a least element.
LEMMA LeastNumber ==
  ASSUME NEW S \in SUBSET Nat, S # {}
  PROVE  \E k \in S : \A j \in S : k <= j
<1> DEFINE R == OpToRel(<, Nat)
<1>1. PICK k \in S : \A j \in S : <<j, k>> \notin R
  BY NatLessThanWellFounded, WFMin
<1>2. \A j \in S : ~(j < k)
  BY <1>1, Zenon DEF OpToRel
<1> QED
  BY <1>2

\* A set of addresses that is not empty has a greatest one: the least of its
\* upper bounds.
LEMMA MaxAddress ==
  ASSUME NEW N \in Nat, NEW S \in SUBSET (0 .. N), S # {}
  PROVE  Max(S) \in S /\ \A a \in S : a <= Max(S)
<1>. DEFINE U == {u \in Nat : \A a \in S : a <= u}
<1>1. U \in SUBSET Nat /\ N \in U
  OBVIOUS
<1>2. PICK u \in U : \A v \in U : u <= v
  BY <1>1, LeastNumber
<1>3. u \in S
  <2>. SUFFICES ASSUME u \notin S PROVE FALSE
    OBVIOUS
  <2>0. PICK a : a \in S
    BY Zenon
  <2>1. a \in S /\ a \in Nat /\ a # u
    BY <2>0
  <2>2. u - 1 \in Nat /\ \A b \in S : b <= u - 1
    BY <1>2, <2>1
  <2>. QED
    BY <1>2, <2>2
<1>4. \E x \in S : \A y \in S : x >= y
  BY <1>2, <1>3
<1>. QED
  BY <1>4 DEF Max

\* The sizes, one by one.
LEMMA MemorySizes ==
  /\ PAGE_SIZE \in Nat /\ PAGE_SIZE > 0 /\ BYTE_BITS \in Nat /\ BYTE_BITS > 0
  /\ LOW_END \in Nat /\ KERNEL_END \in Nat /\ LOW_END < KERNEL_END
  /\ MAX_ILLEGAL \in Nat /\ PHYS_END \in Nat
  BY MemoryAssumption

\* Rounding up: a ceiling is the least number of whole parts that suffices.
LEMMA CeilBounds ==
  ASSUME NEW a \in Nat, NEW b \in Nat, b > 0
  PROVE  /\ Ceil(a, b) \in Nat /\ a <= Ceil(a, b) * b /\ Ceil(a, b) * b < a + b
         /\ a > 0 => Ceil(a, b) > 0
<1>. DEFINE q == (a + b - 1) \div b
            r == (a + b - 1) % b
<1>1. q \in Nat /\ r \in 0 .. b - 1 /\ a + b - 1 = b * q + r
  OBVIOUS
<1>. HIDE DEF q, r
<1>2. b * q \in Nat /\ b * q = q * b
  BY <1>1
<1>3. a <= q * b /\ q * b < a + b
  BY <1>1, <1>2
<1>4. a > 0 => q # 0
  BY <1>3, <1>1
<1>. QED
  BY <1>1, <1>3, <1>4 DEF Ceil, q

\* The page that an address is in.
LEMMA PageBounds ==
  ASSUME NEW a \in Nat
  PROVE  /\ a \div PAGE_SIZE \in Nat
         /\ (a \div PAGE_SIZE) * PAGE_SIZE <= a /\ a < (a \div PAGE_SIZE) * PAGE_SIZE + PAGE_SIZE
         /\ a % PAGE_SIZE = 0 => a = (a \div PAGE_SIZE) * PAGE_SIZE
<1>. DEFINE q == a \div PAGE_SIZE
            r == a % PAGE_SIZE
<1>1. q \in Nat /\ r \in 0 .. PAGE_SIZE - 1 /\ a = PAGE_SIZE * q + r
  BY MemorySizes
<1>. HIDE DEF q, r
<1>2. PAGE_SIZE * q \in Nat /\ PAGE_SIZE * q = q * PAGE_SIZE
  BY <1>1, MemorySizes
<1>3. /\ q \in Nat /\ q * PAGE_SIZE <= a /\ a < q * PAGE_SIZE + PAGE_SIZE
      /\ r = 0 => a = q * PAGE_SIZE
  BY <1>1, <1>2, MemorySizes
<1>. QED
  BY <1>3 DEF q, r

\* Multiplication by the size of a page keeps the order.
LEMMA PageOrder ==
  ASSUME NEW m \in Nat, NEW n \in Nat
  PROVE  /\ m * PAGE_SIZE \in Nat /\ (m + 1) * PAGE_SIZE = m * PAGE_SIZE + PAGE_SIZE
         /\ m < n => m * PAGE_SIZE + PAGE_SIZE <= n * PAGE_SIZE
         /\ m * PAGE_SIZE < n * PAGE_SIZE => m < n
         /\ m * PAGE_SIZE <= n * PAGE_SIZE => m <= n
<1>1. PAGE_SIZE \in Nat /\ PAGE_SIZE > 0
  BY MemorySizes
<1>2. ASSUME NEW i \in Nat, NEW j \in Nat, i < j PROVE i * PAGE_SIZE + PAGE_SIZE <= j * PAGE_SIZE
  <2>1. PICK d \in Nat : j = i + 1 + d
    <3>1. j - i - 1 \in Nat /\ j = i + 1 + (j - i - 1)
      BY <1>2
    <3>. QED
      BY <3>1
  <2>2. j * PAGE_SIZE = i * PAGE_SIZE + PAGE_SIZE + d * PAGE_SIZE
    BY <1>1, <2>1
  <2>3. d * PAGE_SIZE \in Nat /\ i * PAGE_SIZE \in Nat
    BY <1>1
  <2>. QED
    BY <1>1, <2>2, <2>3
<1>3. m * PAGE_SIZE \in Nat /\ n * PAGE_SIZE \in Nat /\ (m + 1) * PAGE_SIZE = m * PAGE_SIZE + PAGE_SIZE
  BY <1>1
<1>4. m < n => m * PAGE_SIZE + PAGE_SIZE <= n * PAGE_SIZE
  BY <1>2
<1>5. n < m => n * PAGE_SIZE + PAGE_SIZE <= m * PAGE_SIZE
  BY <1>2
<1>6. m < n \/ m = n \/ n < m
  OBVIOUS
<1>. QED
  BY <1>1, <1>3, <1>4, <1>5, <1>6

\* Ranges of addresses that do not intersect share no byte.
LEMMA NoByteShared ==
  ASSUME NEW a \in Nat, NEW b \in Nat, NEW c \in Nat, NEW d \in Nat,
         ~ranges_intersect(a, b, c, d)
  PROVE  (a .. b - 1) \cap (c .. d - 1) = {}
  BY DEF ranges_intersect

\* Ranges that are not empty and intersect share a byte: the later start.
LEMMA ByteShared ==
  ASSUME NEW a \in Nat, NEW b \in Nat, NEW c \in Nat, NEW d \in Nat, a < b, c < d,
         (a .. b - 1) \cap (c .. d - 1) = {}
  PROVE  ~ranges_intersect(a, b, c, d)
<1>. SUFFICES ASSUME ranges_intersect(a, b, c, d) PROVE FALSE
  OBVIOUS
<1>1. CASE a <= c
  <2>1. c \in a .. b - 1 /\ c \in c .. d - 1
    BY <1>1 DEF ranges_intersect
  <2>. QED
    BY <2>1
<1>2. CASE c <= a
  <2>1. a \in a .. b - 1 /\ a \in c .. d - 1
    BY <1>2 DEF ranges_intersect
  <2>. QED
    BY <2>1
<1>. QED
  BY <1>1, <1>2

-----------------------------------------------------------------------------
(***************************************************************************)
(* The memory map and what init computes from it.                          *)
(***************************************************************************)

\* A region of the map.
Region == [start : 0 .. PHYS_END, end : 0 .. PHYS_END, usable : BOOLEAN]

\* What is known of the map: it is one that the bootloader may pass.
LEMMA MapFacts ==
  ASSUME memory_map \in MemoryMaps
  PROVE  /\ memory_map \in Seq(Region) /\ Len(memory_map) \in Nat
         /\ DOMAIN memory_map = 1 .. Len(memory_map)
         /\ \A k \in DOMAIN memory_map :
              /\ memory_map[k].start \in Nat /\ memory_map[k].end \in Nat
              /\ memory_map[k].end <= PHYS_END
              /\ memory_map[k].start < memory_map[k].end
              /\ memory_map[k].usable \in BOOLEAN
         /\ \A j, k \in DOMAIN memory_map : j < k => memory_map[j].end <= memory_map[k].start
<1>1. memory_map \in Seq(Region)
  BY MapAssumption DEF Region
<1>2. /\ \A k \in DOMAIN memory_map : memory_map[k].start < memory_map[k].end
      /\ \A j, k \in DOMAIN memory_map : j < k => memory_map[j].end <= memory_map[k].start
  BY MapAssumption
<1>3. DOMAIN memory_map = 1 .. Len(memory_map) /\ Len(memory_map) \in Nat
  BY <1>1
<1>4. \A k \in DOMAIN memory_map : memory_map[k] \in Region
  BY <1>1, <1>3
<1>5. \A k \in DOMAIN memory_map :
        /\ memory_map[k].start \in Nat /\ memory_map[k].end \in Nat
        /\ memory_map[k].end <= PHYS_END /\ memory_map[k].usable \in BOOLEAN
  BY <1>4, MemorySizes DEF Region
<1>. QED
  BY <1>1, <1>2, <1>3, <1>5

\* Two different regions share no byte.
LEMMA RegionsApart ==
  ASSUME memory_map \in MemoryMaps, NEW j \in DOMAIN memory_map, NEW k \in DOMAIN memory_map, j # k
  PROVE  BytesOf(memory_map[j]) \cap BytesOf(memory_map[k]) = {}
<1>1. j \in Nat /\ k \in Nat /\ (j < k \/ k < j)
  BY MapFacts
<1>2. memory_map[j].end <= memory_map[k].start \/ memory_map[k].end <= memory_map[j].start
  BY <1>1, MapFacts
<1>. QED
  BY <1>2, MapFacts DEF BytesOf

\* The number of frames and of bytes are numbers, and the bitmap has a bit for
\* every frame.
LEMMA BitmapSize ==
  ASSUME memory_map \in MemoryMaps
  PROVE  /\ max_frame \in Nat /\ bytes_needed \in Nat
         /\ max_frame <= bytes_needed * BYTE_BITS /\ bytes_needed * BYTE_BITS \in Nat
         /\ max_frame > 0 => bytes_needed > 0
<1>. DEFINE S == {0} \cup {r.end : r \in Usable}
<1>1. S \in SUBSET (0 .. PHYS_END) /\ S # {}
  BY MapFacts, MemorySizes DEF Usable, Regions
<1>2. max_addr \in Nat
  <2>1. Max(S) \in S
    BY <1>1, MemorySizes, MaxAddress, Zenon
  <2>. QED
    BY <1>1, <2>1, MemorySizes DEF max_addr
<1>3. max_frame \in Nat
  BY <1>2, MemorySizes, CeilBounds DEF max_frame
<1>4. /\ bytes_needed \in Nat /\ max_frame <= bytes_needed * BYTE_BITS
      /\ max_frame > 0 => bytes_needed > 0
  BY <1>3, MemorySizes, CeilBounds DEF bytes_needed
<1>. QED
  BY <1>3, <1>4, MemorySizes

\* The address that the bitmap would have in a region.
LEMMA PlaceInRegion ==
  ASSUME NEW r, r.start \in Nat
  PROVE  PlaceIn(r) \in Nat /\ PlaceIn(r) >= r.start /\ PlaceIn(r) >= LOW_END
<1>. DEFINE S == {r.start, LOW_END}
<1>1. \E x \in S : \A y \in S : x >= y
  BY MemorySizes
<1>2. Max(S) \in S /\ \A y \in S : Max(S) >= y
  BY <1>1 DEF Max
<1>. QED
  BY <1>2, MemorySizes DEF PlaceIn

\* A range that intersects nothing in ILLEGAL_REGIONS has no byte of the kernel
\* or of a region that is recorded.
LEMMA NoIllegalByte ==
  ASSUME memory_map \in MemoryMaps, NEW a \in Nat, NEW b \in Nat, ~IntersectsIllegal(a, b)
  PROVE  /\ (a .. b - 1) \cap KernelBytes = {}
         /\ \A k \in DOMAIN memory_map :
              Recorded(k) => (a .. b - 1) \cap BytesOf(memory_map[k]) = {}
<1>1. ~ranges_intersect(a, b, LOW_END, KERNEL_END)
  <2>1. [start |-> LOW_END, end |-> KERNEL_END] \in ILLEGAL_REGIONS
    BY DEF ILLEGAL_REGIONS
  <2>. QED
    BY <2>1 DEF IntersectsIllegal
<1>2. ASSUME NEW k \in DOMAIN memory_map, Recorded(k)
      PROVE  (a .. b - 1) \cap BytesOf(memory_map[k]) = {}
  <2>1. [start |-> memory_map[k].start, end |-> memory_map[k].end] \in ILLEGAL_REGIONS
    BY <1>2 DEF ILLEGAL_REGIONS
  <2>2. ~ranges_intersect(a, b, memory_map[k].start, memory_map[k].end)
    BY <2>1 DEF IntersectsIllegal
  <2>. QED
    BY <2>2, MapFacts, NoByteShared DEF BytesOf
<1>. QED
  BY <1>1, <1>2, MemorySizes, NoByteShared DEF KernelBytes

\* A range that is not empty and has no byte of the kernel or of a region that
\* is not usable intersects nothing in ILLEGAL_REGIONS.
LEMMA NothingIllegal ==
  ASSUME memory_map \in MemoryMaps, NEW a \in Nat, NEW b \in Nat, a < b,
         (a .. b - 1) \cap KernelBytes = {},
         \A k \in DOMAIN memory_map :
           ~memory_map[k].usable => (a .. b - 1) \cap BytesOf(memory_map[k]) = {}
  PROVE  ~IntersectsIllegal(a, b)
<1>1. ~ranges_intersect(a, b, LOW_END, KERNEL_END)
  BY MemorySizes, ByteShared DEF KernelBytes
<1>2. ASSUME NEW k \in DOMAIN memory_map, Recorded(k)
      PROVE  ~ranges_intersect(a, b, memory_map[k].start, memory_map[k].end)
  <2>1. (a .. b - 1) \cap BytesOf(memory_map[k]) = {}
    BY <1>2 DEF Recorded
  <2>. QED
    BY <2>1, MapFacts, ByteShared DEF BytesOf
<1>3. ASSUME NEW ill \in ILLEGAL_REGIONS
      PROVE  ~ranges_intersect(a, b, ill.start, ill.end)
  <2>1. CASE ill = [start |-> LOW_END, end |-> KERNEL_END]
    BY <1>1, <2>1
  <2>2. CASE \E k \in DOMAIN memory_map :
               Recorded(k) /\ ill = [start |-> memory_map[k].start, end |-> memory_map[k].end]
    BY <1>2, <2>2
  <2>. QED
    BY <1>3, <2>1, <2>2, Zenon DEF ILLEGAL_REGIONS
<1>. QED
  BY <1>3, Zenon DEF IntersectsIllegal

\* When there are fewer regions that are not usable than ILLEGAL_REGIONS has
\* entries, the loop records each of them.
LEMMA RoomForAll ==
  ASSUME memory_map \in MemoryMaps, AllRecorded, NEW k \in DOMAIN memory_map, ~memory_map[k].usable
  PROVE  Recorded(k)
<1>. DEFINE n == Len(memory_map)
            S == Others(n + 1)
            T == Others(k)
<1>1. n \in Nat /\ k \in 1 .. n
  BY MapFacts
<1>2. IsFiniteSet(S)
  <2>1. IsFiniteSet(1 .. n)
    BY <1>1, FS_Interval
  <2>2. S \in SUBSET (1 .. n)
    BY <1>1 DEF Others
  <2>. QED
    BY <2>1, <2>2, FS_Subset
<1>3. T \in SUBSET S /\ k \in S /\ k \notin T
  BY <1>1 DEF Others
<1>4. Cardinality(T) <= Cardinality(S) /\ Cardinality(T) # Cardinality(S) /\ IsFiniteSet(T)
  <2>. HIDE DEF S, T
  <2>1. S # T
    BY <1>3
  <2>. QED
    BY <1>2, <1>3, <2>1, FS_Subset
<1>5. Cardinality(S) \in Nat /\ Cardinality(T) \in Nat
  BY <1>2, <1>4, FS_CardinalityType
<1>6. Cardinality(S) < MAX_ILLEGAL
  BY DEF AllRecorded
<1>. QED
  BY <1>4, <1>5, <1>6, MemorySizes DEF Recorded

-----------------------------------------------------------------------------
(***************************************************************************)
(* The inductive invariant: when init is done, what it has computed.       *)
(***************************************************************************)

\* The bitmap is in a region that suits, and all bits are set but those of the
\* free frames.
Built ==
  /\ \E k \in DOMAIN memory_map :
       Suits(memory_map[k]) /\ bitmap_phys_addr = PlaceIn(memory_map[k])
  /\ bitmap = (0 .. bytes_needed * BYTE_BITS - 1) \ FreeFrames(bitmap_phys_addr)

\* What the calls of the earlier allocator returned: the n-th call the frame at
\* the n-th place, or None.
HandedInv ==
  /\ next \in Nat /\ handed \in Seq(Int) /\ Len(handed) = next
  /\ \A j \in DOMAIN handed :
       handed[j] # -1 =>
         \E place \in usable_frames : IsNth(place, j - 1) /\ handed[j] = FrameAt(place)

BitmapInv ==
  /\ memory_map \in MemoryMaps
  /\ map_pc = "done" => Built
  /\ HandedInv

\* What is computed from the map does not change while the map does not.
LEMMA SameMap ==
  ASSUME memory_map' = memory_map
  PROVE  /\ bytes_needed' = bytes_needed /\ usable_frames' = usable_frames
         /\ \A r : Suits(r)' = Suits(r)
         /\ \A a : FreeFrames(a)' = FreeFrames(a)
         /\ \A place : FrameAt(place)' = FrameAt(place)
         /\ \A place, n : IsNth(place, n)' = IsNth(place, n)
<1>1. Usable' = Usable /\ Regions' = Regions
  BY DEF Usable, Regions
<1>2. max_frame' = max_frame /\ bytes_needed' = bytes_needed
  BY <1>1 DEF bytes_needed, max_frame, max_addr
<1>3. ILLEGAL_REGIONS' = ILLEGAL_REGIONS
  BY DEF ILLEGAL_REGIONS, Recorded, Others
<1>4. \A a, b : IntersectsIllegal(a, b)' = IntersectsIllegal(a, b)
  BY <1>3 DEF IntersectsIllegal
<1>5. \A r : Suits(r)' = Suits(r)
  BY <1>2, <1>4 DEF Suits
<1>6. \A a : FreeFrames(a)' = FreeFrames(a)
  BY <1>1, <1>2, <1>4 DEF FreeFrames
<1>7. usable_frames' = usable_frames
  BY DEF usable_frames
<1>8. /\ \A place : FrameAt(place)' = FrameAt(place)
      /\ \A place, n : IsNth(place, n)' = IsNth(place, n)
  BY <1>7 DEF FrameAt, IsNth
<1>. QED
  BY <1>2, <1>5, <1>6, <1>7, <1>8

\* A place of usable_frames, and the frame there.
LEMMA PlaceFacts ==
  ASSUME memory_map \in MemoryMaps, NEW place \in usable_frames
  PROVE  /\ place[1] \in DOMAIN memory_map /\ memory_map[place[1]].usable
         /\ place[2] \in 1 .. AddressCount(memory_map[place[1]])
         /\ place = <<place[1], place[2]>>
         /\ FrameAt(place) \in Nat
<1>1. PICK k \in DOMAIN memory_map :
        memory_map[k].usable /\ place \in {k} \X (1 .. AddressCount(memory_map[k]))
  BY DEF usable_frames
<1>2. /\ place[1] = k /\ place[2] \in 1 .. AddressCount(memory_map[k])
      /\ place = <<place[1], place[2]>>
  BY <1>1
<1>3. (place[2] - 1) * PAGE_SIZE \in Nat
  <2>1. place[2] - 1 \in Nat
    BY <1>2
  <2>. QED
    BY <2>1, MemorySizes
<1>4. memory_map[k].start + (place[2] - 1) * PAGE_SIZE \in Nat
  <2>1. memory_map[k].start \in Nat
    BY MapFacts, Zenon
  <2>2. ASSUME NEW a \in Nat, NEW b \in Nat PROVE a + b \in Nat
    OBVIOUS
  <2>. QED
    BY <1>3, <2>1, <2>2, Zenon
<1>5. FrameAt(place) \in Nat
  BY <1>2, <1>4, PageBounds DEF FrameAt
<1>. QED
  BY <1>1, <1>2, <1>5

\* A call of the earlier allocator keeps the invariant.
LEMMA AllocateFrameInv ==
  ASSUME memory_map \in MemoryMaps, HandedInv, allocate_frame
  PROVE  HandedInv'
<1>. DEFINE returned == Nth(next)
<1>1. handed' = Append(handed, returned) /\ next' = next + 1 /\ memory_map' = memory_map
  BY DEF allocate_frame, map_vars
<1>2. returned # -1 => \E place \in usable_frames : IsNth(place, next) /\ returned = FrameAt(place)
  BY DEF Nth
<1>3. returned \in Int
  BY <1>2, PlaceFacts
<1>. HIDE DEF returned
<1>4. /\ next \in Nat /\ handed \in Seq(Int) /\ Len(handed) = next
      /\ DOMAIN handed = 1 .. next
  BY DEF HandedInv
<1>5. /\ handed' \in Seq(Int) /\ Len(handed') = next + 1 /\ DOMAIN handed' = 1 .. next + 1
      /\ handed'[next + 1] = returned /\ \A j \in 1 .. next : handed'[j] = handed[j]
  BY <1>1, <1>3, <1>4
<1>6. ASSUME NEW j \in DOMAIN handed', handed'[j] # -1
      PROVE  \E place \in usable_frames : IsNth(place, j - 1) /\ handed'[j] = FrameAt(place)
  <2>1. CASE j = next + 1
    <3>1. j - 1 = next
      BY <1>4, <2>1
    <3>. QED
      BY <1>2, <1>5, <1>6, <2>1, <3>1
  <2>2. CASE j \in 1 .. next
    BY <1>4, <1>5, <1>6, <2>2 DEF HandedInv
  <2>3. j \in 1 .. next + 1 /\ next \in Nat
    BY <1>4, <1>5, Zenon
  <2>4. j = next + 1 \/ j \in 1 .. next
    BY ONLY <2>3
  <2>. QED
    BY <2>1, <2>2, <2>4, Zenon
<1>7. \A j \in DOMAIN handed' : handed'[j] # -1 =>
        \E place \in usable_frames' : IsNth(place, j - 1)' /\ handed'[j] = FrameAt(place)'
  BY <1>1, <1>6, SameMap
<1>. QED
  BY <1>1, <1>4, <1>5, <1>7 DEF HandedInv

\* The invariant of the bitmap and of the earlier allocator.
THEOREM BitmapInvariant == MemorySpec => []BitmapInv
<1>1. MemoryInit => BitmapInv
  BY DEF MemoryInit, MapInit, BitmapInv, HandedInv
<1>2. BitmapInv /\ [MemoryNext]_<<map_vars, legacy_vars>> => BitmapInv'
  <2>. SUFFICES ASSUME BitmapInv, [MemoryNext]_<<map_vars, legacy_vars>> PROVE BitmapInv'
    OBVIOUS
  <2>1. memory_map \in MemoryMaps /\ HandedInv /\ (map_pc = "done" => Built)
    BY DEF BitmapInv
  <2>2. ASSUME UNCHANGED legacy_vars, memory_map' = memory_map PROVE HandedInv'
    BY <2>1, <2>2, SameMap DEF legacy_vars, HandedInv
  <2>3. ASSUME UNCHANGED map_vars PROVE map_pc' = "done" => Built'
    BY <2>1, <2>3, SameMap DEF map_vars, Built
  <2>4. CASE allocate_frame
    BY <2>1, <2>3, <2>4, AllocateFrameInv DEF BitmapInv, allocate_frame, map_vars
  <2>5. CASE init /\ UNCHANGED legacy_vars
    <3>1. memory_map' = memory_map
      BY <2>5 DEF init
    <3>2. Built'
      BY <2>5, <3>1, SameMap DEF init, Built, PlaceIn
    <3>. QED
      BY <2>1, <2>2, <2>5, <3>1, <3>2 DEF BitmapInv
  <2>6. CASE init_panics /\ UNCHANGED legacy_vars
    BY <2>1, <2>2, <2>6 DEF BitmapInv, init_panics
  <2>7. CASE UNCHANGED <<map_vars, legacy_vars>>
    BY <2>1, <2>2, <2>3, <2>7 DEF BitmapInv, map_vars
  <2>. QED
    BY <2>4, <2>5, <2>6, <2>7 DEF MemoryNext, MapNext, Finished
<1>. QED
  BY <1>1, <1>2, PTL DEF MemorySpec

\* The bitmap is kept in usable memory above the kernel's range, whichever
\* region the search of init finds.
THEOREM BitmapKeptSafely == MemorySpec => []BitmapInUsableMemory
<1>1. BitmapInv => BitmapInUsableMemory
  <2>. SUFFICES ASSUME BitmapInv, map_pc = "done", NEW a \in BitmapBytes
                PROVE  a \in UsableBytes /\ a \notin KernelBytes /\ a \notin 0 .. LOW_END - 1
    BY DEF BitmapInUsableMemory
  <2>1. memory_map \in MemoryMaps
    BY DEF BitmapInv
  <2>2. PICK k \in DOMAIN memory_map :
          Suits(memory_map[k]) /\ bitmap_phys_addr = PlaceIn(memory_map[k])
    BY DEF BitmapInv, Built
  <2>. DEFINE r == memory_map[k]
              p == bitmap_phys_addr
  <2>3. /\ r.usable /\ r.end > LOW_END /\ r.end - p >= bytes_needed
        /\ ~IntersectsIllegal(p, r.end)
    BY <2>2 DEF Suits
  <2>4. r.start \in Nat /\ r.end \in Nat /\ bytes_needed \in Nat
    BY <2>1, <2>2, MapFacts, BitmapSize
  <2>5. p \in Nat /\ p >= r.start /\ p >= LOW_END
    BY <2>2, <2>4, PlaceInRegion
  <2>. HIDE DEF p
  <2>6. a \in p .. r.end - 1 /\ a >= r.start
    BY <2>3, <2>4, <2>5 DEF BitmapBytes, p
  <2>7. (p .. r.end - 1) \cap KernelBytes = {}
    BY <2>1, <2>3, <2>4, <2>5, NoIllegalByte
  <2>8. r \in Usable
    BY <2>2, <2>3, Zenon DEF Usable, Regions
  <2>. DEFINE s == r.start
              e == r.end
  <2>9. s \in Nat /\ e \in Nat /\ a \in p .. e - 1 /\ a >= s
    BY <2>4, <2>6, Zenon
  <2>. HIDE DEF s, e
  <2>10. a \in s .. e - 1 /\ a \notin 0 .. LOW_END - 1
    BY <2>5, <2>9, MemorySizes
  <2>11. a \in BytesOf(r)
    BY <2>10, Zenon DEF BytesOf, s, e
  <2>. QED
    BY <2>6, <2>7, <2>8, <2>10, <2>11, Zenon DEF UsableBytes
<1>. QED
  BY <1>1, BitmapInvariant, PTL

\* The bytes of a frame are a range of addresses that is not empty.
LEMMA FrameRange ==
  ASSUME NEW f \in Nat
  PROVE  /\ f * PAGE_SIZE \in Nat /\ (f + 1) * PAGE_SIZE \in Nat
         /\ f * PAGE_SIZE < (f + 1) * PAGE_SIZE
         /\ FrameBytes(f) = f * PAGE_SIZE .. (f + 1) * PAGE_SIZE - 1
         /\ f * PAGE_SIZE \in FrameBytes(f)
<1>1. f * PAGE_SIZE \in Nat /\ (f + 1) * PAGE_SIZE = f * PAGE_SIZE + PAGE_SIZE
  BY PageOrder
<1>. QED
  BY <1>1, MemorySizes DEF FrameBytes

\* The address of the bitmap is a number.
LEMMA BuiltAddress ==
  ASSUME memory_map \in MemoryMaps, Built
  PROVE  bitmap_phys_addr \in Nat
<1>1. PICK k \in DOMAIN memory_map : bitmap_phys_addr = PlaceIn(memory_map[k])
  BY DEF Built
<1>. QED
  BY <1>1, MapFacts, PlaceInRegion

\* A frame that a whole usable region of whole pages has is all in it.
LEMMA AlignedFrame ==
  ASSUME NEW r, r.start \in Nat, r.end \in Nat, r.start % PAGE_SIZE = 0, r.end % PAGE_SIZE = 0,
         NEW f \in Nat, f \in r.start \div PAGE_SIZE .. Ceil(r.end, PAGE_SIZE) - 1
  PROVE  FrameBytes(f) \subseteq BytesOf(r)
<1>. DEFINE b == r.start \div PAGE_SIZE
            e == r.end \div PAGE_SIZE
            c == Ceil(r.end, PAGE_SIZE)
<1>1. b \in Nat /\ e \in Nat /\ r.start = b * PAGE_SIZE /\ r.end = e * PAGE_SIZE
  BY PageBounds
<1>2. c \in Nat /\ r.end <= c * PAGE_SIZE /\ c * PAGE_SIZE < r.end + PAGE_SIZE
  BY MemorySizes, CeilBounds
<1>3. b <= f /\ f < c
  BY <1>2, <1>1
<1>. HIDE DEF b, e, c
<1>4. r.start = b * PAGE_SIZE /\ r.end = e * PAGE_SIZE
  BY <1>1
<1>5. c <= e
  <2>1. c * PAGE_SIZE < (e + 1) * PAGE_SIZE
    BY <1>1, <1>2, <1>4, PageOrder
  <2>2. c < e + 1
    BY <1>1, <1>2, <2>1, PageOrder
  <2>. QED
    BY <1>1, <1>2, <2>2
<1>6. b * PAGE_SIZE <= f * PAGE_SIZE
  BY <1>1, <1>3, PageOrder, MemorySizes
<1>7. f * PAGE_SIZE + PAGE_SIZE <= e * PAGE_SIZE
  BY <1>1, <1>2, <1>3, <1>5, PageOrder
<1>8. (f + 1) * PAGE_SIZE = f * PAGE_SIZE + PAGE_SIZE /\ f * PAGE_SIZE \in Nat
  BY PageOrder
<1>. QED
  BY <1>4, <1>6, <1>7, <1>8, MemorySizes DEF FrameBytes, BytesOf

\* Frames that init marks free can be handed out, whatever the map: they hold
\* nothing of the kernel or the bitmap, and nothing that is not usable when
\* usable regions are whole pages or all others were recorded.
THEOREM FreeFramesSafe == MemorySpec => []FreeFramesAreSafe
<1>1. BitmapInv => FreeFramesAreSafe
  <2>. SUFFICES ASSUME BitmapInv, map_pc = "done", NEW f \in FreeBits
                PROVE  /\ f < max_frame
                       /\ FrameBytes(f) \cap KernelBytes = {}
                       /\ FrameBytes(f) \cap BitmapBytes = {}
                       /\ Aligned \/ AllRecorded => FrameBytes(f) \cap ReservedBytes = {}
    BY DEF FreeFramesAreSafe
  <2>1. memory_map \in MemoryMaps /\ Built
    BY DEF BitmapInv
  <2>2. f \in FreeFrames(bitmap_phys_addr)
    BY <2>1 DEF Built, FreeBits
  <2>3. max_frame \in Nat /\ bytes_needed \in Nat /\ bitmap_phys_addr \in Nat
    BY <2>1, BitmapSize, BuiltAddress
  <2>4. /\ f \in Nat /\ f < max_frame
        /\ ~ranges_intersect(f * PAGE_SIZE, (f + 1) * PAGE_SIZE,
                             bitmap_phys_addr, bitmap_phys_addr + bytes_needed)
        /\ ~IntersectsIllegal(f * PAGE_SIZE, (f + 1) * PAGE_SIZE)
    BY <2>2, <2>3 DEF FreeFrames
  <2>5. PICK r \in Usable : f \in r.start \div PAGE_SIZE .. Ceil(r.end, PAGE_SIZE) - 1
    BY <2>2 DEF FreeFrames
  <2>6. FrameBytes(f) \cap BitmapBytes = {}
    <3>. DEFINE e == bitmap_phys_addr + bytes_needed
    <3>1. e \in Nat
      BY <2>3
    <3>2. /\ f * PAGE_SIZE \in Nat /\ (f + 1) * PAGE_SIZE \in Nat
          /\ FrameBytes(f) = f * PAGE_SIZE .. (f + 1) * PAGE_SIZE - 1
      BY <2>4, FrameRange
    <3>. DEFINE a == f * PAGE_SIZE
                b == (f + 1) * PAGE_SIZE
    <3>3. ~ranges_intersect(a, b, bitmap_phys_addr, e)
      BY <2>4
    <3>. HIDE DEF a, b, e
    <3>4. (a .. b - 1) \cap (bitmap_phys_addr .. e - 1) = {}
      BY <2>3, <3>1, <3>2, <3>3, NoByteShared DEF a, b
    <3>5. BitmapBytes = bitmap_phys_addr .. e - 1
      <4>1. bitmap_phys_addr + bytes_needed - 1 = e - 1
        BY <2>3 DEF e
      <4>. QED
        BY <4>1, Zenon DEF BitmapBytes
    <3>. QED
      BY <3>2, <3>4, <3>5, Zenon DEF a, b
  <2>7. /\ FrameBytes(f) \cap KernelBytes = {}
        /\ \A k \in DOMAIN memory_map :
             Recorded(k) => FrameBytes(f) \cap BytesOf(memory_map[k]) = {}
    BY <2>1, <2>4, FrameRange, NoIllegalByte
  <2>8. ASSUME Aligned \/ AllRecorded, NEW q \in Regions \ Usable
        PROVE  FrameBytes(f) \cap BytesOf(q) = {}
    <3>1. PICK j \in DOMAIN memory_map : q = memory_map[j] /\ ~memory_map[j].usable
      BY <2>8 DEF Regions, Usable
    <3>2. CASE AllRecorded
      BY <2>1, <2>7, <3>1, <3>2, RoomForAll
    <3>3. CASE Aligned
      <4>1. PICK k \in DOMAIN memory_map : r = memory_map[k] /\ memory_map[k].usable
        BY <2>5 DEF Regions, Usable
      <4>2. r.start \in Nat /\ r.end \in Nat /\ r.start % PAGE_SIZE = 0 /\ r.end % PAGE_SIZE = 0
        BY <2>1, <3>3, <4>1, MapFacts DEF Aligned
      <4>3. FrameBytes(f) \subseteq BytesOf(r)
        BY <2>4, <2>5, <4>2, AlignedFrame
      <4>4. BytesOf(memory_map[k]) \cap BytesOf(memory_map[j]) = {}
        BY <2>1, <3>1, <4>1, RegionsApart
      <4>. QED
        BY <3>1, <4>1, <4>3, <4>4
    <3>. QED
      BY <2>8, <3>2, <3>3
  <2>9. Aligned \/ AllRecorded => FrameBytes(f) \cap ReservedBytes = {}
    BY <2>8 DEF ReservedBytes
  <2>. QED
    BY <2>4, <2>6, <2>7, <2>9
<1>. QED
  BY <1>1, BitmapInvariant, PTL

\* No frame that could be handed out is kept back, whatever the map.
THEOREM NoFrameWasted == MemorySpec => []UsableFramesAreFree
<1>1. BitmapInv => UsableFramesAreFree
  <2>. SUFFICES ASSUME BitmapInv, map_pc = "done", NEW f \in 0 .. max_frame - 1,
                       FrameBytes(f) \subseteq UsableBytes,
                       FrameBytes(f) \cap (KernelBytes \cup BitmapBytes) = {}
                PROVE  f \in FreeBits
    BY DEF UsableFramesAreFree
  <2>1. memory_map \in MemoryMaps /\ Built
    BY DEF BitmapInv
  <2>2. /\ max_frame \in Nat /\ bytes_needed \in Nat /\ bitmap_phys_addr \in Nat
        /\ max_frame <= bytes_needed * BYTE_BITS /\ bytes_needed * BYTE_BITS \in Nat
    BY <2>1, BitmapSize, BuiltAddress
  <2>3. f \in Nat /\ f < max_frame /\ bytes_needed > 0
    BY <2>1, <2>2, BitmapSize
  <2>. DEFINE a == f * PAGE_SIZE
              b == (f + 1) * PAGE_SIZE
  <2>4. a \in Nat /\ b \in Nat /\ a < b /\ FrameBytes(f) = a .. b - 1 /\ a \in FrameBytes(f)
    BY <2>3, FrameRange
  <2>5. \E r \in Usable : f \in r.start \div PAGE_SIZE .. Ceil(r.end, PAGE_SIZE) - 1
    <3>1. PICK r \in Usable : a \in BytesOf(r)
      BY <2>4 DEF UsableBytes
    <3>2. r.start \in Nat /\ r.end \in Nat /\ r.start <= a /\ a < r.end
      <4>1. PICK k \in DOMAIN memory_map : r = memory_map[k]
        BY <3>1, Zenon DEF Usable, Regions
      <4>2. r.start \in Nat /\ r.end \in Nat
        BY <2>1, <4>1, MapFacts, Zenon
      <4>3. a \in r.start .. r.end - 1
        BY <3>1, Zenon DEF BytesOf
      <4>4. ASSUME NEW i \in Nat, NEW j \in Nat, a \in i .. j - 1 PROVE i <= a /\ a < j
        BY <2>4, <4>4
      <4>. QED
        BY <4>2, <4>3, <4>4, Zenon
    <3>. DEFINE s == r.start \div PAGE_SIZE
                c == Ceil(r.end, PAGE_SIZE)
    <3>3. s \in Nat /\ s * PAGE_SIZE <= r.start
      BY <3>2, PageBounds
    <3>4. c \in Nat /\ r.end <= c * PAGE_SIZE
      BY <3>2, MemorySizes, CeilBounds
    <3>. HIDE DEF s, c
    <3>5. s * PAGE_SIZE \in Nat /\ c * PAGE_SIZE \in Nat
      BY <3>3, <3>4, PageOrder
    <3>6. s * PAGE_SIZE <= f * PAGE_SIZE /\ f * PAGE_SIZE < c * PAGE_SIZE
      BY <2>4, <3>2, <3>3, <3>4, <3>5
    <3>7. s <= f /\ f < c
      BY <2>3, <3>3, <3>4, <3>6, PageOrder
    <3>. QED
      BY <2>3, <3>1, <3>3, <3>4, <3>7 DEF s, c
  <2>. HIDE DEF a, b
  <2>6. ~ranges_intersect(a, b, bitmap_phys_addr, bitmap_phys_addr + bytes_needed)
    <3>. DEFINE e == bitmap_phys_addr + bytes_needed
    <3>1. e \in Nat /\ bitmap_phys_addr < e
      BY <2>2, <2>3
    <3>2. (a .. b - 1) \cap (bitmap_phys_addr .. e - 1) = {}
      <4>1. bitmap_phys_addr + bytes_needed - 1 = e - 1
        BY <2>2
      <4>2. BitmapBytes = bitmap_phys_addr .. e - 1
        BY <4>1, Zenon DEF BitmapBytes
      <4>3. (a .. b - 1) \cap BitmapBytes = {}
        BY <2>4
      <4>. QED
        BY <4>2, <4>3, Zenon
    <3>. HIDE DEF e
    <3>3. ~ranges_intersect(a, b, bitmap_phys_addr, e)
      BY <2>2, <2>4, <3>1, <3>2, ByteShared
    <3>. QED
      BY <3>3 DEF e
  <2>7. ~IntersectsIllegal(a, b)
    <3>1. ASSUME NEW k \in DOMAIN memory_map, ~memory_map[k].usable
          PROVE  (a .. b - 1) \cap BytesOf(memory_map[k]) = {}
      <4>. SUFFICES ASSUME NEW u \in a .. b - 1, u \in BytesOf(memory_map[k]) PROVE FALSE
        OBVIOUS
      <4>1. PICK j \in DOMAIN memory_map : memory_map[j].usable /\ u \in BytesOf(memory_map[j])
        BY <2>4 DEF UsableBytes, Usable, Regions
      <4>2. j # k
        BY <3>1, <4>1
      <4>. QED
        BY <2>1, <4>1, <4>2, RegionsApart
    <3>2. (a .. b - 1) \cap KernelBytes = {}
      BY <2>4
    <3>. QED
      BY <2>1, <2>4, <3>1, <3>2, NothingIllegal
  <2>8. f \in FreeFrames(bitmap_phys_addr)
    BY <2>5, <2>6, <2>7 DEF FreeFrames, a, b
  <2>. QED
    BY <2>1, <2>2, <2>3, <2>8 DEF FreeBits, Built
<1>. QED
  BY <1>1, BitmapInvariant, PTL

\* In a usable region of whole pages, the address at a place is the start of a
\* frame that is all in the region.
LEMMA AlignedPlace ==
  ASSUME memory_map \in MemoryMaps, Aligned, NEW place \in usable_frames
  PROVE  /\ FrameAt(place) = memory_map[place[1]].start \div PAGE_SIZE + (place[2] - 1)
         /\ FrameBytes(FrameAt(place)) \subseteq BytesOf(memory_map[place[1]])
<1>. DEFINE r == memory_map[place[1]]
            m == place[2] - 1
            b == r.start \div PAGE_SIZE
            c == Ceil(r.end, PAGE_SIZE)
            n == AddressCount(r)
            x == r.start + m * PAGE_SIZE
<1>1. /\ place[1] \in DOMAIN memory_map /\ r.usable /\ place[2] \in 1 .. n
      /\ FrameAt(place) \in Nat
  BY PlaceFacts
<1>2. r.start \in Nat /\ r.end \in Nat /\ r.start < r.end
  BY <1>1, MapFacts
<1>3. r.start % PAGE_SIZE = 0 /\ r.end % PAGE_SIZE = 0
  BY <1>1 DEF Aligned, Usable, Regions
<1>4. b \in Nat /\ r.start = b * PAGE_SIZE
  BY <1>2, <1>3, PageBounds
<1>5. c \in Nat /\ r.end <= c * PAGE_SIZE
  BY <1>2, MemorySizes, CeilBounds
<1>6. n \in Nat /\ n * PAGE_SIZE < r.end - r.start + PAGE_SIZE
  <2>1. r.end - r.start \in Nat
    BY <1>2
  <2>. QED
    BY <2>1, MemorySizes, CeilBounds DEF AddressCount
<1>7. m \in Nat /\ m < n
  <2>1. ASSUME NEW i, NEW k \in Nat, i \in 1 .. k PROVE i - 1 \in Nat /\ i - 1 < k
    BY <2>1
  <2>. QED
    BY <1>1, <1>6, <2>1, Zenon
<1>8. FrameAt(place) = x \div PAGE_SIZE
  BY DEF FrameAt
<1>. HIDE DEF r, m, b, c, n, x
<1>9. m * PAGE_SIZE \in Nat /\ m * PAGE_SIZE + PAGE_SIZE <= n * PAGE_SIZE /\ n * PAGE_SIZE \in Nat
  BY <1>6, <1>7, PageOrder
<1>10. x = (b + m) * PAGE_SIZE /\ x \in Nat
  BY <1>4, <1>7, <1>9, <1>2, MemorySizes DEF x
<1>11. FrameAt(place) = b + m
  <2>. DEFINE f == x \div PAGE_SIZE
  <2>1. f \in Nat /\ f * PAGE_SIZE <= x /\ x < f * PAGE_SIZE + PAGE_SIZE
    BY <1>10, PageBounds
  <2>. HIDE DEF f
  <2>2. f <= b + m
    BY <1>4, <1>7, <1>10, <2>1, PageOrder
  <2>3. b + m < f + 1
    <3>1. (b + m) * PAGE_SIZE < (f + 1) * PAGE_SIZE
      BY <1>10, <2>1, PageOrder
    <3>. QED
      BY <1>4, <1>7, <2>1, <3>1, PageOrder
  <2>. QED
    BY <1>4, <1>7, <1>8, <2>1, <2>2, <2>3 DEF f
<1>12. b + m < c
  <2>1. x < r.end
    BY <1>2, <1>6, <1>9, MemorySizes DEF x
  <2>2. (b + m) * PAGE_SIZE < c * PAGE_SIZE
    <3>1. c * PAGE_SIZE \in Nat
      BY <1>5, PageOrder
    <3>. QED
      BY <1>2, <1>5, <1>10, <2>1, <3>1
  <2>. QED
    BY <1>4, <1>5, <1>7, <2>2, PageOrder
<1>13. b + m \in Nat /\ b + m \in b .. c - 1
  BY <1>4, <1>5, <1>7, <1>12
<1>14. FrameBytes(b + m) \subseteq BytesOf(r)
  BY <1>2, <1>3, <1>13, AlignedFrame DEF b, c
<1>. QED
  BY <1>11, <1>14 DEF r, b, m

\* The earlier allocator hands out each frame once, and usable memory only, on
\* every map whose usable regions are whole pages.
THEOREM FramesHandedOnce == MemorySpec => []HandedOnce
<1>1. BitmapInv => HandedOnce
  <2>. SUFFICES ASSUME BitmapInv, Aligned, NEW j \in DOMAIN handed, handed[j] # -1
                PROVE  /\ FrameBytes(handed[j]) \subseteq UsableBytes
                       /\ \A k \in 1 .. j - 1 : handed[k] # handed[j]
    BY DEF HandedOnce
  <2>1. memory_map \in MemoryMaps /\ HandedInv
    BY DEF BitmapInv
  <2>2. DOMAIN handed = 1 .. next /\ next \in Nat
    BY <2>1 DEF HandedInv
  <2>3. PICK p \in usable_frames : IsNth(p, j - 1) /\ handed[j] = FrameAt(p)
    BY <2>1 DEF HandedInv
  <2>4. /\ p[1] \in DOMAIN memory_map /\ memory_map[p[1]].usable /\ p[2] \in Nat
        /\ p = <<p[1], p[2]>> /\ FrameAt(p) \in Nat
    <3>1. ASSUME NEW n, NEW i \in 1 .. n PROVE i \in Nat
      OBVIOUS
    <3>. QED
      BY <2>1, <2>3, <3>1, PlaceFacts, Zenon
  <2>5. /\ FrameAt(p) = memory_map[p[1]].start \div PAGE_SIZE + (p[2] - 1)
        /\ FrameBytes(FrameAt(p)) \subseteq BytesOf(memory_map[p[1]])
    BY <2>1, <2>3, AlignedPlace
  <2>6. FrameBytes(handed[j]) \subseteq UsableBytes
    BY <2>3, <2>4, <2>5 DEF UsableBytes, Usable, Regions
  <2>7. ASSUME NEW k \in 1 .. j - 1, handed[k] = handed[j] PROVE FALSE
    <3>1. k \in DOMAIN handed /\ j \in Nat /\ k - 1 # j - 1
      BY <2>2
    <3>2. PICK q \in usable_frames : IsNth(q, k - 1) /\ handed[k] = FrameAt(q)
      BY <2>1, <2>7, <3>1 DEF HandedInv
    <3>3. p # q
      BY <2>3, <3>1, <3>2 DEF IsNth
    <3>4. /\ q[1] \in DOMAIN memory_map /\ q[2] \in Nat /\ q = <<q[1], q[2]>>
      BY <2>1, <3>2, PlaceFacts
    <3>5. /\ FrameAt(q) = memory_map[q[1]].start \div PAGE_SIZE + (q[2] - 1)
          /\ FrameBytes(FrameAt(q)) \subseteq BytesOf(memory_map[q[1]])
      BY <2>1, <3>2, AlignedPlace
    <3>6. FrameAt(p) = FrameAt(q)
      BY <2>3, <2>7, <3>2
    <3>7. CASE p[1] = q[1]
      <4>1. memory_map[p[1]].start \div PAGE_SIZE \in Nat
        BY <2>1, <2>4, MapFacts, PageBounds
      <4>. DEFINE s == memory_map[p[1]].start \div PAGE_SIZE
      <4>2. s + (p[2] - 1) = s + (q[2] - 1)
        BY <2>5, <3>5, <3>6, <3>7, Zenon
      <4>3. ASSUME NEW b \in Nat, NEW i \in Nat, NEW l \in Nat, b + (i - 1) = b + (l - 1)
            PROVE  i = l
        BY <4>3
      <4>4. p[2] = q[2]
        BY <2>4, <3>4, <4>1, <4>2, <4>3, Zenon
      <4>. QED
        BY <2>4, <3>3, <3>4, <3>7, <4>4, Zenon
    <3>8. CASE p[1] # q[1]
      <4>1. BytesOf(memory_map[p[1]]) \cap BytesOf(memory_map[q[1]]) = {}
        BY <2>1, <2>4, <3>4, <3>8, RegionsApart
      <4>2. FrameAt(p) * PAGE_SIZE \in FrameBytes(FrameAt(p))
        BY <2>4, FrameRange
      <4>. QED
        BY <2>5, <3>5, <3>6, <4>1, <4>2
    <3>. QED
      BY <3>7, <3>8
  <2>. QED
    BY <2>6, <2>7
<1>. QED
  BY <1>1, BitmapInvariant, PTL
=============================================================================
