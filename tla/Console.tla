------------------------------- MODULE Console -------------------------------
(***************************************************************************)
(* The locks of the two consoles and the interrupt flag of the processor   *)
(* that boots the kernel: print! takes FRAMEBUFFER_WRITER with interrupts  *)
(* as they are (kernel/src/framebuffer.rs), serial_print! takes SERIAL1    *)
(* with interrupts off (kernel/src/serial.rs).  The panic handler prints   *)
(* too, whatever the context that panicked holds (kernel/src/main.rs).     *)
(*                                                                         *)
(* A context is a thread of control: "main" is the kernel's foreground,    *)
(* "handler" an interrupt or exception handler on the same processor,      *)
(* which runs to its end before main goes on, and each AP runs on a        *)
(* processor of its own.  What is printed is left out.                     *)
(***************************************************************************)
EXTENDS Naturals

CONSTANT APs    \* the application processors

ASSUME APsAssumption == APs \cap {"main", "handler", "free"} = {}

VARIABLES
  pc,                  \* where each context is
  FRAMEBUFFER_WRITER,  \* the context that holds the lock, or "free"
  SERIAL1,             \* the same for the serial port
  pixel_format,        \* "known", or "unknown" to write_pixel
  interrupts,          \* interrupt flag of the boot processor: "on", "off"
  saved,               \* the flag that without_interrupts found
  frame,               \* the flag that iretq restores at a handler's end
  enabled              \* "yes" once kernel_main has turned interrupts on

locks == <<FRAMEBUFFER_WRITER, SERIAL1, pixel_format>>

flags == <<interrupts, saved, frame, enabled>>

vars == <<pc, locks, flags>>

Contexts == {"main", "handler"} \cup APs

\* The context has its processor: a handler suspends main.
Runs(c) == c # "main" \/ pc["handler"] = "none"

Goto(c, from, to) ==
  /\ Runs(c)
  /\ pc[c] = from
  /\ pc' = [pc EXCEPT ![c] = to]

-----------------------------------------------------------------------------
\* Where a context goes on after a print.
After(c) ==
  CASE c = "main" -> "run"
    [] c = "handler" -> "eoi"
    [] OTHER -> "loop"

\* framebuffer::_print: called, the lock acquired after spinning, released.
print ==
  /\ Goto("main", "run", "fb_lock")
  /\ UNCHANGED <<locks, flags>>

fb_lock(c) ==
  /\ \/ Goto(c, "fb_lock", "fb_write")
     \/ Goto(c, "panic_lock", "panic_write")
  /\ FRAMEBUFFER_WRITER = "free"
  /\ FRAMEBUFFER_WRITER' = c
  /\ UNCHANGED <<SERIAL1, pixel_format, flags>>

\* A newline, which main may print alone, writes no pixel.
fb_unlock(c) ==
  /\ Goto(c, "fb_write", After(c))
  /\ pixel_format = "known" \/ c = "main"
  /\ FRAMEBUFFER_WRITER' = "free"
  /\ UNCHANGED <<SERIAL1, pixel_format, flags>>

\* write_pixel meets a format it does not know: it sets one that it knows and
\* panics, and nothing unwinds, so the lock stays taken.
write_pixel_panics(c) ==
  /\ \E place \in {"fb_write", "panic_write"} : Goto(c, place, "panic_lock")
  /\ pixel_format = "unknown"
  /\ pixel_format' = "known"
  /\ UNCHANGED <<FRAMEBUFFER_WRITER, SERIAL1, flags>>

\* Mutation: without_interrupts is left out, interrupts stay as they are.
serial_print_m ==
  /\ Goto("main", "run", "serial_lock")
  /\ saved' = interrupts
  /\ UNCHANGED <<locks, interrupts, frame, enabled>>

\* serial::_print: without_interrupts saves the flag and clears it.
serial_print ==
  /\ Goto("main", "run", "serial_lock")
  /\ saved' = interrupts
  /\ interrupts' = "off"
  /\ UNCHANGED <<locks, frame, enabled>>

serial_lock(c) ==
  /\ Goto(c, "serial_lock", "serial_write")
  /\ SERIAL1 = "free"
  /\ SERIAL1' = c
  /\ UNCHANGED <<FRAMEBUFFER_WRITER, pixel_format, flags>>

\* Mutation: without_interrupts turns interrupts on at its end.
Restored_m == "on"

\* The flag at the end of without_interrupts.
Restored == saved

serial_unlock(c) ==
  /\ Goto(c, "serial_write", After(c))
  /\ SERIAL1' = "free"
  /\ interrupts' = IF c \in APs THEN interrupts ELSE Restored
  /\ UNCHANGED <<FRAMEBUFFER_WRITER, pixel_format, saved, frame, enabled>>

-----------------------------------------------------------------------------
\* kernel_main turns interrupts on, after most of the initialisation.
enable ==
  /\ Goto("main", "run", "run")
  /\ enabled = "no"
  /\ enabled' = "yes"
  /\ interrupts' = "on"
  /\ UNCHANGED <<locks, saved, frame>>

\* A gate saves the flag in the stack frame and clears it.
Gate(place) ==
  /\ Goto("handler", "none", place)
  /\ frame' = interrupts
  /\ interrupts' = "off"

\* The timer's and the spurious handler print; the keyboard's prints when it
\* drops a scancode.
interrupt ==
  /\ interrupts = "on"
  /\ \E place \in {"fb_lock", "eoi"} : Gate(place)
  /\ UNCHANGED <<locks, saved, enabled>>

\* An exception of main, whatever the flag: a page fault's handler prints on the
\* screen.
page_fault ==
  /\ pc["main"] = "run"
  /\ Gate("fb_lock")
  /\ UNCHANGED <<locks, saved, enabled>>

\* A breakpoint's handler prints on the serial port, within without_interrupts.
breakpoint ==
  /\ pc["main"] = "run"
  /\ Gate("serial_lock")
  /\ saved' = "off"
  /\ UNCHANGED <<locks, enabled>>

\* A double fault's handler panics.
double_fault ==
  /\ pc["main"] = "run"
  /\ Gate("panic_lock")
  /\ UNCHANGED <<locks, saved, enabled>>

\* The end of interrupt, if the handler sends one, and iretq.
handler_return ==
  /\ Goto("handler", "eoi", "none")
  /\ interrupts' = frame
  /\ UNCHANGED <<locks, saved, frame, enabled>>

\* A failed expect of main: the panic handler prints and then halts for good.
main_panics ==
  /\ Goto("main", "run", "panic_lock")
  /\ UNCHANGED <<locks, flags>>

\* Mutation: writing the message panics again.
panic_m(c) ==
  /\ Goto(c, "panic_write", "panic_lock")
  /\ UNCHANGED <<locks, flags>>

panic(c) ==
  /\ Goto(c, "panic_write", "halt")
  /\ pixel_format = "known"
  /\ FRAMEBUFFER_WRITER' = "free"
  /\ UNCHANGED <<SERIAL1, pixel_format, flags>>

\* ap_startup: an AP, whose interrupts are off, prints once.
ap_startup(ap) ==
  /\ Goto(ap, "off", "serial_lock")
  /\ UNCHANGED <<locks, flags>>

Init ==
  /\ pc = [c \in Contexts |->
             IF c = "main" THEN "run" ELSE IF c = "handler" THEN "none" ELSE "off"]
  /\ FRAMEBUFFER_WRITER = "free"
  /\ SERIAL1 = "free"
  /\ pixel_format \in {"known", "unknown"}
  /\ interrupts = "off"
  /\ saved = "off"
  /\ frame = "off"
  /\ enabled = "no"

\* A step within a print or a panic of a context.
PrintStep(c) ==
  \/ fb_lock(c) \/ fb_unlock(c) \/ write_pixel_panics(c) \/ panic(c)
  \/ serial_lock(c) \/ serial_unlock(c)

Next ==
  \/ print \/ serial_print \/ enable \/ main_panics
  \/ interrupt \/ page_fault \/ breakpoint \/ double_fault \/ handler_return
  \/ \E c \in Contexts : PrintStep(c)
  \/ \E ap \in APs : ap_startup(ap)

\* A context that has its processor goes on.
Fairness ==
  /\ \A c \in Contexts : WF_vars(PrintStep(c))
  /\ WF_vars(handler_return)

Spec == Init /\ [][Next]_vars /\ Fairness

-----------------------------------------------------------------------------
(***************************************************************************)
(* Properties.                                                             *)
(***************************************************************************)

\* The type of every variable, and where each context can be: the APs print on
\* the serial port only, and do not panic.
TypeOK ==
  /\ DOMAIN pc = Contexts
  /\ pc["main"] \in {"run", "fb_lock", "fb_write", "serial_lock", "serial_write",
                     "panic_lock", "panic_write", "halt"}
  /\ pc["handler"] \in {"none", "fb_lock", "fb_write", "serial_lock", "serial_write",
                        "eoi", "panic_lock", "panic_write", "halt"}
  /\ \A ap \in APs : pc[ap] \in {"off", "serial_lock", "serial_write", "loop"}
  /\ FRAMEBUFFER_WRITER \in {"main", "handler", "free"}
  /\ SERIAL1 \in Contexts \cup {"free"}
  /\ pixel_format \in {"known", "unknown"}
  /\ interrupts \in {"on", "off"} /\ saved \in {"on", "off"} /\ frame \in {"on", "off"}
  /\ enabled \in {"yes", "no"}

\* The boot processor takes no interrupt while it holds SERIAL1 or spins for
\* it, so no AP waits for a handler to end (serial::_print).
SerialUninterrupted ==
  pc["main"] \in {"serial_lock", "serial_write"} =>
    interrupts = "off" /\ pc["handler"] = "none"

\* Printing, and an exception that returns, leave the interrupt flag as it was:
\* off before kernel_main turns it on, on after that whenever main is between
\* prints (without_interrupts).
FlagRestored ==
  pc["main"] = "run" /\ pc["handler"] = "none" =>
    (interrupts = "on" <=> enabled = "yes")

\* The serial port is released again, whatever panics: no context is suspended
\* for good while it holds the lock (serial::_print).
SerialReleased == SERIAL1 # "free" ~> SERIAL1 = "free"

\* A panic is reported, and the processor halts, when the panicking context
\* finds the lock free, cannot be interrupted and knows the pixel format.
\* Without one of the three the panic handler may spin for ever (panic).
PanicReported ==
  \A c \in {"main", "handler"} :
    pc[c] = "panic_lock" /\ Runs(c) /\ FRAMEBUFFER_WRITER = "free"
      /\ interrupts = "off" /\ pixel_format = "known" ~> pc[c] = "halt"

(***************************************************************************)
(* The inductive invariant.                                                *)
(***************************************************************************)
SerialPlaces == {"serial_lock", "serial_write"}

\* The flag with which main goes on.
MainFlag == IF pc["handler"] = "none" THEN interrupts ELSE frame

\* Where the flag of main is kept: in the processor, in a handler's stack frame
\* or, while main prints on the serial port, in without_interrupts.
FlagInv ==
  /\ pc["handler"] # "none" => interrupts = "off"
  /\ pc["handler"] \in SerialPlaces => saved = "off"
  /\ IF pc["main"] \in SerialPlaces
       THEN /\ saved = "on" <=> enabled = "yes"
            /\ interrupts = "off" /\ pc["handler"] = "none"
       ELSE MainFlag = "on" <=> enabled = "yes"

ConsoleInv == TypeOK /\ FlagInv

\* The context that writes to a device holds its lock.  The serial port's lock
\* is held only by a writer; the framebuffer's stays taken after write_pixel
\* has panicked.
LockInv ==
  /\ \A c \in Contexts : SERIAL1 = c <=> pc[c] = "serial_write"
  /\ \A c \in Contexts :
       pc[c] \in {"fb_write", "panic_write"} => FRAMEBUFFER_WRITER = c

\* No two contexts write to the serial port at the same time, and no two draw
\* on the screen, a panic's report included (the spin locks of serial::_print,
\* framebuffer::_print and panic).
OneWriter ==
  \A c, d \in Contexts : c # d =>
    /\ ~(pc[c] = "serial_write" /\ pc[d] = "serial_write")
    /\ ~(/\ pc[c] \in {"fb_write", "panic_write"}
         /\ pc[d] \in {"fb_write", "panic_write"})

\* The holder of SERIAL1 is writing and has its processor, so that releasing
\* the port is its next step and nothing can come before it: a processor that
\* spins for the port waits for one that runs (serial::_print).
SerialHolderRuns ==
  SERIAL1 # "free" => SERIAL1 \in Contexts /\ Runs(SERIAL1) /\ pc[SERIAL1] = "serial_write"

-----------------------------------------------------------------------------
(***************************************************************************)
(* A statement of the code that it does not keep.                          *)
(***************************************************************************)

\* add_scancode, which the keyboard handler calls, "must not block": no
\* handler spins for a lock whose holder it has suspended.
HandlerNotBlocked ==
  pc["handler"] = "fb_lock" => FRAMEBUFFER_WRITER # "main"
=============================================================================
