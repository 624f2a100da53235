-------------------------------- MODULE Boot --------------------------------
(***************************************************************************)
(* The way of the boot processor through kernel_main (kernel/src/main.rs   *)
(* and kernel/src/init/), with the interrupts that may arrive on the way   *)
(* (kernel/src/interrupts.rs) and the frames that are taken on the way     *)
(* (FrameAllocator), on every machine: which of the things that the        *)
(* bootloader and the firmware may leave out are there is chosen in Init.  *)
(*                                                                         *)
(* External are the interrupt controllers, which accept, hold and deliver  *)
(* interrupts, and the keyboard controller, which raises an edge for a key *)
(* only when its buffer is empty.  What is printed, and the locks that     *)
(* printing takes, are module Console; init_smp is module SMP.             *)
(***************************************************************************)
EXTENDS FrameAllocator, Sequences, SequencesExt

CONSTANTS
  RESERVED,     \* frames that BitmapFrameAllocator::init does not mark free
  TRAMPOLINE,   \* the frame of TRAMPOLINE_BASE: 8
  HEAP_FRAMES,  \* frames for the heap's first page and its page tables: 4
  MAX_TAKEN     \* bound: frames that any other step of kernel_main takes

ASSUME BootAssumption ==
  /\ RESERVED \subseteq Frames
  /\ TRAMPOLINE \in Frames
  /\ HEAP_FRAMES \in Nat /\ MAX_TAKEN \in Nat

TIMER_VEC == 46
KEYBOARD_VEC == 47
SPURIOUS_VEC == 255
PAGE_FAULT == 14
NoHandler == 0

VARIABLES
  machine,     \* what is there, and who has APIC ID 0
  pc,          \* where kernel_main is; "panicked" for good
  panic,       \* what the kernel panicked with, or "no"
  statics,     \* the statics that are set
  taken,       \* frames taken in this step
  owned,       \* frames of the heap and of its page tables
  trampoline,  \* whether the trampoline is in its frame
  interrupts,  \* the interrupt flag: "on", "off"
  pic,         \* the legacy PICs: "unmasked", "masked", "none"
  lapic,       \* the local APIC: "off", "enabled", "timer"
  writes,      \* writes to the I/O APIC
  redirect,    \* the entry of the keyboard in the I/O APIC
  irr, isr,    \* vectors that wait at the local APIC, and that are in service
  handler,     \* the vector whose handler runs, or NoHandler
  hpc,         \* where it is
  keyboard     \* "empty"; "full": a key to be read; "stuck": its edge is lost

boot_vars == <<machine, pc, panic, statics>>
frame_vars == <<bitmap, taken, owned, trampoline>>
device_vars == <<pic, lapic, writes, redirect, irr, isr, keyboard>>
handler_vars == <<interrupts, handler, hpc>>
vars == <<boot_vars, frame_vars, device_vars, handler_vars>>

-----------------------------------------------------------------------------
(* kernel_main.                                                            *)

\* The steps, in the order in which kernel_main calls them.
Steps ==
  <<"init_gdt_idt", "init_framebuffer", "init_memory", "init_heap", "init_acpi",
    "init_apic", "disable_pic", "enable_local_apic", "init_apic_timer",
    "set_ioapic_redirect", "init_hpet", "enable", "remap_trampoline",
    "load_ap_trampoline", "init_smp", "spawn", "run">>

\* Mutations: interrupts are turned on in init_gdt_idt, as its comment says;
\* the I/O APIC is set up before the local APIC is enabled.
MovedTo(k, step) == InsertAt(SelectSeq(Steps, LAMBDA x : x # step), k, step)

kernel_main_m1 == MovedTo(2, "enable")

kernel_main_m2 == MovedTo(8, "set_ioapic_redirect")

kernel_main == Steps

\* main executes this step: no handler has suspended it.
At(step) == pc = step /\ handler = NoHandler

Done ==
  /\ \E k \in 1 .. Len(kernel_main) - 1 : kernel_main[k] = pc /\ pc' = kernel_main[k + 1]
  /\ taken' = 0
  /\ UNCHANGED panic

Panic(message) == pc' = "panicked" /\ panic' = message /\ UNCHANGED taken

\* get_offset waits until PHYSICAL_MEMORY_OFFSET is set.
get_offset == "PHYSICAL_MEMORY_OFFSET" \in statics

Set(name) == statics' = statics \cup {name}

\* The GDT, which SMP models, and the IDT are loaded.
init_gdt_idt ==
  /\ At("init_gdt_idt")
  /\ Set("IDT") /\ Done
  /\ UNCHANGED <<machine, bitmap, owned, trampoline, device_vars, handler_vars>>

init_framebuffer ==
  /\ At("init_framebuffer")
  /\ IF machine.framebuffer
       THEN Set("FRAMEBUFFER_WRITER") /\ Done
       ELSE Panic("No framebuffer available in BootInfo") /\ UNCHANGED statics
  /\ UNCHANGED <<machine, bitmap, owned, trampoline, device_vars, handler_vars>>

\* init_memory up to the heap: the offset, then the bitmap, for which a region
\* may be missing, then PAGE_ALLOCATOR.
init_memory ==
  /\ At("init_memory")
  /\ \/ ~machine.offset /\ UNCHANGED <<statics, bitmap>>
        /\ Panic("Physical memory offset not provided by bootloader")
     \/ machine.offset /\ ~machine.region /\ UNCHANGED bitmap
        /\ Set("PHYSICAL_MEMORY_OFFSET")
        /\ Panic("Could not find a suitable region to place the bitmap!")
     \/ machine.offset /\ machine.region /\ bitmap' = RESERVED /\ Done
        /\ statics' = statics \cup {"PHYSICAL_MEMORY_OFFSET", "PAGE_ALLOCATOR"}
  /\ UNCHANGED <<machine, owned, trampoline, device_vars, handler_vars>>

\* The steps that take frames: the heap's first page, the heap when ACPI and
\* the executor allocate, and the page tables for the trampoline's page.
TakesFrames == {"init_heap", "init_acpi", "remap_trampoline", "spawn"}

Most == IF pc = "init_heap" THEN HEAP_FRAMES ELSE MAX_TAKEN

take_frame ==
  /\ pc \in TakesFrames /\ handler = NoHandler
  /\ "PAGE_ALLOCATOR" \in statics
  /\ pc = "init_acpi" => machine.rsdp
  /\ taken < Most
  /\ \E f \in Frames : allocate_frame(f) /\ owned' = owned \cup {f}
  /\ taken' = taken + 1
  /\ UNCHANGED <<boot_vars, trampoline, device_vars, handler_vars>>

\* Without a frame the first page is left out, and the other steps panic.
no_frame ==
  /\ pc \in TakesFrames \ {"init_heap"} /\ handler = NoHandler
  /\ NoFreeFrame
  /\ pc = "init_acpi" => machine.rsdp
  /\ Panic(IF pc = "remap_trampoline" THEN "mapping trampoline failed"
           ELSE "memory allocation failed")
  /\ UNCHANGED <<machine, statics, bitmap, owned, trampoline, device_vars, handler_vars>>

init_heap ==
  /\ At("init_heap")
  /\ taken = HEAP_FRAMES \/ NoFreeFrame
  /\ Done
  /\ UNCHANGED <<machine, statics, bitmap, owned, trampoline, device_vars, handler_vars>>

\* The tables are read through map_physical_region.
init_acpi ==
  /\ At("init_acpi")
  /\ \/ ~machine.rsdp /\ Panic("RSDP address not provided by bootloader")
     \/ machine.rsdp /\ get_offset /\ ~machine.tables /\ Panic("Failed to parse ACPI tables")
     \/ machine.rsdp /\ get_offset /\ machine.tables /\ Done
  /\ UNCHANGED <<machine, statics, bitmap, owned, trampoline, device_vars, handler_vars>>

\* init_apic: the local APIC is mapped.
init_apic ==
  /\ At("init_apic")
  /\ \/ ~machine.apic /\ Panic("Non-APIC model!") /\ UNCHANGED statics
     \/ machine.apic /\ get_offset /\ Set("APIC_BASE") /\ Done
  /\ UNCHANGED <<machine, bitmap, owned, trampoline, device_vars, handler_vars>>

\* The legacy PICs, which the tables tell of, are masked.
disable_pic ==
  /\ At("disable_pic") /\ Done
  /\ pic' = IF pic = "none" THEN "none" ELSE "masked"
  /\ UNCHANGED <<machine, statics, bitmap, owned, trampoline, handler_vars,
                 lapic, writes, redirect, irr, isr, keyboard>>

enable_local_apic ==
  /\ At("enable_local_apic") /\ Done
  /\ lapic' = "enabled"
  /\ UNCHANGED <<machine, statics, bitmap, owned, trampoline, handler_vars,
                 pic, writes, redirect, irr, isr, keyboard>>

init_apic_timer ==
  /\ At("init_apic_timer") /\ Done
  /\ lapic' = "timer"
  /\ UNCHANGED <<machine, statics, bitmap, owned, trampoline, handler_vars,
                 pic, writes, redirect, irr, isr, keyboard>>

\* set_ioapic_redirect, once for each I/O APIC but always for the same entry:
\* the low word unmasks it, the high word names APIC ID 0 as the destination.
ioapic_write ==
  /\ At("set_ioapic_redirect") /\ get_offset
  /\ writes < 2 * machine.io_apics
  /\ writes' = writes + 1
  /\ redirect' = IF writes % 2 = 0 THEN [redirect EXCEPT !.masked = FALSE]
                 ELSE [redirect EXCEPT !.dest = machine.apic_id_0]
  /\ UNCHANGED <<boot_vars, frame_vars, handler_vars, pic, lapic, irr, isr, keyboard>>

set_ioapic_redirect ==
  /\ At("set_ioapic_redirect")
  /\ writes = 2 * machine.io_apics
  /\ Done
  /\ UNCHANGED <<machine, statics, bitmap, owned, trampoline, device_vars, handler_vars>>

init_hpet ==
  /\ At("init_hpet") /\ Done
  /\ IF machine.hpet THEN get_offset /\ Set("HPET_BASE") ELSE UNCHANGED statics
  /\ UNCHANGED <<machine, bitmap, owned, trampoline, device_vars, handler_vars>>

enable ==
  /\ At("enable") /\ Done
  /\ interrupts' = "on"
  /\ UNCHANGED <<machine, statics, bitmap, owned, trampoline, device_vars, handler, hpc>>

\* The page is unmapped, unless the bootloader has it in a huge page, and mapped
\* again.
remap_trampoline_uncacheable ==
  /\ At("remap_trampoline")
  /\ \/ "PAGE_ALLOCATOR" \notin statics /\ Panic("PageAlloc uninit")
     \/ "PAGE_ALLOCATOR" \in statics /\ taken = 0 /\ Panic("failed to unmap trampoline page")
     \/ "PAGE_ALLOCATOR" \in statics /\ Done
  /\ UNCHANGED <<machine, statics, bitmap, owned, trampoline, device_vars, handler_vars>>

load_ap_trampoline ==
  /\ At("load_ap_trampoline") /\ get_offset /\ Done
  /\ trampoline' = "loaded"
  /\ UNCHANGED <<machine, statics, bitmap, owned, device_vars, handler_vars>>

\* init_smp reads the HPET when an AP waits: through a null pointer if there
\* is no HPET, which page_fault models.
init_smp ==
  /\ At("init_smp")
  /\ \/ machine.processors = "unknown" /\ Done
     \/ machine.processors # "unknown" /\ "APIC_BASE" \notin statics
        /\ Panic("BSP APIC uninitalized!")
     \/ machine.processors # "unknown" /\ "APIC_BASE" \in statics
        /\ (machine.processors = "waiting" => "HPET_BASE" \in statics)
        /\ Done
  /\ UNCHANGED <<machine, statics, bitmap, owned, trampoline, device_vars, handler_vars>>

\* The executor and its tasks are made; run is module KeyboardTask.
spawn ==
  /\ At("spawn") /\ Done
  /\ UNCHANGED <<machine, statics, bitmap, owned, trampoline, device_vars, handler_vars>>

MainStep ==
  \/ init_gdt_idt \/ init_framebuffer \/ init_memory \/ init_heap \/ take_frame
  \/ no_frame \/ init_acpi \/ init_apic \/ disable_pic \/ enable_local_apic
  \/ init_apic_timer \/ ioapic_write \/ set_ioapic_redirect \/ init_hpet \/ enable
  \/ remap_trampoline_uncacheable \/ load_ap_trampoline \/ init_smp \/ spawn

-----------------------------------------------------------------------------
(* Interrupts.                                                             *)

\* The timer fires, once it is programmed.
timer_fires ==
  /\ lapic = "timer"
  /\ irr' = irr \cup {TIMER_VEC}
  /\ UNCHANGED <<boot_vars, frame_vars, handler_vars, pic, lapic, writes, redirect,
                 isr, keyboard>>

\* A key fills the buffer of the keyboard controller, and its edge reaches the
\* boot processor, or is lost.
key_pressed ==
  /\ keyboard = "empty"
  /\ IF lapic # "off" /\ ~redirect.masked /\ redirect.dest = "bsp"
       THEN keyboard' = "full" /\ irr' = irr \cup {KEYBOARD_VEC}
       ELSE keyboard' = "stuck" /\ UNCHANGED irr
  /\ UNCHANGED <<boot_vars, frame_vars, handler_vars, pic, lapic, writes, redirect, isr>>

\* The periodic timer raises the first interrupt of the PIC, which the firmware
\* maps to vector 8, that of the double fault.  With interrupts off it waits,
\* and leaves no more trace than the tick that comes after it.
pic_interrupt ==
  /\ pic = "unmasked"
  /\ IF interrupts = "on"
       THEN /\ interrupts' = "off"
            /\ Panic("EXCEPTION: DOUBLE FAULT")
            /\ UNCHANGED <<machine, statics, bitmap, owned, trampoline, device_vars, handler, hpc>>
       ELSE UNCHANGED vars

\* Mutation: the gate does not clear the interrupt flag.
Enter_m(v) == handler' = v /\ hpc' = "body" /\ UNCHANGED interrupts

\* A gate of the IDT, all of which clear the interrupt flag.
Enter(v) == handler' = v /\ hpc' = "body" /\ interrupts' = "off"

\* The local APIC delivers the highest vector that waits, unless one of its
\* class or above is in service.
deliver(v) ==
  /\ interrupts = "on" /\ "IDT" \in statics
  /\ v \in irr /\ \A w \in irr : w <= v
  /\ \A w \in isr : v \div 16 > w \div 16
  /\ irr' = irr \ {v}
  /\ isr' = isr \cup {v}
  /\ Enter(v)
  /\ UNCHANGED <<boot_vars, frame_vars, pic, lapic, writes, redirect, keyboard>>

\* A spurious interrupt is not in service.
deliver_spurious ==
  /\ interrupts = "on" /\ "IDT" \in statics
  /\ lapic # "off"
  /\ Enter(SPURIOUS_VEC)
  /\ UNCHANGED <<boot_vars, frame_vars, device_vars>>

\* init_smp reads the HPET's registers at address 0.
page_fault ==
  /\ At("init_smp")
  /\ machine.processors = "waiting" /\ {"APIC_BASE", "HPET_BASE"} \cap statics = {"APIC_BASE"}
  /\ Enter(PAGE_FAULT)
  /\ UNCHANGED <<boot_vars, frame_vars, device_vars>>

\* Mutation: port 0x60 is not read.
handler_body_m ==
  /\ hpc = "body"
  /\ hpc' = "eoi"
  /\ UNCHANGED <<boot_vars, frame_vars, device_vars, handler, interrupts>>

\* What a handler does first: the keyboard's reads port 0x60, the others print.
handler_body ==
  /\ hpc = "body"
  /\ hpc' = "eoi"
  /\ keyboard' = IF handler = KEYBOARD_VEC THEN "empty" ELSE keyboard
  /\ UNCHANGED <<boot_vars, frame_vars, pic, lapic, writes, redirect, irr, isr,
                 handler, interrupts>>

\* Every handler, also those of a spurious interrupt and of an exception, ends
\* the highest interrupt in service, and returns.
handler_eoi ==
  /\ hpc = "eoi"
  /\ IF "APIC_BASE" \in statics
       THEN /\ isr' = {w \in isr : \E x \in isr : x > w}
            /\ hpc' = "none" /\ handler' = NoHandler /\ interrupts' = "on"
            /\ UNCHANGED <<pc, panic, taken>>
       ELSE /\ hpc' = "panicked" /\ Panic("[ERROR] APIC_BASE unset!")
            /\ UNCHANGED <<isr, handler, interrupts>>
  /\ UNCHANGED <<machine, statics, bitmap, owned, trampoline, pic, lapic, writes,
                 redirect, irr, keyboard>>

\* The end of the panic handler, and of kernel_main.
hlt_loop == pc \in {"panicked", "run"} /\ UNCHANGED vars

Handler == handler_body \/ handler_eoi

Machines ==
  [framebuffer : BOOLEAN, offset : BOOLEAN, region : BOOLEAN, rsdp : BOOLEAN,
   tables : BOOLEAN, apic : BOOLEAN, hpet : BOOLEAN, io_apics : 0 .. 2,
   apic_id_0 : {"bsp", "other"}, processors : {"unknown", "waiting", "none"}]

Init ==
  /\ machine \in Machines
  /\ pc = "init_gdt_idt" /\ panic = "no"
  /\ statics = {}
  /\ bitmap = Frames /\ taken = 0 /\ owned = {} /\ trampoline = "absent"
  /\ interrupts = "off" /\ handler = NoHandler /\ hpc = "none"
  /\ pic \in {"unmasked", "none"} /\ lapic = "off"
  /\ writes = 0 /\ redirect \in [masked : {TRUE}, dest : {"bsp", "other"}]
  /\ irr = {} /\ isr = {}
  /\ keyboard = "empty"

Next ==
  \/ MainStep \/ Handler
  \/ timer_fires \/ key_pressed \/ pic_interrupt
  \/ (\E v \in irr : deliver(v)) \/ deliver_spurious \/ page_fault
  \/ hlt_loop

Spec == Init /\ [][Next]_vars

-----------------------------------------------------------------------------
(***************************************************************************)
(* Properties.                                                             *)
(***************************************************************************)

\* The type of every variable.
TypeOK ==
  /\ machine \in Machines
  /\ pc \in ToSet(kernel_main) \cup {"panicked"}
  /\ pc = "panicked" <=> panic # "no"
  /\ statics \subseteq {"IDT", "FRAMEBUFFER_WRITER", "PHYSICAL_MEMORY_OFFSET",
                        "PAGE_ALLOCATOR", "APIC_BASE", "HPET_BASE"}
  /\ bitmap \subseteq Frames /\ owned \subseteq bitmap
  /\ taken \in 0 .. Max({HEAP_FRAMES, MAX_TAKEN})
  /\ trampoline \in {"absent", "loaded"}
  /\ interrupts \in {"on", "off"}
  /\ pic \in {"unmasked", "masked", "none"} /\ lapic \in {"off", "enabled", "timer"}
  /\ writes \in 0 .. 2 * machine.io_apics
  /\ redirect \in [masked : BOOLEAN, dest : {"bsp", "other"}]
  /\ irr \subseteq {TIMER_VEC, KEYBOARD_VEC} /\ isr \subseteq {TIMER_VEC, KEYBOARD_VEC}
  /\ handler \in {NoHandler, TIMER_VEC, KEYBOARD_VEC, SPURIOUS_VEC, PAGE_FAULT}
  /\ hpc \in {"none", "body", "eoi", "panicked"}
  /\ keyboard \in {"empty", "full", "stuck"}

\* What a step uses is there: none of the expects about the order of the boot
\* fails, not in a handler either, and get_offset never waits, for it would
\* wait for ever (kernel_main, the handlers, get_offset).
UsesWhatIsSet ==
  /\ panic \notin {"[ERROR] APIC_BASE unset!", "BSP APIC uninitalized!", "PageAlloc uninit"}
  /\ pc \in {"init_acpi", "init_apic", "set_ioapic_redirect", "init_hpet",
             "load_ap_trampoline"} => get_offset

\* No interrupt of the legacy PICs is taken for a double fault: they are masked
\* before interrupts are turned on (disable_pic in init_apic).
NoStrayInterrupt == panic # "EXCEPTION: DOUBLE FAULT"

\* A panic reaches the screen, unless it is that there is none: the writer is
\* set up before anything else can fail (init_framebuffer in kernel_main).
PanicsShown ==
  pc = "panicked" /\ "FRAMEBUFFER_WRITER" \notin statics => ~machine.framebuffer

\* The null HPET_BASE is read only on a machine without HPET that has an AP to
\* start.  The page fault handler then returns to the read, for ever
\* (kernel_main, init_smp, apic_page_fault_handler).
FaultOnlyWithoutHpet ==
  handler = PAGE_FAULT => ~machine.hpet /\ machine.processors = "waiting"

\* The order of the calls in kernel_main is right, wherever an interrupt comes:
\* what a step or a handler uses has been set, the PICs are masked in time, a
\* panic can be shown, and only the missing HPET is ever missed (kernel_main).
BootInOrder == UsesWhatIsSet /\ NoStrayInterrupt /\ PanicsShown /\ FaultOnlyWithoutHpet

\* What a handler's end of interrupt ends is its own interrupt: the spurious
\* and the page fault handler, which have none in service, end no other, since
\* handlers do not nest (the handlers, write_apic_reg).
EoiEndsOwn == \A v \in isr : handler = v

\* A key in the controller's buffer whose edge was accepted is read: its
\* interrupt waits or its handler is about to read it.  Otherwise the keyboard
\* would be silent from then on (apic_keyboard_interrupt_handler).
KeyIsRead ==
  keyboard = "full" => KEYBOARD_VEC \in irr \/ (handler = KEYBOARD_VEC /\ hpc = "body")

\* Once the entry of the I/O APIC is written, no edge of the keyboard is lost,
\* not while it is written again for another I/O APIC either (init_apic,
\* set_ioapic_redirect).  Before that one may be, and nothing reads the buffer.
KeysAccepted ==
  [][keyboard # "stuck" /\ keyboard' = "stuck" =>
       writes < 2 \/ machine.apic_id_0 # "bsp"]_vars

-----------------------------------------------------------------------------
(***************************************************************************)
(* The inductive invariant.                                                *)
(***************************************************************************)

\* kernel_main has begun step k, and has not panicked.
From(k) == \E j \in k .. Len(kernel_main) : pc = kernel_main[j]

\* What each step has left behind for those after it.
OrderInv ==
  /\ pc = "panicked" \/ From(1)
  /\ From(3) => "FRAMEBUFFER_WRITER" \in statics
  /\ From(4) => {"PHYSICAL_MEMORY_OFFSET", "PAGE_ALLOCATOR"} \subseteq statics
  /\ From(7) => "APIC_BASE" \in statics
  /\ From(8) => pic # "unmasked"
  /\ From(9) => lapic # "off"
  /\ From(12) /\ machine.hpet => "HPET_BASE" \in statics
  /\ ~From(13) /\ pc # "panicked" => interrupts = "off" /\ handler = NoHandler

\* A handler runs with interrupts off and is the only one in service.
HandlerInv ==
  /\ interrupts = "on" => handler = NoHandler /\ pic # "unmasked" /\ "APIC_BASE" \in statics
  /\ handler # NoHandler =>
       interrupts = "off" /\ pic # "unmasked" /\ "APIC_BASE" \in statics
  /\ handler = NoHandler <=> hpc = "none"
  /\ isr \subseteq {handler}
  /\ irr \cup isr \subseteq {TIMER_VEC, KEYBOARD_VEC}

\* The entry of the keyboard after the first two writes stays as it is.
RedirectInv ==
  /\ writes \in Nat
  /\ redirect \in [masked : BOOLEAN, dest : {"bsp", "other"}]
  /\ writes >= 1 => lapic # "off" /\ ~redirect.masked
  /\ writes >= 2 => redirect.dest = machine.apic_id_0

BootInv ==
  /\ machine \in Machines
  /\ OrderInv /\ HandlerInv /\ RedirectInv
  /\ UsesWhatIsSet /\ NoStrayInterrupt /\ PanicsShown /\ FaultOnlyWithoutHpet /\ KeyIsRead

-----------------------------------------------------------------------------
(***************************************************************************)
(* A statement of the code that it does not keep.                          *)
(***************************************************************************)

\* A frame that init marks free is "truly free" (the comment in
\* BitmapFrameAllocator::init): the frame into which the trampoline is copied
\* is no frame of the heap or of its page tables.
TrampolineFrameIsFree == trampoline = "loaded" => TRAMPOLINE \notin owned
=============================================================================
