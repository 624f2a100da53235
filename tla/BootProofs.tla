----------------------------- MODULE BootProofs -----------------------------
(***************************************************************************)
(* Theorems about Boot for every number of frames, every set of reserved   *)
(* frames and every number of frames that the steps take.                  *)
(***************************************************************************)
EXTENDS Boot, TLAPS

\* The steps by their number.
LEMMA StepNumbers ==
  /\ Len(kernel_main) = 17
  /\ kernel_main[1] = "init_gdt_idt"
  /\ kernel_main[2] = "init_framebuffer"
  /\ kernel_main[3] = "init_memory"
  /\ kernel_main[4] = "init_heap"
  /\ kernel_main[5] = "init_acpi"
  /\ kernel_main[6] = "init_apic"
  /\ kernel_main[7] = "disable_pic"
  /\ kernel_main[8] = "enable_local_apic"
  /\ kernel_main[9] = "init_apic_timer"
  /\ kernel_main[10] = "set_ioapic_redirect"
  /\ kernel_main[11] = "init_hpet"
  /\ kernel_main[12] = "enable"
  /\ kernel_main[13] = "remap_trampoline"
  /\ kernel_main[14] = "load_ap_trampoline"
  /\ kernel_main[15] = "init_smp"
  /\ kernel_main[16] = "spawn"
  /\ kernel_main[17] = "run"
BY DEF kernel_main, Steps

\* The steps from a numbered one on by their names.
From13 == {"remap_trampoline", "load_ap_trampoline", "init_smp", "spawn", "run"}
From12 == {"enable"} \cup From13
From9 == {"init_apic_timer", "set_ioapic_redirect", "init_hpet"} \cup From12
From8 == {"enable_local_apic"} \cup From9
From7 == {"disable_pic"} \cup From8
From4 == {"init_heap", "init_acpi", "init_apic"} \cup From7
From3 == {"init_memory"} \cup From4
From1 == {"init_gdt_idt", "init_framebuffer"} \cup From3

\* A place is one of the steps from a numbered one on if it is one of the names.
LEMMA StepsFrom ==
  ASSUME NEW p
  PROVE  /\ (\E j \in 1 .. Len(kernel_main) : p = kernel_main[j]) <=> p \in From1
         /\ (\E j \in 3 .. Len(kernel_main) : p = kernel_main[j]) <=> p \in From3
         /\ (\E j \in 4 .. Len(kernel_main) : p = kernel_main[j]) <=> p \in From4
         /\ (\E j \in 7 .. Len(kernel_main) : p = kernel_main[j]) <=> p \in From7
         /\ (\E j \in 8 .. Len(kernel_main) : p = kernel_main[j]) <=> p \in From8
         /\ (\E j \in 9 .. Len(kernel_main) : p = kernel_main[j]) <=> p \in From9
         /\ (\E j \in 12 .. Len(kernel_main) : p = kernel_main[j]) <=> p \in From12
         /\ (\E j \in 13 .. Len(kernel_main) : p = kernel_main[j]) <=> p \in From13
BY StepNumbers DEF From1, From3, From4, From7, From8, From9, From12, From13

\* Where kernel_main is, before and after a step.
LEMMA Places ==
  /\ (From(1) <=> pc \in From1) /\ (From(1)' <=> pc' \in From1)
  /\ (From(3) <=> pc \in From3) /\ (From(3)' <=> pc' \in From3)
  /\ (From(4) <=> pc \in From4) /\ (From(4)' <=> pc' \in From4)
  /\ (From(7) <=> pc \in From7) /\ (From(7)' <=> pc' \in From7)
  /\ (From(8) <=> pc \in From8) /\ (From(8)' <=> pc' \in From8)
  /\ (From(9) <=> pc \in From9) /\ (From(9)' <=> pc' \in From9)
  /\ (From(12) <=> pc \in From12) /\ (From(12)' <=> pc' \in From12)
  /\ (From(13) <=> pc \in From13) /\ (From(13)' <=> pc' \in From13)
<1>1. (From(1) <=> pc \in From1) /\ (From(1)' <=> pc' \in From1)
  BY StepsFrom DEF From
<1>2. (From(3) <=> pc \in From3) /\ (From(3)' <=> pc' \in From3)
  BY StepsFrom DEF From
<1>3. (From(4) <=> pc \in From4) /\ (From(4)' <=> pc' \in From4)
  BY StepsFrom DEF From
<1>4. (From(7) <=> pc \in From7) /\ (From(7)' <=> pc' \in From7)
  BY StepsFrom DEF From
<1>5. (From(8) <=> pc \in From8) /\ (From(8)' <=> pc' \in From8)
  BY StepsFrom DEF From
<1>6. (From(9) <=> pc \in From9) /\ (From(9)' <=> pc' \in From9)
  BY StepsFrom DEF From
<1>7. (From(12) <=> pc \in From12) /\ (From(12)' <=> pc' \in From12)
  BY StepsFrom DEF From
<1>8. (From(13) <=> pc \in From13) /\ (From(13)' <=> pc' \in From13)
  BY StepsFrom DEF From
<1>9. QED BY <1>1, <1>2, <1>3, <1>4, <1>5, <1>6, <1>7, <1>8

\* The step that follows a step.
LEMMA NextStep ==
  ASSUME Done
  PROVE  /\ pc = "init_gdt_idt" => pc' = "init_framebuffer"
         /\ pc = "init_framebuffer" => pc' = "init_memory"
         /\ pc = "init_memory" => pc' = "init_heap"
         /\ pc = "init_heap" => pc' = "init_acpi"
         /\ pc = "init_acpi" => pc' = "init_apic"
         /\ pc = "init_apic" => pc' = "disable_pic"
         /\ pc = "disable_pic" => pc' = "enable_local_apic"
         /\ pc = "enable_local_apic" => pc' = "init_apic_timer"
         /\ pc = "init_apic_timer" => pc' = "set_ioapic_redirect"
         /\ pc = "set_ioapic_redirect" => pc' = "init_hpet"
         /\ pc = "init_hpet" => pc' = "enable"
         /\ pc = "enable" => pc' = "remap_trampoline"
         /\ pc = "remap_trampoline" => pc' = "load_ap_trampoline"
         /\ pc = "load_ap_trampoline" => pc' = "init_smp"
         /\ pc = "init_smp" => pc' = "spawn"
         /\ pc = "spawn" => pc' = "run"
         /\ pc # "panicked" /\ pc' # "panicked" /\ panic' = panic
BY StepNumbers DEF Done

\* BootInv holds at the start.
LEMMA InitBootInv == Init => BootInv
<1> SUFFICES ASSUME Init PROVE BootInv
  OBVIOUS
<1> USE DEF From1, From3, From4, From7, From8, From9, From12, From13
<1>1. pc = "init_gdt_idt"
  BY DEF Init
<1>2. OrderInv
  BY <1>1, Places DEF OrderInv, Init
<1>3. HandlerInv
  BY DEF HandlerInv, Init
<1>4. RedirectInv
  <2>1. redirect \in [masked : BOOLEAN, dest : {"bsp", "other"}]
    <3>1. redirect \in [masked : {TRUE}, dest : {"bsp", "other"}]
      BY DEF Init
    <3>2. QED BY <3>1
  <2>2. writes = 0
    BY DEF Init
  <2>3. QED BY <2>1, <2>2 DEF RedirectInv
<1>5. UsesWhatIsSet /\ NoStrayInterrupt /\ PanicsShown /\ FaultOnlyWithoutHpet /\ KeyIsRead
  BY <1>1 DEF UsesWhatIsSet, NoStrayInterrupt, PanicsShown, FaultOnlyWithoutHpet, KeyIsRead,
     Init, NoHandler, PAGE_FAULT
<1>6. QED BY <1>2, <1>3, <1>4, <1>5 DEF BootInv, Init

\* A step of kernel_main leaves the handlers alone.
LEMMA MainKeepsInv == BootInv /\ MainStep => BootInv'
<1> SUFFICES ASSUME BootInv, MainStep PROVE BootInv'
  OBVIOUS
<1> USE DEF BootInv, At, From1, From3, From4, From7, From8, From9, From12, From13
<1>1. OrderInv'
  <2>1. CASE init_gdt_idt \/ init_framebuffer
    BY <2>1, NextStep, Places DEF OrderInv, init_gdt_idt, init_framebuffer, Set, Panic,
       device_vars, handler_vars
  <2>11. CASE init_memory
    BY <2>11, NextStep, Places DEF OrderInv, init_memory, Set, Panic, device_vars, handler_vars
  <2>9. CASE init_heap \/ init_acpi
    BY <2>9, NextStep, Places DEF OrderInv, init_heap, init_acpi, Set, Panic,
       device_vars, handler_vars
  <2>2. CASE take_frame \/ ioapic_write
    BY <2>2 DEF OrderInv, From, take_frame, ioapic_write, boot_vars, device_vars, handler_vars
  <2>7. CASE no_frame
    <3>1. pc' = "panicked"
      BY <2>7 DEF no_frame, Panic
    <3>2. QED BY <3>1, Places DEF OrderInv
  <2>3. CASE init_apic \/ disable_pic
    BY <2>3, NextStep, Places DEF OrderInv, init_apic, disable_pic, Set, Panic,
       device_vars, handler_vars
  <2>10. CASE enable_local_apic \/ init_apic_timer
    BY <2>10, NextStep, Places DEF OrderInv, enable_local_apic, init_apic_timer,
       device_vars, handler_vars
  <2>4. CASE set_ioapic_redirect \/ enable
    BY <2>4, NextStep, Places DEF OrderInv, set_ioapic_redirect, enable,
       device_vars, handler_vars
  <2>8. CASE init_hpet
    <3>1. /\ pc = "init_hpet" /\ pc' = "enable"
          /\ UNCHANGED <<machine, pic, lapic, interrupts, handler>>
      BY <2>8, NextStep DEF init_hpet, device_vars, handler_vars
    <3>2. statics \subseteq statics' /\ (machine.hpet => "HPET_BASE" \in statics')
      BY <2>8 DEF init_hpet, Set
    <3>3. /\ From(3) /\ From(4) /\ From(7) /\ From(8) /\ From(9) /\ ~From(13)
          /\ From(1)' /\ ~From(13)'
      BY <3>1, Places
    <3>4. QED BY <3>1, <3>2, <3>3 DEF OrderInv
  <2>5. CASE remap_trampoline_uncacheable \/ load_ap_trampoline \/ init_smp \/ spawn
    BY <2>5, NextStep, Places DEF OrderInv, remap_trampoline_uncacheable,
       load_ap_trampoline, init_smp, spawn, Panic, device_vars, handler_vars
  <2>6. QED BY <2>1, <2>2, <2>3, <2>4, <2>5, <2>7, <2>8, <2>9, <2>10, <2>11 DEF MainStep
<1>2. HandlerInv'
  <2>1. CASE enable
    BY <2>1, Places DEF OrderInv, HandlerInv, enable, device_vars
  <2>2. CASE disable_pic
    BY <2>2 DEF HandlerInv, disable_pic, handler_vars
  <2>3. ASSUME ~enable, ~disable_pic
        PROVE  UNCHANGED <<pic, irr, isr, handler_vars>> /\ statics \subseteq statics'
    BY <2>3 DEF MainStep, init_gdt_idt, init_framebuffer, init_memory, take_frame, no_frame,
       init_heap, init_acpi, init_apic, enable_local_apic, init_apic_timer, ioapic_write,
       set_ioapic_redirect, init_hpet, remap_trampoline_uncacheable, load_ap_trampoline,
       init_smp, spawn, Set, boot_vars, device_vars, handler_vars
  <2>4. QED BY <2>1, <2>2, <2>3 DEF HandlerInv, handler_vars
<1>3. RedirectInv'
  <2>1. CASE ioapic_write
    <3>1. writes \in Nat /\ writes' = writes + 1 /\ machine' = machine /\ lapic' = lapic
      BY <2>1 DEF RedirectInv, ioapic_write, boot_vars
    <3>2. lapic # "off"
      BY <2>1, Places DEF OrderInv, ioapic_write
    <3>3. machine.apic_id_0 \in {"bsp", "other"}
      BY DEF Machines
    <3>4. CASE writes % 2 = 0
      <4>1. redirect' = [redirect EXCEPT !.masked = FALSE]
        BY <2>1, <3>4 DEF ioapic_write
      <4>2. writes # 1
        BY <3>4
      <4>3. /\ redirect' \in [masked : BOOLEAN, dest : {"bsp", "other"}]
            /\ ~redirect'.masked /\ redirect'.dest = redirect.dest
        BY <4>1 DEF RedirectInv
      <4>4. writes + 1 >= 2 => writes >= 2
        BY <3>1, <4>2
      <4>5. QED BY <3>1, <3>2, <4>3, <4>4 DEF RedirectInv
    <3>5. CASE writes % 2 # 0
      <4>1. redirect' = [redirect EXCEPT !.dest = machine.apic_id_0]
        BY <2>1, <3>5 DEF ioapic_write
      <4>2. writes >= 1
        BY <3>1, <3>5
      <4>3. QED BY <3>1, <3>2, <3>3, <4>1, <4>2 DEF RedirectInv
    <3>6. QED BY <3>4, <3>5
  <2>2. ASSUME ~ioapic_write
        PROVE  UNCHANGED <<machine, writes, redirect>> /\ lapic' \in {lapic, "enabled", "timer"}
    BY <2>2 DEF MainStep, init_gdt_idt, init_framebuffer, init_memory, take_frame, no_frame,
       init_heap, init_acpi, init_apic, disable_pic, enable_local_apic, init_apic_timer,
       set_ioapic_redirect, init_hpet, enable, remap_trampoline_uncacheable,
       load_ap_trampoline, init_smp, spawn, boot_vars, device_vars
  <2>3. QED BY <2>1, <2>2 DEF RedirectInv
<1>4. UNCHANGED <<machine, irr, handler, hpc, keyboard>>
  BY DEF MainStep, init_gdt_idt, init_framebuffer, init_memory, take_frame, no_frame,
     init_heap, init_acpi, init_apic, disable_pic, enable_local_apic, init_apic_timer,
     ioapic_write, set_ioapic_redirect, init_hpet, enable, remap_trampoline_uncacheable,
     load_ap_trampoline, init_smp, spawn, boot_vars, device_vars, handler_vars
<1>5. FaultOnlyWithoutHpet' /\ KeyIsRead'
  BY <1>4 DEF FaultOnlyWithoutHpet, KeyIsRead
<1>6. /\ panic' \notin {"[ERROR] APIC_BASE unset!", "BSP APIC uninitalized!", "PageAlloc uninit",
                        "EXCEPTION: DOUBLE FAULT"}
      /\ pc' = "panicked" => "FRAMEBUFFER_WRITER" \in statics' \/ ~machine.framebuffer
  <2>1. CASE init_framebuffer \/ init_memory
    BY <2>1, NextStep, Places DEF OrderInv, UsesWhatIsSet, NoStrayInterrupt,
       init_framebuffer, init_memory, Panic, Set
  <2>6. CASE init_acpi \/ init_apic
    BY <2>6, NextStep, Places DEF OrderInv, UsesWhatIsSet, NoStrayInterrupt,
       init_acpi, init_apic, Panic, Set
  <2>7. CASE no_frame
    BY <2>7, Places DEF OrderInv, no_frame, TakesFrames, Panic
  <2>2. CASE remap_trampoline_uncacheable \/ init_smp
    BY <2>2, NextStep, Places DEF OrderInv, UsesWhatIsSet, NoStrayInterrupt,
       remap_trampoline_uncacheable, init_smp, Panic
  <2>3. CASE take_frame \/ ioapic_write
    BY <2>3 DEF UsesWhatIsSet, NoStrayInterrupt, PanicsShown, take_frame, ioapic_write,
       boot_vars
  <2>4. CASE \/ init_gdt_idt \/ init_heap \/ disable_pic \/ enable_local_apic
             \/ init_apic_timer \/ set_ioapic_redirect \/ init_hpet \/ enable
             \/ load_ap_trampoline \/ spawn
    BY <2>4, NextStep DEF UsesWhatIsSet, NoStrayInterrupt, init_gdt_idt, init_heap,
       disable_pic, enable_local_apic, init_apic_timer, set_ioapic_redirect, init_hpet,
       enable, load_ap_trampoline, spawn
  <2>5. QED BY <2>1, <2>2, <2>3, <2>4, <2>6, <2>7 DEF MainStep
<1>7. UsesWhatIsSet' /\ NoStrayInterrupt' /\ PanicsShown'
  BY <1>1, <1>4, <1>6, Places DEF OrderInv, UsesWhatIsSet, NoStrayInterrupt,
     PanicsShown, get_offset
<1>8. QED BY <1>1, <1>2, <1>3, <1>4, <1>5, <1>7

\* A step of the devices or of a handler leaves kernel_main where it is.
LEMMA InterruptKeepsInv ==
  ASSUME BootInv,
         \/ Handler \/ timer_fires \/ key_pressed
         \/ (\E v \in irr : deliver(v)) \/ deliver_spurious \/ page_fault
  PROVE  BootInv'
<1> USE DEF BootInv, From1, From3, From4, From7, From8, From9, From12, From13
<1>1. UNCHANGED <<boot_vars, pic, lapic, writes, redirect>>
  BY DEF HandlerInv, Handler, handler_body, handler_eoi, timer_fires, key_pressed,
     deliver, deliver_spurious, page_fault, boot_vars, device_vars
<1>2. RedirectInv' /\ UsesWhatIsSet' /\ NoStrayInterrupt' /\ PanicsShown' /\ machine' \in Machines
  BY <1>1 DEF RedirectInv, UsesWhatIsSet, NoStrayInterrupt, PanicsShown, get_offset, boot_vars
<1>3. \/ From(13) \/ pc = "panicked"
      \/ UNCHANGED handler_vars
  BY Places DEF OrderInv, HandlerInv, Handler, handler_body, handler_eoi,
     timer_fires, key_pressed, deliver, deliver_spurious, page_fault, At
<1>4. OrderInv'
  BY <1>1, <1>3 DEF OrderInv, From, boot_vars, handler_vars
<1>5. HandlerInv'
  <2>1. CASE timer_fires \/ key_pressed
    BY <2>1 DEF HandlerInv, timer_fires, key_pressed, boot_vars, handler_vars
  <2>2. CASE \E v \in irr : deliver(v)
    BY <1>1, <2>2 DEF HandlerInv, deliver, Enter, boot_vars, TIMER_VEC, KEYBOARD_VEC, NoHandler
  <2>3. CASE deliver_spurious
    BY <1>1, <2>3 DEF HandlerInv, deliver_spurious, Enter, boot_vars, device_vars,
       SPURIOUS_VEC, TIMER_VEC, KEYBOARD_VEC, NoHandler
  <2>4. CASE page_fault
    <3>1. "APIC_BASE" \in statics /\ pic # "unmasked" /\ handler = NoHandler
      BY <2>4, Places DEF OrderInv, page_fault, At
    <3>2. isr = {}
      BY <3>1 DEF HandlerInv, TIMER_VEC, KEYBOARD_VEC, NoHandler
    <3>3. handler' = PAGE_FAULT /\ hpc' = "body" /\ interrupts' = "off" /\ UNCHANGED <<irr, isr>>
      BY <2>4 DEF page_fault, Enter, device_vars
    <3>4. QED BY <1>1, <3>1, <3>2, <3>3 DEF HandlerInv, boot_vars, PAGE_FAULT, NoHandler
  <2>5. CASE handler_body
    BY <1>1, <2>5 DEF HandlerInv, handler_body, boot_vars
  <2>6. CASE handler_eoi
    <3>1. /\ isr' = {w \in isr : \E x \in isr : x > w} /\ irr' = irr
          /\ hpc' = "none" /\ handler' = NoHandler /\ interrupts' = "on"
      BY <2>6 DEF HandlerInv, handler_eoi
    <3>2. isr' = {}
      BY <3>1 DEF HandlerInv, TIMER_VEC, KEYBOARD_VEC
    <3>3. QED BY <1>1, <2>6, <3>1, <3>2 DEF HandlerInv, handler_eoi, boot_vars
  <2>7. QED BY <2>1, <2>2, <2>3, <2>4, <2>5, <2>6 DEF Handler
<1>6. FaultOnlyWithoutHpet' /\ KeyIsRead'
  <2>1. CASE timer_fires \/ key_pressed
    BY <2>1 DEF FaultOnlyWithoutHpet, KeyIsRead, timer_fires, key_pressed, boot_vars, handler_vars
  <2>2. CASE \E v \in irr : deliver(v)
    BY <2>2 DEF FaultOnlyWithoutHpet, KeyIsRead, HandlerInv, deliver, Enter, boot_vars,
       TIMER_VEC, KEYBOARD_VEC, PAGE_FAULT, NoHandler
  <2>3. CASE deliver_spurious
    BY <2>3 DEF FaultOnlyWithoutHpet, KeyIsRead, HandlerInv, deliver_spurious, Enter,
       device_vars, SPURIOUS_VEC, PAGE_FAULT, KEYBOARD_VEC, NoHandler
  <2>4. CASE page_fault
    <3>1. "HPET_BASE" \notin statics /\ handler = NoHandler /\ machine.processors = "waiting"
      BY <2>4 DEF page_fault, At
    <3>2. ~machine.hpet
      BY <2>4, <3>1, Places DEF OrderInv, page_fault, At
    <3>3. UNCHANGED <<machine, irr, keyboard>>
      BY <2>4 DEF page_fault, boot_vars, device_vars
    <3>4. QED BY <3>1, <3>2, <3>3 DEF FaultOnlyWithoutHpet, KeyIsRead, KEYBOARD_VEC, NoHandler
  <2>5. CASE handler_body
    BY <1>1, <2>5 DEF FaultOnlyWithoutHpet, KeyIsRead, handler_body, boot_vars
  <2>6. CASE handler_eoi
    BY <2>6 DEF FaultOnlyWithoutHpet, KeyIsRead, HandlerInv, handler_eoi, PAGE_FAULT,
       KEYBOARD_VEC, NoHandler
  <2>7. QED BY <2>1, <2>2, <2>3, <2>4, <2>5, <2>6 DEF Handler
<1>7. QED BY <1>2, <1>4, <1>5, <1>6

\* BootInv is inductive.
LEMMA NextKeepsInv == BootInv /\ [Next]_vars => BootInv'
<1> SUFFICES ASSUME BootInv, [Next]_vars PROVE BootInv'
  OBVIOUS
<1>1. CASE UNCHANGED vars
  <2> USE <1>1 DEF vars, boot_vars, device_vars, handler_vars, BootInv
  <2>1. OrderInv'
    BY DEF OrderInv, From
  <2>2. HandlerInv' /\ RedirectInv'
    BY DEF HandlerInv, RedirectInv
  <2>3. UsesWhatIsSet' /\ NoStrayInterrupt' /\ PanicsShown' /\ FaultOnlyWithoutHpet' /\ KeyIsRead'
    BY DEF UsesWhatIsSet, NoStrayInterrupt, PanicsShown, FaultOnlyWithoutHpet, KeyIsRead,
       get_offset
  <2>4. QED BY <2>1, <2>2, <2>3
<1>2. CASE MainStep
  BY <1>2, MainKeepsInv
<1>3. CASE pic_interrupt
  BY <1>1, <1>3 DEF BootInv, HandlerInv, pic_interrupt
<1>4. QED BY <1>1, <1>2, <1>3, InterruptKeepsInv DEF Next, hlt_loop

-----------------------------------------------------------------------------
(***************************************************************************)
(* The theorems.                                                           *)
(***************************************************************************)
\* BootInv holds throughout the boot (kernel_main and the interrupt handlers).
THEOREM BootInvariant == Spec => []BootInv
BY InitBootInv, NextKeepsInv, PTL DEF Spec

\* The calls of kernel_main are in the right order on every machine, wherever
\* interrupts come: no static is missing, no interrupt of the PICs is taken, a
\* panic is shown, and the null HPET_BASE is read only if there is no HPET.
THEOREM BootStepsInOrder == Spec => []BootInOrder
<1>1. BootInv => BootInOrder
  BY DEF BootInv, BootInOrder
<1>2. QED BY <1>1, BootInvariant, PTL

\* The end of interrupt of a handler ends its own interrupt or none.
THEOREM HandlersEndTheirOwn == Spec => []EoiEndsOwn
<1>1. BootInv => EoiEndsOwn
  BY DEF BootInv, HandlerInv, EoiEndsOwn
<1>2. QED BY <1>1, BootInvariant, PTL

\* A key whose edge was accepted is read.
THEOREM AcceptedKeysAreRead == Spec => []KeyIsRead
<1>1. BootInv => KeyIsRead
  BY DEF BootInv
<1>2. QED BY <1>1, BootInvariant, PTL

\* After the first two writes to the I/O APIC no edge of the keyboard is lost.
THEOREM EdgesAreAccepted == Spec => KeysAccepted
<1>1. BootInv /\ [Next]_vars =>
        [keyboard # "stuck" /\ keyboard' = "stuck" =>
           writes < 2 \/ machine.apic_id_0 # "bsp"]_vars
  <2> SUFFICES ASSUME BootInv, Next, keyboard # "stuck", keyboard' = "stuck"
               PROVE  writes < 2 \/ machine.apic_id_0 # "bsp"
    OBVIOUS
  <2>1. key_pressed
    BY DEF Next, MainStep, init_gdt_idt, init_framebuffer, init_memory, take_frame, no_frame,
       init_heap, init_acpi, init_apic, disable_pic, enable_local_apic, init_apic_timer,
       ioapic_write, set_ioapic_redirect, init_hpet, enable, remap_trampoline_uncacheable,
       load_ap_trampoline, init_smp, spawn, Handler, handler_body, handler_eoi, timer_fires,
       pic_interrupt, deliver, deliver_spurious, page_fault, hlt_loop, vars, device_vars
  <2>2. QED BY <2>1 DEF BootInv, RedirectInv, key_pressed
<1>2. QED BY <1>1, BootInvariant, PTL DEF Spec, KeysAccepted
=============================================================================
