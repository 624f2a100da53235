--------------------------------- MODULE SMP ---------------------------------
(***************************************************************************)
(* The start of the application processors (APs): init_smp and the two     *)
(* IPIs (kernel/src/init/multicore.rs), the trampoline and its fields      *)
(* (kernel/src/smp/trampoline.rs, ap_trampoline.asm), and what an AP does  *)
(* until it loops in ap_startup; composed with the HPET, on which init_smp *)
(* waits between the IPIs and for the AP's answer (Timer).                 *)
(*                                                                         *)
(* The boot processor (BSP) and the APs run concurrently.  The hardware is *)
(* external: an INIT puts an AP in the state in which it waits for a SIPI; *)
(* a SIPI starts a waiting AP, may be lost, and is ignored by an AP that   *)
(* runs.  The trampoline is taken to have the layout that its offsets in   *)
(* trampoline.rs describe.                                                 *)
(***************************************************************************)
EXTENDS Timer, Sequences, SequencesExt

CONSTANTS
  PROCESSORS,      \* the APs that wait for a SIPI, in the order of processor_info
  NUM_AP_STACKS,   \* 4
  DELAYS,          \* us to wait after the INIT and the two SIPIs: 10000, 200, 100
  TIMEOUT          \* 100000: us to wait for an AP

ASSUME SMPAssumption ==
  /\ PROCESSORS \in Seq(ToSet(PROCESSORS)) /\ IsInjective(PROCESSORS)
  /\ NUM_AP_STACKS \in Nat
  /\ DELAYS \in [0 .. 2 -> Nat] /\ \A k \in 0 .. 2 : DELAYS[k] * US < WORD
  /\ TIMEOUT \in Nat \ {0}

VARIABLES
  bsp,             \* where the BSP is
  ap,              \* index in PROCESSORS of the AP the BSP starts
  sipis,           \* SIPIs sent to it
  commword,        \* the trampoline's field: 0 or 1
  kstack,          \* the trampoline's field: an index in AP_STACKS, or NoStack
  AP_STACK_INDEX,  \* number of stacks allocated
  tss,             \* state of the TSS descriptor: "available", "busy"
  pc,              \* where each AP is
  rsp,             \* the stack of each AP
  signalled,       \* the APs that have set commword
  report           \* what init_smp printed of each AP

loop_vars == <<ap, sipis, AP_STACK_INDEX, report>>
bsp_vars == <<bsp, loop_vars, timer_vars>>
ap_vars == <<pc, rsp, signalled>>
vars == <<bsp_vars, ap_vars, commword, kstack, tss>>

APs == ToSet(PROCESSORS)
NoStack == NUM_AP_STACKS

-----------------------------------------------------------------------------
(* The BSP.                                                                *)

\* kernel_main loads the GDT and the TSS long before it starts the APs.
init_gdt_idt ==
  /\ bsp = "boot"
  /\ bsp' = "load"
  /\ tss' = "busy"
  /\ UNCHANGED <<loop_vars, timer_vars, ap_vars, commword, kstack>>

\* load_ap_trampoline copies the image, whose fields are zero: kernel_main and
\* init_smp both do it.
load_ap_trampoline ==
  /\ bsp = "load"
  /\ bsp' = "patch"
  /\ commword' = 0
  /\ kstack' = NoStack
  /\ UNCHANGED <<loop_vars, timer_vars, ap_vars, tss>>

\* Mutation: the stack field is not patched.
patch_trampoline_m ==
  /\ bsp = "patch"
  /\ bsp' = "next"
  /\ commword' = 0
  /\ UNCHANGED <<loop_vars, timer_vars, ap_vars, tss, kstack>>

\* The next stack, or a panic.
allocate_ap_stack ==
  /\ AP_STACK_INDEX' = AP_STACK_INDEX + 1
  /\ IF AP_STACK_INDEX >= NUM_AP_STACKS
       THEN bsp' = "panicked" /\ UNCHANGED kstack
       ELSE bsp' = "next" /\ kstack' = AP_STACK_INDEX

\* One stack for all the APs.
patch_trampoline ==
  /\ bsp = "patch"
  /\ allocate_ap_stack
  /\ commword' = IF bsp' = "panicked" THEN commword ELSE 0
  /\ UNCHANGED <<ap, sipis, report, timer_vars, ap_vars, tss>>

\* Mutation: the destination is not set, and the INIT goes to all the APs.
send_init_ipi_m ==
  /\ bsp = "next"
  /\ ap < Len(PROCESSORS)
  /\ ap' = ap + 1
  /\ pc' = [a \in APs |-> "wait_for_sipi"]
  /\ sipis' = 0
  /\ bsp' = "delay_start"
  /\ UNCHANGED <<AP_STACK_INDEX, report, timer_vars, rsp, signalled, commword, kstack, tss>>

\* The loop of init_smp: the next AP is sent an INIT, or the loop ends.
send_init_ipi ==
  /\ bsp = "next"
  /\ ap < Len(PROCESSORS)
  /\ ap' = ap + 1
  /\ pc' = [pc EXCEPT ![PROCESSORS[ap']] = "wait_for_sipi"]
  /\ sipis' = 0
  /\ bsp' = "delay_start"
  /\ UNCHANGED <<AP_STACK_INDEX, report, timer_vars, rsp, signalled, commword, kstack, tss>>

loop_end ==
  /\ bsp = "next"
  /\ ap = Len(PROCESSORS)
  /\ bsp' = "done"
  /\ UNCHANGED <<loop_vars, timer_vars, ap_vars, commword, kstack, tss>>

\* A SIPI: delivered or lost.
send_startup_ipi ==
  /\ bsp = "sipi"
  /\ sipis' = sipis + 1
  /\ bsp' = "delay_start"
  /\ \/ UNCHANGED pc
     \/ /\ pc[PROCESSORS[ap]] = "wait_for_sipi"
        /\ pc' = [pc EXCEPT ![PROCESSORS[ap]] = "real_start"]
  /\ UNCHANGED <<ap, AP_STACK_INDEX, report, timer_vars, rsp, signalled, commword,
                 kstack, tss>>

\* The delay after each of the IPIs begins; it panics if the period is zero.
delay ==
  /\ bsp = "delay_start"
  /\ \E d \in 1 .. MAX_STEP : delay_start(DELAYS[sipis], d)
  /\ bsp' = "delay"
  /\ UNCHANGED <<loop_vars, ap_vars, commword, kstack, tss>>

delay_panic ==
  /\ bsp = "delay_start"
  /\ get_clock_tick_unit_fallback = 0
  /\ bsp' = "panicked"
  /\ UNCHANGED <<loop_vars, timer_vars, ap_vars, commword, kstack, tss>>

\* Where init_smp is after the delay that follows n SIPIs.
AfterDelay(n) == IF n = 2 THEN "wait_start" ELSE "sipi"

\* A turn of the loop of the delay.
spin ==
  /\ bsp = "delay"
  /\ \E d \in 1 .. MAX_STEP : delay_read(d)
  /\ bsp' = IF counter' < target THEN "delay" ELSE AfterDelay(sipis)
  /\ UNCHANGED <<loop_vars, ap_vars, commword, kstack, tss>>

\* wait_for_ap takes the time at which it starts.
wait_begins ==
  /\ bsp = "wait_start"
  /\ \E d \in 1 .. MAX_STEP :
       \/ wait_start(TIMEOUT, d) /\ bsp' = "wait"
       \/ /\ read_main_counter(d) /\ Overflows(counter')
          /\ bsp' = "panicked" /\ UNCHANGED <<start, target, due>>
  /\ UNCHANGED <<loop_vars, ap_vars, commword, kstack, tss>>

\* Mutation: the test of commword is inverted.
wait_for_ap_m ==
  /\ bsp = "wait"
  /\ IF commword # 1
       THEN bsp' = "next" /\ report' = [report EXCEPT ![PROCESSORS[ap]] = "started"]
       ELSE bsp' = "clock" /\ UNCHANGED report
  /\ UNCHANGED <<ap, sipis, AP_STACK_INDEX, timer_vars, ap_vars, commword, kstack, tss>>

\* The loop of wait_for_ap: commword is read; if it is not set, the clock is.
wait_for_ap ==
  /\ bsp = "wait"
  /\ IF commword = 1
       THEN bsp' = "next" /\ report' = [report EXCEPT ![PROCESSORS[ap]] = "started"]
       ELSE bsp' = "clock" /\ UNCHANGED report
  /\ UNCHANGED <<ap, sipis, AP_STACK_INDEX, timer_vars, ap_vars, commword, kstack, tss>>

\* Mutation: the time at which the wait started is not taken off.
ClockOutcome_m(now) == IF now >= TIMEOUT THEN "next" ELSE "wait"

\* Mutation: the time-out is not an end of the wait.
ClockOutcome_n(now) == IF Underflows(now) THEN "panicked" ELSE "wait"

\* What the loop makes of the time.
ClockOutcome(now) ==
  CASE Underflows(now)                                 -> "panicked"
    [] ~Underflows(now) /\ SinceStart(now) >= TIMEOUT  -> "next"
    [] OTHER                                           -> "wait"

\* The clock is read: a panic, a time-out, or another turn.
read_clock ==
  /\ bsp = "clock"
  /\ \E d \in 1 .. MAX_STEP : read_main_counter(d) /\ due' = Pass(d)
  /\ bsp' = IF Overflows(counter') THEN "panicked"
            ELSE ClockOutcome(get_current_time_us(counter'))
  /\ report' = IF bsp' = "next" THEN [report EXCEPT ![PROCESSORS[ap]] = "late"]
               ELSE report
  /\ UNCHANGED <<start, target, ap, sipis, AP_STACK_INDEX, ap_vars, commword, kstack, tss>>

-----------------------------------------------------------------------------
(* An AP.                                                                  *)

\* Real mode: it signals that it is ready.
real_start(a) ==
  /\ pc[a] = "real_start"
  /\ commword' = 1
  /\ signalled' = signalled \cup {a}
  /\ pc' = [pc EXCEPT ![a] = "long_start"]
  /\ UNCHANGED <<bsp_vars, rsp, kstack, tss>>

\* Long mode: it takes the stack and jumps to the kernel.
long_start(a) ==
  /\ pc[a] = "long_start"
  /\ rsp' = [rsp EXCEPT ![a] = kstack]
  /\ pc' = [pc EXCEPT ![a] = "ap_startup"]
  /\ UNCHANGED <<bsp_vars, signalled, commword, kstack, tss>>

\* ap_startup prints and calls gdt::init, which loads the one TSS: ltr faults
\* on a descriptor that is busy, and the AP has no IDT.
ap_startup(a) ==
  /\ pc[a] = "ap_startup"
  /\ pc' = [pc EXCEPT ![a] = IF tss = "busy" THEN "fault" ELSE "loop"]
  /\ tss' = "busy"
  /\ UNCHANGED <<bsp_vars, rsp, signalled, commword, kstack>>

ApStep(a) == real_start(a) \/ long_start(a) \/ ap_startup(a)

BspStep ==
  \/ init_gdt_idt \/ load_ap_trampoline \/ patch_trampoline
  \/ send_init_ipi \/ loop_end \/ send_startup_ipi
  \/ delay \/ delay_panic \/ spin
  \/ wait_begins \/ wait_for_ap \/ read_clock

\* APs start in the state in which ACPI reports them.
Init ==
  /\ TimerInit
  /\ bsp = "boot" /\ ap = 0 /\ sipis = 0
  /\ AP_STACK_INDEX = 0
  /\ commword \in {0, 1} /\ kstack = NoStack    \* memory before the load
  /\ tss = "available"
  /\ pc = [a \in APs |-> "wait_for_sipi"]
  /\ rsp = [a \in APs |-> NoStack]
  /\ signalled = {}
  /\ report = [a \in APs |-> "none"]

Next == BspStep \/ \E a \in APs : ApStep(a)

\* Processors run.
Spec ==
  /\ Init /\ [][Next]_vars
  /\ WF_vars(BspStep)
  /\ \A a \in APs : WF_vars(ApStep(a))

-----------------------------------------------------------------------------
(***************************************************************************)
(* Properties.                                                             *)
(***************************************************************************)

\* The type of every variable; an AP is sent two SIPIs at most.
TypeOK ==
  /\ bsp \in {"boot", "load", "patch", "next", "sipi", "delay_start", "delay",
              "wait_start", "wait", "clock", "done", "panicked"}
  /\ ap \in 0 .. Len(PROCESSORS) /\ sipis \in 0 .. 2
  /\ commword \in {0, 1} /\ kstack \in 0 .. NUM_AP_STACKS
  /\ AP_STACK_INDEX \in 0 .. NUM_AP_STACKS + 1
  /\ tss \in {"available", "busy"}
  /\ pc \in [APs -> {"wait_for_sipi", "real_start", "long_start", "ap_startup",
                     "loop", "fault"}]
  /\ rsp \in [APs -> 0 .. NUM_AP_STACKS]
  /\ signalled \subseteq APs
  /\ report \in [APs -> {"none", "started", "late"}]
  /\ TimerTypeOK

\* An AP that runs kernel code runs it on one of AP_STACKS: the trampoline is
\* patched before any AP can read it (init_smp).
RunsOnAStack ==
  \A a \in APs : pc[a] \in {"ap_startup", "loop", "fault"} => rsp[a] < NUM_AP_STACKS

\* An AP is reported as started only when it, or an AP that was started before
\* it, has signalled, whatever commword's memory held at first (init_smp,
\* wait_for_ap).  That it was this AP is not so: commword is cleared once only.
StartedAfterSignal ==
  \A k \in DOMAIN PROCESSORS :
    report[PROCESSORS[k]] = "started" => \E j \in 1 .. k : PROCESSORS[j] \in signalled

\* An AP that has left the trampoline never goes back: the second SIPI and the
\* start of another AP do not restart it (send_startup_ipi, send_init_ipi).
NoRestart ==
  [][\A a \in APs : a \in signalled => pc'[a] \notin {"wait_for_sipi", "real_start"}]_vars

\* The time between two IPIs, and before an answer is waited for, is what the
\* code asks for, wherever the counter starts and however wide it is: a delay
\* ends too early only if its target wraps around u64 (delay_ms, delay_us).
DelayLasts ==
  [][bsp = "delay" /\ bsp' # "delay" => due' = 0 \/ target < start]_vars

\* An AP is reported as late only after the whole time-out, in a build with
\* overflow checks: a time that overflows or goes back stops the kernel, it is
\* not taken for a time-out (wait_for_ap, get_current_time_us).
LateAfterTimeout ==
  [][\A a \in APs :
       machine.overflow_checks /\ report[a] # "late" /\ report'[a] = "late" => due' = 0]_vars

\* init_smp ends, whether or not the APs start: wait_for_ap gives up.  The one
\* wait without end is a delay whose target is past the last value, or between
\* the last two values read, of a counter that is too narrow (delay_ms,
\* delay_us).
InitSmpEnds ==
  <>(\/ bsp \in {"done", "panicked"}
     \/ bsp = "delay" /\ target + MAX_STEP > machine.width)

(***************************************************************************)
(* The inductive invariant.                                                *)
(***************************************************************************)
\* The APs that have been sent an INIT.
Sent == {PROCESSORS[j] : j \in 1 .. ap}

\* Where the BSP is before, and after, the trampoline is patched.
Before == {"boot", "load", "patch"}
InAp == {"sipi", "delay_start", "delay", "wait_start", "wait", "clock"}

\* Where an AP can be, and what it finds in the trampoline.
ApInv ==
  /\ bsp # "boot" => tss = "busy"
  /\ bsp \in Before => AP_STACK_INDEX = 0
  /\ bsp \in InAp \cup {"next", "done"} =>
       kstack < NUM_AP_STACKS /\ (commword = 1 => signalled # {})
  /\ \A a \in APs :
       /\ pc[a] # "wait_for_sipi" =>
            a \in Sent /\ kstack < NUM_AP_STACKS /\ bsp \notin Before
       /\ pc[a] \in {"ap_startup", "fault"} => rsp[a] < NUM_AP_STACKS
       /\ pc[a] # "loop"
       /\ a \in signalled => pc[a] \in {"long_start", "ap_startup", "fault"}
  /\ bsp \in InAp => ap # 0
  /\ bsp = "sipi" => sipis < 2

\* A wait has a unit to count in, and a delay whose target has not wrapped
\* around has at least as far to go as ticks are due.
DelayInv ==
  /\ bsp \in InAp \ {"delay_start"} => machine.unit # 0
  /\ bsp = "delay" /\ target >= start /\ due # 0 => counter + due <= target

\* While wait_for_ap waits, in a build with overflow checks: c0 is the counter
\* at its start, which the local start holds in microseconds.
WaitInv ==
  bsp \in {"wait", "clock"} /\ machine.overflow_checks =>
    \E c0 \in 0 .. machine.width - 1 :
      /\ start = (c0 * machine.unit) \div US
      /\ due # 0 =>
           counter + due <= c0 + (1 + ((TIMEOUT - 1) * US) \div machine.unit)

SmpInv == TypeOK /\ ApInv /\ StartedAfterSignal /\ DelayInv

\* No AP gets as far as the loop of ap_startup: the descriptor of the one TSS is
\* busy since the BSP loaded it, and ltr faults in gdt::init, however the APs
\* are started; an AP that stops there does so on one of AP_STACKS.
ApsStopAtLtr ==
  \A a \in APs :
    /\ pc[a] # "loop"
    /\ pc[a] = "fault" => tss = "busy" /\ rsp[a] < NUM_AP_STACKS

-----------------------------------------------------------------------------
(***************************************************************************)
(* A statement of the code that it does not keep.                          *)
(***************************************************************************)

\* The kstack field is the "kernel stack pointer for this AP" (the trampoline's
\* comment): no two APs run on one stack.
StackPerAp ==
  \A a, b \in APs : a # b /\ rsp[a] # NoStack => rsp[a] # rsp[b]
=============================================================================
