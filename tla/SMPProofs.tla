------------------------------ MODULE SMPProofs ------------------------------
(***************************************************************************)
(* Proofs about SMP and the Timer, for every list of processors, number of *)
(* stacks, width and period of the counter, and length of the delays.      *)
(***************************************************************************)
EXTENDS SMP, Integers, TLAPS

(***************************************************************************)
(* Arithmetic of the counter.                                              *)
(***************************************************************************)
\* A remainder is no larger than the number.
LEMMA Remainder ==
  ASSUME NEW x \in Nat, NEW w \in Nat, w > 0
  PROVE  x % w \in Nat /\ x % w < w /\ x % w <= x
  OBVIOUS

\* A quotient is no larger than the number.
LEMMA Quotient ==
  ASSUME NEW x \in Nat, NEW u \in Nat, u > 0
  PROVE  x \div u \in Nat /\ x \div u <= x
  OBVIOUS

\* A sum of two words that wraps around is less than each of them.
LEMMA WrappedSum ==
  ASSUME NEW x \in Nat, NEW y \in Nat, x < WORD, y < WORD, (x + y) % WORD >= x
  PROVE  (x + y) % WORD = x + y
  BY TimerAssumption

\* Sums are numbers.
LEMMA SumIsNat ==
  ASSUME NEW x \in Nat, NEW y \in Nat
  PROVE  x + y \in Nat
  OBVIOUS

\* A read d ticks on: a counter c that was at least u short of t becomes c1,
\* which is at least u - d short of t.
LEMMA StillShort ==
  ASSUME NEW c \in Nat, NEW c1 \in Nat, NEW d \in Nat, NEW u \in Nat, NEW t \in Nat,
         c1 <= c + d, u # 0 => c + u <= t, u > d
  PROVE  c1 + (u - d) <= t
  OBVIOUS

\* The constants and the timer's variables as numbers.
LEMMA Numbers ==
  /\ WORD \in Nat /\ WORD > 0 /\ US \in Nat /\ US > 0
  /\ \A d \in 1 .. MAX_STEP : d \in Nat
  BY TimerAssumption

\* The state of the timer is made of numbers.
LEMMA TimerNumbers ==
  ASSUME TimerTypeOK
  PROVE  /\ machine.width \in Nat /\ machine.width > 0 /\ machine.width <= WORD
         /\ machine.unit \in Nat
         /\ counter \in Nat /\ counter < machine.width
         /\ start \in Nat /\ target \in Nat /\ due \in Nat
<1>1. machine.width \in WIDTHS /\ machine.unit \in UNITS
  BY DEF TimerTypeOK
<1> DEFINE w == machine.width
<1>2. w \in 1 .. WORD /\ machine.unit \in Nat
  BY <1>1, TimerAssumption
<1>3. counter \in 0 .. w - 1 /\ start \in 0 .. WORD - 1 /\ target \in 0 .. WORD - 1 /\ due \in Nat
  BY DEF TimerTypeOK
<1> HIDE DEF w
<1>4. w \in Nat /\ w > 0 /\ w <= WORD /\ counter \in Nat /\ counter < w /\ start \in Nat /\ target \in Nat
  BY <1>2, <1>3, Numbers
<1>5. QED BY <1>2, <1>3, <1>4 DEF w

\* The counter stays below its modulus, and advances by what passes at most.
LEMMA CounterRead ==
  ASSUME TimerTypeOK, NEW d \in 1 .. MAX_STEP, read_main_counter(d)
  PROVE  /\ machine' = machine
         /\ counter' \in Nat /\ counter' < machine.width
         /\ counter' <= counter + d
         /\ Pass(d) \in Nat
<1>1. counter + d \in Nat /\ d \in Nat /\ due \in Nat
  BY TimerNumbers, Numbers
<1>2. /\ (counter + d) % machine.width \in Nat
      /\ (counter + d) % machine.width < machine.width
      /\ (counter + d) % machine.width <= counter + d
  BY <1>1, TimerNumbers, Remainder
<1>3. Pass(d) \in Nat
  BY <1>1 DEF Pass
<1>4. QED BY <1>2, <1>3 DEF read_main_counter

\* The type of what a step that reads the counter sets.
LEMMA TimerTypes ==
  ASSUME TimerTypeOK, machine' = machine, counter' \in Nat, counter' < machine.width,
         start' \in Nat, start' < WORD, target' \in Nat, target' < WORD, due' \in Nat
  PROVE  TimerTypeOK'
  BY TimerNumbers, Numbers DEF TimerTypeOK

\* What the processors that are started are.
LEMMA ProcessorFacts ==
  /\ \A k \in 1 .. Len(PROCESSORS) : PROCESSORS[k] \in APs
  /\ \A j, k \in 1 .. Len(PROCESSORS) : PROCESSORS[j] = PROCESSORS[k] => j = k
  /\ Len(PROCESSORS) \in Nat /\ DOMAIN PROCESSORS = 1 .. Len(PROCESSORS)
  BY SMPAssumption DEF APs, ToSet, IsInjective

-----------------------------------------------------------------------------
(***************************************************************************)
(* The invariant.                                                          *)
(***************************************************************************)
\* Before kernel_main runs no AP is started and no time is measured.
LEMMA InitSmpInv == Init => SmpInv
<1> SUFFICES ASSUME Init PROVE SmpInv
  OBVIOUS
<1>1. TimerTypeOK
  <2>1. machine \in [width : WIDTHS, unit : UNITS, overflow_checks : BOOLEAN]
    BY DEF Init, TimerInit
  <2> DEFINE w == machine.width
  <2>a. w \in 1 .. WORD
    BY <2>1, TimerAssumption
  <2>2. w \in Nat /\ w > 0
    <3> HIDE DEF w
    <3>1. QED BY <2>a, Numbers
  <2>3. PICK s \in STARTS : counter = s % machine.width
    BY DEF Init, TimerInit
  <2>4. counter \in Nat /\ counter < machine.width
    BY <2>2, <2>3, Remainder, TimerAssumption
  <2>5. QED BY <2>1, <2>2, <2>4, Numbers DEF Init, TimerInit, TimerTypeOK
<1>2. TypeOK
  BY <1>1, SMPAssumption, ProcessorFacts DEF Init, TypeOK, NoStack
<1>3. QED
  BY <1>2, ProcessorFacts DEF Init, TimerInit, SmpInv, ApInv, StartedAfterSignal, DelayInv, InAp, Before

\* Steps of the BSP that leave the counter alone.
LEMMA BootKeepsInv ==
  ASSUME SmpInv, init_gdt_idt \/ load_ap_trampoline \/ patch_trampoline
  PROVE  SmpInv'
<1> USE SMPAssumption DEF SmpInv
<1>0. TimerTypeOK'
  BY DEF TypeOK, TimerTypeOK, init_gdt_idt, load_ap_trampoline, patch_trampoline, timer_vars
<1>1. TypeOK'
  BY <1>0 DEF TypeOK, ApInv, Before, init_gdt_idt, load_ap_trampoline, patch_trampoline, allocate_ap_stack,
        loop_vars, timer_vars, ap_vars, NoStack
<1>2. ApInv'
  <2>1. \A a \in APs : pc[a] = "wait_for_sipi"
    BY DEF TypeOK, ApInv, Before, init_gdt_idt, load_ap_trampoline, patch_trampoline
  <2>2. signalled = {} /\ pc' = pc /\ signalled' = signalled
    BY <2>1 DEF TypeOK, ApInv, init_gdt_idt, load_ap_trampoline, patch_trampoline, ap_vars
  <2>3. CASE init_gdt_idt \/ load_ap_trampoline
    BY <2>1, <2>2, <2>3 DEF ApInv, InAp, Before, init_gdt_idt, load_ap_trampoline, loop_vars
  <2>4. CASE patch_trampoline
    BY <2>1, <2>2, <2>4 DEF TypeOK, ApInv, InAp, Before, patch_trampoline, allocate_ap_stack
  <2>5. QED BY <2>3, <2>4
<1>3. StartedAfterSignal' /\ DelayInv'
  BY DEF StartedAfterSignal, DelayInv, InAp, init_gdt_idt, load_ap_trampoline,
        patch_trampoline, allocate_ap_stack, loop_vars, timer_vars, ap_vars
<1>4. QED BY <1>1, <1>2, <1>3

\* The IPIs: the INIT goes to the next processor, which is not started yet.
LEMMA IpiKeepsInv ==
  ASSUME SmpInv, send_init_ipi \/ loop_end \/ send_startup_ipi \/ delay_panic
  PROVE  SmpInv'
<1> USE SMPAssumption, ProcessorFacts DEF SmpInv
<1>1. CASE send_init_ipi
  <2> DEFINE new == PROCESSORS[ap + 1]
  <2>1. /\ ap \in Nat /\ ap + 1 \in 1 .. Len(PROCESSORS) /\ ap' = ap + 1 /\ new \in APs
        /\ new \notin Sent /\ Sent \subseteq Sent'
    <3>1. ap \in Nat /\ ap + 1 \in 1 .. Len(PROCESSORS) /\ ap' = ap + 1
      BY <1>1 DEF TypeOK, send_init_ipi
    <3>2. new \in APs /\ \A j \in 1 .. ap : PROCESSORS[j] # new
      BY <3>1
    <3>3. \A j \in 1 .. ap : j \in 1 .. ap'
      BY <3>1
    <3>4. new \notin Sent /\ Sent \subseteq Sent'
      BY <3>2, <3>3 DEF Sent
    <3>5. QED BY <3>1, <3>2, <3>4
  <2>2. new \notin signalled /\ pc' = [pc EXCEPT ![new] = "wait_for_sipi"]
    BY <1>1, <2>1 DEF ApInv, send_init_ipi
  <2>3. TypeOK'
    BY <1>1, <2>1, <2>2 DEF TypeOK, TimerTypeOK, send_init_ipi, timer_vars
  <2>4. ApInv'
    BY <1>1, <2>1, <2>2 DEF TypeOK, ApInv, InAp, Before, send_init_ipi
  <2>5. QED
    BY <1>1, <2>3, <2>4 DEF StartedAfterSignal, DelayInv, InAp, send_init_ipi, timer_vars
<1>2. CASE loop_end \/ delay_panic
  <2>1. TypeOK'
    BY <1>2 DEF TypeOK, TimerTypeOK, loop_end, delay_panic, loop_vars, timer_vars, ap_vars
  <2>2. ApInv'
    BY <1>2 DEF TypeOK, ApInv, Sent, InAp, Before, loop_end, delay_panic, loop_vars, ap_vars
  <2>3. QED
    BY <1>2, <2>1, <2>2 DEF StartedAfterSignal, DelayInv, InAp, loop_end, delay_panic, loop_vars,
          timer_vars, ap_vars
<1>3. CASE send_startup_ipi
  <2>1. PROCESSORS[ap] \in APs /\ PROCESSORS[ap] \in Sent /\ Sent' = Sent
    BY <1>3 DEF TypeOK, ApInv, InAp, Sent, send_startup_ipi
  <2>2. TypeOK'
    <3>1. sipis' \in 0 .. 2
      BY <1>3 DEF TypeOK, ApInv, send_startup_ipi
    <3>2. TimerTypeOK'
      BY <1>3 DEF TypeOK, TimerTypeOK, send_startup_ipi, timer_vars
    <3>3. QED BY <1>3, <2>1, <3>1, <3>2 DEF TypeOK, send_startup_ipi
  <2>3. ApInv'
    BY <1>3, <2>1 DEF TypeOK, ApInv, InAp, Before, send_startup_ipi
  <2>4. QED
    BY <1>3, <2>2, <2>3 DEF StartedAfterSignal, DelayInv, InAp, send_startup_ipi, timer_vars
<1>4. QED BY <1>1, <1>2, <1>3

\* What a step that only measures time keeps of ApInv.
LEMMA ClockKeepsApInv ==
  ASSUME SmpInv, bsp \in InAp,
         UNCHANGED <<ap, sipis, ap_vars, commword, kstack, tss>>,
         bsp' \in InAp \cup {"next", "panicked"},
         bsp' = "sipi" => sipis < 2
  PROVE  ApInv'
  BY DEF SmpInv, ApInv, Sent, InAp, Before, ap_vars

\* A delay begins: its target is ahead of the counter, or has wrapped around.
LEMMA DelayBeginKeepsInv ==
  ASSUME SmpInv, delay
  PROVE  SmpInv'
<1> USE DEF SmpInv
<1>0. TimerTypeOK
  BY DEF TypeOK
<1>1. PICK d \in 1 .. MAX_STEP : delay_start(DELAYS[sipis], d)
  BY DEF delay
<1> DEFINE product == DELAYS[sipis] * US
           ticks == product \div machine.unit
<1>2. machine.unit \in Nat /\ machine.unit > 0
  BY <1>0, <1>1, TimerNumbers DEF delay_start
<1>3. product \in Nat /\ product < WORD
  <2>1. sipis \in 0 .. 2
    BY DEF TypeOK
  <2>2. DELAYS[sipis] \in Nat /\ DELAYS[sipis] * US < WORD
    BY <2>1, SMPAssumption
  <2>3. QED BY <2>2, Numbers
<1> HIDE DEF product
<1>4. ticks \in Nat /\ ticks < WORD
  BY <1>2, <1>3, Quotient, Numbers
<1>5. /\ machine' = machine
      /\ counter' \in Nat /\ counter' < machine.width
  BY <1>0, <1>1, CounterRead DEF delay_start
<1>6. start' = counter' /\ target' = (counter' + ticks) % WORD /\ due' = ticks
  BY <1>1 DEF delay_start, ticks_to_wait, product
<1> HIDE DEF ticks
<1>7. counter' < WORD /\ target' \in Nat /\ target' < WORD
  <2>1. counter' < WORD
    <3> DEFINE w == machine.width
    <3>1. w \in Nat /\ w <= WORD /\ counter' < w
      BY <1>0, <1>5, TimerNumbers
    <3> HIDE DEF w
    <3>2. QED BY <3>1, <1>5, Numbers
  <2>a. counter' \in Nat
    BY <1>5
  <2>b. ticks \in Nat
    BY <1>4
  <2>2. counter' + ticks \in Nat
    BY <2>a, <2>b, SumIsNat
  <2>3. QED BY <2>1, <2>2, <1>6, Remainder, Numbers
<1>8. TypeOK'
  <2>1. TimerTypeOK'
    BY <1>0, <1>4, <1>5, <1>6, <1>7, TimerTypes
  <2>2. QED BY <2>1 DEF TypeOK, delay, loop_vars, ap_vars
<1>9. ApInv'
  BY ClockKeepsApInv DEF delay, loop_vars, InAp
<1>10. DelayInv'
  <2>1. target' >= start' => target' = counter' + ticks
    BY <1>4, <1>5, <1>6, <1>7, WrappedSum
  <2>2. QED BY <2>1, <1>2, <1>4, <1>5, <1>6 DEF DelayInv, InAp, delay
<1>11. QED
  BY <1>8, <1>9, <1>10 DEF StartedAfterSignal, delay, loop_vars, ap_vars

\* A turn of a delay's loop: the counter advances at most by what passes.
LEMMA SpinKeepsInv ==
  ASSUME SmpInv, spin
  PROVE  SmpInv'
<1> USE DEF SmpInv
<1>0. TimerTypeOK
  BY DEF TypeOK
<1>1. PICK d \in 1 .. MAX_STEP : delay_read(d)
  BY DEF spin
<1>2. /\ machine' = machine
      /\ counter' \in Nat /\ counter' < machine.width
      /\ counter' <= counter + d
      /\ Pass(d) \in Nat
  BY <1>0, <1>1, CounterRead DEF delay_read
<1>3. due' = Pass(d) /\ UNCHANGED <<start, target>>
  BY <1>1 DEF delay_read
<1>4. bsp' \in {"delay", "wait_start", "sipi"} /\ (bsp' = "sipi" => sipis < 2)
  BY DEF spin, AfterDelay, TypeOK
<1>5. TypeOK'
  <2>1. start \in Nat /\ start < WORD /\ target \in Nat /\ target < WORD
    BY <1>0, Numbers DEF TimerTypeOK
  <2>3. TimerTypeOK'
    BY <2>1, <1>0, <1>2, <1>3, TimerTypes
  <2>4. QED BY <2>3, <1>4 DEF TypeOK, spin, loop_vars, ap_vars
<1>6. ApInv'
  BY <1>4, ClockKeepsApInv DEF spin, loop_vars, InAp
<1>7. DelayInv'
  <2>1. d \in Nat /\ counter \in Nat /\ due \in Nat /\ target \in Nat /\ start \in Nat
    BY <1>0, TimerNumbers, Numbers
  <2>2. target >= start /\ due' # 0 => counter' + due' <= target
    <3>1. bsp = "delay"
      BY DEF spin
    <3>2. counter' \in Nat /\ counter' <= counter + d
      BY <1>2
    <3>3. target >= start /\ due # 0 => counter + due <= target
      BY <3>1 DEF DelayInv
    <3>4. due' = IF due > d THEN due - d ELSE 0
      BY <1>3 DEF Pass
    <3>5. ASSUME target >= start, due > d PROVE counter' + (due - d) <= target
      BY <2>1, <3>2, <3>3, <3>5, StillShort
    <3>6. QED BY <2>1, <3>4, <3>5
  <2>3. machine'.unit # 0
    BY <1>2 DEF DelayInv, InAp, spin
  <2>4. QED BY <2>2, <2>3, <1>3 DEF DelayInv
<1>8. QED
  BY <1>5, <1>6, <1>7 DEF StartedAfterSignal, spin, loop_vars, ap_vars

\* The time in microseconds is a word, and so is a time-out in ticks a number.
LEMMA WaitBeginKeepsInv ==
  ASSUME SmpInv, wait_begins
  PROVE  SmpInv'
<1> USE DEF SmpInv
<1>0. TimerTypeOK
  BY DEF TypeOK
<1>1. PICK d \in 1 .. MAX_STEP :
        \/ wait_start(TIMEOUT, d) /\ bsp' = "wait"
        \/ read_main_counter(d) /\ bsp' = "panicked" /\ UNCHANGED <<start, target, due>>
  BY DEF wait_begins
<1>2. machine.unit \in Nat /\ machine.unit > 0
  BY <1>0, TimerNumbers DEF DelayInv, wait_begins, InAp
<1>3. /\ machine' = machine
      /\ counter' \in Nat /\ counter' < machine.width
  BY <1>0, <1>1, CounterRead DEF wait_start
<1>4. start' \in Nat /\ start' < WORD /\ target' = target /\ due' \in Nat
  <2>1. CASE UNCHANGED <<start, target, due>>
    BY <2>1, <1>0, Numbers DEF TimerTypeOK
  <2>2. CASE wait_start(TIMEOUT, d)
    <3> DEFINE time == (counter' * machine.unit) % WORD
               left == (TIMEOUT - 1) * US
    <3>1. counter' * machine.unit \in Nat
      BY <1>2, <1>3
    <3>2. left \in Nat
      BY SMPAssumption, Numbers
    <3>3. time \in Nat /\ time < WORD
      BY <3>1, Numbers, Remainder
    <3>4. start' = time \div US /\ target' = target /\ due' = 1 + left \div machine.unit
      BY <2>2, <1>3 DEF wait_start, get_current_time_us
    <3> HIDE DEF time, left
    <3>5. time \div US \in Nat /\ time \div US < WORD
      BY <3>3, Quotient, Numbers
    <3>6. left \div machine.unit \in Nat
      BY <3>2, <1>2, Quotient
    <3>7. QED BY <3>4, <3>5, <3>6
  <2>3. QED BY <1>1, <2>1, <2>2
<1>5. TypeOK'
  <2>1. target \in Nat /\ target < WORD
    BY <1>0, Numbers DEF TimerTypeOK
  <2>2. TimerTypeOK'
    BY <2>1, <1>0, <1>3, <1>4, TimerTypes
  <2>3. QED BY <2>2, <1>1 DEF TypeOK, wait_begins, loop_vars, ap_vars
<1>6. ApInv'
  BY <1>1, ClockKeepsApInv DEF wait_begins, loop_vars, InAp
<1>7. QED
  BY <1>1, <1>2, <1>3, <1>5, <1>6 DEF StartedAfterSignal, DelayInv, InAp, wait_begins, loop_vars, ap_vars

\* A turn of the loop of wait_for_ap: a signal is one of an AP sent an INIT.
LEMMA WaitKeepsInv ==
  ASSUME SmpInv, wait_for_ap \/ read_clock
  PROVE  SmpInv'
<1> USE ProcessorFacts DEF SmpInv
<1>0. ap \in 1 .. Len(PROCESSORS) /\ PROCESSORS[ap] \in APs
  BY DEF TypeOK, ApInv, InAp, wait_for_ap, read_clock
<1>1. CASE wait_for_ap
  <2>1. TypeOK'
    BY <1>0, <1>1 DEF TypeOK, TimerTypeOK, wait_for_ap, timer_vars, ap_vars
  <2>2. ApInv'
    BY <1>1, ClockKeepsApInv DEF wait_for_ap, InAp
  <2>3. StartedAfterSignal'
    <3>1. SUFFICES ASSUME NEW k \in DOMAIN PROCESSORS, report'[PROCESSORS[k]] = "started"
                   PROVE  \E j \in 1 .. k : PROCESSORS[j] \in signalled
      BY <1>1 DEF StartedAfterSignal, wait_for_ap, ap_vars
    <3>2. CASE report[PROCESSORS[k]] = "started"
      BY <3>2 DEF StartedAfterSignal
    <3>3. CASE report[PROCESSORS[k]] # "started"
      <4>1. commword = 1 /\ k = ap
        BY <1>0, <1>1, <3>1, <3>3 DEF wait_for_ap, TypeOK
      <4>2. PICK a \in signalled : TRUE
        BY <1>1, <4>1 DEF ApInv, InAp, wait_for_ap
      <4>3. a \in Sent
        BY <4>2 DEF ApInv, TypeOK
      <4>4. QED BY <4>1, <4>2, <4>3 DEF Sent
    <3>4. QED BY <3>2, <3>3
  <2>4. QED BY <1>1, <2>1, <2>2, <2>3 DEF DelayInv, InAp, wait_for_ap, timer_vars
<1>2. CASE read_clock
  <2>1. PICK d \in 1 .. MAX_STEP : read_main_counter(d) /\ due' = Pass(d)
    BY <1>2 DEF read_clock
  <2>2. /\ machine' = machine
        /\ counter' \in Nat /\ counter' < machine.width
        /\ due' \in Nat
    BY <2>1, CounterRead DEF TypeOK
  <2>3. bsp' \in {"panicked", "next", "wait"}
    BY <1>2 DEF read_clock, ClockOutcome
  <2>4. TypeOK'
    <3>1. start \in Nat /\ start < WORD /\ target \in Nat /\ target < WORD
      BY Numbers DEF TypeOK, TimerTypeOK
    <3>2. TimerTypeOK'
      BY <1>2, <2>2, <3>1, TimerTypes DEF read_clock, TypeOK
    <3>3. QED BY <1>0, <1>2, <2>3, <3>2 DEF TypeOK, read_clock, ap_vars
  <2>5. ApInv'
    BY <1>2, <2>3, ClockKeepsApInv DEF read_clock, InAp
  <2>6. StartedAfterSignal'
    BY <1>0, <1>2 DEF StartedAfterSignal, read_clock, ap_vars, TypeOK
  <2>7. QED BY <1>2, <2>2, <2>3, <2>4, <2>5, <2>6 DEF DelayInv, InAp, read_clock
<1>3. QED BY <1>1, <1>2

\* A step of an AP: it finds the trampoline patched and the TSS in use.
LEMMA ApKeepsInv ==
  ASSUME SmpInv, NEW a \in APs, ApStep(a)
  PROVE  SmpInv'
<1> USE SMPAssumption DEF SmpInv
<1>1. /\ a \in Sent /\ kstack \in 0 .. NUM_AP_STACKS - 1 /\ bsp \notin Before /\ Sent' = Sent
      /\ tss = "busy"
  <2>1. pc[a] # "wait_for_sipi" /\ UNCHANGED <<bsp, ap>>
    BY DEF ApStep, real_start, long_start, ap_startup, bsp_vars, loop_vars
  <2>2. a \in Sent /\ kstack < NUM_AP_STACKS /\ bsp \notin Before
    BY <2>1 DEF ApInv
  <2>3. tss = "busy"
    BY <2>2 DEF ApInv, Before
  <2>4. kstack \in 0 .. NUM_AP_STACKS - 1
    BY <2>2 DEF TypeOK
  <2>5. QED BY <2>1, <2>2, <2>3, <2>4 DEF Sent
<1>0. TimerTypeOK'
  BY DEF TypeOK, TimerTypeOK, ApStep, real_start, long_start, ap_startup, bsp_vars, timer_vars
<1>2. TypeOK'
  <2>1. CASE real_start(a)
    BY <1>0, <1>1, <2>1 DEF TypeOK, real_start, bsp_vars, loop_vars
  <2>2. CASE long_start(a)
    BY <1>0, <1>1, <2>2 DEF TypeOK, long_start, bsp_vars, loop_vars
  <2>3. CASE ap_startup(a)
    BY <1>0, <1>1, <2>3 DEF TypeOK, ap_startup, bsp_vars, loop_vars
  <2>4. QED BY <2>1, <2>2, <2>3 DEF ApStep
<1>3. ApInv'
  <2>1. CASE real_start(a)
    BY <1>1, <2>1 DEF TypeOK, ApInv, InAp, real_start, bsp_vars, loop_vars
  <2>2. CASE long_start(a)
    BY <1>1, <2>2 DEF TypeOK, ApInv, InAp, long_start, bsp_vars, loop_vars
  <2>3. CASE ap_startup(a)
    BY <1>1, <2>3 DEF TypeOK, ApInv, InAp, ap_startup, bsp_vars, loop_vars
  <2>4. QED BY <2>1, <2>2, <2>3 DEF ApStep
<1>4. StartedAfterSignal' /\ DelayInv'
  BY DEF StartedAfterSignal, DelayInv, ApStep, real_start, long_start, ap_startup, bsp_vars,
        loop_vars, timer_vars
<1>5. QED BY <1>2, <1>3, <1>4

\* Every step keeps the invariant.
LEMMA NextKeepsSmpInv == SmpInv /\ [Next]_vars => SmpInv'
<1> SUFFICES ASSUME SmpInv, [Next]_vars PROVE SmpInv'
  OBVIOUS
<1>1. ASSUME NEW a \in APs, ApStep(a) PROVE SmpInv'
  BY <1>1, ApKeepsInv
<1>2. CASE BspStep
  BY <1>2, BootKeepsInv, IpiKeepsInv, DelayBeginKeepsInv, SpinKeepsInv, WaitBeginKeepsInv,
     WaitKeepsInv DEF BspStep
<1>3. CASE UNCHANGED vars
  <2> USE <1>3 DEF SmpInv, vars, bsp_vars, loop_vars, timer_vars, ap_vars
  <2>1. TypeOK'
    BY DEF TypeOK, TimerTypeOK
  <2>2. ApInv'
    BY DEF ApInv, Sent
  <2>3. StartedAfterSignal' /\ DelayInv'
    BY DEF StartedAfterSignal, DelayInv
  <2>4. QED BY <2>1, <2>2, <2>3
<1>4. QED BY <1>1, <1>2, <1>3 DEF Next

\* The inductive invariant of the boot processor, the APs and the timer.
THEOREM SmpInvariant == Spec => []SmpInv
<1>1. QED BY InitSmpInv, NextKeepsSmpInv, PTL DEF Spec

\* No AP runs kernel code before the trampoline gives it a stack.
THEOREM ApsHaveAStack == Spec => []RunsOnAStack
<1>1. SmpInv => RunsOnAStack
  BY DEF SmpInv, ApInv, RunsOnAStack
<1>2. QED BY <1>1, SmpInvariant, PTL

\* No AP passes ltr in gdt::init, for every number of APs and whatever SIPIs
\* are lost.
THEOREM ApsFaultAtLtr == Spec => []ApsStopAtLtr
<1>1. SmpInv => ApsStopAtLtr
  BY DEF SmpInv, ApInv, Before, ApsStopAtLtr
<1>2. QED BY <1>1, SmpInvariant, PTL

\* An AP is reported as started only after a signal of an AP started so far.
THEOREM ReportsFollowSignals == Spec => []StartedAfterSignal
<1>1. SmpInv => StartedAfterSignal
  BY DEF SmpInv
<1>2. QED BY <1>1, SmpInvariant, PTL

\* An AP that has signalled is not restarted by any later IPI.
THEOREM ApsAreNotRestarted == Spec => NoRestart
<1>1. SmpInv /\ [Next]_vars =>
        [\A a \in APs : a \in signalled => pc'[a] \notin {"wait_for_sipi", "real_start"}]_vars
  <2> SUFFICES ASSUME SmpInv, Next, NEW a \in APs, a \in signalled
               PROVE  pc'[a] \notin {"wait_for_sipi", "real_start"}
    OBVIOUS
  <2>1. SmpInv' /\ (a \in signalled' => pc'[a] \in {"long_start", "ap_startup", "fault"})
    BY NextKeepsSmpInv DEF SmpInv, ApInv
  <2>2. signalled \subseteq signalled'
    BY DEF Next, BspStep, ApStep, init_gdt_idt, load_ap_trampoline, patch_trampoline,
          send_init_ipi, loop_end, send_startup_ipi, delay, delay_panic, spin, wait_begins,
          wait_for_ap, read_clock, real_start, long_start, ap_startup, ap_vars
  <2>3. QED BY <2>1, <2>2
<1>2. QED BY <1>1, SmpInvariant, PTL DEF Spec, NoRestart

\* A delay lasts as long as it was asked for, whatever the width and the start
\* of the counter, unless its target wraps around.
THEOREM DelaysLast == Spec => DelayLasts
<1>1. SmpInv /\ [Next]_vars =>
        [bsp = "delay" /\ bsp' # "delay" => due' = 0 \/ target < start]_vars
  <2> SUFFICES ASSUME SmpInv, Next, bsp = "delay", bsp' # "delay"
               PROVE  due' = 0 \/ target < start
    OBVIOUS
  <2>1. spin
    BY DEF Next, BspStep, ApStep, init_gdt_idt, load_ap_trampoline, patch_trampoline,
          send_init_ipi, loop_end, send_startup_ipi, delay, delay_panic, wait_begins,
          wait_for_ap, read_clock, real_start, long_start, ap_startup, bsp_vars
  <2>2. PICK d \in 1 .. MAX_STEP : delay_read(d)
    BY <2>1 DEF spin
  <2>3. counter' \in Nat /\ counter' <= counter + d /\ due' = Pass(d)
    BY <2>2, CounterRead DEF delay_read, SmpInv, TypeOK
  <2>4. d \in Nat /\ counter \in Nat /\ due \in Nat /\ target \in Nat /\ start \in Nat
    BY TimerNumbers, Numbers DEF SmpInv, TypeOK
  <2>5. counter' >= target
    BY <2>1, <2>3, <2>4 DEF spin
  <2>6. QED
    BY <2>3, <2>4, <2>5 DEF SmpInv, DelayInv, Pass
<1>2. QED BY <1>1, SmpInvariant, PTL DEF Spec, DelayLasts

-----------------------------------------------------------------------------
(***************************************************************************)
(* The time-out of wait_for_ap.                                            *)
(***************************************************************************)
\* A quotient, times the divisor, is the number up to less than the divisor.
LEMMA QuotientTimes ==
  ASSUME NEW x \in Nat, NEW u \in Nat, u > 0
  PROVE  x \div u \in Nat /\ (x \div u) * u <= x /\ x < (x \div u) * u + u
  OBVIOUS

\* Multiplying keeps the order.
LEMMA TimesMonotonic ==
  ASSUME NEW a \in Int, NEW b \in Int, NEW u \in Nat, a <= b
  PROVE  a * u <= b * u
  OBVIOUS

\* A common positive factor cancels.
LEMMA TimesCancels ==
  ASSUME NEW a \in Int, NEW b \in Int, NEW u \in Nat, u > 0, a * u < b * u
  PROVE  a < b
  OBVIOUS

\* A factor distributes over a sum.
LEMMA TimesDistributes ==
  ASSUME NEW a \in Int, NEW b \in Int, NEW u \in Int
  PROVE  (a + b) * u = a * u + b * u
  OBVIOUS

\* A remainder is at most what is left without the divisor.
LEMMA RemainderShrinks ==
  ASSUME NEW x \in Nat, NEW w \in Nat, w > 0
  PROVE  (x + w) % w <= x
  OBVIOUS

\* While ticks of a time-out of t microseconds are due, fewer than t have
\* passed between the times in microseconds, though both are rounded down.
LEMMA NotLate ==
  ASSUME NEW c0 \in Nat, NEW c1 \in Nat, NEW u \in Nat, u > 0, NEW t \in Nat, t > 0,
         NEW e \in Nat, e # 0,
         c1 + e <= c0 + (1 + ((t - 1) * US) \div u)
  PROVE  (c1 * u) \div US < (c0 * u) \div US + t
<1> DEFINE left == (t - 1) * US
           q == left \div u
           s == (c0 * u) \div US
           n == (c1 * u) \div US
<1>1. left \in Nat /\ c0 * u \in Nat /\ c1 * u \in Nat /\ US \in Nat /\ US > 0
  BY Numbers
<1>2. q \in Nat /\ q * u <= left
  <2> HIDE DEF left
  <2>1. QED BY <1>1, QuotientTimes
<1>3. c1 <= c0 + q
  <2>1. c1 + e <= c0 + (1 + q)
    OBVIOUS
  <2> HIDE DEF q
  <2>2. QED BY <1>2, <2>1
<1>4. c1 * u <= c0 * u + q * u
  <2> HIDE DEF q
  <2>1. c1 * u <= (c0 + q) * u
    BY <1>2, <1>3, TimesMonotonic
  <2>2. (c0 + q) * u = c0 * u + q * u
    BY <1>2, TimesDistributes
  <2>3. QED BY <2>1, <2>2
<1>5. s \in Nat /\ c0 * u < s * US + US /\ n \in Nat /\ n * US <= c1 * u
  BY <1>1, QuotientTimes
<1>6. (s + t) * US = s * US + US + left
  <2> HIDE DEF s
  <2>1. (s + t) * US = s * US + t * US
    BY <1>1, <1>5, TimesDistributes
  <2>2. t * US = US + left
    BY <1>1
  <2>3. QED BY <2>1, <2>2, <1>1, <1>5
<1>7. n * US < (s + t) * US
  <2> HIDE DEF s, n, q, left
  <2> DEFINE a == c0 * u  b == c1 * u  x == s * US  y == n * US  z == q * u
  <2>1. a \in Nat /\ b \in Nat /\ x \in Nat /\ y \in Nat /\ z \in Nat
    BY <1>1, <1>2, <1>5
  <2>2. b <= a + z /\ z <= left /\ a < x + US /\ y <= b
    BY <1>2, <1>4, <1>5
  <2>3. SUFFICES y < x + US + left
    BY <1>6
  <2> HIDE DEF a, b, x, y, z
  <2>4. QED BY <1>1, <2>1, <2>2
<1>8. n < s + t
  <2> HIDE DEF s, n
  <2>1. QED BY <1>1, <1>5, <1>7, TimesCancels
<1>9. QED BY <1>8

\* Without overflow, a time is the counter's value in microseconds.
LEMMA TimeIsExact ==
  ASSUME TimerTypeOK, machine.overflow_checks, NEW c \in Nat, ~Overflows(c)
  PROVE  get_current_time_us(c) = (c * machine.unit) \div US
<1>1. c * machine.unit \in Nat /\ c * machine.unit < WORD
  BY TimerNumbers, Numbers DEF Overflows
<1> DEFINE p == c * machine.unit
<1>2. p % WORD = p
  <2> HIDE DEF p
  <2>1. p \in Nat /\ p < WORD
    BY <1>1 DEF p
  <2>2. QED BY <2>1, Numbers
<1>3. QED BY <1>2 DEF get_current_time_us

\* The counter at which a time-out ends is a number.
LEMMA WaitBound ==
  ASSUME TimerTypeOK, machine.unit # 0, NEW c0 \in 0 .. machine.width - 1
  PROVE  c0 \in Nat /\ c0 + (1 + ((TIMEOUT - 1) * US) \div machine.unit) \in Nat
<1> DEFINE left == (TIMEOUT - 1) * US
<1>1. left \in Nat /\ machine.unit \in Nat /\ machine.unit > 0
  <2>1. TIMEOUT - 1 \in Nat /\ US \in Nat
    BY SMPAssumption, Numbers
  <2>2. left \in Nat
    BY <2>1
  <2>3. machine.unit \in Nat
    BY TimerNumbers
  <2>4. QED BY <2>2, <2>3
<1>2. c0 \in Nat
  BY TimerNumbers
<1> HIDE DEF left
<1>3. left \div machine.unit \in Nat
  BY <1>1, Quotient
<1>4. QED BY <1>2, <1>3 DEF left

\* The start of the wait is remembered, and what is due shrinks as time passes.
LEMMA WaitInvKept == SmpInv /\ WaitInv /\ [Next]_vars => WaitInv'
<1> SUFFICES ASSUME SmpInv, WaitInv, [Next]_vars, bsp' \in {"wait", "clock"},
                    machine'.overflow_checks
             PROVE  \E c0 \in 0 .. machine'.width - 1 :
                      /\ start' = (c0 * machine'.unit) \div US
                      /\ due' # 0 =>
                           counter' + due' <= c0 + (1 + ((TIMEOUT - 1) * US) \div machine'.unit)
  BY DEF WaitInv
<1>t. TimerTypeOK
  BY DEF SmpInv, TypeOK
<1>1. CASE wait_begins
  <2>1. PICK d \in 1 .. MAX_STEP : wait_start(TIMEOUT, d)
    BY <1>1 DEF wait_begins
  <2>2. machine' = machine /\ counter' \in Nat /\ counter' < machine.width
    BY <1>t, <2>1, CounterRead DEF wait_start
  <2>3. counter' \in 0 .. machine'.width - 1
    BY <1>t, <2>2, TimerNumbers
  <2>4. start' = (counter' * machine'.unit) \div US
    BY <1>t, <2>1, <2>2, TimeIsExact DEF wait_start
  <2>5. due' = 1 + ((TIMEOUT - 1) * US) \div machine'.unit
    BY <2>1, <2>2 DEF wait_start
  <2>6. due' \in Nat
    BY <1>1, WaitBeginKeepsInv DEF SmpInv, TypeOK, TimerTypeOK
  <2>7. counter' + due' <= counter' + due'
    <3>1. \A x, y \in Nat : x + y <= x + y
      OBVIOUS
    <3>2. counter' \in Nat
      BY <2>2
    <3>3. QED BY <2>6, <3>1, <3>2
  <2>8. QED BY <2>3, <2>4, <2>5, <2>7
<1>2. CASE read_clock
  <2>1. PICK d \in 1 .. MAX_STEP : read_main_counter(d) /\ due' = Pass(d)
    BY <1>2 DEF read_clock
  <2>2. /\ machine' = machine /\ counter' \in Nat /\ counter' <= counter + d
        /\ start' = start
    BY <1>t, <1>2, <2>1, CounterRead DEF read_clock
  <2>3. PICK c0 \in 0 .. machine.width - 1 :
          /\ start = (c0 * machine.unit) \div US
          /\ due # 0 =>
               counter + due <= c0 + (1 + ((TIMEOUT - 1) * US) \div machine.unit)
    BY <1>2, <2>2 DEF WaitInv, read_clock
  <2> DEFINE bound == c0 + (1 + ((TIMEOUT - 1) * US) \div machine.unit)
  <2>4. bound \in Nat
    BY <1>2, <1>t, <2>3, WaitBound DEF SmpInv, DelayInv, InAp, read_clock
  <2>5. due' # 0 => counter' + due' <= bound
    <3>1. d \in Nat /\ counter \in Nat /\ due \in Nat
      BY <1>t, TimerNumbers, Numbers
    <3>2. due # 0 => counter + due <= bound
      BY <2>3
    <3> HIDE DEF bound
    <3>3. due > d => counter' + (due - d) <= bound
      BY <2>2, <2>4, <3>1, <3>2, StillShort
    <3>4. QED BY <2>1, <3>1, <3>3 DEF Pass
  <2>6. QED BY <2>2, <2>3, <2>5
<1>3. CASE wait_for_ap
  BY <1>3 DEF WaitInv, wait_for_ap, timer_vars
<1>4. CASE UNCHANGED bsp_vars
  BY <1>4 DEF WaitInv, bsp_vars, timer_vars
<1>5. QED
  BY <1>1, <1>2, <1>3, <1>4 DEF Next, BspStep, ApStep, init_gdt_idt, load_ap_trampoline,
     patch_trampoline, allocate_ap_stack, send_init_ipi, loop_end, send_startup_ipi, delay,
     delay_panic, spin, AfterDelay, real_start, long_start, ap_startup, vars

\* An AP is reported as late only when the whole time-out has passed, for every
\* width and period of the counter, in a build with overflow checks.
THEOREM LateMeansTimeout == Spec => LateAfterTimeout
<1>1. Init => WaitInv
  BY DEF Init, WaitInv
<1>2. SmpInv /\ WaitInv /\ [Next]_vars =>
        [\A a \in APs :
           machine.overflow_checks /\ report[a] # "late" /\ report'[a] = "late" => due' = 0]_vars
  <2> SUFFICES ASSUME SmpInv, WaitInv, Next, NEW a \in APs, machine.overflow_checks,
                      report[a] # "late", report'[a] = "late", due' # 0
               PROVE  FALSE
    OBVIOUS
  <2>t. TimerTypeOK
    BY DEF SmpInv, TypeOK
  <2>1. read_clock
    BY DEF SmpInv, TypeOK, Next, BspStep, ApStep, init_gdt_idt, load_ap_trampoline,
       patch_trampoline, send_init_ipi, loop_end, send_startup_ipi, delay, delay_panic, spin,
       wait_begins, wait_for_ap, real_start, long_start, ap_startup, bsp_vars, loop_vars
  <2>2. bsp' = "next" /\ ~Overflows(counter')
    BY <2>1 DEF SmpInv, TypeOK, read_clock
  <2> DEFINE now == get_current_time_us(counter')
  <2>3. ~Underflows(now) /\ SinceStart(now) >= TIMEOUT
    BY <2>1, <2>2 DEF read_clock, ClockOutcome
  <2>4. PICK d \in 1 .. MAX_STEP : read_main_counter(d) /\ due' = Pass(d)
    BY <2>1 DEF read_clock
  <2>5. machine' = machine /\ counter' \in Nat /\ counter' <= counter + d
    BY <2>t, <2>4, CounterRead
  <2>6. PICK c0 \in 0 .. machine.width - 1 :
          /\ start = (c0 * machine.unit) \div US
          /\ due # 0 =>
               counter + due <= c0 + (1 + ((TIMEOUT - 1) * US) \div machine.unit)
    BY <2>1 DEF WaitInv, read_clock
  <2> DEFINE bound == c0 + (1 + ((TIMEOUT - 1) * US) \div machine.unit)
  <2>7. bound \in Nat /\ c0 \in Nat /\ machine.unit \in Nat /\ machine.unit > 0
    <3>1. machine.unit # 0
      BY <2>1 DEF SmpInv, DelayInv, InAp, read_clock
    <3>2. machine.unit \in Nat /\ machine.unit > 0
      BY <3>1, <2>t, TimerNumbers
    <3>3. bound \in Nat /\ c0 \in Nat
      BY <3>1, <2>t, WaitBound
    <3>4. QED BY <3>2, <3>3
  <2>8. due' \in Nat /\ counter' + due' <= bound
    <3>1. d \in Nat /\ counter \in Nat /\ due \in Nat
      BY <2>t, TimerNumbers, Numbers
    <3>2. due # 0 => counter + due <= bound
      BY <2>6
    <3> HIDE DEF bound
    <3>3. due > d => counter' + (due - d) <= bound
      BY <2>5, <2>7, <3>1, <3>2, StillShort
    <3>4. QED BY <2>4, <3>1, <3>3 DEF Pass
  <2>9. now = (counter' * machine.unit) \div US
    BY <2>t, <2>2, <2>5, TimeIsExact DEF Overflows
  <2>10. now < start + TIMEOUT
    <3> DEFINE u == machine.unit
    <3>1. c0 \in Nat /\ counter' \in Nat /\ u \in Nat /\ u > 0 /\ due' \in Nat
      BY <2>5, <2>7, <2>8
    <3>2. TIMEOUT \in Nat /\ TIMEOUT > 0
      BY SMPAssumption
    <3>3. counter' + due' <= c0 + (1 + ((TIMEOUT - 1) * US) \div u)
      BY <2>8
    <3>4. now = (counter' * u) \div US /\ start = (c0 * u) \div US
      BY <2>6, <2>9
    <3> HIDE DEF u, now
    <3>5. (counter' * u) \div US < (c0 * u) \div US + TIMEOUT
      BY <3>1, <3>2, <3>3, NotLate
    <3>6. QED BY <3>4, <3>5
  <2>11. now \in Nat /\ start \in Nat /\ now >= start
    <3>1. counter' * machine.unit \in Nat
      BY <2>5, <2>7
    <3>2. now \in Nat
      BY <2>9, <3>1, Numbers, Quotient
    <3> HIDE DEF now
    <3>3. start \in Nat
      BY <2>t, TimerNumbers
    <3>4. QED BY <2>3, <3>2, <3>3 DEF Underflows
  <2>12. (now - start) + WORD = now + WORD - start /\ now - start \in Nat
    <3> HIDE DEF now
    <3>1. QED BY <2>11, Numbers
  <2>13. SinceStart(now) <= now - start
    <3> HIDE DEF now
    <3>1. ((now - start) + WORD) % WORD <= now - start
      BY <2>12, Numbers, RemainderShrinks
    <3>2. QED BY <2>12, <3>1 DEF SinceStart
  <2>14. QED
    <3> DEFINE since == SinceStart(now)
    <3>1. since \in Nat
      BY <2>12, Numbers, Remainder DEF SinceStart
    <3>2. since >= TIMEOUT /\ since <= now - start /\ TIMEOUT \in Nat
      BY <2>3, <2>13, SMPAssumption
    <3> HIDE DEF now, since
    <3>3. QED BY <2>10, <2>11, <3>1, <3>2
<1>3. QED BY <1>1, <1>2, WaitInvKept, SmpInvariant, PTL DEF Spec, LateAfterTimeout
=============================================================================
