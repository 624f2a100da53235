-------------------------------- MODULE Timer --------------------------------
(***************************************************************************)
(* The HPET (kernel/src/init/hpet.rs) and the busy waits on it             *)
(* (kernel/src/timer.rs): delay_ms and delay_us, which differ in the unit  *)
(* of their argument only, and get_current_time_us.  SMP composes them     *)
(* with init_smp, their only caller.                                       *)
(*                                                                         *)
(* The counter is external: init_hpet enables it and does not reset it, so *)
(* it starts anywhere in STARTS.  Nothing else reads it, so time passes in *)
(* the reads: a read finds it 1 to MAX_STEP ticks after the read before    *)
(* (a read of the register takes longer than a tick).  It may be narrower  *)
(* than the u64 it is read into.                                           *)
(***************************************************************************)
EXTENDS Naturals

CONSTANTS
  WORD,        \* 2^64: arithmetic on u64 is modulo WORD, or panics
  WIDTHS,      \* the moduli a main counter may have: 2^32 and 2^64
  UNITS,       \* the tick periods the capabilities may tell, in femtoseconds
  STARTS,      \* values of the counter when init_smp starts
  US,          \* 10^9, the femtoseconds in a microsecond
  MAX_STEP     \* bound: ticks between two reads

ASSUME TimerAssumption ==
  /\ WORD \in Nat \ {0}
  /\ WIDTHS \subseteq 1 .. WORD
  /\ UNITS \subseteq Nat
  /\ STARTS \subseteq Nat
  /\ US \in Nat \ {0}
  /\ MAX_STEP \in Nat \ {0}

VARIABLES
  machine,     \* width and period of the counter; whether overflow panics
  counter,     \* the main counter
  start,       \* local of a delay (in ticks) and of wait_for_ap (in us)
  target,      \* local of a delay
  due          \* history: the ticks of the wait that have not passed yet

timer_vars == <<machine, counter, start, target, due>>

\* The types: a counter stays below its width, and a local is a u64.
TimerTypeOK ==
  /\ machine \in [width : WIDTHS, unit : UNITS, overflow_checks : BOOLEAN]
  /\ counter \in 0 .. machine.width - 1
  /\ start \in 0 .. WORD - 1 /\ target \in 0 .. WORD - 1 /\ due \in Nat

TimerInit ==
  /\ machine \in [width : WIDTHS, unit : UNITS, overflow_checks : BOOLEAN]
  /\ counter \in {s % machine.width : s \in STARTS}
  /\ start = 0 /\ target = 0 /\ due = 0

-----------------------------------------------------------------------------

\* get_clock_tick_unit_fallback: the period, which the callers refuse if 0.
get_clock_tick_unit_fallback == machine.unit

\* The counter as read d ticks after the read before.
read_main_counter(d) ==
  /\ counter' = (counter + d) % machine.width
  /\ UNCHANGED machine

Pass(d) == IF due > d THEN due - d ELSE 0

ticks_to_wait(us) == (us * US) \div machine.unit

\* Mutation: the target is the number of ticks, not that many from the start.
delay_start_m(us, d) ==
  /\ machine.unit # 0
  /\ read_main_counter(d)
  /\ start' = counter'
  /\ target' = ticks_to_wait(us)
  /\ due' = ticks_to_wait(us)

\* A delay up to its loop: start.wrapping_add(ticks_to_wait).
delay_start(us, d) ==
  /\ machine.unit # 0
  /\ read_main_counter(d)
  /\ start' = counter'
  /\ target' = (counter' + ticks_to_wait(us)) % WORD
  /\ due' = ticks_to_wait(us)

\* One turn of the loop of a delay: it ends with counter' >= target.
delay_read(d) ==
  /\ read_main_counter(d)
  /\ due' = Pass(d)
  /\ UNCHANGED <<start, target>>

\* get_current_time_us: the product may overflow, which a build with overflow
\* checks refuses.
Overflows(ticks) == machine.overflow_checks /\ ticks * machine.unit >= WORD

get_current_time_us(ticks) == ((ticks * machine.unit) % WORD) \div US

\* wait_for_ap up to its loop.  Its times are whole microseconds, so it may
\* give up less than one microsecond early.
wait_start(us, d) ==
  /\ read_main_counter(d)
  /\ ~Overflows(counter')
  /\ start' = get_current_time_us(counter')
  /\ due' = 1 + ((us - 1) * US) \div machine.unit
  /\ UNCHANGED target

\* now - start, which panics or wraps when the time has gone back.
SinceStart(now) == (now + WORD - start) % WORD

Underflows(now) == machine.overflow_checks /\ now < start
=============================================================================
