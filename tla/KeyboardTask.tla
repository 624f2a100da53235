---------------------------- MODULE KeyboardTask ----------------------------
(***************************************************************************)
(* The executor with the tasks that kernel_main spawns and the interrupts  *)
(* that wake them: print_keypresses over ScancodeStream                    *)
(* (kernel/src/task/keyboard.rs), the task that is done when it is first   *)
(* polled (example_task), the keyboard handler, which calls add_scancode,  *)
(* and the other handlers (the timer's), which only end a hlt.             *)
(*                                                                         *)
(* A scancode is not told apart from another: the queue is its length.     *)
(* WAKER is a futures_util AtomicWaker, modelled at its atomic operations: *)
(* waker_state is the set of its flags, waker the task whose waker it      *)
(* holds.  What is printed is left out (module Console models the lock *)
(* that printing takes).                                                   *)
(***************************************************************************)
EXTENDS Executor

CONSTANTS
  Keyboard,         \* the task print_keypresses
  SCANCODE_CAP,     \* capacity of the scancode queue: 100
  MAX_KEYS          \* bound: keyboard interrupts in a behaviour

ASSUME KeyboardAssumption ==
  /\ Keyboard \in Tasks
  /\ NoTask \notin Tasks
  /\ SCANCODE_CAP \in Nat \ {0}
  /\ MAX_KEYS \in Nat

VARIABLES
  initialized,   \* "yes" once ScancodeStream::new has made SCANCODE_QUEUE
  scancodes,     \* number of scancodes in SCANCODE_QUEUE
  waker_state,   \* flags of WAKER: subset of {"REGISTERING", "WAKING"}
  waker,         \* the task whose waker WAKER holds, or NoTask
  resume,        \* where the next poll of the keyboard task goes on
  keys,          \* keyboard interrupts so far
  consumed       \* scancodes that print_keypresses has taken

kb_vars == <<initialized, scancodes, waker_state, waker, resume, keys, consumed>>

vars == <<exec_vars, kb_vars>>

\* A step of the foreground in the middle of a poll of the keyboard task.
Goto(from, to) ==
  /\ pc = from
  /\ pc' = to
  /\ UNCHANGED <<to_spawn, tasks, task_queue, waker_cache, current, interrupts>>

-----------------------------------------------------------------------------
\* A task other than the keyboard's is Ready at once.
PollOther ==
  /\ pc = "poll"
  /\ current # Keyboard
  /\ PollReady
  /\ UNCHANGED kb_vars

\* print_keypresses starts, or goes on where it last returned Pending.
PollKeyboard ==
  /\ current = Keyboard
  /\ Goto("poll", resume)
  /\ UNCHANGED kb_vars

\* ScancodeStream::new: try_init_once, once only.
ScancodeStream_new ==
  /\ IF initialized = "no" THEN Goto("new", "next") ELSE Goto("new", "panicked")
  /\ initialized' = "yes"
  /\ resume' = "next"
  /\ UNCHANGED <<scancodes, waker_state, waker, keys, consumed>>

\* poll_next, fast path; print_keypresses takes the scancode and loops.
FastPop ==
  /\ scancodes > 0
  /\ Goto("next", "next")
  /\ scancodes' = scancodes - 1
  /\ consumed' = consumed + 1
  /\ UNCHANGED <<initialized, waker_state, waker, resume, keys>>

FastPopNone ==
  /\ scancodes = 0
  /\ Goto("next", "register")
  /\ UNCHANGED kb_vars

\* WAKER.register: the compare-and-swap from WAITING to REGISTERING.  If a
\* wake is in progress instead, the waker is woken at once.
Register ==
  /\ pc = "register"
  /\ IF waker_state = {}
       THEN Goto("register", "store") /\ waker_state' = {"REGISTERING"}
       ELSE /\ wake_task(current, "pop2")
            /\ UNCHANGED <<to_spawn, tasks, waker_cache, current, interrupts>>
            /\ UNCHANGED waker_state
  /\ UNCHANGED <<initialized, scancodes, waker, resume, keys, consumed>>

RegisterStore ==
  /\ Goto("store", "registered")
  /\ waker' = current
  /\ UNCHANGED <<initialized, scancodes, waker_state, resume, keys, consumed>>

\* Mutation: every registration wakes the task.
Registered_m ==
  /\ Goto("registered", "wake")
  /\ waker' = NoTask
  /\ waker_state' = {}
  /\ UNCHANGED <<initialized, scancodes, resume, keys, consumed>>

\* The compare-and-swap back to WAITING.  It fails if an interrupt has called
\* wake meanwhile: then the stored waker is taken out again and woken.
Registered ==
  /\ IF waker_state = {"REGISTERING"}
       THEN Goto("registered", "pop2") /\ UNCHANGED waker
       ELSE Goto("registered", "wake") /\ waker' = NoTask
  /\ waker_state' = {}
  /\ UNCHANGED <<initialized, scancodes, resume, keys, consumed>>

RegisterWake ==
  /\ pc = "wake"
  /\ wake_task(current, "pop2")
  /\ UNCHANGED <<to_spawn, tasks, waker_cache, current, interrupts>>
  /\ UNCHANGED kb_vars

\* Mutation: Pending is returned without looking at the queue again.
SecondPop_m ==
  /\ pc = "pop2"
  /\ PollPending
  /\ UNCHANGED kb_vars

\* poll_next, second pop: Ready after WAKER.take(), or Pending.
SecondPop ==
  /\ pc = "pop2"
  /\ IF scancodes > 0
       THEN /\ Goto("pop2", "take")
            /\ scancodes' = scancodes - 1
            /\ consumed' = consumed + 1
       ELSE PollPending /\ UNCHANGED <<scancodes, consumed>>
  /\ UNCHANGED <<initialized, waker_state, waker, resume, keys>>

\* WAKER.take() in the foreground: fetch_or(WAKING), take the waker out,
\* fetch_and(!WAKING).  It does nothing unless the state was WAITING.
TakeStart ==
  /\ IF waker_state = {} THEN Goto("take", "take_waker") ELSE Goto("take", "next")
  /\ waker_state' = waker_state \cup {"WAKING"}
  /\ UNCHANGED <<initialized, scancodes, waker, resume, keys, consumed>>

TakeWaker ==
  /\ Goto("take_waker", "take_end")
  /\ waker' = NoTask
  /\ UNCHANGED <<initialized, scancodes, waker_state, resume, keys, consumed>>

TakeEnd ==
  /\ Goto("take_end", "next")
  /\ waker_state' = waker_state \ {"WAKING"}
  /\ UNCHANGED <<initialized, scancodes, waker, resume, keys, consumed>>

KeyboardStep ==
  \/ PollKeyboard \/ ScancodeStream_new
  \/ FastPop \/ FastPopNone
  \/ Register \/ RegisterStore \/ Registered \/ RegisterWake
  \/ SecondPop \/ TakeStart \/ TakeWaker \/ TakeEnd

-----------------------------------------------------------------------------
(* Interrupts.  Each handler runs to its end between two foreground steps. *)

\* Mutation: the handler does not wake the task.
WakeInHandler_m ==
  pc' = Resume /\ UNCHANGED <<task_queue, waker, waker_state, interrupts>>

\* WAKER.wake() in a handler: take and wake, or leave the WAKING flag for the
\* registration in progress to find.  A panic in a handler leaves the
\* processor in hlt_loop with interrupts off.
WakeInHandler ==
  IF waker_state = {}
    THEN IF waker = NoTask
           THEN pc' = Resume /\ UNCHANGED <<task_queue, waker, waker_state, interrupts>>
           ELSE /\ wake_task(waker, Resume)
                /\ waker' = NoTask
                /\ interrupts' = IF Len(task_queue) < TASK_QUEUE_CAP THEN "on" ELSE "off"
                /\ UNCHANGED waker_state
    ELSE /\ waker_state' = waker_state \cup {"WAKING"}
         /\ pc' = Resume
         /\ UNCHANGED <<task_queue, waker, interrupts>>

\* add_scancode: before the queue is made, and when it is full, the scancode is
\* dropped.
DropsScancode == initialized = "no" \/ scancodes = SCANCODE_CAP

\* apic_keyboard_interrupt_handler, with add_scancode.
KeyboardInterrupt ==
  /\ interrupts = "on"
  /\ keys < MAX_KEYS
  /\ keys' = keys + 1
  /\ IF DropsScancode
       THEN /\ pc' = Resume
            /\ UNCHANGED <<task_queue, scancodes, waker_state, waker, interrupts>>
       ELSE scancodes' = scancodes + 1 /\ WakeInHandler
  /\ UNCHANGED <<to_spawn, tasks, waker_cache, current,
                 initialized, resume, consumed>>

\* Another interrupt: it ends a hlt.
OtherInterrupt ==
  /\ interrupts = "on"
  /\ pc' = Resume
  /\ UNCHANGED <<to_spawn, tasks, task_queue, waker_cache, current, interrupts>>
  /\ UNCHANGED kb_vars

Init ==
  /\ ExecInit
  /\ initialized = "no" /\ scancodes = 0
  /\ waker_state = {} /\ waker = NoTask
  /\ resume = "new"
  /\ keys = 0 /\ consumed = 0

Foreground ==
  \/ ExecStep /\ UNCHANGED kb_vars
  \/ PollOther
  \/ KeyboardStep

Next ==
  \/ Foreground
  \/ KeyboardInterrupt
  \/ OtherInterrupt

\* The processor runs: the foreground goes on unless it is halted or has
\* panicked.  No interrupt has to come.
Spec == Init /\ [][Next]_vars /\ WF_vars(Foreground)

-----------------------------------------------------------------------------
(***************************************************************************)
(* Properties.                                                             *)
(***************************************************************************)
InPoll == {"next", "register", "store", "registered", "wake", "pop2",
           "take", "take_waker", "take_end"}

\* The type of every variable; a queue is never longer than its capacity.
TypeOK ==
  /\ pc \in {"spawn", "pop", "poll", "new", "disable", "check",
             "enable_and_hlt", "enable", "halted", "panicked"} \cup InPoll
  /\ to_spawn \in Seq(Tasks)
  /\ tasks \subseteq Tasks
  /\ task_queue \in Seq(Tasks) /\ Len(task_queue) <= TASK_QUEUE_CAP
  /\ waker_cache \subseteq Tasks
  /\ current \in Tasks \cup {NoTask}
  /\ interrupts \in {"on", "off"}
  /\ initialized \in {"yes", "no"}
  /\ scancodes \in 0 .. SCANCODE_CAP
  /\ waker_state \subseteq {"REGISTERING", "WAKING"}
  /\ waker \in Tasks \cup {NoTask}
  /\ resume \in {"new", "next"}
  /\ keys \in 0 .. MAX_KEYS
  /\ consumed \in 0 .. MAX_KEYS

Has(q, t) == \E k \in DOMAIN q : q[k] = t

Queued(t) == Has(task_queue, t)

\* The keyboard task is not being polled, and has started.
KeyboardWaits == initialized = "yes" /\ pc \notin InPoll \cup {"panicked"}
                   /\ ~(pc = "poll" /\ current = Keyboard)

\* No wakeup is lost: when the keyboard task is not being polled and there are
\* scancodes, it is in the task queue (add_scancode, poll_next).
NoLostWakeup == KeyboardWaits /\ scancodes > 0 => Queued(Keyboard)

\* The processor does not sleep while there is work: "This prevents a race
\* condition" (sleep_if_idle).  Once it sleeps, an interrupt that brings work
\* ends the sleep.
NoSleepOnWork == pc = "halted" => task_queue = <<>> /\ scancodes = 0

\* The handler "must not allocate", nor free: the waker it consumes is not the
\* last one of its task, because the executor still caches another.
HandlerFreesNothing == waker # NoTask => waker \in waker_cache

\* The task queue has room for every wakeup that happens: neither spawn's nor
\* wake_task's expect ("task_queue full") panics.
QueueHasRoom == pc # "panicked"

\* Every scancode that add_scancode has queued is taken out in the end.
ScancodesConsumed ==
  \A n \in 1 .. MAX_KEYS : consumed + scancodes >= n ~> consumed >= n

\* A spawned task that waits for nothing (example_task) is done in the end.
OthersFinish ==
  \A t \in Tasks \ {Keyboard} : t \in tasks ~> t \notin tasks

-----------------------------------------------------------------------------
(***************************************************************************)
(* The inductive invariant.                                                *)
(***************************************************************************)

\* The flags of WAKER follow the foreground's place in register and take.
WakerFlags ==
  /\ pc \in {"store", "registered"} => "REGISTERING" \in waker_state
  /\ pc \in {"take_waker", "take_end"} => waker_state = {"WAKING"}
  /\ pc \notin {"store", "registered", "take_waker", "take_end"} => waker_state = {}

\* Polling is of a live task with a cached waker; only the keyboard's has steps.
Polling ==
  /\ pc \in InPoll \cup {"poll", "new"} => current \in tasks \cap waker_cache
  /\ pc \in InPoll \cup {"new"} => current = Keyboard
  /\ pc \in InPoll => initialized = "yes"
  /\ pc # "panicked" => (resume = "next" <=> initialized = "yes")
  /\ pc = "new" => initialized = "no"
  /\ initialized = "yes" => Keyboard \in tasks \cap waker_cache
  /\ initialized = "no" => scancodes = 0 /\ waker = NoTask

\* WAKER holds the keyboard task's waker whenever the task is not queued and
\* the next interrupt has to queue it.
Armed ==
  /\ waker \in {NoTask, Keyboard}
  /\ KeyboardWaits \/ pc = "pop2" => waker = Keyboard \/ Queued(Keyboard)
  /\ KeyboardWaits /\ scancodes > 0 => Queued(Keyboard)
  /\ pc = "registered" => waker = Keyboard

\* Interrupts are off just around the check, and the queue is as it found it.
Sleeping ==
  /\ pc \in {"check", "enable", "enable_and_hlt"} => interrupts = "off"
  /\ pc \in {"enable_and_hlt", "halted"} => task_queue = <<>>
  /\ pc = "enable" => task_queue # <<>>

KeyboardInv ==
  /\ TypeOK /\ consumed + scancodes <= keys
  /\ WakerFlags /\ Polling /\ Armed /\ Sleeping
  /\ waker_cache \subseteq tasks

\* Each interrupt is good for one wakeup at most, which is in the queue or due.
Due == IF \/ pc = "wake"
          \/ pc \in {"store", "registered"} /\ "WAKING" \in waker_state
         THEN 1 ELSE 0

RoomInv ==
  /\ pc # "panicked"
  /\ Len(task_queue) + Len(to_spawn) + Due <= Len(SPAWN_ORDER) + keys
  /\ \A k \in DOMAIN to_spawn : to_spawn[k] \notin tasks
  /\ \A j, k \in DOMAIN to_spawn : to_spawn[j] = to_spawn[k] => j = k

-----------------------------------------------------------------------------
(***************************************************************************)
(* How far the processor is from hlt.                                      *)
(***************************************************************************)

\* The steps at most from each place to hlt, when nothing is queued.
StepsFrom ==
  [take |-> 18, take_waker |-> 17, take_end |-> 16, poll |-> 16, new |-> 15,
   next |-> 14, register |-> 13, store |-> 12, registered |-> 11, wake |-> 10,
   pop2 |-> 9, spawn |-> 8, pop |-> 5, disable |-> 4, check |-> 3, enable |-> 2,
   enable_and_hlt |-> 2, halted |-> 0, panicked |-> 0]

\* More steps than it takes to deal with a queued task or a scancode.
ROUND == 20

\* The things that the executor and the keyboard task have still to deal with:
\* a task to spawn will be queued as well.
Pending == Len(task_queue) + 2 * Len(to_spawn) + scancodes + Due

WorkLeft ==
  ROUND * Pending + IF pc = "pop" /\ task_queue # <<>> THEN 1 ELSE StepsFrom[pc]

\* The executor does not spin.  Every foreground step of run, of a poll and of
\* sleep_if_idle leaves less work than before, also when interrupts come
\* between any two of them, and an interrupt adds the work of one scancode and
\* one wakeup at most.  So the steps between two interrupts are bounded by what
\* was queued, and the processor then sleeps.
ForegroundSettles ==
  [][/\ Foreground => WorkLeft' \in 0 .. WorkLeft - 1
     /\ KeyboardInterrupt \/ OtherInterrupt => WorkLeft' <= WorkLeft + 2 * ROUND + StepsFrom.pop
    ]_vars
=============================================================================
